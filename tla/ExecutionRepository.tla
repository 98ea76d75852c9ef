------------------------- MODULE ExecutionRepository -------------------------
(***************************************************************************)
(* The PostgreSQL repository of remote executions: what its transactions    *)
(* make of one row.  An execution is its status, its event log (the cursor  *)
(* of an event is its place in the log), the number of times it was         *)
(* claimed, and the lease of the worker that runs it.  Every claim makes a  *)
(* fresh lease token; the number of the claim stands for it.                *)
(***************************************************************************)
EXTENDS ExecutionStatus, Integers, Sequences, Functions

CONSTANTS
  Nobody,        \* the owner of an execution without a lease
  MaxAttempts,   \* maximumWorkerAttempts
  MaxEvents      \* maximumEvents

ASSUME MaxAttemptsAssumption == MaxAttempts \in Nat \ {0}
ASSUME MaxEventsAssumption == MaxEvents \in Nat

StateEntry(status) == [kind |-> "state", status |-> status, attempt |-> 0]

\* A state event is appended; the end of the execution gives up the lease.
Moved(x, status) ==
  [x EXCEPT !.status = status,
            !.log = Append(@, StateEntry(status)),
            !.owner = IF status \in Terminal THEN Nobody ELSE @,
            !.expired = IF status \in Terminal THEN FALSE ELSE @]

Created(request, key) ==
  [request |-> request, key |-> key, status |-> "queued",
   log |-> <<StateEntry("queued")>>, attempt |-> 0,
   owner |-> Nobody, expired |-> FALSE, cancels |-> {}]

\* Mutated form: a cancellation that was answered before counts again.
CancelledAgain(x, cancellation) ==
  Moved([x EXCEPT !.cancels = @ \cup {cancellation}],
        IF x.status = "queued" THEN "cancelled" ELSE "cancelling")

\* Every cancellation id is kept; only the first one of a live job does anything.
Cancelled(x, cancellation) ==
  LET asked == [x EXCEPT !.cancels = @ \cup {cancellation}]
  IN IF cancellation \in x.cancels \/ x.status \in Terminal \cup {"cancelling"}
     THEN asked
     ELSE Moved(asked, IF x.status = "queued" THEN "cancelled" ELSE "cancelling")

-----------------------------------------------------------------------------
(* Claims *)

\* Mutated form: only executions that were about to do something are taken over.
ReclaimableActive(x) == x.status \in {"starting", "running"} /\ x.expired

Reclaimable(x) == x.status \in {"starting", "running", "cancelling"} /\ x.expired

\* Nobody takes it over any more: the next claim fails it.
Exhausted(x) == Reclaimable(x) /\ x.attempt >= MaxAttempts

Claimable(x) == x.status = "queued" \/ (Reclaimable(x) /\ ~Exhausted(x))

\* Mutated form: a takeover is a first attempt again.
ClaimedAfresh(x, worker) ==
  LET started == IF x.status = "queued" THEN Moved(x, "starting") ELSE x
  IN [started EXCEPT !.owner = worker, !.attempt = 1, !.expired = FALSE]

Claimed(x, worker) ==
  LET started == IF x.status = "queued" THEN Moved(x, "starting") ELSE x
  IN [started EXCEPT !.owner = worker, !.attempt = @ + 1, !.expired = FALSE]

-----------------------------------------------------------------------------
(* Calls of a worker under its lease: a status, or an event of its attempt *)

\* Mutated form: the token is not compared.
HoldsAnyLease(x, call) == x.owner = call.worker /\ ~x.expired

Holds(x, call) == x.owner = call.worker /\ x.attempt = call.attempt /\ ~x.expired

EventEntry(call) == [kind |-> call.do, status |-> "none", attempt |-> call.attempt]

\* The event id has been stored before, with the same payload.
Existing(x, call) == EventEntry(call) \in Range(x.log)

(* The artifact id is taken by another descriptor.  Descriptors carry their  *)
(* expiry, so those of two attempts differ even when the contents do not.    *)
Conflicting(x, call) ==
  /\ call.do = "artifact"
  /\ ~Existing(x, call)
  /\ \E n \in DOMAIN x.log : x.log[n].kind = "artifact"

\* The budget counts every event of the log, but state events pass it.
Spent(x, call) ==
  /\ call.do \notin Statuses
  /\ ~Existing(x, call)
  /\ ~Conflicting(x, call)
  /\ Len(x.log) >= MaxEvents

Accepts(x, call) ==
  /\ Holds(x, call)
  /\ call.do \in Statuses => CanTransition(x.status, call.do)
  /\ ~Conflicting(x, call)
  /\ ~Spent(x, call)

After(x, call) ==
  IF call.do \in Statuses THEN Moved(x, call.do)
  ELSE IF Existing(x, call) THEN x
  ELSE [x EXCEPT !.log = Append(@, EventEntry(call))]
=============================================================================
