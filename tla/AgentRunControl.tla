---------------------------- MODULE AgentRunControl ----------------------------
(***************************************************************************)
(* The facts of one agent run and the events that change them.              *)
(*                                                                          *)
(* A worker computes the next facts from its own copy and sends both; the   *)
(* backend checks that its own copy is the one the worker started from and  *)
(* stores the next.  Reducer (client) and validator (server) agree on the   *)
(* events, so each event is one operator here: its guard and its result.    *)
(*                                                                          *)
(* Of an operation and of a budget reservation the generation is kept: the  *)
(* worker derives their ids from it.  Digests, clocks, attempts (one per    *)
(* generation) and the event chain are abstracted: no event leads back to   *)
(* earlier facts, so facts are equal when their cursors are.                *)
(***************************************************************************)
EXTENDS Integers, FiniteSets

CONSTANT MaxInvocations \* budget.maxModelInvocations

ASSUME MaxInvocationsAssumption == MaxInvocations \in Nat \ {0}

NoRun == [phase |-> "none"]

NoOperation == [gen |-> 0, state |-> "none"]

Created ==
  [phase    |-> "queued",
   gen      |-> 0,
   active   |-> FALSE,        \* callbackAuthority
   cleanup  |-> "not-required",
   op       |-> NoOperation,  \* pendingOperation
   reserved |-> {},           \* generations whose reservation is open
   charged  |-> {},           \* generations whose reservation is settled
   outcome  |-> "none"]

Ended(r) == r.phase = "terminal"

-----------------------------------------------------------------------------
(* Events: a guard and the facts after it *)

CanStart(r) == r.phase = "queued"

Started(r) == [r EXCEPT !.phase = "preparing", !.gen = @ + 1, !.active = TRUE]

\* Mutated form: only the open reservations count.
CanReserveBesidesOpen(r) == r.gen \notin r.reserved \cup r.charged
                            /\ Cardinality(r.reserved) < MaxInvocations

\* A reservation is one model invocation; its id is taken once.
CanReserve(r) == /\ r.gen \notin r.reserved \cup r.charged
                 /\ Cardinality(r.reserved \cup r.charged) < MaxInvocations

Reserved(r) == [r EXCEPT !.reserved = @ \cup {r.gen}]

\* budget.settled and budget.reconciled: at the actual or at the highest cost.
Charged(r, g) == [r EXCEPT !.reserved = @ \ {g}, !.charged = @ \cup {g}]

Running(r) == [r EXCEPT !.phase = "running"]

OperationStarted(r) == [r EXCEPT !.op = [gen |-> r.gen, state |-> "started"]]

\* model.completed ("settled") and model.failed ("reconciliation-required").
OperationSettled(r, state) == [r EXCEPT !.op.state = state]

\* Callbacks lose their authority with the generation.
CancelRequested(r) ==
  [r EXCEPT !.phase = "cancelling", !.gen = @ + 1, !.active = FALSE, !.cleanup = "pending",
            !.op.state = IF @ = "started" THEN "cancelled" ELSE @]

CleanupAcknowledged(r) == [r EXCEPT !.cleanup = "clean"]

Recovered(r) ==
  [r EXCEPT !.phase = "preparing", !.gen = @ + 1, !.active = TRUE,
            !.cleanup = "not-required", !.op = NoOperation]

CanFinish(r, outcome) ==
  /\ ~Ended(r)
  /\ outcome = "cancelled" => r.cleanup = "clean"
  /\ outcome = "succeeded" => r.active /\ r.op.state # "started" /\ r.reserved = {}

Finished(r, outcome) ==
  [r EXCEPT !.phase = "terminal", !.outcome = outcome, !.active = FALSE, !.op = NoOperation]

-----------------------------------------------------------------------------
(* The rows of the operations, by generation: their dispatch state *)

Dispatchable == {"ready", "claimed", "dispatched"}

RowState(rows, op) ==
  CASE op.state = "started" -> IF op.gen \in DOMAIN rows THEN rows[op.gen] ELSE "ready"
    [] op.state \in {"settled", "cancelled"} -> op.state
    [] OTHER -> "reconciliation-required"

SyncedOperation(rows, op) ==
  IF op.state = "none" THEN rows
  ELSE [g \in DOMAIN rows \cup {op.gen} |-> IF g = op.gen THEN RowState(rows, op) ELSE rows[g]]

\* Mutated form: off by one generation.
SupersededTwice(g, r) == g + 1 < r.gen \/ Ended(r)

Superseded(g, r) == g < r.gen \/ Ended(r)

Fenced(rows, r) ==
  [g \in DOMAIN rows |->
    IF Superseded(g, r) /\ rows[g] \in Dispatchable THEN "reconciliation-required" ELSE rows[g]]

\* What storing facts r does to the rows.
Projected(rows, r) == Fenced(SyncedOperation(rows, r.op), r)
=============================================================================
