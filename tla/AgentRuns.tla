------------------------------ MODULE AgentRuns ------------------------------
(***************************************************************************)
(* Workers that carry out one agent task, and the backend that keeps its    *)
(* run.                                                                     *)
(*                                                                          *)
(* A worker polls for a run nobody has leased, takes the lease, asks the    *)
(* model once and stores the answer, one call of the backend after the      *)
(* other.  It may stop between any two of them, and lose the answer of any. *)
(* The next worker cannot know whether the model was asked, so it charges   *)
(* the open reservation, starts a new generation and ends the run.  A       *)
(* cancel command of the user, bound to the facts the user saw, is carried  *)
(* out without a lease.                                                     *)
(*                                                                          *)
(* Modelled for the modes whose result is a text, explain and plan.         *)
(***************************************************************************)
EXTENDS AgentRunControl, Sequences, SequencesExt

CONSTANTS
  Workers,
  RefusalIsConflict, \* is a refused renewal answered with 404 or 409
  MaxFaults          \* bound: crashes, lost answers and leases lost while in use

ASSUME RefusalAssumption == RefusalIsConflict \in BOOLEAN

VARIABLES
  run,       \* the facts of the run
  rows,      \* its operations' dispatch state, by generation
  lease,     \* of the run; one that has expired counts as none
  commands,  \* cancel commands: the facts each is bound to
  consumed,  \* the command behind the cancellation in progress, as a set
  outputs,   \* generations whose answer is published
  local,     \* what each worker is doing
  journal,   \* journal[w]: generation of the answer in w's state directory, 0 for none
  invoked,   \* history: the generations in which the model was asked
  faults

stored == <<run, rows, lease>>
vars == <<run, rows, lease, commands, consumed, outputs, local, journal, invoked, faults>>

NoLease == [id |-> 0]

Idle == [at |-> "idle", view |-> NoRun, lease |-> 0, good |-> FALSE]

View(w) == local[w].view
At(w, step) == local[w].at = step

\* The steps made under a lease: the heartbeat runs.
LeasedSteps == {"resume", "reserve", "enter", "operation", "dispatch", "mark", "invoke", "settle",
                "close", "journal", "publish", "complete", "recover", "end"}

Go(w, step, view) ==
  local' = [local EXCEPT ![w] = IF step = "idle" THEN Idle ELSE [@ EXCEPT !.at = step, !.view = view]]

Stop(w) == Go(w, "idle", NoRun)

Fault == faults < MaxFaults /\ faults' = faults + 1
Fine == UNCHANGED faults

\* The worker gets the answer of its call, or it never arrives.
Answered(w, step, view) == (Fine /\ Go(w, step, view)) \/ (Fault /\ Stop(w))

Refused(w) == Stop(w) /\ UNCHANGED faults

-----------------------------------------------------------------------------
(* The backend *)

PendingCancel == run \in commands

\* The run may be worked on: of the phases modelled these two.
Callable == run.phase \in {"preparing", "running"} /\ run.active

LeaseOf(w, id) == [holder |-> w, id |-> id, gen |-> run.gen]

\* Mutated form: a cancel command does not stop the worker.
LeaseIsHeld(w, id) ==
  /\ Callable
  /\ run.gen = View(w).gen
  /\ lease = LeaseOf(w, id)

\* Worker w may change the run, which it knows by its View(w), under lease id.
Authorized(w, id) ==
  /\ Callable
  /\ run.gen = View(w).gen
  /\ lease = LeaseOf(w, id)
  /\ ~PendingCancel

\* The lease follows the generation of the run and ends with it.
Store(next) ==
  /\ run' = next
  /\ rows' = Projected(rows, next)
  /\ lease' = IF Ended(next) \/ lease = NoLease THEN NoLease ELSE [lease EXCEPT !.gen = next.gen]

\* A guarded transition from the worker's copy to next; ok is the event's guard.
Transition(w, ok, next, step) ==
  LET stores == ok /\ Authorized(w, local[w].lease) /\ run = View(w) IN
  /\ \/ stores /\ Store(next) /\ Answered(w, step, next)
     \/ ~stores /\ Refused(w) /\ UNCHANGED stored
  /\ UNCHANGED <<commands, consumed, outputs, journal, invoked>>

\* The user cancels the run as it is displayed now.
StoreCommand ==
  /\ run.phase \notin {"none", "cancelling", "terminal"}
  /\ ~PendingCancel
  /\ commands' = commands \cup {run}
  /\ UNCHANGED <<stored, consumed, outputs, local, journal, invoked, faults>>

\* The holder of the lease renews it while it works, in time or not.
LeaseInUse ==
  \E w \in Workers : local[w].at \in LeasedSteps /\ lease = LeaseOf(w, local[w].lease)

ExpireLease ==
  /\ lease # NoLease
  /\ IF LeaseInUse THEN Fault ELSE Fine
  /\ lease' = NoLease
  /\ UNCHANGED <<run, rows, commands, consumed, outputs, local, journal, invoked>>

-----------------------------------------------------------------------------
(* A worker finds the run *)

Listed == run.phase # "terminal" /\ lease = NoLease

Poll(w) ==
  /\ At(w, "idle")
  /\ Listed
  /\ Go(w, IF run = NoRun THEN "create" ELSE "product", run)
  /\ UNCHANGED <<stored, commands, consumed, outputs, journal, invoked, faults>>

\* The same task makes the same run id; another worker's creation conflicts.
Create(w) ==
  /\ At(w, "create")
  /\ \/ run = NoRun /\ Store(Created) /\ Answered(w, "product", Created)
     \/ run # NoRun /\ Refused(w) /\ UNCHANGED stored
  /\ UNCHANGED <<commands, consumed, outputs, journal, invoked>>

\* The command a worker with this view has to carry out.
Concerns(command, view) ==
  IF view.phase = "cancelling" THEN command.gen + 1 = view.gen ELSE command = view

ReadProduct(w) ==
  /\ At(w, "product")
  /\ Go(w, IF \E c \in commands : Concerns(c, View(w)) THEN "cancel"
           ELSE CASE View(w).phase = "cancelling" -> "idle"
                  [] View(w).phase = "queued" -> "start"
                  [] OTHER -> "renew", View(w))
  /\ UNCHANGED <<stored, commands, consumed, outputs, journal, invoked, faults>>

\* The next event of a cancellation, or none.
CancelStep(view) ==
  IF view.phase # "cancelling" THEN CancelRequested(view)
  ELSE IF view.cleanup # "clean" THEN CleanupAcknowledged(view)
  ELSE Finished(view, "cancelled")

\* Lease-free: the stored command is the authority.
ConsumeCancellation(w) ==
  /\ At(w, "cancel")
  /\ \E c \in commands :
       LET next == CancelStep(View(w))
           stores == /\ run = View(w)
                     /\ c.gen + 1 = next.gen
                     /\ IF View(w).phase = "cancelling" THEN consumed = {c} ELSE c = run
       IN /\ Concerns(c, View(w))
          /\ \/ /\ stores
                /\ Store(next)
                /\ consumed' = {c}
                /\ Answered(w, IF Ended(next) THEN "idle" ELSE "cancel", next)
             \/ ~stores /\ Refused(w) /\ UNCHANGED <<stored, consumed>>
  /\ UNCHANGED <<commands, outputs, journal, invoked>>

Start(w) ==
  LET stores == run = View(w) /\ CanStart(run) /\ ~PendingCancel IN
  /\ At(w, "start")
  /\ \/ stores /\ Store(Started(run)) /\ Answered(w, "renew", Started(run))
     \/ ~stores /\ Refused(w) /\ UNCHANGED stored
  /\ UNCHANGED <<commands, consumed, outputs, journal, invoked>>

Leased(w) == [local[w] EXCEPT !.at = "resume", !.lease = View(w).gen]

\* A worker that finds the run listed does not hold its lease: the renewal is
\* refused, and what the worker then does depends on the status of the refusal.
RenewLease(w) ==
  /\ At(w, "renew")
  /\ local' = [local EXCEPT ![w] =
       IF Authorized(w, View(w).gen) THEN Leased(w)
       ELSE IF RefusalIsConflict THEN [@ EXCEPT !.at = "claim"] ELSE Idle]
  /\ UNCHANGED <<stored, commands, consumed, outputs, journal, invoked, faults>>

Claimable(w) ==
  /\ Callable
  /\ ~PendingCancel
  /\ run.gen = View(w).gen
  /\ lease = NoLease

TakeLease(w) ==
  /\ At(w, "claim")
  /\ Claimable(w)
  /\ lease' = LeaseOf(w, run.gen)
  /\ \/ Fine /\ local' = [local EXCEPT ![w] = Leased(w)]
     \/ Fault /\ Stop(w)
  /\ UNCHANGED <<run, rows, commands, consumed, outputs, journal, invoked>>

MissLease(w) ==
  /\ At(w, "claim")
  /\ ~Claimable(w)
  /\ Refused(w)
  /\ UNCHANGED <<stored, commands, consumed, outputs, journal, invoked>>

-----------------------------------------------------------------------------
(* The worker asks the model *)

\* Mutated form: an answer of any generation is taken for the pending one.
SavedAtAll(view, g) == TRUE

\* The answer in the journal is the one the settled operation recorded.
Saved(view, g) == view.gen = g /\ view.op = [gen |-> g, state |-> "settled"]

\* bound: there is a binding, and the context could be read and prepared.
Resume(w) ==
  /\ At(w, "resume")
  /\ \E bound \in BOOLEAN :
       Go(w, IF View(w).phase = "preparing" THEN (IF bound THEN "reserve" ELSE "end")
             ELSE IF ~bound \/ journal[w] = 0 THEN "recover"
             ELSE IF Saved(View(w), journal[w]) THEN "publish" ELSE "idle", View(w))
  /\ UNCHANGED <<stored, commands, consumed, outputs, journal, invoked, faults>>

Reserve(w) ==
  /\ At(w, "reserve")
  /\ \/ CanReserve(View(w)) /\ Transition(w, TRUE, Reserved(View(w)), "enter")
     \/ /\ ~CanReserve(View(w))
        /\ Go(w, "end", View(w))
        /\ UNCHANGED <<stored, commands, consumed, outputs, journal, invoked, faults>>

EnterRunning(w) ==
  /\ At(w, "enter")
  /\ Transition(w, View(w).phase = "preparing", Running(View(w)), "operation")

StartOperation(w) ==
  /\ At(w, "operation")
  /\ Transition(w, View(w).op.state # "started", OperationStarted(View(w)), "dispatch")

\* The operation of the run's own generation, still started.
Operable(w) == Authorized(w, local[w].lease) /\ run.op = [gen |-> run.gen, state |-> "started"]

\* The worker claims the operation it has just started: its row is ready, so the backend
\* never answers that it was claimed before, which the worker would recover from.
ClaimDispatch(w) ==
  LET claims == Operable(w) /\ rows[run.gen] = "ready" IN
  /\ At(w, "dispatch")
  /\ \/ claims /\ rows' = [rows EXCEPT ![run.gen] = "claimed"] /\ Answered(w, "mark", View(w))
     \/ ~claims /\ Refused(w) /\ UNCHANGED rows
  /\ UNCHANGED <<run, lease, commands, consumed, outputs, journal, invoked>>

MarkDispatched(w) ==
  LET marks == Operable(w) /\ rows[run.gen] = "claimed" IN
  /\ At(w, "mark")
  /\ \/ marks /\ rows' = [rows EXCEPT ![run.gen] = "dispatched"] /\ Answered(w, "invoke", View(w))
     \/ ~marks /\ Refused(w) /\ UNCHANGED rows
  /\ UNCHANGED <<run, lease, commands, consumed, outputs, journal, invoked>>

\* The call of the model; good says whether a complete answer came of it.
Invoke(w) ==
  /\ At(w, "invoke")
  /\ invoked' = Append(invoked, View(w).gen)
  /\ \E good \in BOOLEAN : local' = [local EXCEPT ![w].at = "settle", ![w].good = good]
  /\ UNCHANGED <<stored, commands, consumed, outputs, journal, faults>>

\* The ledger may refuse to settle what the model says it has used.
SettleBudget(w) ==
  /\ At(w, "settle")
  /\ \/ Transition(w, View(w).gen \in View(w).reserved, Charged(View(w), View(w).gen), "close")
     \/ /\ Go(w, "end", View(w))
        /\ UNCHANGED <<stored, commands, consumed, outputs, journal, invoked, faults>>

SettleOperation(w) ==
  LET view == View(w)
      Settle(state, step) ==
        Transition(w, view.op.state = "started", OperationSettled(view, state), step)
  IN /\ At(w, "close")
     /\ \/ local[w].good /\ Settle("settled", "journal")
        \/ ~local[w].good /\ \E state \in {"settled", "reconciliation-required"} : Settle(state, "end")

-----------------------------------------------------------------------------
(* The worker publishes the answer, or gives up *)

\* The record of a run is written once and never replaced.
WriteJournal(w) ==
  /\ At(w, "journal")
  /\ \/ /\ journal[w] = 0
        /\ journal' = [journal EXCEPT ![w] = View(w).gen]
        /\ Go(w, "publish", View(w))
     \/ /\ journal[w] # 0
        /\ Stop(w)
        /\ UNCHANGED journal
  /\ UNCHANGED <<stored, commands, consumed, outputs, invoked, faults>>

\* An answer that is stored already is acknowledged before any authority is asked.
Publish(w) ==
  LET g == journal[w]
      publishes == \/ g \in outputs
                   \/ /\ g = run.gen
                      /\ Authorized(w, local[w].lease)
                      /\ run.op = [gen |-> g, state |-> "settled"]
  IN /\ At(w, "publish")
     /\ \/ publishes /\ outputs' = outputs \cup {g} /\ Answered(w, "complete", View(w))
        \/ ~publishes /\ Refused(w) /\ UNCHANGED outputs
     /\ UNCHANGED <<stored, commands, consumed, journal, invoked>>

Finish(w, outcome) == Transition(w, CanFinish(View(w), outcome), Finished(View(w), outcome), "idle")

\* The time budget may be used up by now.
Complete(w) ==
  /\ At(w, "complete")
  /\ \E outcome \in {"succeeded", "unsuccessful"} : Finish(w, outcome)

\* Mutated form: recovery leaves the reservations as they are.
RecoverWithoutCharge(w) ==
  /\ At(w, "recover")
  /\ Transition(w, TRUE, Recovered(View(w)), "end")

\* recoverUncertainDispatch: its events are stored one by one.
Recover(w) ==
  /\ At(w, "recover")
  /\ \/ \E g \in View(w).reserved : Transition(w, TRUE, Charged(View(w), g), "recover")
     \/ View(w).reserved = {} /\ Transition(w, TRUE, Recovered(View(w)), "end")

End(w) ==
  /\ At(w, "end")
  /\ Finish(w, "unsuccessful")

\* A crash; or the heartbeat finds another generation, a cancel command or no lease.
HeartbeatStops(w) ==
  /\ local[w].at \in LeasedSteps
  /\ \/ run.gen # local[w].lease
     \/ lease # LeaseOf(w, local[w].lease)
     \/ PendingCancel

Abandon(w) ==
  /\ ~At(w, "idle")
  /\ IF HeartbeatStops(w) THEN Fine ELSE Fault
  /\ Stop(w)
  /\ UNCHANGED <<stored, commands, consumed, outputs, journal, invoked>>

-----------------------------------------------------------------------------
Init ==
  /\ run = NoRun
  /\ rows = [g \in {} |-> "ready"]
  /\ lease = NoLease
  /\ commands = {}
  /\ consumed = {}
  /\ outputs = {}
  /\ local = [w \in Workers |-> Idle]
  /\ journal = [w \in Workers |-> 0]
  /\ invoked = <<>>
  /\ faults = 0

Work(w) ==
  \/ Poll(w) \/ Create(w) \/ ReadProduct(w) \/ ConsumeCancellation(w) \/ Start(w)
  \/ RenewLease(w) \/ TakeLease(w) \/ MissLease(w) \/ Resume(w)
  \/ Reserve(w) \/ EnterRunning(w) \/ StartOperation(w) \/ ClaimDispatch(w) \/ MarkDispatched(w)
  \/ Invoke(w) \/ SettleBudget(w) \/ SettleOperation(w)
  \/ WriteJournal(w) \/ Publish(w) \/ Complete(w) \/ Recover(w) \/ End(w)

Next ==
  \/ StoreCommand
  \/ ExpireLease
  \/ \E w \in Workers : Work(w) \/ Abandon(w)

Spec == Init /\ [][Next]_vars

\* Workers poll and go on; a lease nobody renews expires.
Fairness ==
  /\ \A w \in Workers : WF_vars(Work(w))
  /\ WF_vars(ExpireLease /\ Fine)

FairSpec == Spec /\ Fairness

-----------------------------------------------------------------------------
(* Properties *)

\* No operation of an older generation, or of a run that is over, can still be
\* claimed or dispatched, however the run got there.
OldOperationsAreFenced ==
  run # NoRun =>
    \A g \in DOMAIN rows : g < run.gen \/ Ended(run) => rows[g] \notin Dispatchable

\* Once the user's cancel command is stored, no worker with a lease, a copy or
\* an answer ends the run in any other way.
CancelIsFinal == commands # {} => run.outcome \in {"none", "cancelled"}

\* A run succeeds only with an answer of its last generation: asked for once,
\* recorded, published and paid for.
SuccessIsItsOwn ==
  (run # NoRun /\ run.outcome = "succeeded") =>
    /\ run.gen \in outputs
    /\ rows[run.gen] = "settled"
    /\ run.reserved = {} /\ run.gen \in run.charged

\* Over all crashes, takeovers and generations the model is asked at most as
\* often as the budget allows, at most once in a generation, and never unpaid.
InvocationsWithinBudget ==
  /\ Len(invoked) <= MaxInvocations
  /\ IsInjective(invoked)
  /\ ToSet(invoked) \subseteq IF run = NoRun THEN {} ELSE run.reserved \cup run.charged

\* A new generation that may ask again starts with every older reservation charged.
ChargedBeforeGoingOn ==
  [][ run # NoRun /\ run'.gen > run.gen /\ run'.phase = "preparing" => run'.reserved = {} ]_vars

\* A worker's journal keeps the answer of a generation that was given up: the
\* worker can neither publish it nor write another.
OldAnswerKept == \E w \in Workers : journal[w] # 0 /\ journal[w] # run.gen

\* Every run ends: crashes, lost answers and lost leases are recovered from,
\* unless the worker that keeps getting the lease keeps an old answer.
EveryRunEnds == <>(run.phase = "terminal") \/ <>[]OldAnswerKept
=============================================================================
