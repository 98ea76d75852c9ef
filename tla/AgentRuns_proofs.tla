--------------------------- MODULE AgentRuns_proofs ---------------------------
(***************************************************************************)
(* Theorems about AgentRuns for any number of workers, faults and model     *)
(* invocations, and for either answer to a refused renewal.                 *)
(***************************************************************************)
EXTENDS AgentRuns, FiniteSetTheorems, TLAPS

Phases == {"queued", "preparing", "running", "cancelling", "terminal"}
Outcomes == {"none", "succeeded", "unsuccessful", "cancelled"}
Operations == [gen : Nat, state : {"none", "started", "settled", "cancelled",
                                   "reconciliation-required"}]

AnyFacts ==
  [phase : Phases, gen : Nat, active : BOOLEAN, cleanup : {"not-required", "pending", "clean"},
   op : Operations, reserved : SUBSET Nat, charged : SUBSET Nat, outcome : Outcomes]

\* The generations whose invocation is reserved or paid for.
Paid(r) == r.reserved \cup r.charged

-----------------------------------------------------------------------------
(* The inductive invariant *)

\* What every stored copy of the facts satisfies, whichever event made it.
GoodFacts(r) ==
  /\ r \in AnyFacts
  /\ r.outcome # "none" => Ended(r)
  /\ IsFiniteSet(Paid(r)) /\ Cardinality(Paid(r)) <= MaxInvocations
  /\ r.op.state = "started" => r.op.gen \in Paid(r)

RunOK == run = NoRun \/ GoodFacts(run)

Steps == {"idle", "create", "product", "cancel", "start", "renew", "claim"} \cup LeasedSteps

LocalOK ==
  local \in [Workers -> [at : Steps, view : AnyFacts \cup {NoRun}, lease : Nat, good : BOOLEAN]]

\* A worker that has reserved an invocation has it in its copy.
ReservedOK ==
  \A w \in Workers :
    local[w].at \in {"enter", "operation"} =>
      View(w) # NoRun /\ View(w).gen \in Paid(View(w))

\* A command is either still to be carried out, on the facts it is bound to,
\* or it is the one behind the cancellation.
Pending1(c) == c = run /\ run.phase \notin {"cancelling", "terminal"}

CarriedOut(c) ==
  /\ consumed = {c}
  /\ run.phase \in {"cancelling", "terminal"}
  /\ run.phase = "terminal" => run.outcome = "cancelled"
  /\ run.gen = c.gen + 1

CommandsOK ==
  /\ run = NoRun => commands = {}
  /\ \A c \in commands : c \in AnyFacts /\ (Pending1(c) \/ CarriedOut(c))

RowsOK ==
  /\ run # NoRun => \A g \in DOMAIN rows : Superseded(g, run) => rows[g] \notin Dispatchable
  /\ run # NoRun /\ run.op.state = "started" => run.op.gen \in DOMAIN rows

\* Generations that are paid for and whose operation was claimed once.
Taken == IF run = NoRun THEN {} ELSE {g \in DOMAIN rows \cap Paid(run) : rows[g] # "ready"}

Asking(w) == local[w].at \in {"mark", "invoke"}

\* A worker about to ask is the only one to ask in its generation, once.
AskingOK ==
  \A w \in Workers :
    Asking(w) =>
      /\ View(w).gen \in Taken \ ToSet(invoked)
      /\ \A v \in Workers \ {w} : Asking(v) => View(v).gen # View(w).gen

InvokedOK ==
  /\ invoked \in Seq(Nat)
  /\ IsInjective(invoked)
  /\ ToSet(invoked) \subseteq Taken

IInv ==
  /\ RunOK /\ LocalOK /\ ReservedOK
  /\ CommandsOK
  /\ RowsOK
  /\ AskingOK /\ InvokedOK

-----------------------------------------------------------------------------
(* The events *)

\* Event n of facts r: good facts, with nothing that was paid for forgotten.
Follows(r, n) == GoodFacts(n) /\ Paid(r) \subseteq Paid(n)

\* A new run owes nothing (createAgentRunControl).
LEMMA CreatedIsGood == GoodFacts(Created)
<1>1. Created \in AnyFacts
  BY DEF Created, NoOperation, AnyFacts, Phases, Outcomes, Operations
<1>2. Paid(Created) = {} /\ Created.outcome = "none" /\ Created.op.state = "none"
  BY DEF Created, Paid, NoOperation
<1> QED BY <1>1, <1>2, FS_EmptySet, MaxInvocationsAssumption DEF GoodFacts

\* A run that has not ended has no outcome.
LEMMA NotEnded ==
  ASSUME NEW r, GoodFacts(r), ~Ended(r)
  PROVE  r.outcome = "none"
BY DEF GoodFacts

\* run.started keeps what is paid for.
LEMMA StartedFollows ==
  ASSUME NEW r, GoodFacts(r), CanStart(r)
  PROVE  Follows(r, Started(r))
<1>1. r \in AnyFacts /\ r.phase = "queued"
  BY DEF GoodFacts, CanStart
<1>2. r.outcome = "none"
  BY <1>1, NotEnded DEF Ended
<1>3. Started(r) \in AnyFacts
  <2>1. PICK g \in Nat : g = r.gen + 1
    BY <1>1 DEF AnyFacts
  <2>2. Started(r) = [r EXCEPT !.phase = "preparing", !.gen = g, !.active = TRUE]
    BY <2>1, <1>1 DEF Started, AnyFacts
  <2> QED BY <1>1, <2>2 DEF AnyFacts, Phases
<1>4. Paid(Started(r)) = Paid(r) /\ Started(r).outcome = r.outcome /\ Started(r).op = r.op
  BY <1>1 DEF Started, AnyFacts, Paid
<1> QED BY <1>2, <1>3, <1>4 DEF Follows, GoodFacts

\* A reservation stays within maxModelInvocations, since its id is new.
LEMMA ReservedFollows ==
  ASSUME NEW r, GoodFacts(r), ~Ended(r), CanReserve(r)
  PROVE  Follows(r, Reserved(r)) /\ Reserved(r).gen \in Paid(Reserved(r))
<1>1. r \in AnyFacts /\ r.outcome = "none"
  BY NotEnded DEF GoodFacts
<1>2. Reserved(r) \in AnyFacts
  BY <1>1 DEF Reserved, AnyFacts
<1>3. /\ Reserved(r).outcome = r.outcome /\ Reserved(r).op = r.op /\ Reserved(r).gen = r.gen
      /\ Paid(Reserved(r)) = Paid(r) \cup {r.gen}
  BY <1>1 DEF Reserved, AnyFacts, Paid
<1>4. IsFiniteSet(Paid(r) \cup {r.gen}) /\ Cardinality(Paid(r) \cup {r.gen}) <= MaxInvocations
  <2>1. Cardinality(Paid(r)) < MaxInvocations /\ r.gen \notin Paid(r) /\ IsFiniteSet(Paid(r))
    BY DEF CanReserve, GoodFacts, Paid
  <2>2. Cardinality(Paid(r)) \in Nat
    BY <2>1, FS_CardinalityType
  <2> QED BY <2>1, <2>2, FS_AddElement, MaxInvocationsAssumption
<1> QED BY <1>1, <1>2, <1>3, <1>4 DEF Follows, GoodFacts

\* Settling or reconciling moves a reservation, it frees nothing.
LEMMA ChargedFollows ==
  ASSUME NEW r, GoodFacts(r), ~Ended(r), NEW g \in r.reserved
  PROVE  Follows(r, Charged(r, g))
<1>1. r \in AnyFacts /\ r.outcome = "none"
  BY NotEnded DEF GoodFacts
<1>2. Charged(r, g) \in AnyFacts
  BY <1>1 DEF Charged, AnyFacts
<1>3. /\ Charged(r, g).outcome = r.outcome /\ Charged(r, g).op = r.op
      /\ Paid(Charged(r, g)) = Paid(r)
  BY <1>1 DEF Charged, AnyFacts, Paid
<1> QED BY <1>1, <1>2, <1>3 DEF Follows, GoodFacts

\* Entering the running phase keeps what is paid for.
LEMMA RunningFollows ==
  ASSUME NEW r, GoodFacts(r), ~Ended(r)
  PROVE  Follows(r, Running(r)) /\ Running(r).gen = r.gen /\ Paid(Running(r)) = Paid(r)
<1>1. r \in AnyFacts /\ r.outcome = "none"
  BY NotEnded DEF GoodFacts
<1>2. Running(r) \in AnyFacts
  BY <1>1 DEF Running, AnyFacts, Phases
<1>3. /\ Running(r).outcome = r.outcome /\ Running(r).op = r.op /\ Running(r).gen = r.gen
      /\ Paid(Running(r)) = Paid(r)
  BY <1>1 DEF Running, AnyFacts, Paid
<1> QED BY <1>1, <1>2, <1>3 DEF Follows, GoodFacts

\* model.started leads to good facts if its generation is paid for.
LEMMA OperationStartedFollows ==
  ASSUME NEW r, GoodFacts(r), ~Ended(r), r.gen \in Paid(r)
  PROVE  Follows(r, OperationStarted(r))
<1>1. r \in AnyFacts /\ r.outcome = "none"
  BY NotEnded DEF GoodFacts
<1>2. OperationStarted(r) \in AnyFacts
  BY <1>1 DEF OperationStarted, AnyFacts, Operations
<1>3. /\ OperationStarted(r).outcome = r.outcome /\ OperationStarted(r).op.gen = r.gen
      /\ Paid(OperationStarted(r)) = Paid(r)
  BY <1>1 DEF OperationStarted, AnyFacts, Paid
<1> QED BY <1>1, <1>2, <1>3 DEF Follows, GoodFacts

\* model.completed and model.failed keep what is paid for.
LEMMA OperationSettledFollows ==
  ASSUME NEW r, GoodFacts(r), ~Ended(r), NEW state \in {"settled", "reconciliation-required"}
  PROVE  Follows(r, OperationSettled(r, state))
<1>1. r \in AnyFacts /\ r.outcome = "none"
  BY NotEnded DEF GoodFacts
<1>2. OperationSettled(r, state) \in AnyFacts
  BY <1>1 DEF OperationSettled, AnyFacts, Operations
<1>3. /\ OperationSettled(r, state).outcome = r.outcome
      /\ OperationSettled(r, state).op.state = state
      /\ Paid(OperationSettled(r, state)) = Paid(r)
  BY <1>1 DEF OperationSettled, AnyFacts, Operations, Paid
<1> QED BY <1>1, <1>2, <1>3 DEF Follows, GoodFacts

\* A cancellation keeps what is paid for and leaves no operation started.
LEMMA CancelRequestedFollows ==
  ASSUME NEW r, GoodFacts(r), ~Ended(r)
  PROVE  Follows(r, CancelRequested(r))
<1> DEFINE state == IF r.op.state = "started" THEN "cancelled" ELSE r.op.state
           n == CancelRequested(r)
<1>1. r \in AnyFacts /\ r.outcome = "none"
  BY NotEnded DEF GoodFacts
<1>2. state \in {"none", "started", "settled", "cancelled", "reconciliation-required"}
      /\ state # "started" /\ r.op \in Operations
  BY <1>1 DEF AnyFacts, Operations
<1>3. PICK g \in Nat, op \in Operations :
        g = r.gen + 1 /\ op = [r.op EXCEPT !.state = state] /\ op.state = state
  <2>1. [r.op EXCEPT !.state = state] \in Operations /\ [r.op EXCEPT !.state = state].state = state
    BY <1>2 DEF Operations
  <2>2. r.gen + 1 \in Nat
    BY <1>1 DEF AnyFacts
  <2> QED BY <2>1, <2>2
<1>4. n = [r EXCEPT !.phase = "cancelling", !.gen = g, !.active = FALSE,
                    !.cleanup = "pending", !.op = op]
  BY <1>1, <1>3 DEF CancelRequested, AnyFacts
<1>5. n \in AnyFacts /\ n.outcome = r.outcome /\ n.op = op /\ Paid(n) = Paid(r)
  BY <1>1, <1>3, <1>4 DEF AnyFacts, Phases, Paid
<1> QED BY <1>1, <1>2, <1>3, <1>5 DEF Follows, GoodFacts

\* An acknowledged cleanup keeps what is paid for.
LEMMA CleanupAcknowledgedFollows ==
  ASSUME NEW r, GoodFacts(r), ~Ended(r)
  PROVE  Follows(r, CleanupAcknowledged(r))
<1>1. r \in AnyFacts /\ r.outcome = "none"
  BY NotEnded DEF GoodFacts
<1>2. CleanupAcknowledged(r) \in AnyFacts
  BY <1>1 DEF CleanupAcknowledged, AnyFacts
<1>3. /\ CleanupAcknowledged(r).outcome = r.outcome /\ CleanupAcknowledged(r).op = r.op
      /\ Paid(CleanupAcknowledged(r)) = Paid(r)
  BY <1>1 DEF CleanupAcknowledged, AnyFacts, Paid
<1> QED BY <1>1, <1>2, <1>3 DEF Follows, GoodFacts

\* A new generation keeps what the older ones have paid.
LEMMA RecoveredFollows ==
  ASSUME NEW r, GoodFacts(r), ~Ended(r)
  PROVE  Follows(r, Recovered(r))
<1>1. r \in AnyFacts /\ r.outcome = "none"
  BY NotEnded DEF GoodFacts
<1>2. Recovered(r) \in AnyFacts
  <2>1. PICK g \in Nat : g = r.gen + 1
    BY <1>1 DEF AnyFacts
  <2>2. Recovered(r) = [r EXCEPT !.phase = "preparing", !.gen = g, !.active = TRUE,
                                 !.cleanup = "not-required", !.op = NoOperation]
    BY <2>1, <1>1 DEF Recovered, AnyFacts
  <2>3. NoOperation \in Operations
    BY DEF NoOperation, Operations
  <2> QED BY <1>1, <2>2, <2>3 DEF AnyFacts, Phases
<1>3. /\ Recovered(r).outcome = r.outcome /\ Recovered(r).op.state = "none"
      /\ Paid(Recovered(r)) = Paid(r)
  BY <1>1 DEF Recovered, AnyFacts, Paid, NoOperation
<1> QED BY <1>1, <1>2, <1>3 DEF Follows, GoodFacts

\* The end of a run keeps what is paid for and is where an outcome is set.
LEMMA FinishedFollows ==
  ASSUME NEW r, GoodFacts(r), NEW outcome \in Outcomes
  PROVE  Follows(r, Finished(r, outcome))
<1>1. r \in AnyFacts
  BY DEF GoodFacts
<1>2. Finished(r, outcome) \in AnyFacts
  BY <1>1 DEF Finished, AnyFacts, Phases, NoOperation, Operations
<1>3. /\ Ended(Finished(r, outcome)) /\ Finished(r, outcome).op.state = "none"
      /\ Paid(Finished(r, outcome)) = Paid(r)
  BY <1>1 DEF Finished, Ended, AnyFacts, Paid, NoOperation
<1> QED BY <1>2, <1>3 DEF Follows, GoodFacts

-----------------------------------------------------------------------------
(* The rows *)

\* Storing facts keeps every row, makes none ready again, and fences the old.
LEMMA ProjectedRows ==
  ASSUME NEW old, NEW next, next \in AnyFacts
  PROVE  LET new == Projected(old, next) IN
         /\ DOMAIN old \subseteq DOMAIN new
         /\ \A g \in DOMAIN old : old[g] # "ready" => new[g] # "ready"
         /\ \A g \in DOMAIN new : Superseded(g, next) => new[g] \notin Dispatchable
         /\ next.op.state = "started" => next.op.gen \in DOMAIN new
<1> DEFINE mid == SyncedOperation(old, next.op)
           new == Projected(old, next)
<1>1. /\ DOMAIN old \subseteq DOMAIN mid
      /\ next.op.state # "none" => next.op.gen \in DOMAIN mid
      /\ \A g \in DOMAIN old : old[g] # "ready" => mid[g] # "ready"
  <2>1. CASE next.op.state = "none"
    BY <2>1 DEF SyncedOperation
  <2>2. CASE next.op.state # "none"
    <3>1. mid = [g \in DOMAIN old \cup {next.op.gen} |->
                   IF g = next.op.gen THEN RowState(old, next.op) ELSE old[g]]
      BY <2>2 DEF SyncedOperation
    <3>2. next.op.gen \in DOMAIN old /\ old[next.op.gen] # "ready"
             => RowState(old, next.op) # "ready"
      <4>1. next.op.state = "started" /\ next.op.gen \in DOMAIN old
              => RowState(old, next.op) = old[next.op.gen]
        BY DEF RowState
      <4>2. next.op.state \in {"settled", "cancelled"} => RowState(old, next.op) = next.op.state
        BY DEF RowState
      <4>3. next.op.state = "reconciliation-required"
              => RowState(old, next.op) = "reconciliation-required"
        BY DEF RowState
      <4> QED BY <2>2, <4>1, <4>2, <4>3 DEF AnyFacts, Operations
    <3> QED BY <3>1, <3>2
  <2> QED BY <2>1, <2>2
<1>2. new = [g \in DOMAIN mid |-> IF Superseded(g, next) /\ mid[g] \in Dispatchable
                                  THEN "reconciliation-required" ELSE mid[g]]
  BY DEF Projected, Fenced
<1>3. DOMAIN new = DOMAIN mid
  BY <1>2
<1>4. ASSUME NEW g \in DOMAIN mid
      PROVE  /\ Superseded(g, next) => new[g] \notin Dispatchable
             /\ mid[g] # "ready" => new[g] # "ready"
  BY <1>2 DEF Dispatchable
<1> QED BY <1>1, <1>3, <1>4

\* Storing good facts that follow the present ones projects rows that are fenced,
\* and no operation that was claimed becomes ready again.
LEMMA StoreStep ==
  ASSUME RunOK, NEW next, Store(next), GoodFacts(next), run # NoRun => Follows(run, next)
  PROVE  RunOK' /\ RowsOK' /\ Taken \subseteq Taken' /\ run' = next /\ run' # NoRun
<1>1. next \in AnyFacts /\ next # NoRun
  BY DEF GoodFacts, AnyFacts, NoRun, Phases
<1>2. run' = next /\ rows' = Projected(rows, next)
  BY DEF Store
<1>3. /\ DOMAIN rows \subseteq DOMAIN rows'
      /\ \A g \in DOMAIN rows : rows[g] # "ready" => rows'[g] # "ready"
      /\ \A g \in DOMAIN rows' : Superseded(g, next) => rows'[g] \notin Dispatchable
      /\ next.op.state = "started" => next.op.gen \in DOMAIN rows'
  BY <1>1, <1>2, ProjectedRows
<1>4. RunOK' /\ RowsOK'
  BY <1>2, <1>3 DEF RunOK, RowsOK
<1>5. Taken \subseteq Taken'
  <2>1. CASE run = NoRun
    BY <2>1 DEF Taken
  <2>2. CASE run # NoRun
    <3>1. Paid(run) \subseteq Paid(next)
      BY <2>2 DEF Follows
    <3>2. Taken' = {g \in DOMAIN rows' \cap Paid(next) : rows'[g] # "ready"}
      BY <1>1, <1>2 DEF Taken, Paid
    <3>3. Taken = {g \in DOMAIN rows \cap Paid(run) : rows[g] # "ready"}
      BY <2>2 DEF Taken
    <3> QED BY <1>3, <3>1, <3>2, <3>3
  <2> QED BY <2>1, <2>2
<1> QED BY <1>1, <1>2, <1>4, <1>5

-----------------------------------------------------------------------------
(* The workers *)

Views == AnyFacts \cup {NoRun}

Elsewhere(w) == \A v \in Workers \ {w} : local'[v] = local[v]

\* A worker that goes on to a step stands there with the view it was given.
LEMMA GoesOn ==
  ASSUME LocalOK, NEW w \in Workers, NEW step \in Steps, NEW view \in Views, Go(w, step, view)
  PROVE  /\ LocalOK' /\ Elsewhere(w)
         /\ local'[w].at = step
         /\ step # "idle" => local'[w].view = view
<1>1. Idle \in [at : Steps, view : Views, lease : Nat, good : BOOLEAN] /\ Idle.at = "idle"
  <2>1. NoRun \in Views
    BY DEF Views
  <2> QED BY <2>1 DEF Idle, Steps
<1>2. local[w] \in [at : Steps, view : Views, lease : Nat, good : BOOLEAN]
  BY DEF LocalOK, Views
<1>3. CASE step = "idle"
  <2>1. local' = [local EXCEPT ![w] = Idle]
    BY <1>3 DEF Go
  <2> QED BY <1>1, <1>3, <2>1 DEF LocalOK, Elsewhere, Views
<1>4. CASE step # "idle"
  <2> DEFINE new == [local[w] EXCEPT !.at = step, !.view = view]
  <2>1. local' = [local EXCEPT ![w] = new]
    BY <1>4 DEF Go
  <2>2. /\ new \in [at : Steps, view : Views, lease : Nat, good : BOOLEAN]
        /\ new.at = step /\ new.view = view
    BY <1>2
  <2> QED BY <2>1, <2>2 DEF LocalOK, Elsewhere, Views
<1> QED BY <1>3, <1>4

\* Nobody new asks the model and no generation is taken back.
LEMMA NobodyNewAsks ==
  ASSUME AskingOK, InvokedOK, UNCHANGED invoked, Taken \subseteq Taken',
         \A v \in Workers : Asking(v)' => Asking(v) /\ View(v)' = View(v)
  PROVE  AskingOK' /\ InvokedOK'
<1>1. ToSet(invoked)' = ToSet(invoked)
  BY DEF ToSet
<1>2. AskingOK'
  BY <1>1 DEF AskingOK
<1>3. InvokedOK'
  BY <1>1 DEF InvokedOK, IsInjective
<1> QED BY <1>2, <1>3

\* If only a worker that does not ask moves, whoever asks did so before.
LEMMA NobodyElseMoves ==
  ASSUME NEW w \in Workers, Elsewhere(w), local'[w].at \notin {"mark", "invoke"}
  PROVE  \A v \in Workers : Asking(v)' => Asking(v) /\ View(v)' = View(v)
BY DEF Elsewhere, Asking, View

\* A worker that has reserved keeps its reservation while the others stand still.
LEMMA ReservedStays ==
  ASSUME ReservedOK, NEW w \in Workers, Elsewhere(w),
         local'[w].at \in {"enter", "operation"} =>
           View(w)' # NoRun /\ View(w).gen' \in Paid(View(w)')
  PROVE  ReservedOK'
BY DEF ReservedOK, Elsewhere, View, Paid

-----------------------------------------------------------------------------
(* The steps *)

\* Only where worker w stands changes, and it does not come to ask.
LEMMA MovesAway ==
  ASSUME IInv, NEW w \in Workers, LocalOK', Elsewhere(w),
         local'[w].at \notin {"enter", "operation", "mark", "invoke"},
         UNCHANGED <<run, rows, commands, consumed, invoked>>
  PROVE  IInv'
<1>1. RunOK' /\ CommandsOK' /\ RowsOK' /\ Taken' = Taken
  BY DEF IInv, RunOK, CommandsOK, Pending1, CarriedOut, RowsOK, Taken
<1>2. ReservedOK'
  BY ReservedStays DEF IInv
<1>3. AskingOK' /\ InvokedOK'
  BY <1>1, NobodyElseMoves, NobodyNewAsks DEF IInv
<1> QED BY <1>1, <1>2, <1>3 DEF IInv

\* A worker moves between steps in which it has reserved nothing and asks nothing.
LEMMA QuietStep ==
  ASSUME IInv, NEW w \in Workers, NEW view \in Views,
         NEW step \in Steps \ {"enter", "operation", "mark", "invoke"}, Go(w, step, view),
         UNCHANGED <<run, rows, commands, consumed, invoked>>
  PROVE  IInv'
<1>1. LocalOK' /\ Elsewhere(w) /\ local'[w].at = step
  BY GoesOn DEF IInv
<1> QED BY <1>1, MovesAway

\* A refused call sends the worker back to polling and changes nothing stored.
LEMMA RefusedStep ==
  ASSUME IInv, NEW w \in Workers, Stop(w), UNCHANGED <<run, rows, commands, consumed, invoked>>
  PROVE  IInv'
BY QuietStep DEF Stop, Views, Steps

\* After a call the worker goes on, or it has lost the answer and stopped.
LEMMA AnsweredGoes ==
  ASSUME NEW w \in Workers, NEW step \in Steps, NEW view \in Views, Answered(w, step, view)
  PROVE  Go(w, step, view) \/ Go(w, "idle", NoRun)
BY DEF Answered, Stop

\* Good facts are stored in place of the present ones, and there is no command
\* left to carry out, or the facts are those of its cancellation.
LEMMA StoringStep ==
  ASSUME IInv, NEW w \in Workers, NEW step \in Steps \ {"mark", "invoke"}, NEW next,
         Store(next), GoodFacts(next), run # NoRun => Follows(run, next),
         Answered(w, step, next), CommandsOK', UNCHANGED invoked,
         step \in {"enter", "operation"} => next.gen \in Paid(next)
  PROVE  IInv'
<1>1. next \in Views /\ next # NoRun /\ NoRun \in Views
  BY DEF GoodFacts, Views, AnyFacts, Phases, NoRun
<1>2. RunOK' /\ RowsOK' /\ Taken \subseteq Taken'
  BY StoreStep DEF IInv
<1>3. /\ LocalOK' /\ Elsewhere(w)
      /\ \/ local'[w].at = "idle"
         \/ local'[w].at = step /\ (step # "idle" => local'[w].view = next)
  <2>1. "idle" \in Steps
    BY DEF Steps
  <2>2. CASE Go(w, step, next)
    BY <1>1, <2>2, GoesOn DEF IInv
  <2>3. CASE Go(w, "idle", NoRun)
    BY <1>1, <2>1, <2>3, GoesOn DEF IInv
  <2> QED BY <1>1, <2>2, <2>3, AnsweredGoes
<1>4. ReservedOK'
  <2>1. local'[w].at \in {"enter", "operation"} => View(w)' = next /\ next.gen \in Paid(next)
    BY <1>3 DEF View
  <2> QED BY <1>1, <1>3, <2>1, ReservedStays DEF IInv, View, Paid
<1>5. AskingOK' /\ InvokedOK'
  <2>1. local'[w].at \notin {"mark", "invoke"}
    BY <1>3
  <2> QED BY <1>2, <1>3, <2>1, NobodyElseMoves, NobodyNewAsks DEF IInv
<1> QED BY <1>2, <1>3, <1>4, <1>5 DEF IInv

\* A transition under a lease finds no command, since a command fences the lease.
LEMMA TransitionStep ==
  ASSUME IInv, NEW w \in Workers, NEW step \in Steps \ {"mark", "invoke"}, NEW ok, NEW next,
         Transition(w, ok, next, step),
         ok /\ run = View(w) /\ run # NoRun /\ ~Ended(run) =>
           /\ Follows(run, next)
           /\ step \in {"enter", "operation"} => next.gen \in Paid(next)
  PROVE  IInv'
<1> DEFINE stores == ok /\ Authorized(w, local[w].lease) /\ run = View(w)
<1>1. UNCHANGED <<commands, consumed, invoked>>
  BY DEF Transition
<1>2. CASE stores
  <2>1. Store(next) /\ Answered(w, step, next)
    BY <1>2 DEF Transition
  <2>2. run.phase \notin {"cancelling", "terminal"} /\ run \notin commands /\ run # NoRun
    BY <1>2 DEF Authorized, Callable, PendingCancel, NoRun
  <2>3. commands = {}
    BY <2>2 DEF IInv, CommandsOK, Pending1, CarriedOut
  <2>4. CommandsOK'
    BY <1>1, <2>3 DEF CommandsOK
  <2>5. /\ Follows(run, next)
        /\ step \in {"enter", "operation"} => next.gen \in Paid(next)
    BY <1>2, <2>2 DEF Ended
  <2> QED BY <1>1, <2>1, <2>4, <2>5, StoringStep DEF Follows
<1>3. CASE ~stores
  BY <1>1, <1>3, RefusedStep DEF Transition, Refused, stored
<1> QED BY <1>2, <1>3

\* The commands, when the next event of a cancellation is stored.
LEMMA CancellationStep ==
  ASSUME IInv, NEW w \in Workers, At(w, "cancel"), ConsumeCancellation(w)
  PROVE  IInv'
<1>1. PICK c \in commands :
        LET next == CancelStep(View(w))
            stores == /\ run = View(w)
                      /\ c.gen + 1 = next.gen
                      /\ IF View(w).phase = "cancelling" THEN consumed = {c} ELSE c = run
        IN \/ /\ stores
              /\ Store(next)
              /\ consumed' = {c}
              /\ Answered(w, IF Ended(next) THEN "idle" ELSE "cancel", next)
           \/ ~stores /\ Refused(w) /\ UNCHANGED <<stored, consumed>>
  BY DEF ConsumeCancellation
<1> DEFINE next == CancelStep(View(w))
           stores == /\ run = View(w)
                     /\ c.gen + 1 = next.gen
                     /\ IF View(w).phase = "cancelling" THEN consumed = {c} ELSE c = run
           step == IF Ended(next) THEN "idle" ELSE "cancel"
<1>2. UNCHANGED <<commands, invoked>>
  BY DEF ConsumeCancellation
<1>3. CASE stores /\ Store(next) /\ consumed' = {c} /\ Answered(w, step, next)
  <2>1. run # NoRun /\ GoodFacts(run) /\ c \in AnyFacts /\ (Pending1(c) \/ CarriedOut(c))
    BY DEF IInv, CommandsOK, RunOK
  <2>2. run' = next
    BY <1>3 DEF Store
  <2>3. ASSUME run.phase # "cancelling" PROVE Follows(run, next) /\ CommandsOK'
    <3>1. c = run /\ next = CancelRequested(run) /\ Pending1(c)
      <4>1. run.gen \in Nat /\ run.gen # run.gen + 1
        BY <2>1 DEF GoodFacts, AnyFacts
      <4>2. c = run /\ next = CancelRequested(run)
        BY <1>3, <2>3 DEF CancelStep
      <4> QED BY <2>1, <4>1, <4>2 DEF CarriedOut
    <3>2. Follows(run, next)
      BY <2>1, <3>1, CancelRequestedFollows DEF Pending1, Ended
    <3>3. next.phase = "cancelling"
      BY <2>1, <3>1 DEF CancelRequested, GoodFacts, AnyFacts
    <3>4. commands = {c}
      BY <2>1, <3>1 DEF IInv, CommandsOK, Pending1, CarriedOut
    <3>5. CommandsOK'
      BY <1>2, <1>3, <2>1, <2>2, <3>3, <3>4 DEF CommandsOK, CarriedOut, NoRun
    <3> QED BY <3>2, <3>5
  <2>4. ASSUME run.phase = "cancelling" PROVE Follows(run, next) /\ CommandsOK'
    <3>1. consumed = {c} /\ run.gen = c.gen + 1 /\ ~Ended(run)
      BY <1>3, <2>1, <2>4 DEF Pending1, CarriedOut, Ended
    <3>2. /\ Follows(run, next) /\ next.gen = run.gen
          /\ next.phase \in {"cancelling", "terminal"}
          /\ next.phase = "terminal" => next.outcome = "cancelled"
      <4>1. CASE run.cleanup # "clean"
        <5>1. next = CleanupAcknowledged(run)
          BY <1>3, <2>4, <4>1 DEF CancelStep
        <5> QED BY <2>1, <2>4, <3>1, <5>1, CleanupAcknowledgedFollows
                DEF CleanupAcknowledged, GoodFacts, AnyFacts
      <4>2. CASE run.cleanup = "clean"
        <5>1. next = Finished(run, "cancelled")
          BY <1>3, <2>4, <4>2 DEF CancelStep
        <5>2. Follows(run, next)
          BY <2>1, <5>1, FinishedFollows DEF Outcomes
        <5>3. run \in AnyFacts
          BY <2>1 DEF GoodFacts
        <5>4. next.gen = run.gen /\ next.phase = "terminal" /\ next.outcome = "cancelled"
          BY <5>1, <5>3 DEF Finished, AnyFacts
        <5> QED BY <5>2, <5>4
      <4> QED BY <4>1, <4>2
    <3>3. commands = {c}
      BY <2>1, <2>4, <3>1 DEF IInv, CommandsOK, Pending1, CarriedOut
    <3>4. CommandsOK'
      BY <1>2, <1>3, <2>1, <2>2, <3>1, <3>2, <3>3 DEF CommandsOK, CarriedOut, NoRun
    <3> QED BY <3>2, <3>4
  <2>5. Follows(run, next) /\ CommandsOK'
    BY <2>3, <2>4
  <2>6. step \in Steps \ {"mark", "invoke"} /\ step \notin {"enter", "operation"}
    BY DEF Steps
  <2> QED BY <1>2, <1>3, <2>5, <2>6, StoringStep DEF Follows
<1>4. CASE ~stores /\ Refused(w) /\ UNCHANGED <<stored, consumed>>
  BY <1>2, <1>4, RefusedStep DEF Refused, stored
<1> QED BY <1>1, <1>3, <1>4

\* Starting a queued run: there is no cancel command for it.
LEMMA StartStep ==
  ASSUME IInv, NEW w \in Workers, Start(w)
  PROVE  IInv'
<1> DEFINE stores == run = View(w) /\ CanStart(run) /\ ~PendingCancel
<1>1. UNCHANGED <<commands, consumed, invoked>>
  BY DEF Start
<1>2. CASE stores /\ Store(Started(run)) /\ Answered(w, "renew", Started(run))
  <2>1. run.phase = "queued" /\ run \notin commands
    BY <1>2 DEF CanStart, PendingCancel
  <2>2. GoodFacts(run) /\ commands = {}
    BY <2>1 DEF IInv, RunOK, NoRun, CommandsOK, Pending1, CarriedOut
  <2>3. Follows(run, Started(run))
    BY <1>2, <2>2, StartedFollows
  <2>4. CommandsOK'
    BY <1>1, <2>2 DEF CommandsOK
  <2> QED BY <1>1, <1>2, <2>3, <2>4, StoringStep DEF Follows, Steps
<1>3. CASE ~stores /\ Refused(w) /\ UNCHANGED stored
  BY <1>1, <1>3, RefusedStep DEF Refused, stored
<1> QED BY <1>2, <1>3 DEF Start

\* Creating the run.
LEMMA CreateStep ==
  ASSUME IInv, NEW w \in Workers, Create(w)
  PROVE  IInv'
<1>1. UNCHANGED <<commands, consumed, invoked>>
  BY DEF Create
<1>2. CASE run = NoRun /\ Store(Created) /\ Answered(w, "product", Created)
  <2>1. CommandsOK'
    BY <1>1, <1>2 DEF IInv, CommandsOK
  <2> QED BY <1>1, <1>2, <2>1, CreatedIsGood, StoringStep DEF Steps
<1>3. CASE run # NoRun /\ Refused(w) /\ UNCHANGED stored
  BY <1>1, <1>3, RefusedStep DEF Refused, stored
<1> QED BY <1>2, <1>3 DEF Create

\* A cancel command is bound to the facts the backend holds when it is stored.
LEMMA StoreCommandStep ==
  ASSUME IInv, StoreCommand
  PROVE  IInv'
<1>1. UNCHANGED <<run, rows, local, consumed, invoked>> /\ commands' = commands \cup {run}
  BY DEF StoreCommand, stored
<1>2. run # NoRun /\ run.phase \notin {"cancelling", "terminal"} /\ run \in AnyFacts
  BY DEF StoreCommand, NoRun, IInv, RunOK, GoodFacts
<1>3. CommandsOK'
  BY <1>1, <1>2 DEF IInv, CommandsOK, Pending1, CarriedOut
<1> QED BY <1>1, <1>3 DEF IInv, RunOK, LocalOK, ReservedOK, RowsOK, AskingOK, Asking, View,
                          InvokedOK, Taken

\* Only the lease, the journals, the outputs or the number of faults change.
LEMMA ElsewhereStep ==
  ASSUME IInv, UNCHANGED <<run, rows, commands, consumed, local, invoked>>
  PROVE  IInv'
BY DEF IInv, RunOK, LocalOK, ReservedOK, CommandsOK, Pending1, CarriedOut, RowsOK, AskingOK,
       Asking, View, InvokedOK, Taken

\* The worker has the lease of the generation it knows.
LEMMA LeaseStep ==
  ASSUME IInv, NEW w \in Workers, run # NoRun, run.gen = View(w).gen,
         local' = [local EXCEPT ![w] = Leased(w)],
         UNCHANGED <<run, rows, commands, consumed, invoked>>
  PROVE  IInv'
<1>1. local[w] \in [at : Steps, view : Views, lease : Nat, good : BOOLEAN] /\ View(w).gen \in Nat
  BY DEF IInv, LocalOK, RunOK, GoodFacts, Views, AnyFacts
<1>2. Leased(w) \in [at : Steps, view : Views, lease : Nat, good : BOOLEAN]
      /\ Leased(w).at = "resume"
  BY <1>1 DEF Leased, Steps, LeasedSteps
<1>3. LocalOK' /\ Elsewhere(w) /\ local'[w].at = "resume"
  BY <1>2 DEF IInv, LocalOK, Elsewhere, Views
<1> QED BY <1>3, MovesAway

\* What a worker knows of the run is good to compute the next facts from.
LEMMA ViewType ==
  ASSUME IInv, NEW w \in Workers
  PROVE  /\ View(w) \in Views /\ NoRun \in Views /\ run \in Views
         /\ local[w] \in [at : Steps, view : Views, lease : Nat, good : BOOLEAN]
BY DEF IInv, LocalOK, RunOK, GoodFacts, View, Views

\* The reservation of an invocation, or the end if there is none left.
LEMMA ReserveStep ==
  ASSUME IInv, NEW w \in Workers, Reserve(w)
  PROVE  IInv'
<1>1. CASE CanReserve(View(w)) /\ Transition(w, TRUE, Reserved(View(w)), "enter")
  <2>1. ASSUME run = View(w), run # NoRun, ~Ended(run)
        PROVE  Follows(run, Reserved(run)) /\ Reserved(run).gen \in Paid(Reserved(run))
    BY <1>1, <2>1, ReservedFollows DEF IInv, RunOK
  <2> QED BY <1>1, <2>1, TransitionStep DEF Steps, LeasedSteps
<1>2. CASE /\ Go(w, "end", View(w))
           /\ UNCHANGED <<stored, commands, consumed, outputs, journal, invoked, faults>>
  BY <1>2, ViewType, QuietStep DEF stored, Steps, LeasedSteps
<1> QED BY <1>1, <1>2 DEF Reserve

\* The entry into the running phase.
LEMMA EnterStep ==
  ASSUME IInv, NEW w \in Workers, EnterRunning(w)
  PROVE  IInv'
<1>1. View(w).gen \in Paid(View(w))
  BY DEF EnterRunning, At, IInv, ReservedOK
<1>2. ASSUME run = View(w), run # NoRun, ~Ended(run)
      PROVE  Follows(run, Running(run)) /\ Running(run).gen \in Paid(Running(run))
  BY <1>1, <1>2, RunningFollows DEF IInv, RunOK
<1> QED BY <1>2, TransitionStep DEF EnterRunning, Steps, LeasedSteps

\* The start of the operation, after its reservation.
LEMMA StartOperationStep ==
  ASSUME IInv, NEW w \in Workers, StartOperation(w)
  PROVE  IInv'
<1>1. View(w).gen \in Paid(View(w))
  BY DEF StartOperation, At, IInv, ReservedOK
<1>2. ASSUME run = View(w), run # NoRun, ~Ended(run)
      PROVE  Follows(run, OperationStarted(run))
  BY <1>1, <1>2, OperationStartedFollows DEF IInv, RunOK
<1> QED BY <1>2, TransitionStep DEF StartOperation, Steps, LeasedSteps

\* The settlement of the budget and of the operation.
LEMMA SettleSteps ==
  ASSUME IInv, NEW w \in Workers, SettleBudget(w) \/ SettleOperation(w)
  PROVE  IInv'
<1>1. CASE Transition(w, View(w).gen \in View(w).reserved, Charged(View(w), View(w).gen), "close")
  <2>1. ASSUME View(w).gen \in View(w).reserved, run = View(w), run # NoRun, ~Ended(run)
        PROVE  Follows(run, Charged(run, run.gen))
    BY <2>1, ChargedFollows DEF IInv, RunOK
  <2> QED BY <1>1, <2>1, TransitionStep DEF Steps, LeasedSteps
<1>2. ASSUME NEW state \in {"settled", "reconciliation-required"}, NEW step \in {"journal", "end"},
             Transition(w, View(w).op.state = "started", OperationSettled(View(w), state), step)
      PROVE  IInv'
  <2>1. ASSUME run = View(w), run # NoRun, ~Ended(run)
        PROVE  Follows(run, OperationSettled(run, state))
    BY <2>1, OperationSettledFollows DEF IInv, RunOK
  <2> QED BY <1>2, <2>1, TransitionStep DEF Steps, LeasedSteps
<1>3. CASE /\ Go(w, "end", View(w))
           /\ UNCHANGED <<stored, commands, consumed, outputs, journal, invoked, faults>>
  BY <1>3, ViewType, QuietStep DEF stored, Steps, LeasedSteps
<1> QED BY <1>1, <1>2, <1>3 DEF SettleBudget, SettleOperation

\* The steps that end the run, and those of the recovery of an uncertain dispatch.
LEMMA EndSteps ==
  ASSUME IInv, NEW w \in Workers, Complete(w) \/ Recover(w) \/ End(w)
  PROVE  IInv'
<1>1. ASSUME NEW outcome \in Outcomes, Finish(w, outcome)
      PROVE  IInv'
  <2>1. ASSUME run = View(w), run # NoRun
        PROVE  Follows(run, Finished(run, outcome))
    BY <2>1, FinishedFollows DEF IInv, RunOK
  <2> QED BY <1>1, <2>1, TransitionStep DEF Finish, Steps
<1>2. ASSUME NEW g \in View(w).reserved, Transition(w, TRUE, Charged(View(w), g), "recover")
      PROVE  IInv'
  <2>1. ASSUME run = View(w), run # NoRun, ~Ended(run)
        PROVE  Follows(run, Charged(run, g))
    BY <2>1, ChargedFollows DEF IInv, RunOK
  <2> QED BY <1>2, <2>1, TransitionStep DEF Steps, LeasedSteps
<1>3. ASSUME Transition(w, TRUE, Recovered(View(w)), "end")
      PROVE  IInv'
  <2>1. ASSUME run = View(w), run # NoRun, ~Ended(run)
        PROVE  Follows(run, Recovered(run))
    BY <2>1, RecoveredFollows DEF IInv, RunOK
  <2> QED BY <1>3, <2>1, TransitionStep DEF Steps, LeasedSteps
<1> QED BY <1>1, <1>2, <1>3 DEF Complete, Recover, End, Outcomes

\* An operation is claimed once: its row was ready and never is again.
LEMMA ClaimDispatchStep ==
  ASSUME IInv, NEW w \in Workers, ClaimDispatch(w)
  PROVE  IInv'
<1> DEFINE claims == Operable(w) /\ rows[run.gen] = "ready"
<1>1. UNCHANGED <<run, commands, consumed, invoked>>
  BY DEF ClaimDispatch
<1>2. CASE claims /\ rows' = [rows EXCEPT ![run.gen] = "claimed"] /\ Answered(w, "mark", View(w))
  <2>1. run # NoRun /\ ~Ended(run) /\ run.gen = View(w).gen /\ run.op.gen = run.gen
        /\ run.op.state = "started"
    BY <1>2 DEF Operable, Authorized, Callable, NoRun, Ended
  <2>2. run.gen \in DOMAIN rows /\ run.gen \in Paid(run) /\ run.gen \in Nat
    BY <2>1 DEF IInv, RowsOK, RunOK, GoodFacts, AnyFacts
  <2>3. /\ DOMAIN rows' = DOMAIN rows /\ rows'[run.gen] = "claimed"
        /\ \A g \in DOMAIN rows : g # run.gen => rows'[g] = rows[g]
    BY <1>2, <2>2
  <2>4. RunOK' /\ CommandsOK'
    BY <1>1 DEF IInv, RunOK, CommandsOK, Pending1, CarriedOut
  <2>5. ~Superseded(run.gen, run)
    BY <2>1, <2>2 DEF Superseded
  <2>6. RowsOK'
    BY <1>1, <2>3, <2>5 DEF IInv, RowsOK
  <2>7. /\ Taken = {g \in DOMAIN rows \cap Paid(run) : rows[g] # "ready"}
        /\ Taken' = {g \in DOMAIN rows \cap Paid(run) : rows'[g] # "ready"}
    BY <1>1, <2>1, <2>3 DEF Taken
  <2>8. Taken \subseteq Taken' /\ run.gen \in Taken' /\ run.gen \notin Taken
    BY <1>2, <2>2, <2>3, <2>7
  <2>9. /\ LocalOK' /\ Elsewhere(w)
        /\ \/ local'[w].at = "idle"
           \/ local'[w].at = "mark" /\ View(w)' = View(w)
    <3>1. "idle" \in Steps /\ "mark" \in Steps
      BY DEF Steps, LeasedSteps
    <3>2. Go(w, "mark", View(w)) \/ Go(w, "idle", NoRun)
      BY <1>2, <3>1, ViewType, AnsweredGoes
    <3>3. CASE Go(w, "mark", View(w))
      BY <3>1, <3>3, ViewType, GoesOn DEF IInv, View
    <3>4. CASE Go(w, "idle", NoRun)
      BY <3>1, <3>4, ViewType, GoesOn DEF IInv
    <3> QED BY <3>2, <3>3, <3>4
  <2>10. ReservedOK'
    BY <2>9, ReservedStays DEF IInv
  <2>11. ToSet(invoked)' = ToSet(invoked) /\ ToSet(invoked) \subseteq Taken
    BY <1>1 DEF ToSet, IInv, InvokedOK
  <2>12. AskingOK'
    <3>1. ASSUME NEW v \in Workers \ {w}, Asking(v)'
          PROVE  Asking(v) /\ View(v)' = View(v) /\ View(v).gen \in Taken
      BY <2>9, <3>1 DEF Elsewhere, Asking, View, IInv, AskingOK
    <3>2. Asking(w)' => View(w).gen' = run.gen
      BY <2>1, <2>9 DEF Asking
    <3> QED BY <2>8, <2>11, <3>1, <3>2 DEF IInv, AskingOK
  <2>13. InvokedOK'
    BY <1>1, <2>8, <2>11 DEF IInv, InvokedOK, IsInjective
  <2> QED BY <2>4, <2>6, <2>9, <2>10, <2>12, <2>13 DEF IInv
<1>3. CASE ~claims /\ Refused(w) /\ UNCHANGED rows
  BY <1>1, <1>3, RefusedStep DEF Refused
<1> QED BY <1>2, <1>3 DEF ClaimDispatch

\* The operation is marked as dispatched by the one worker that has claimed it.
LEMMA MarkDispatchedStep ==
  ASSUME IInv, NEW w \in Workers, MarkDispatched(w)
  PROVE  IInv'
<1> DEFINE marks == Operable(w) /\ rows[run.gen] = "claimed"
<1>1. UNCHANGED <<run, commands, consumed, invoked>> /\ Asking(w)
  BY DEF MarkDispatched, At, Asking
<1>2. CASE marks /\ rows' = [rows EXCEPT ![run.gen] = "dispatched"]
                 /\ Answered(w, "invoke", View(w))
  <2>1. run # NoRun /\ ~Ended(run) /\ run.op.gen = run.gen /\ run.op.state = "started"
    BY <1>2 DEF Operable, Authorized, Callable, NoRun, Ended
  <2>2. run.gen \in DOMAIN rows /\ run.gen \in Nat
    BY <2>1 DEF IInv, RowsOK, RunOK, GoodFacts, AnyFacts
  <2>3. /\ DOMAIN rows' = DOMAIN rows /\ rows'[run.gen] = "dispatched"
        /\ \A g \in DOMAIN rows : g # run.gen => rows'[g] = rows[g]
    BY <1>2, <2>2
  <2>4. RunOK' /\ CommandsOK'
    BY <1>1 DEF IInv, RunOK, CommandsOK, Pending1, CarriedOut
  <2>5. ~Superseded(run.gen, run)
    BY <2>1, <2>2 DEF Superseded
  <2>6. RowsOK'
    BY <1>1, <2>3, <2>5 DEF IInv, RowsOK
  <2>7. Taken \subseteq Taken'
    BY <1>1, <2>1, <2>3 DEF Taken
  <2>8. /\ LocalOK' /\ Elsewhere(w)
        /\ \/ local'[w].at = "idle"
           \/ local'[w].at = "invoke" /\ View(w)' = View(w)
    <3>1. "idle" \in Steps /\ "invoke" \in Steps
      BY DEF Steps, LeasedSteps
    <3>2. Go(w, "invoke", View(w)) \/ Go(w, "idle", NoRun)
      BY <1>2, <3>1, ViewType, AnsweredGoes
    <3>3. CASE Go(w, "invoke", View(w))
      BY <3>1, <3>3, ViewType, GoesOn DEF IInv, View
    <3>4. CASE Go(w, "idle", NoRun)
      BY <3>1, <3>4, ViewType, GoesOn DEF IInv
    <3> QED BY <3>2, <3>3, <3>4
  <2>9. ReservedOK'
    BY <2>8, ReservedStays DEF IInv
  <2>10. \A v \in Workers : Asking(v)' => Asking(v) /\ View(v)' = View(v)
    BY <1>1, <2>8 DEF Elsewhere, Asking, View
  <2>11. AskingOK' /\ InvokedOK'
    BY <1>1, <2>7, <2>10, NobodyNewAsks DEF IInv
  <2> QED BY <2>4, <2>6, <2>8, <2>9, <2>11 DEF IInv
<1>3. CASE ~marks /\ Refused(w) /\ UNCHANGED rows
  BY <1>1, <1>3, RefusedStep DEF Refused
<1> QED BY <1>2, <1>3 DEF MarkDispatched

\* The model is asked: the generation moves from the askers to the asked.
LEMMA InvokeStep ==
  ASSUME IInv, NEW w \in Workers, Invoke(w)
  PROVE  IInv'
<1> DEFINE g == View(w).gen
<1>1. /\ UNCHANGED <<run, rows, commands, consumed>> /\ Asking(w)
      /\ invoked' = Append(invoked, g)
      /\ \E good \in BOOLEAN : local' = [local EXCEPT ![w].at = "settle", ![w].good = good]
  BY DEF Invoke, stored, At, Asking
<1>2. g \in Taken \ ToSet(invoked) /\ invoked \in Seq(Nat)
  BY <1>1 DEF IInv, AskingOK, InvokedOK
<1>3. g \in Nat
  BY <1>2 DEF Taken, IInv, RunOK, GoodFacts, AnyFacts, Paid
<1>4. ToSet(invoked') = ToSet(invoked) \cup {g}
  <2>1. /\ DOMAIN invoked = 1..Len(invoked) /\ Len(invoked) \in Nat
        /\ DOMAIN invoked' = 1..(Len(invoked) + 1)
        /\ invoked'[Len(invoked) + 1] = g
        /\ \A i \in 1..Len(invoked) : invoked'[i] = invoked[i]
    BY <1>1, <1>2, <1>3
  <2> QED BY <2>1 DEF ToSet
<1>5. InvokedOK'
  <2>1. invoked' \in Seq(Nat)
    BY <1>1, <1>2, <1>3
  <2>2. IsInjective(invoked')
    BY <1>1, <1>2, <1>3 DEF IsInjective, ToSet, IInv, InvokedOK
  <2>3. Taken' = Taken
    BY <1>1 DEF Taken
  <2> QED BY <1>2, <1>4, <2>1, <2>2, <2>3 DEF IInv, InvokedOK
<1>6. LocalOK' /\ Elsewhere(w) /\ local'[w].at = "settle"
  <2>1. PICK good \in BOOLEAN : local' = [local EXCEPT ![w].at = "settle", ![w].good = good]
    BY <1>1
  <2> DEFINE new == [local[w] EXCEPT !.at = "settle", !.good = good]
  <2>2. local' = [local EXCEPT ![w] = new]
    BY <2>1, ViewType DEF IInv, LocalOK
  <2>3. new \in [at : Steps, view : Views, lease : Nat, good : BOOLEAN] /\ new.at = "settle"
    BY <2>1, ViewType DEF Steps, LeasedSteps
  <2> QED BY <2>2, <2>3 DEF IInv, LocalOK, Elsewhere, Views
<1>7. RunOK' /\ CommandsOK' /\ RowsOK'
  BY <1>1 DEF IInv, RunOK, CommandsOK, Pending1, CarriedOut, RowsOK
<1>8. ReservedOK'
  BY <1>6, ReservedStays DEF IInv
<1>9. AskingOK'
  <2>1. ASSUME NEW v \in Workers, Asking(v)'
        PROVE  v # w /\ Asking(v) /\ View(v)' = View(v)
    BY <1>6, <2>1 DEF Elsewhere, Asking, View
  <2>2. Taken' = Taken
    BY <1>1 DEF Taken
  <2>3. ASSUME NEW v \in Workers, Asking(v), v # w
        PROVE  View(v).gen # g /\ View(v).gen \in Taken \ ToSet(invoked)
    BY <1>1, <2>3 DEF IInv, AskingOK
  <2> QED BY <1>4, <2>1, <2>2, <2>3 DEF IInv, AskingOK
<1> QED BY <1>5, <1>6, <1>7, <1>8, <1>9 DEF IInv

\* The steps that neither store facts nor claim an operation.
LEMMA OtherSteps ==
  ASSUME IInv, NEW w \in Workers,
         \/ Poll(w) \/ ReadProduct(w) \/ RenewLease(w) \/ TakeLease(w) \/ MissLease(w)
         \/ Resume(w) \/ WriteJournal(w) \/ Publish(w) \/ Abandon(w)
  PROVE  IInv'
<1>1. CASE Poll(w)
  BY <1>1, ViewType, QuietStep DEF Poll, stored, Steps
<1>2. CASE ReadProduct(w)
  <2>1. PICK step \in {"cancel", "idle", "start", "renew"} : Go(w, step, View(w))
    <3> DEFINE other == CASE View(w).phase = "cancelling" -> "idle"
                          [] View(w).phase = "queued" -> "start"
                          [] OTHER -> "renew"
    <3>1. other \in {"idle", "start", "renew"}
      OBVIOUS
    <3>2. Go(w, IF \E c \in commands : Concerns(c, View(w)) THEN "cancel" ELSE other, View(w))
      BY <1>2 DEF ReadProduct
    <3> QED BY <3>1, <3>2
  <2> QED BY <1>2, <2>1, ViewType, QuietStep DEF ReadProduct, stored, Steps
<1>3. CASE RenewLease(w)
  <2>1. UNCHANGED <<run, rows, commands, consumed, invoked>>
    BY <1>3 DEF RenewLease, stored
  <2>2. CASE Authorized(w, View(w).gen)
    <3>1. run # NoRun /\ run.gen = View(w).gen
      BY <2>2 DEF Authorized, Callable, NoRun
    <3>2. local' = [local EXCEPT ![w] = Leased(w)]
      BY <1>3, <2>2 DEF RenewLease
    <3> QED BY <2>1, <3>1, <3>2, LeaseStep
  <2>3. CASE ~Authorized(w, View(w).gen)
    <3> DEFINE new == IF RefusalIsConflict THEN [local[w] EXCEPT !.at = "claim"] ELSE Idle
    <3>1. local' = [local EXCEPT ![w] = new]
      BY <1>3, <2>3 DEF RenewLease
    <3>2. new \in [at : Steps, view : Views, lease : Nat, good : BOOLEAN]
          /\ new.at \in {"claim", "idle"}
      <4>1. Idle \in [at : Steps, view : Views, lease : Nat, good : BOOLEAN] /\ Idle.at = "idle"
        BY ViewType DEF Idle, Steps
      <4>2. [local[w] EXCEPT !.at = "claim"] \in
              [at : Steps, view : Views, lease : Nat, good : BOOLEAN]
            /\ [local[w] EXCEPT !.at = "claim"].at = "claim"
        BY ViewType DEF Steps
      <4> QED BY <4>1, <4>2
    <3>3. LocalOK' /\ Elsewhere(w) /\ local'[w].at \in {"claim", "idle"}
      BY <3>1, <3>2 DEF IInv, LocalOK, Elsewhere, Views
    <3> QED BY <2>1, <3>3, MovesAway
  <2> QED BY <2>2, <2>3
<1>4. CASE TakeLease(w)
  <2>1. /\ run # NoRun /\ run.gen = View(w).gen
        /\ UNCHANGED <<run, rows, commands, consumed, invoked>>
        /\ local' = [local EXCEPT ![w] = Leased(w)] \/ Stop(w)
    BY <1>4 DEF TakeLease, Claimable, Callable, NoRun
  <2> QED BY <2>1, LeaseStep, RefusedStep
<1>5. CASE MissLease(w) \/ Abandon(w)
  BY <1>5, RefusedStep DEF MissLease, Abandon, Refused, stored
<1>6. CASE Resume(w)
  <2>1. PICK step \in {"reserve", "end", "recover", "publish", "idle"} : Go(w, step, View(w))
    BY <1>6 DEF Resume
  <2> QED BY <1>6, <2>1, ViewType, QuietStep DEF Resume, stored, Steps, LeasedSteps
<1>7. CASE WriteJournal(w)
  <2>1. Go(w, "publish", View(w)) \/ Stop(w)
    BY <1>7 DEF WriteJournal
  <2> QED BY <1>7, <2>1, ViewType, QuietStep, RefusedStep
          DEF WriteJournal, stored, Steps, LeasedSteps
<1>8. CASE Publish(w)
  <2>1. Answered(w, "complete", View(w)) \/ Refused(w)
    BY <1>8 DEF Publish
  <2>2. Go(w, "complete", View(w)) \/ Go(w, "idle", NoRun)
    BY <2>1, ViewType, AnsweredGoes DEF Refused, Stop, Steps, LeasedSteps
  <2> QED BY <1>8, <2>2, ViewType, QuietStep DEF Publish, stored, Steps, LeasedSteps
<1> QED BY <1>1, <1>2, <1>3, <1>4, <1>5, <1>6, <1>7, <1>8

-----------------------------------------------------------------------------
(* The invariant *)

\* The invariant holds before the run is created.
LEMMA Initially ==
  ASSUME Init
  PROVE  IInv
<1>1. RunOK /\ CommandsOK /\ RowsOK
  BY DEF Init, RunOK, CommandsOK, RowsOK
<1>2. LocalOK
  BY DEF Init, LocalOK, Idle, Steps
<1>3. \A w \in Workers : local[w].at = "idle"
  BY DEF Init, Idle
<1>4. ReservedOK /\ AskingOK
  BY <1>3 DEF ReservedOK, AskingOK, Asking
<1>5. InvokedOK
  <2>1. invoked = <<>> /\ ToSet(invoked) = {}
    BY DEF Init, ToSet
  <2> QED BY <2>1 DEF InvokedOK, IsInjective
<1> QED BY <1>1, <1>2, <1>4, <1>5 DEF IInv

\* Every step of the system keeps the invariant.
LEMMA Inductive ==
  ASSUME IInv, [Next]_vars
  PROVE  IInv'
<1>1. CASE StoreCommand
  BY <1>1, StoreCommandStep
<1>2. CASE ExpireLease
  BY <1>2, ElsewhereStep DEF ExpireLease
<1>3. ASSUME NEW w \in Workers, Work(w)
      PROVE  IInv'
  <2>1. CASE Poll(w) \/ ReadProduct(w) \/ RenewLease(w) \/ TakeLease(w) \/ MissLease(w)
             \/ Resume(w) \/ WriteJournal(w) \/ Publish(w)
    BY <2>1, OtherSteps
  <2>2. CASE Create(w)
    BY <2>2, CreateStep
  <2>3. CASE ConsumeCancellation(w)
    BY <2>3, CancellationStep DEF ConsumeCancellation
  <2>4. CASE Start(w)
    BY <2>4, StartStep
  <2>5. CASE Reserve(w) \/ EnterRunning(w) \/ StartOperation(w)
    BY <2>5, ReserveStep, EnterStep, StartOperationStep
  <2>6. CASE ClaimDispatch(w)
    BY <2>6, ClaimDispatchStep
  <2>7. CASE MarkDispatched(w)
    BY <2>7, MarkDispatchedStep
  <2>8. CASE Invoke(w)
    BY <2>8, InvokeStep
  <2>9. CASE SettleBudget(w) \/ SettleOperation(w)
    BY <2>9, SettleSteps
  <2>10. CASE Complete(w) \/ Recover(w) \/ End(w)
    BY <2>10, EndSteps
  <2> QED BY <1>3, <2>1, <2>2, <2>3, <2>4, <2>5, <2>6, <2>7, <2>8, <2>9, <2>10 DEF Work
<1>4. ASSUME NEW w \in Workers, Abandon(w)
      PROVE  IInv'
  BY <1>4, OtherSteps
<1>5. CASE UNCHANGED vars
  BY <1>5, ElsewhereStep DEF vars, stored
<1> QED BY <1>1, <1>2, <1>3, <1>4, <1>5 DEF Next

\* The invariant holds in every state of the system.
LEMMA Always == Spec => []IInv
<1>1. Init => IInv
  BY Initially
<1>2. IInv /\ [Next]_vars => IInv'
  BY Inductive
<1> QED BY <1>1, <1>2, PTL DEF Spec

-----------------------------------------------------------------------------
(* A success has its own answer *)

\* An operation belongs to the generation it was started in, and is paid for;
\* before the first generation nothing is.
OwnFacts(r) ==
  /\ r.phase = "queued" => r.op.state = "none" /\ r.reserved = {}
  /\ r.op.state = "started" => r.op.gen = r.gen
  /\ r.op.state # "none" => r.op.gen \in Paid(r)

\* The row of an operation that has settled says so.
RowSettled(r, table) ==
  r.op.state = "settled" => r.op.gen \in DOMAIN table /\ table[r.op.gen] = "settled"

\* A worker with an answer knows that the operation of its generation has
\* settled; it publishes the answer of that generation, before the run ends.
AnswerOK(w) ==
  /\ local[w].at \in {"journal", "publish", "complete"} =>
       View(w).op = [gen |-> View(w).gen, state |-> "settled"]
  /\ local[w].at \in {"publish", "complete"} => journal[w] = View(w).gen
  /\ local[w].at = "complete" => journal[w] \in outputs

OwnInv ==
  /\ run # NoRun => OwnFacts(run) /\ RowSettled(run, rows)
  /\ journal = [w \in Workers |-> journal[w]]
  /\ \A w \in Workers : AnswerOK(w)
  /\ SuccessIsItsOwn

\* The steps that have an answer in hand.
Answering == {"journal", "publish", "complete"}

\* Events keep operations in their generations, and give no run an outcome.
OwnFollows(r, n) == OwnFacts(n) /\ n.outcome = r.outcome /\ n.phase # "none"

\* The start of a run, the budget's events and the running phase keep the operation.
LEMMA KeptOperation ==
  ASSUME NEW r, r \in AnyFacts, OwnFacts(r)
  PROVE  /\ CanStart(r) => OwnFollows(r, Started(r))
         /\ r.phase # "queued" => OwnFollows(r, Reserved(r))
         /\ \A g \in r.reserved : OwnFollows(r, Charged(r, g))
         /\ OwnFollows(r, Running(r))
         /\ OwnFollows(r, CleanupAcknowledged(r))
<1>0. r.phase \in Phases /\ "none" \notin Phases
  BY DEF AnyFacts, Phases
<1>1. ASSUME CanStart(r)
      PROVE  OwnFollows(r, Started(r))
  <2>1. r.op.state = "none"
    BY <1>1 DEF CanStart, OwnFacts
  <2>2. /\ Started(r).op = r.op /\ Started(r).outcome = r.outcome
        /\ Started(r).phase = "preparing"
    BY DEF Started, AnyFacts
  <2> QED BY <1>0, <2>1, <2>2 DEF OwnFollows, OwnFacts
<1>2. ASSUME r.phase # "queued"
      PROVE  OwnFollows(r, Reserved(r))
  <2>1. /\ Reserved(r).op = r.op /\ Reserved(r).outcome = r.outcome
        /\ Reserved(r).gen = r.gen /\ Reserved(r).phase = r.phase
        /\ Paid(r) \subseteq Paid(Reserved(r))
    BY DEF Reserved, AnyFacts, Paid
  <2> QED BY <1>0, <1>2, <2>1 DEF OwnFollows, OwnFacts
<1>3. ASSUME NEW g \in r.reserved
      PROVE  OwnFollows(r, Charged(r, g))
  <2>1. /\ Charged(r, g).op = r.op /\ Charged(r, g).outcome = r.outcome
        /\ Charged(r, g).gen = r.gen /\ Charged(r, g).phase = r.phase
        /\ Paid(r) \subseteq Paid(Charged(r, g)) /\ r.reserved # {}
    BY DEF Charged, AnyFacts, Paid
  <2> QED BY <1>0, <2>1 DEF OwnFollows, OwnFacts
<1>4. OwnFollows(r, Running(r))
  <2>1. /\ Running(r).op = r.op /\ Running(r).outcome = r.outcome
        /\ Running(r).gen = r.gen /\ Running(r).phase = "running"
        /\ Paid(r) = Paid(Running(r))
    BY DEF Running, AnyFacts, Paid
  <2> QED BY <1>0, <2>1 DEF OwnFollows, OwnFacts
<1>5. OwnFollows(r, CleanupAcknowledged(r))
  <2>1. /\ CleanupAcknowledged(r).op = r.op /\ CleanupAcknowledged(r).outcome = r.outcome
        /\ CleanupAcknowledged(r).gen = r.gen /\ CleanupAcknowledged(r).phase = r.phase
        /\ Paid(r) = Paid(CleanupAcknowledged(r))
        /\ CleanupAcknowledged(r).reserved = r.reserved
    BY DEF CleanupAcknowledged, AnyFacts, Paid
  <2> QED BY <1>0, <2>1 DEF OwnFollows, OwnFacts
<1> QED BY <1>1, <1>2, <1>3, <1>4, <1>5

\* The events of the operation set it for the present generation, or give it up.
LEMMA OwnOperation ==
  ASSUME NEW r, r \in AnyFacts, OwnFacts(r)
  PROVE  /\ r.gen \in Paid(r) /\ r.phase # "queued" => OwnFollows(r, OperationStarted(r))
         /\ r.op.state = "started" =>
              \A state \in {"settled", "reconciliation-required"} :
                /\ OwnFollows(r, OperationSettled(r, state))
                /\ OperationSettled(r, state).op = [gen |-> r.gen, state |-> state]
                /\ OperationSettled(r, state).gen = r.gen
         /\ OwnFollows(r, CancelRequested(r))
         /\ OwnFollows(r, Recovered(r))
         /\ \A outcome : OwnFacts(Finished(r, outcome))
<1>0. r.phase \in Phases /\ "none" \notin Phases
  BY DEF AnyFacts, Phases
<1>1. ASSUME r.gen \in Paid(r), r.phase # "queued"
      PROVE  OwnFollows(r, OperationStarted(r))
  <2>1. /\ OperationStarted(r).op = [gen |-> r.gen, state |-> "started"]
        /\ OperationStarted(r).outcome = r.outcome
        /\ OperationStarted(r).gen = r.gen /\ OperationStarted(r).phase = r.phase
        /\ Paid(OperationStarted(r)) = Paid(r)
    BY DEF OperationStarted, AnyFacts, Paid
  <2> QED BY <1>0, <1>1, <2>1 DEF OwnFollows, OwnFacts
<1>2. ASSUME r.op.state = "started", NEW state \in {"settled", "reconciliation-required"}
      PROVE  /\ OwnFollows(r, OperationSettled(r, state))
             /\ OperationSettled(r, state).op = [gen |-> r.gen, state |-> state]
             /\ OperationSettled(r, state).gen = r.gen
  <2>1. r.op \in Operations /\ r.op.gen = r.gen /\ r.gen \in Paid(r) /\ r.phase # "queued"
    BY <1>2 DEF OwnFacts, AnyFacts
  <2>2. [r.op EXCEPT !.state = state] = [gen |-> r.gen, state |-> state]
    BY <2>1 DEF Operations
  <2>3. /\ OperationSettled(r, state).op = [r.op EXCEPT !.state = state]
        /\ OperationSettled(r, state).outcome = r.outcome
        /\ OperationSettled(r, state).gen = r.gen /\ OperationSettled(r, state).phase = r.phase
        /\ Paid(OperationSettled(r, state)) = Paid(r)
    BY DEF OperationSettled, AnyFacts, Paid
  <2> QED BY <1>0, <2>1, <2>2, <2>3 DEF OwnFollows, OwnFacts
<1>3. OwnFollows(r, CancelRequested(r))
  <2> DEFINE state == IF r.op.state = "started" THEN "cancelled" ELSE r.op.state
             n == CancelRequested(r)
  <2>1. PICK op : op = [r.op EXCEPT !.state = state]
    OBVIOUS
  <2>2. op.state = state /\ op.gen = r.op.gen
    BY <2>1 DEF AnyFacts, Operations
  <2>3. n.op = op /\ n.outcome = r.outcome /\ n.phase = "cancelling" /\ Paid(n) = Paid(r)
    BY <2>1 DEF CancelRequested, AnyFacts, Paid
  <2> QED BY <1>0, <2>2, <2>3 DEF OwnFollows, OwnFacts
<1>4. OwnFollows(r, Recovered(r))
  <2>1. /\ Recovered(r).op.state = "none" /\ Recovered(r).outcome = r.outcome
        /\ Recovered(r).phase = "preparing"
    BY DEF Recovered, AnyFacts, NoOperation
  <2> QED BY <1>0, <2>1 DEF OwnFollows, OwnFacts
<1>5. ASSUME NEW outcome
      PROVE  OwnFacts(Finished(r, outcome))
  <2>1. Finished(r, outcome).op.state = "none" /\ Finished(r, outcome).phase = "terminal"
    BY DEF Finished, AnyFacts, NoOperation
  <2> QED BY <2>1 DEF OwnFacts
<1> QED BY <1>1, <1>2, <1>3, <1>4, <1>5

\* Facts with a phase are those of a run.
LEMMA NotNoRun ==
  ASSUME NEW r, r.phase # "none"
  PROVE  r # NoRun
BY DEF NoRun

\* Storing the facts of a settled operation settles its row, and a settled row
\* stays so when the facts no longer name an operation.
LEMMA SettledRows ==
  ASSUME NEW old, NEW next
  PROVE  /\ RowSettled(next, Projected(old, next))
         /\ next.op.state = "none" =>
              \A g \in DOMAIN old : old[g] = "settled" => Projected(old, next)[g] = "settled"
<1> DEFINE mid == SyncedOperation(old, next.op)
           new == Projected(old, next)
<1>1. new = [g \in DOMAIN mid |-> IF Superseded(g, next) /\ mid[g] \in Dispatchable
                                  THEN "reconciliation-required" ELSE mid[g]]
  BY DEF Projected, Fenced
<1>2. \A g \in DOMAIN mid : mid[g] = "settled" => g \in DOMAIN new /\ new[g] = "settled"
  BY <1>1 DEF Dispatchable
<1>3. ASSUME next.op.state = "settled"
      PROVE  next.op.gen \in DOMAIN mid /\ mid[next.op.gen] = "settled"
  <2>1. mid = [g \in DOMAIN old \cup {next.op.gen} |->
                 IF g = next.op.gen THEN RowState(old, next.op) ELSE old[g]]
    BY <1>3 DEF SyncedOperation
  <2>2. RowState(old, next.op) = "settled"
    BY <1>3 DEF RowState
  <2> QED BY <2>1, <2>2
<1>4. next.op.state = "none" => mid = old
  BY DEF SyncedOperation
<1> QED BY <1>2, <1>3, <1>4 DEF RowSettled

\* The other workers keep their answers.
LEMMA AnswersStay ==
  ASSUME OwnInv, NEW w \in Workers, Elsewhere(w), AnswerOK(w)', outputs \subseteq outputs',
         \A v \in Workers \ {w} : journal'[v] = journal[v]
  PROVE  \A v \in Workers : AnswerOK(v)'
<1>1. ASSUME NEW v \in Workers \ {w}
      PROVE  AnswerOK(v)'
  BY DEF OwnInv, AnswerOK, Elsewhere, View
<1> QED BY <1>1

\* Nothing stored moves but the row of an operation that may be carried out.
LEMMA StoredStays ==
  ASSUME IInv, OwnInv, UNCHANGED run, outputs \subseteq outputs',
         UNCHANGED rows \/ \E w \in Workers : Operable(w)
  PROVE  /\ (run # NoRun => OwnFacts(run) /\ RowSettled(run, rows))'
         /\ SuccessIsItsOwn'
<1>1. CASE UNCHANGED rows
  BY <1>1 DEF OwnInv, SuccessIsItsOwn, OwnFacts, RowSettled, Paid
<1>2. CASE \E w \in Workers : Operable(w)
  <2>1. run.op.state = "started" /\ run # NoRun /\ ~Ended(run)
    BY <1>2 DEF Operable, Authorized, Callable, NoRun, Ended
  <2>2. run.outcome = "none"
    BY <2>1, NotEnded DEF IInv, RunOK
  <2> QED BY <2>1, <2>2 DEF OwnInv, SuccessIsItsOwn, OwnFacts, RowSettled, Paid
<1> QED BY <1>1, <1>2

\* A worker moves to a step in which it has no answer.
LEMMA MovesWithoutAnswer ==
  ASSUME IInv, OwnInv, NEW w \in Workers, Elsewhere(w), local'[w].at \notin Answering,
         UNCHANGED <<run, outputs, journal>>, UNCHANGED rows \/ Operable(w)
  PROVE  OwnInv'
<1>1. AnswerOK(w)'
  BY DEF AnswerOK, Answering
<1>2. \A v \in Workers : AnswerOK(v)'
  BY <1>1, AnswersStay
<1> QED BY <1>2, StoredStays DEF OwnInv

\* A worker is given a new state.
LEMMA StandsThere ==
  ASSUME IInv, NEW w \in Workers, NEW new, local' = [local EXCEPT ![w] = new]
  PROVE  Elsewhere(w) /\ local'[w] = new
BY DEF IInv, LocalOK, Elsewhere

\* Worker w goes on to a step with a view, or stops.
LEMMA GoesOrStops ==
  ASSUME IInv, NEW w \in Workers, NEW step \in Steps, NEW view \in Views,
         Answered(w, step, view) \/ Go(w, step, view) \/ Stop(w)
  PROVE  /\ Elsewhere(w)
         /\ \/ local'[w].at = "idle"
            \/ local'[w].at = step /\ View(w)' = view
<1>1. "idle" \in Steps /\ NoRun \in Views
  BY DEF Steps, Views
<1>2. Go(w, step, view) \/ Go(w, "idle", NoRun)
  BY AnsweredGoes DEF Stop
<1>3. CASE Go(w, step, view)
  BY <1>3, GoesOn DEF IInv, View
<1>4. CASE Go(w, "idle", NoRun)
  BY <1>1, <1>4, GoesOn DEF IInv
<1> QED BY <1>2, <1>3, <1>4

\* A call that is refused, or that only reads, leaves no answer in hand.
LEMMA GoesWithoutAnswer ==
  ASSUME IInv, OwnInv, NEW w \in Workers, NEW step \in Steps \ Answering, NEW view \in Views,
         Answered(w, step, view) \/ Go(w, step, view) \/ Stop(w),
         UNCHANGED <<run, outputs, journal>>, UNCHANGED rows \/ Operable(w)
  PROVE  OwnInv'
<1>1. Elsewhere(w) /\ local'[w].at \notin Answering
  BY GoesOrStops DEF Answering
<1> QED BY <1>1, MovesWithoutAnswer

\* A worker that stops has no answer in hand.
LEMMA StopsWithoutAnswer ==
  ASSUME IInv, OwnInv, NEW w \in Workers, Stop(w), UNCHANGED <<run, rows, outputs, journal>>
  PROVE  OwnInv'
<1>1. NoRun \in Views /\ "idle" \in Steps \ Answering
  BY DEF Views, Steps, Answering
<1> QED BY <1>1, GoesWithoutAnswer

\* Facts are stored, and the worker goes on with them: to the journal if they
\* say that the operation of this generation has settled, or without an answer.
LEMMA StoresOwn ==
  ASSUME IInv, IInv', OwnInv, NEW w \in Workers,
         NEW step \in (Steps \ Answering) \cup {"journal"}, NEW next,
         Store(next), Answered(w, step, next), UNCHANGED <<outputs, journal>>,
         OwnFacts(next), next # NoRun,
         step = "journal" => next.op = [gen |-> next.gen, state |-> "settled"],
         next.outcome = "succeeded" =>
           /\ next.op.state = "none" /\ next.gen \in outputs
           /\ next.gen \in DOMAIN rows /\ rows[next.gen] = "settled"
           /\ next.reserved = {} /\ next.gen \in next.charged
  PROVE  OwnInv'
<1>1. run' = next /\ rows' = Projected(rows, next)
  BY DEF Store
<1>2. next \in Views
  BY <1>1 DEF IInv, RunOK, GoodFacts, Views
<1>3. /\ Elsewhere(w)
      /\ \/ local'[w].at = "idle"
         \/ local'[w].at = step /\ View(w)' = next
  <2>1. step \in Steps
    BY DEF Steps, LeasedSteps
  <2> QED BY <1>2, <2>1, GoesOrStops
<1>4. AnswerOK(w)'
  <2>1. CASE local'[w].at = "idle"
    BY <2>1 DEF AnswerOK
  <2>2. CASE local'[w].at = step /\ View(w)' = next
    BY <2>2 DEF AnswerOK, Answering
  <2> QED BY <1>3, <2>1, <2>2
<1>5. \A v \in Workers : AnswerOK(v)'
  BY <1>3, <1>4, AnswersStay
<1>6. (run # NoRun => OwnFacts(run) /\ RowSettled(run, rows))'
  BY <1>1, SettledRows DEF OwnFacts, RowSettled, Paid
<1>7. SuccessIsItsOwn'
  BY <1>1, SettledRows DEF SuccessIsItsOwn
<1> QED BY <1>5, <1>6, <1>7 DEF OwnInv

\* A transition under a lease; its event follows from facts that have not ended.
LEMMA TransitionOwn ==
  ASSUME IInv, IInv', OwnInv, NEW w \in Workers,
         NEW step \in (Steps \ Answering) \cup {"journal"}, NEW ok, NEW next,
         Transition(w, ok, next, step), UNCHANGED <<outputs, journal>>,
         ok /\ run = View(w) /\ run \in AnyFacts /\ OwnFacts(run) /\ ~Ended(run)
            /\ run.phase # "queued" =>
           /\ OwnFollows(run, next)
           /\ step = "journal" => next.op = [gen |-> next.gen, state |-> "settled"]
  PROVE  OwnInv'
<1> DEFINE stores == ok /\ Authorized(w, local[w].lease) /\ run = View(w)
<1>1. CASE stores
  <2>1. Store(next) /\ Answered(w, step, next)
    BY <1>1 DEF Transition
  <2>2. run # NoRun /\ ~Ended(run) /\ run.phase # "queued"
    BY <1>1 DEF Authorized, Callable, NoRun, Ended
  <2>3. run \in AnyFacts /\ OwnFacts(run) /\ run.outcome = "none"
    BY <2>2, NotEnded DEF IInv, RunOK, GoodFacts, OwnInv
  <2>4. /\ OwnFollows(run, next)
        /\ step = "journal" => next.op = [gen |-> next.gen, state |-> "settled"]
    BY <1>1, <2>2, <2>3
  <2>5. next # NoRun
    BY <2>4 DEF OwnFollows, NoRun
  <2> QED BY <2>1, <2>3, <2>4, <2>5, StoresOwn DEF OwnFollows
<1>2. CASE ~stores
  BY <1>2, StopsWithoutAnswer DEF Transition, Refused, stored
<1> QED BY <1>1, <1>2

\* The run is created, without an operation.
LEMMA CreateOwn ==
  ASSUME IInv, IInv', OwnInv, NEW w \in Workers, Create(w)
  PROVE  OwnInv'
<1>1. CASE run = NoRun /\ Store(Created) /\ Answered(w, "product", Created)
  <2>1. Created.op.state = "none" /\ Created.reserved = {} /\ Created.outcome = "none" /\ Created # NoRun
    BY DEF Created, NoOperation, NoRun
  <2>2. OwnFacts(Created)
    BY <2>1 DEF OwnFacts
  <2> QED BY <1>1, <2>1, <2>2, StoresOwn DEF Create, Steps, Answering
<1>2. CASE run # NoRun /\ Refused(w) /\ UNCHANGED stored
  BY <1>2, StopsWithoutAnswer DEF Create, Refused, stored
<1> QED BY <1>1, <1>2 DEF Create

\* The run is started, without an operation.
LEMMA StartOwn ==
  ASSUME IInv, IInv', OwnInv, NEW w \in Workers, Start(w)
  PROVE  OwnInv'
<1> DEFINE stores == run = View(w) /\ CanStart(run) /\ ~PendingCancel
<1>1. CASE stores /\ Store(Started(run)) /\ Answered(w, "renew", Started(run))
  <2>1. run # NoRun /\ ~Ended(run)
    BY <1>1 DEF CanStart, NoRun, Ended
  <2>2. run \in AnyFacts /\ OwnFacts(run) /\ run.outcome = "none"
    BY <2>1, NotEnded DEF IInv, RunOK, GoodFacts, OwnInv
  <2>3. OwnFollows(run, Started(run))
    BY <1>1, <2>2, KeptOperation
  <2>4. /\ OwnFacts(Started(run)) /\ Started(run) # NoRun
        /\ Started(run).outcome # "succeeded"
    BY <2>2, <2>3 DEF OwnFollows, NoRun
  <2> QED BY <1>1, <2>4, StoresOwn DEF Start, Steps, Answering
<1>2. CASE ~stores /\ Refused(w) /\ UNCHANGED stored
  BY <1>2, StopsWithoutAnswer DEF Start, Refused, stored
<1> QED BY <1>1, <1>2 DEF Start

\* A cancellation ends the run as cancelled.
LEMMA CancellationOwn ==
  ASSUME IInv, IInv', OwnInv, NEW w \in Workers, ConsumeCancellation(w)
  PROVE  OwnInv'
<1> DEFINE next == CancelStep(View(w))
           step == IF Ended(next) THEN "idle" ELSE "cancel"
<1>1. UNCHANGED <<outputs, journal>>
  BY DEF ConsumeCancellation
<1>2. PICK c \in commands :
        /\ Concerns(c, View(w))
        /\ \/ run = View(w) /\ Store(next) /\ Answered(w, step, next)
           \/ Refused(w) /\ UNCHANGED stored
  BY DEF ConsumeCancellation
<1>3. CASE run = View(w) /\ Store(next) /\ Answered(w, step, next)
  <2>1. run # NoRun /\ (Pending1(c) \/ CarriedOut(c)) /\ c \in AnyFacts
    BY DEF IInv, CommandsOK
  <2>2. run \in AnyFacts /\ OwnFacts(run)
    BY <2>1 DEF IInv, RunOK, GoodFacts, OwnInv
  <2>3. run.phase # "terminal"
    <3>1. c = run \/ run.phase = "cancelling"
      BY <1>2, <1>3 DEF Concerns
    <3>2. c.gen + 1 # c.gen
      BY <2>1 DEF AnyFacts
    <3> QED BY <2>1, <3>1, <3>2 DEF Pending1, CarriedOut
  <2>4. run.outcome = "none"
    BY <2>1, <2>3, NotEnded DEF IInv, RunOK, Ended
  <2>5. /\ OwnFacts(next) /\ next.outcome \in {"none", "cancelled"} /\ next # NoRun
    <3>1. CASE next = CancelRequested(run) \/ next = CleanupAcknowledged(run)
      <4>1. OwnFollows(run, next)
        BY <2>2, <3>1, KeptOperation, OwnOperation
      <4> QED BY <2>4, <4>1, NotNoRun DEF OwnFollows
    <3>2. CASE next = Finished(run, "cancelled")
      <4>1. next.outcome = "cancelled" /\ next.phase = "terminal"
        BY <2>2, <3>2 DEF Finished, AnyFacts
      <4>2. OwnFacts(next)
        BY <2>2, <3>2, OwnOperation
      <4> QED BY <4>1, <4>2, NotNoRun
    <3> QED BY <1>3, <3>1, <3>2 DEF CancelStep
  <2>6. step \in Steps \ Answering /\ step # "journal"
    BY DEF Steps, Answering
  <2> QED BY <1>1, <1>3, <2>5, <2>6, StoresOwn
<1>4. CASE Refused(w) /\ UNCHANGED stored
  BY <1>1, <1>4, StopsWithoutAnswer DEF Refused, stored
<1> QED BY <1>2, <1>3, <1>4

\* The reservation, the running phase and the start of the operation.
LEMMA ReserveOwn ==
  ASSUME IInv, IInv', OwnInv, NEW w \in Workers,
         Reserve(w) \/ EnterRunning(w) \/ StartOperation(w)
  PROVE  OwnInv'
<1>1. CASE Reserve(w)
  <2>1. CASE Transition(w, TRUE, Reserved(View(w)), "enter")
    <3>1. ASSUME run = View(w), run \in AnyFacts, OwnFacts(run), run.phase # "queued"
          PROVE  OwnFollows(run, Reserved(View(w)))
      BY <3>1, KeptOperation
    <3> QED BY <2>1, <3>1, TransitionOwn DEF Transition, Steps, LeasedSteps, Answering
  <2>2. CASE ~Transition(w, TRUE, Reserved(View(w)), "enter")
    <3>1. Go(w, "end", View(w)) /\ UNCHANGED <<run, rows, outputs, journal>>
      BY <1>1, <2>2 DEF Reserve, stored
    <3> QED BY <3>1, ViewType, GoesWithoutAnswer DEF Steps, LeasedSteps, Answering
  <2> QED BY <2>1, <2>2
<1>2. CASE EnterRunning(w)
  <2>1. ASSUME run = View(w), run \in AnyFacts, OwnFacts(run)
        PROVE  OwnFollows(run, Running(View(w)))
    BY <2>1, KeptOperation
  <2> QED BY <1>2, <2>1, TransitionOwn
          DEF EnterRunning, Transition, Steps, LeasedSteps, Answering
<1>3. CASE StartOperation(w)
  <2>1. View(w).gen \in Paid(View(w))
    BY <1>3 DEF StartOperation, At, IInv, ReservedOK
  <2>2. ASSUME run = View(w), run \in AnyFacts, OwnFacts(run), run.phase # "queued"
        PROVE  OwnFollows(run, OperationStarted(View(w)))
    BY <2>1, <2>2, OwnOperation
  <2> QED BY <1>3, <2>2, TransitionOwn
          DEF StartOperation, Transition, Steps, LeasedSteps, Answering
<1> QED BY <1>1, <1>2, <1>3

\* The settlements: a worker goes to its journal with a settled operation.
LEMMA SettleOwn ==
  ASSUME IInv, IInv', OwnInv, NEW w \in Workers, SettleBudget(w) \/ SettleOperation(w)
  PROVE  OwnInv'
<1>1. CASE Transition(w, View(w).gen \in View(w).reserved, Charged(View(w), View(w).gen), "close")
  <2>1. ASSUME View(w).gen \in View(w).reserved, run = View(w), run \in AnyFacts, OwnFacts(run)
        PROVE  OwnFollows(run, Charged(View(w), View(w).gen))
    BY <2>1, KeptOperation
  <2> QED BY <1>1, <2>1, TransitionOwn DEF Transition, Steps, LeasedSteps, Answering
<1>2. ASSUME NEW state \in {"settled", "reconciliation-required"}, NEW step \in {"journal", "end"},
             step = "journal" => state = "settled",
             Transition(w, View(w).op.state = "started", OperationSettled(View(w), state), step)
      PROVE  OwnInv'
  <2> DEFINE next == OperationSettled(View(w), state)
  <2>1. ASSUME View(w).op.state = "started", run = View(w), run \in AnyFacts, OwnFacts(run)
        PROVE  /\ OwnFollows(run, next)
               /\ step = "journal" => next.op = [gen |-> next.gen, state |-> "settled"]
    BY <1>2, <2>1, OwnOperation
  <2> QED BY <1>2, <2>1, TransitionOwn DEF Transition, Steps, LeasedSteps, Answering
<1>3. CASE /\ Go(w, "end", View(w))
           /\ UNCHANGED <<stored, commands, consumed, outputs, journal, invoked, faults>>
  <2>1. Go(w, "end", View(w)) /\ UNCHANGED <<run, rows, outputs, journal>>
    BY <1>3 DEF stored
  <2> QED BY <2>1, ViewType, GoesWithoutAnswer DEF Steps, LeasedSteps, Answering
<1> QED BY <1>1, <1>2, <1>3 DEF SettleBudget, SettleOperation

\* The end of the run: a worker that reports success has its answer published,
\* and what its generation has reserved is charged.
LEMMA FinishOwn ==
  ASSUME IInv, IInv', OwnInv, NEW w \in Workers, NEW outcome, Finish(w, outcome),
         outcome = "succeeded" => At(w, "complete")
  PROVE  OwnInv'
<1> DEFINE next == Finished(View(w), outcome)
           stores == /\ CanFinish(View(w), outcome)
                     /\ Authorized(w, local[w].lease)
                     /\ run = View(w)
<1>1. UNCHANGED <<outputs, journal>>
  BY DEF Finish, Transition
<1>2. CASE stores /\ Store(next) /\ Answered(w, "idle", next)
  <2>1. run # NoRun
    BY <1>2 DEF Authorized, Callable, NoRun
  <2>2. run \in AnyFacts /\ OwnFacts(run) /\ RowSettled(run, rows)
    BY <2>1 DEF IInv, RunOK, GoodFacts, OwnInv
  <2>3. /\ next.op.state = "none" /\ next.phase = "terminal" /\ next.outcome = outcome
        /\ next.gen = run.gen /\ next.reserved = run.reserved /\ next.charged = run.charged
    BY <1>2, <2>2 DEF Finished, AnyFacts, NoOperation
  <2>4. OwnFacts(next) /\ next # NoRun
    <3>1. OwnFacts(Finished(run, outcome))
      BY <2>2, OwnOperation
    <3> QED BY <1>2, <2>3, <3>1, NotNoRun
  <2>5. ASSUME outcome = "succeeded"
        PROVE  /\ next.gen \in outputs
               /\ next.gen \in DOMAIN rows /\ rows[next.gen] = "settled"
               /\ next.reserved = {} /\ next.gen \in next.charged
    <3>1. run.op = [gen |-> run.gen, state |-> "settled"] /\ run.gen \in outputs
      BY <1>2, <2>5 DEF At, OwnInv, AnswerOK
    <3>2. run.reserved = {}
      BY <1>2, <2>5 DEF CanFinish
    <3> QED BY <2>2, <2>3, <3>1, <3>2 DEF OwnFacts, RowSettled, Paid
  <2> QED BY <1>1, <1>2, <2>3, <2>4, <2>5, StoresOwn DEF Steps, Answering
<1>3. CASE ~stores
  BY <1>1, <1>3, StopsWithoutAnswer DEF Finish, Transition, Refused, stored
<1> QED BY <1>2, <1>3 DEF Finish, Transition

\* The steps that end the run, and those of a recovery.
LEMMA EndOwn ==
  ASSUME IInv, IInv', OwnInv, NEW w \in Workers, Complete(w) \/ Recover(w) \/ End(w)
  PROVE  OwnInv'
<1>1. CASE Complete(w) \/ End(w)
  BY <1>1, FinishOwn DEF Complete, End
<1>2. CASE \E g \in View(w).reserved : Transition(w, TRUE, Charged(View(w), g), "recover")
  <2>1. PICK g \in View(w).reserved : Transition(w, TRUE, Charged(View(w), g), "recover")
    BY <1>2
  <2>2. ASSUME run = View(w), run \in AnyFacts, OwnFacts(run)
        PROVE  OwnFollows(run, Charged(View(w), g))
    BY <2>2, KeptOperation
  <2> QED BY <2>1, <2>2, TransitionOwn DEF Transition, Steps, LeasedSteps, Answering
<1>3. CASE Transition(w, TRUE, Recovered(View(w)), "end")
  <2>1. ASSUME run = View(w), run \in AnyFacts, OwnFacts(run)
        PROVE  OwnFollows(run, Recovered(View(w)))
    BY <2>1, OwnOperation
  <2> QED BY <1>3, <2>1, TransitionOwn DEF Transition, Steps, LeasedSteps, Answering
<1> QED BY <1>1, <1>2, <1>3 DEF Recover

\* A worker that resumes takes an answer of its journal for the operation that
\* has settled in its own generation, or goes on without one.
LEMMA ResumeOwn ==
  ASSUME IInv, OwnInv, NEW w \in Workers, Resume(w)
  PROVE  OwnInv'
<1>1. PICK step \in {"reserve", "end", "recover", "publish", "idle"} :
        /\ Go(w, step, View(w))
        /\ step = "publish" => Saved(View(w), journal[w])
  BY DEF Resume
<1>2. UNCHANGED <<run, rows, outputs, journal>>
  BY DEF Resume, stored
<1>3. CASE step # "publish"
  BY <1>1, <1>2, <1>3, ViewType, GoesWithoutAnswer DEF Steps, LeasedSteps, Answering
<1>4. CASE step = "publish"
  <2>1. /\ Elsewhere(w)
        /\ \/ local'[w].at = "idle"
           \/ local'[w].at = "publish" /\ View(w)' = View(w)
    BY <1>1, <1>4, ViewType, GoesOrStops DEF Steps, LeasedSteps
  <2>2. AnswerOK(w)'
    BY <1>1, <1>2, <1>4, <2>1 DEF Saved, AnswerOK
  <2>3. \A v \in Workers : AnswerOK(v)'
    BY <1>2, <2>1, <2>2, AnswersStay
  <2> QED BY <1>2, <2>3, StoredStays DEF OwnInv
<1> QED BY <1>3, <1>4

\* A journal is written once, with the answer of the worker's generation.
LEMMA WriteJournalOwn ==
  ASSUME IInv, OwnInv, NEW w \in Workers, WriteJournal(w)
  PROVE  OwnInv'
<1>1. UNCHANGED <<run, rows, outputs>>
  BY DEF WriteJournal, stored
<1>2. CASE journal[w] = 0 /\ journal' = [journal EXCEPT ![w] = View(w).gen]
           /\ Go(w, "publish", View(w))
  <2>1. journal = [v \in Workers |-> journal[v]]
    BY DEF OwnInv
  <2>2. /\ journal'[w] = View(w).gen
        /\ \A v \in Workers \ {w} : journal'[v] = journal[v]
        /\ journal' = [v \in Workers |-> journal'[v]]
    BY <1>2, <2>1
  <2>3. /\ Elsewhere(w)
        /\ \/ local'[w].at = "idle"
           \/ local'[w].at = "publish" /\ View(w)' = View(w)
    BY <1>2, ViewType, GoesOrStops DEF Steps, LeasedSteps
  <2>4. View(w).op = [gen |-> View(w).gen, state |-> "settled"]
    BY DEF WriteJournal, At, OwnInv, AnswerOK
  <2>5. AnswerOK(w)'
    BY <2>2, <2>3, <2>4 DEF AnswerOK
  <2>6. \A v \in Workers : AnswerOK(v)'
    BY <1>1, <2>2, <2>3, <2>5, AnswersStay
  <2> QED BY <1>1, <2>2, <2>6, StoredStays DEF OwnInv
<1>3. CASE Stop(w) /\ UNCHANGED journal
  BY <1>1, <1>3, StopsWithoutAnswer
<1> QED BY <1>2, <1>3 DEF WriteJournal

\* A worker whose call to publish is answered has its answer published.
LEMMA PublishOwn ==
  ASSUME IInv, OwnInv, NEW w \in Workers, Publish(w)
  PROVE  OwnInv'
<1>1. UNCHANGED <<run, rows, journal>>
  BY DEF Publish, stored
<1>2. CASE outputs' = outputs \cup {journal[w]} /\ Answered(w, "complete", View(w))
  <2>1. /\ Elsewhere(w)
        /\ \/ local'[w].at = "idle"
           \/ local'[w].at = "complete" /\ View(w)' = View(w)
    BY <1>2, ViewType, GoesOrStops DEF Steps, LeasedSteps
  <2>2. /\ View(w).op = [gen |-> View(w).gen, state |-> "settled"]
        /\ journal[w] = View(w).gen
    BY DEF Publish, At, OwnInv, AnswerOK
  <2>3. AnswerOK(w)'
    BY <1>1, <1>2, <2>1, <2>2 DEF AnswerOK
  <2>4. \A v \in Workers : AnswerOK(v)'
    BY <1>1, <1>2, <2>1, <2>3, AnswersStay
  <2> QED BY <1>1, <1>2, <2>4, StoredStays DEF OwnInv
<1>3. CASE Refused(w) /\ UNCHANGED outputs
  BY <1>1, <1>3, StopsWithoutAnswer DEF Refused
<1> QED BY <1>2, <1>3 DEF Publish

\* The dispatch of the operation changes its row while it is not yet settled.
LEMMA DispatchOwn ==
  ASSUME IInv, OwnInv, NEW w \in Workers,
         ClaimDispatch(w) \/ MarkDispatched(w) \/ Invoke(w)
  PROVE  OwnInv'
<1>1. CASE ClaimDispatch(w)
  <2>1. UNCHANGED <<run, outputs, journal>> /\ (UNCHANGED rows \/ Operable(w))
    BY <1>1 DEF ClaimDispatch
  <2>2. Answered(w, "mark", View(w)) \/ Stop(w)
    BY <1>1 DEF ClaimDispatch, Refused
  <2> QED BY <2>1, <2>2, ViewType, GoesWithoutAnswer DEF Steps, LeasedSteps, Answering
<1>2. CASE MarkDispatched(w)
  <2>1. UNCHANGED <<run, outputs, journal>> /\ (UNCHANGED rows \/ Operable(w))
    BY <1>2 DEF MarkDispatched
  <2>2. Answered(w, "invoke", View(w)) \/ Stop(w)
    BY <1>2 DEF MarkDispatched, Refused
  <2> QED BY <2>1, <2>2, ViewType, GoesWithoutAnswer DEF Steps, LeasedSteps, Answering
<1>3. CASE Invoke(w)
  <2>1. PICK good \in BOOLEAN : local' = [local EXCEPT ![w].at = "settle", ![w].good = good]
    BY <1>3 DEF Invoke
  <2> DEFINE new == [local[w] EXCEPT !.at = "settle", !.good = good]
  <2>2. local' = [local EXCEPT ![w] = new] /\ new.at = "settle"
    BY <2>1, ViewType DEF IInv, LocalOK
  <2>3. Elsewhere(w) /\ local'[w].at \notin Answering
    BY <2>2, StandsThere DEF Answering
  <2> QED BY <1>3, <2>3, MovesWithoutAnswer DEF Invoke, stored
<1> QED BY <1>1, <1>2, <1>3

\* The steps of a worker that finds the run and takes its lease.
LEMMA FindOwn ==
  ASSUME IInv, OwnInv, NEW w \in Workers,
         \/ Poll(w) \/ ReadProduct(w) \/ RenewLease(w) \/ TakeLease(w) \/ MissLease(w)
         \/ Abandon(w)
  PROVE  OwnInv'
<1>1. UNCHANGED <<run, rows, outputs, journal>>
  BY DEF Poll, ReadProduct, RenewLease, TakeLease, MissLease, Abandon, stored
<1>2. CASE Poll(w)
  <2>1. run \in Views
    BY DEF IInv, RunOK, GoodFacts, Views
  <2> QED BY <1>1, <1>2, <2>1, GoesWithoutAnswer DEF Poll, Steps, Answering
<1>3. CASE ReadProduct(w)
  <2>1. PICK step \in {"cancel", "idle", "start", "renew"} : Go(w, step, View(w))
    <3> DEFINE other == CASE View(w).phase = "cancelling" -> "idle"
                          [] View(w).phase = "queued" -> "start"
                          [] OTHER -> "renew"
    <3>1. other \in {"idle", "start", "renew"}
      OBVIOUS
    <3>2. Go(w, IF \E c \in commands : Concerns(c, View(w)) THEN "cancel" ELSE other, View(w))
      BY <1>3 DEF ReadProduct
    <3> QED BY <3>1, <3>2
  <2> QED BY <1>1, <2>1, ViewType, GoesWithoutAnswer DEF Steps, Answering
<1>4. ASSUME local' = [local EXCEPT ![w] = Leased(w)]
      PROVE  OwnInv'
  <2>1. Leased(w).at = "resume"
    BY ViewType DEF Leased
  <2>2. Elsewhere(w) /\ local'[w].at \notin Answering
    BY <1>4, <2>1, StandsThere DEF Answering
  <2> QED BY <1>1, <2>2, MovesWithoutAnswer
<1>5. CASE RenewLease(w)
  <2>1. CASE Authorized(w, View(w).gen)
    BY <1>4, <1>5, <2>1 DEF RenewLease
  <2>2. CASE ~Authorized(w, View(w).gen)
    <3> DEFINE new == IF RefusalIsConflict THEN [local[w] EXCEPT !.at = "claim"] ELSE Idle
    <3>1. local' = [local EXCEPT ![w] = new]
      BY <1>5, <2>2 DEF RenewLease
    <3>2. [local[w] EXCEPT !.at = "claim"].at = "claim" /\ Idle.at = "idle"
      BY ViewType DEF Idle
    <3>3. Elsewhere(w) /\ local'[w].at \notin Answering
      BY <3>1, <3>2, StandsThere DEF Answering
    <3> QED BY <1>1, <3>3, MovesWithoutAnswer
  <2> QED BY <2>1, <2>2
<1>6. CASE TakeLease(w)
  BY <1>1, <1>4, <1>6, StopsWithoutAnswer DEF TakeLease
<1>7. CASE MissLease(w) \/ Abandon(w)
  BY <1>1, <1>7, StopsWithoutAnswer DEF MissLease, Abandon, Refused
<1> QED BY <1>2, <1>3, <1>5, <1>6, <1>7

\* Nothing but the commands or the lease changes.
LEMMA OwnElsewhere ==
  ASSUME IInv, OwnInv, UNCHANGED <<run, rows, outputs, local, journal>>
  PROVE  OwnInv'
<1>1. \A w \in Workers : AnswerOK(w)'
  BY DEF OwnInv, AnswerOK, View
<1> QED BY <1>1, StoredStays DEF OwnInv

\* Before the run is created nobody has an answer.
LEMMA OwnInitially ==
  ASSUME Init
  PROVE  OwnInv
<1>1. run = NoRun /\ journal = [w \in Workers |-> journal[w]]
  BY DEF Init
<1>2. \A w \in Workers : AnswerOK(w)
  BY DEF Init, Idle, AnswerOK
<1> QED BY <1>1, <1>2 DEF OwnInv, SuccessIsItsOwn

\* Every step of the system keeps the answers and the successes.
LEMMA OwnInductive ==
  ASSUME IInv, IInv', OwnInv, [Next]_vars
  PROVE  OwnInv'
<1>1. CASE StoreCommand \/ ExpireLease \/ UNCHANGED vars
  BY <1>1, OwnElsewhere DEF StoreCommand, ExpireLease, vars, stored
<1>2. ASSUME NEW w \in Workers, Work(w) \/ Abandon(w)
      PROVE  OwnInv'
  <2>1. CASE Poll(w) \/ ReadProduct(w) \/ RenewLease(w) \/ TakeLease(w) \/ MissLease(w)
             \/ Abandon(w)
    BY <2>1, FindOwn
  <2>2. CASE Create(w) \/ ConsumeCancellation(w) \/ Start(w)
    BY <2>2, CreateOwn, CancellationOwn, StartOwn
  <2>3. CASE Resume(w) \/ WriteJournal(w) \/ Publish(w)
    BY <2>3, ResumeOwn, WriteJournalOwn, PublishOwn
  <2>4. CASE Reserve(w) \/ EnterRunning(w) \/ StartOperation(w)
    BY <2>4, ReserveOwn
  <2>5. CASE ClaimDispatch(w) \/ MarkDispatched(w) \/ Invoke(w)
    BY <2>5, DispatchOwn
  <2>6. CASE SettleBudget(w) \/ SettleOperation(w)
    BY <2>6, SettleOwn
  <2>7. CASE Complete(w) \/ Recover(w) \/ End(w)
    BY <2>7, EndOwn
  <2> QED BY <1>2, <2>1, <2>2, <2>3, <2>4, <2>5, <2>6, <2>7 DEF Work
<1> QED BY <1>1, <1>2 DEF Next

-----------------------------------------------------------------------------
(* Going on with a new generation *)

\* What ChargedBeforeGoingOn says of one step.
ChargedStep ==
  run # NoRun /\ run'.gen > run.gen /\ run'.phase = "preparing" => run'.reserved = {}

\* A step that leaves the run, or its generation, alone.
LEMMA SameGeneration ==
  ASSUME IInv, run # NoRun => run'.gen = run.gen
  PROVE  ChargedStep
<1>1. run # NoRun => run.gen \in Nat
  BY DEF IInv, RunOK, GoodFacts, AnyFacts
<1> QED BY <1>1 DEF ChargedStep

\* A transition under a lease, by what its event does.
LEMMA TransitionCharges ==
  ASSUME IInv, NEW w \in Workers, NEW step, NEW ok, NEW next, Transition(w, ok, next, step),
         run = View(w) /\ run \in AnyFacts => next.gen = run.gen \/ next.reserved = {}
  PROVE  ChargedStep
<1>1. CASE UNCHANGED run
  BY <1>1, SameGeneration
<1>2. CASE run' = next /\ run = View(w)
  <2>1. CASE run = NoRun
    BY <2>1 DEF ChargedStep
  <2>2. CASE next.gen = run.gen
    BY <1>2, <2>2, SameGeneration
  <2>3. CASE next.reserved = {}
    BY <1>2, <2>3 DEF ChargedStep
  <2>4. run # NoRun => run \in AnyFacts
    BY DEF IInv, RunOK, GoodFacts
  <2> QED BY <1>2, <2>1, <2>2, <2>3, <2>4
<1> QED BY <1>1, <1>2 DEF Transition, Store, stored

\* The events but the start, the cancellation and the recovery keep the generation.
LEMMA GenerationKept ==
  ASSUME NEW r, r \in AnyFacts
  PROVE  /\ Reserved(r).gen = r.gen
         /\ \A g : Charged(r, g).gen = r.gen
         /\ Running(r).gen = r.gen
         /\ OperationStarted(r).gen = r.gen
         /\ \A state : OperationSettled(r, state).gen = r.gen
         /\ CleanupAcknowledged(r).gen = r.gen
         /\ \A outcome : Finished(r, outcome).gen = r.gen
BY DEF AnyFacts, Reserved, Charged, Running, OperationStarted, OperationSettled,
       CleanupAcknowledged, Finished

\* The run starts with nothing reserved, and its recovery ends with nothing reserved.
LEMMA GoingOn ==
  ASSUME IInv, OwnInv, Next
  PROVE  ChargedStep
<1>1. ASSUME UNCHANGED run
      PROVE  ChargedStep
  BY <1>1, SameGeneration
<1>2. CASE StoreCommand \/ ExpireLease
  BY <1>1, <1>2 DEF StoreCommand, ExpireLease, stored
<1>3. ASSUME NEW w \in Workers, Work(w) \/ Abandon(w)
      PROVE  ChargedStep
  <2>1. CASE \/ Poll(w) \/ ReadProduct(w) \/ RenewLease(w) \/ TakeLease(w) \/ MissLease(w)
             \/ Resume(w) \/ ClaimDispatch(w) \/ MarkDispatched(w) \/ Invoke(w)
             \/ WriteJournal(w) \/ Publish(w) \/ Abandon(w)
    BY <1>1, <2>1 DEF Poll, ReadProduct, RenewLease, TakeLease, MissLease, Resume, ClaimDispatch,
                      MarkDispatched, Invoke, WriteJournal, Publish, Abandon, stored
  <2>2. CASE Create(w)
    <3>1. run = NoRun \/ UNCHANGED run
      BY <2>2 DEF Create, stored
    <3> QED BY <1>1, <3>1 DEF ChargedStep
  <2>3. CASE ConsumeCancellation(w)
    <3>1. UNCHANGED run \/ (run = View(w) /\ run' = CancelStep(run))
      BY <2>3 DEF ConsumeCancellation, Store, stored
    <3>2. ASSUME run # NoRun, run' = CancelStep(run)
          PROVE  run'.phase # "preparing" \/ run'.gen = run.gen
      <4>1. run \in AnyFacts
        BY <3>2 DEF IInv, RunOK, GoodFacts
      <4>2. CancelRequested(run).phase = "cancelling"
        BY <4>1 DEF CancelRequested, AnyFacts
      <4> QED BY <3>2, <4>1, <4>2, GenerationKept DEF CancelStep
    <3> QED BY <1>1, <3>1, <3>2, SameGeneration DEF ChargedStep
  <2>4. CASE Start(w)
    <3>1. UNCHANGED run \/ (CanStart(run) /\ run' = Started(run))
      BY <2>4 DEF Start, Store, stored
    <3>2. ASSUME CanStart(run), run' = Started(run)
          PROVE  run'.reserved = {}
      <4>1. run # NoRun
        BY <3>2 DEF CanStart, NoRun
      <4>2. run \in AnyFacts /\ run.reserved = {}
        BY <3>2, <4>1 DEF IInv, RunOK, GoodFacts, OwnInv, OwnFacts, CanStart
      <4> QED BY <3>2, <4>2 DEF Started, AnyFacts
    <3> QED BY <1>1, <3>1, <3>2 DEF ChargedStep
  <2>5. CASE Reserve(w) \/ EnterRunning(w) \/ StartOperation(w)
    BY <1>1, <2>5, GenerationKept, TransitionCharges
       DEF Reserve, EnterRunning, StartOperation, stored
  <2>6. CASE SettleBudget(w) \/ SettleOperation(w)
    BY <1>1, <2>6, GenerationKept, TransitionCharges DEF SettleBudget, SettleOperation, stored
  <2>7. CASE Complete(w) \/ End(w)
    BY <2>7, GenerationKept, TransitionCharges DEF Complete, End, Finish
  <2>8. CASE Recover(w)
    <3>1. ASSUME View(w).reserved = {}, Transition(w, TRUE, Recovered(View(w)), "end")
          PROVE  ChargedStep
      <4>1. run = View(w) /\ run \in AnyFacts => Recovered(View(w)).reserved = {}
        BY <3>1 DEF Recovered, AnyFacts
      <4> QED BY <3>1, <4>1, TransitionCharges
    <3> QED BY <2>8, <3>1, GenerationKept, TransitionCharges DEF Recover
  <2> QED BY <1>3, <2>1, <2>2, <2>3, <2>4, <2>5, <2>6, <2>7, <2>8 DEF Work
<1> QED BY <1>2, <1>3 DEF Next

-----------------------------------------------------------------------------
(* The theorems *)

\* Once a cancel command of the user is stored the run ends as cancelled or not
\* at all, whatever the workers were doing: a command is bound to the facts of
\* the run, no transition under a lease is stored while it waits
\* (runtime_lease_guard.go), and the cancellation is carried out from those facts.
THEOREM CancellationIsFinal == Spec => []CancelIsFinal
<1>1. IInv => CancelIsFinal
  <2> SUFFICES ASSUME IInv, commands # {}
               PROVE  run.outcome \in {"none", "cancelled"}
    BY DEF CancelIsFinal
  <2>1. PICK c \in commands : Pending1(c) \/ CarriedOut(c)
    BY DEF IInv, CommandsOK
  <2>2. GoodFacts(run)
    BY DEF IInv, CommandsOK, RunOK
  <2> QED BY <2>1, <2>2 DEF GoodFacts, Pending1, CarriedOut, Ended
<1> QED BY <1>1, Always, PTL

\* No operation of an older generation, or of a run that is over, can be claimed
\* or dispatched: every storing of facts fences the rows it leaves behind
\* (fenceSupersededOperationDispatchTx), for any number of workers and generations.
THEOREM OldAreFenced == Spec => []OldOperationsAreFenced
<1>1. IInv => OldOperationsAreFenced
  BY DEF IInv, RowsOK, OldOperationsAreFenced, Superseded
<1> QED BY <1>1, Always, PTL

\* The model is asked at most maxModelInvocations times, at most once in a
\* generation and only after the reservation is stored, over all crashes, lost
\* answers and takeovers of the lease.
THEOREM BudgetIsKept == Spec => []InvocationsWithinBudget
<1>1. IInv => InvocationsWithinBudget
  <2> SUFFICES ASSUME IInv
               PROVE  InvocationsWithinBudget
    OBVIOUS
  <2>1. IsInjective(invoked) /\ ToSet(invoked) \subseteq Taken /\ invoked \in Seq(Nat)
    BY DEF IInv, InvokedOK
  <2>2. ToSet(invoked) \subseteq IF run = NoRun THEN {} ELSE Paid(run)
    BY <2>1 DEF Taken
  <2>3. Len(invoked) <= MaxInvocations
    <3>1. CASE run = NoRun
      <4>1. ToSet(invoked) = {}
        BY <2>2, <3>1
      <4>2. Len(invoked) = 0
        <5>1. DOMAIN invoked = 1..Len(invoked) /\ Len(invoked) \in Nat
          BY <2>1
        <5>2. 1 \notin DOMAIN invoked
          BY <4>1 DEF ToSet
        <5> QED BY <5>1, <5>2
      <4> QED BY <4>2, MaxInvocationsAssumption
    <3>2. CASE run # NoRun
      <4>1. IsFiniteSet(Paid(run)) /\ Cardinality(Paid(run)) <= MaxInvocations
        BY <3>2 DEF IInv, RunOK, GoodFacts
      <4>2. PICK n \in Nat :
              n = Len(invoked) /\ DOMAIN invoked = 1..n /\ invoked \in [1..n -> Nat]
        BY <2>1
      <4>3. \A i \in 1..n : invoked[i] \in Paid(run)
        BY <2>2, <3>2, <4>2 DEF ToSet
      <4>4. invoked \in Injection(1..n, Paid(run))
        BY <2>1, <4>2, <4>3 DEF Injection, IsInjective
      <4>5. Cardinality(1..n) <= Cardinality(Paid(run))
        BY <4>1, <4>4, FS_Injection
      <4>6. Cardinality(1..n) = n
        <5>1. 1 \in Int /\ n \in Int
          OBVIOUS
        <5>2. Cardinality(1..n) = IF 1 > n THEN 0 ELSE n - 1 + 1
          BY <5>1, FS_Interval, Zenon
        <5> QED BY <5>2
      <4>7. Cardinality(Paid(run)) \in Nat
        BY <4>1, FS_CardinalityType
      <4> QED BY <4>1, <4>2, <4>5, <4>6, <4>7, MaxInvocationsAssumption
    <3> QED BY <3>1, <3>2
  <2> QED BY <2>1, <2>2, <2>3 DEF InvocationsWithinBudget, Paid
<1> QED BY <1>1, Always, PTL

\* A run succeeds only with an answer of its last generation: the operation of
\* that generation has settled, its answer is published before the run is
\* completed (publish, then complete), and every reservation is charged, over all
\* crashes, takeovers of the lease and answers kept in a journal.
THEOREM SuccessHasItsAnswer == Spec => []SuccessIsItsOwn
<1>1. Init => OwnInv
  BY OwnInitially
<1>2. IInv /\ IInv' /\ OwnInv /\ [Next]_vars => OwnInv'
  BY OwnInductive
<1>3. OwnInv => SuccessIsItsOwn
  BY DEF OwnInv
<1> QED BY <1>1, <1>2, <1>3, Always, PTL DEF Spec
\* Before it goes on with a new generation, a worker has charged every open
\* reservation: recoverUncertainDispatch reconciles them one by one, over several
\* calls any of which may fail, before it stores the new generation.
THEOREM RecoveryHasCharged == Spec => ChargedBeforeGoingOn
<1>1. Init => OwnInv
  BY OwnInitially
<1>2. IInv /\ IInv' /\ OwnInv /\ [Next]_vars => OwnInv'
  BY OwnInductive
<1>3. IInv /\ OwnInv /\ [Next]_vars
        => [run # NoRun /\ run'.gen > run.gen /\ run'.phase = "preparing"
              => run'.reserved = {}]_vars
  BY GoingOn DEF ChargedStep
<1> QED BY <1>1, <1>2, <1>3, Always, PTL DEF Spec, ChargedBeforeGoingOn
=============================================================================
