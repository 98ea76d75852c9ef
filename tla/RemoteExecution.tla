--------------------------- MODULE RemoteExecution ---------------------------
(***************************************************************************)
(* Remote executions: the control plane that creates, cancels and leases    *)
(* them, and the workers that run them.  Clients repeat their requests,     *)
(* workers disappear at any point, leases run out while a worker is still   *)
(* at work, and its calls reach the control plane late or twice.            *)
(*                                                                          *)
(* A run of a sandbox publishes one log event and one artifact; each call   *)
(* of a worker is one transaction of the repository.                        *)
(***************************************************************************)
EXTENDS ExecutionRepository, FiniteSets

CONSTANTS
  Requests,      \* request ids of one owner
  Keys,          \* what a request asks for: its identity key
  Cancellations, \* cancellation ids
  Handlers,      \* create requests that may be in progress at once
  Workers,
  MaxActive,     \* maximumActiveExecutions
  ClientAdds,    \* fields the workers' client sends beyond those of an endpoint
  Results,       \* how a sandbox may end
  MaxFaults      \* bound: lost workers, slow workers

ASSUME NobodyAssumption == Nobody \notin Workers
ASSUME ResultsAssumption == Results \subseteq Terminal

VARIABLES
  executions,  \* the rows, in the order they were inserted
  handlers,    \* the create requests in progress
  workers,     \* the workers
  stray,       \* calls nobody waits for any more, still deliverable
  answers,     \* history: what create requests were answered
  faults

vars == <<executions, handlers, workers, stray, answers, faults>>

Idle == [phase |-> "idle"]

-----------------------------------------------------------------------------
(* Clients *)

OfRequest(r) == {id \in DOMAIN executions : executions[id].request = r}

\* Mutated form: the request id alone identifies the request.
KnownByItsId(h, r, k) ==
  /\ handlers' = [handlers EXCEPT ![h] = Idle]
  /\ answers' = answers \cup {[request |-> r, key |-> k, id |-> id] : id \in OfRequest(r)}
  /\ UNCHANGED executions

\* The execution of a known request, or an identity conflict.
Known(h, r, k) ==
  /\ handlers' = [handlers EXCEPT ![h] = Idle]
  /\ answers' = answers \cup
       {[request |-> r, key |-> k, id |-> id] : id \in {i \in OfRequest(r) : executions[i].key = k}}
  /\ UNCHANGED executions

\* First without a lock: a known request is answered at once.
BeginCreate(h) ==
  /\ handlers[h].phase = "idle"
  /\ \E r \in Requests, k \in Keys :
       \/ OfRequest(r) # {} /\ Known(h, r, k)
       \/ /\ OfRequest(r) = {}
          /\ handlers' = [handlers EXCEPT ![h] = [phase |-> "checked", request |-> r, key |-> k]]
          /\ UNCHANGED <<executions, answers>>
  /\ UNCHANGED <<workers, stray, faults>>

Active == {id \in DOMAIN executions : executions[id].status \notin Terminal}

WithinQuota == Cardinality(Active) < MaxActive

Unknown(r) == OfRequest(r) = {}

\* Then in one transaction, with the owner locked.
CreateOrGet(h) ==
  /\ handlers[h].phase = "checked"
  /\ LET r == handlers[h].request
         k == handlers[h].key
     IN \/ ~Unknown(r) /\ Known(h, r, k)
        \/ /\ Unknown(r)
           /\ handlers' = [handlers EXCEPT ![h] = Idle]
           /\ IF WithinQuota
              THEN /\ executions' = Append(executions, Created(r, k))
                   /\ answers' = answers \cup
                        {[request |-> r, key |-> k, id |-> Len(executions) + 1]}
              ELSE UNCHANGED <<executions, answers>>
  /\ UNCHANGED <<workers, stray, faults>>

Cancel(id) ==
  /\ \E c \in Cancellations : executions' = [executions EXCEPT ![id] = Cancelled(@, c)]
  /\ UNCHANGED <<handlers, workers, stray, answers, faults>>

-----------------------------------------------------------------------------
(* Workers *)

Becomes(w, worker) == workers' = [workers EXCEPT ![w] = worker]
Advances(w, phase) == workers' = [workers EXCEPT ![w].phase = phase]
Ends(w, result) == workers' = [workers EXCEPT ![w].phase = "ending", ![w].result = result]

(* A claim passes over rows that other transactions hold, fails exhausted    *)
(* executions on its way, and takes one that is not.                         *)
ClaimNext(w) ==
  /\ workers[w].phase = "idle"
  /\ \E spent \in SUBSET {i \in DOMAIN executions : Exhausted(executions[i])},
        taken \in SUBSET {i \in DOMAIN executions : Claimable(executions[i])} :
       /\ Cardinality(taken) <= 1
       /\ spent \cup taken # {}
       /\ executions' = [i \in DOMAIN executions |->
            IF i \in spent THEN Moved(executions[i], "failed")
            ELSE IF i \in taken THEN Claimed(executions[i], w)
            ELSE executions[i]]
       /\ \/ taken = {} /\ UNCHANGED workers
          \/ \E id \in taken :
               Becomes(w, [phase |-> "claimed", id |-> id, attempt |-> executions'[id].attempt,
                           status |-> executions'[id].status, result |-> "none"])
  /\ UNCHANGED <<handlers, stray, answers, faults>>

CallOf(w, do) == [worker |-> w, id |-> workers[w].id, attempt |-> workers[w].attempt, do |-> do]
HoldsLease(w) == Holds(executions[workers[w].id], CallOf(w, "none"))

\* The fields that the endpoint of a call knows; which execution is in the path.
Fields(do) ==
  {"workerId", "leaseToken"} \cup
  CASE do = "snapshot" -> {}
    [] do \in Statuses -> {"status", "reason"}
    [] OTHER -> {"workerEventId", "event"}

(* A body with any other field is refused, whoever holds the lease, and the  *)
(* worker throws.  Claims and renewals are sent without any, and those of an *)
(* artifact travel as headers.                                               *)
Served(do) == do = "artifact" \/ ClientAdds \subseteq Fields(do)

(* A claimed execution was cancelled meanwhile, or cannot be run at all.     *)
(* That it was running or cancelled before its first attempt (the agent's    *)
(* invalid-recovery-state) is excluded by RecoveryIsValid.                   *)
Decline(w) ==
  /\ workers[w].phase = "claimed"
  /\ \/ workers[w].status = "cancelling" /\ Ends(w, "cancelled")
     \/ workers[w].status # "cancelling" /\ "failed" \in Results /\ Ends(w, "failed")
  /\ UNCHANGED <<executions, handlers, stray, answers, faults>>

\* The snapshot is handed out to the holder of the lease only.
FetchSnapshot(w) ==
  /\ workers[w].phase = "claimed"
  /\ workers[w].status \in {"starting", "running"}
  /\ IF ~Served("snapshot") \/ ~HoldsLease(w) THEN Becomes(w, Idle)
     ELSE Advances(w, IF workers[w].status = "running" THEN "executing" ELSE "starting")
  /\ UNCHANGED <<executions, handlers, stray, answers, faults>>

\* A call that is accepted leads on; one that is not ends the attempt.
Call(w, do, phase) ==
  LET call == CallOf(w, do)
      x == executions[call.id]
      accepted == Served(do) /\ Accepts(x, call)
      spent == Served(do) /\ Holds(x, call) /\ Spent(x, call)
  IN /\ \/ /\ accepted
           /\ executions' = [executions EXCEPT ![call.id] = After(x, call)]
           /\ IF phase = "idle" THEN Becomes(w, Idle) ELSE Advances(w, phase)
        \/ /\ spent
           /\ Ends(w, "failed")
           /\ UNCHANGED executions
        \/ /\ ~accepted
           /\ ~spent
           /\ Becomes(w, Idle)
           /\ UNCHANGED executions
     /\ UNCHANGED <<handlers, stray, answers, faults>>

Start(w) == workers[w].phase = "starting" /\ Call(w, "running", "executing")
PublishOutput(w) == workers[w].phase = "publishing" /\ Call(w, "output", "uploading")
UploadArtifact(w) ==
  /\ workers[w].phase = "uploading"
  /\ Call(w, "artifact", "ending")
Finish(w) == workers[w].phase = "ending" /\ Call(w, workers[w].result, "idle")

\* A heartbeat tells that the lease is lost, or that the client has cancelled.
Heartbeat(w) ==
  /\ workers[w].phase = "executing"
  /\ \/ ~HoldsLease(w) /\ Becomes(w, Idle)
     \/ /\ HoldsLease(w)
        /\ executions[workers[w].id].status = "cancelling"
        /\ Ends(w, "cancelled")
  /\ UNCHANGED <<executions, handlers, stray, answers, faults>>

SandboxEnds(w) ==
  /\ workers[w].phase = "executing"
  /\ \E result \in Results :
       Becomes(w, [workers[w] EXCEPT !.phase = "publishing", !.result = result])
  /\ UNCHANGED <<executions, handlers, stray, answers, faults>>

-----------------------------------------------------------------------------
(* Failures and time *)

Fault == faults < MaxFaults /\ faults' = faults + 1

\* What a worker in each phase asks the control plane.
Asks(w) ==
  CASE workers[w].phase = "starting" -> {CallOf(w, "running")}
    [] workers[w].phase = "publishing" -> {CallOf(w, "output")}
    [] workers[w].phase = "uploading" -> {CallOf(w, "artifact")}
    [] workers[w].phase = "ending" -> {CallOf(w, workers[w].result)}
    [] OTHER -> {}

\* A worker is killed, or a call of it fails: its lease is left behind.
LoseWorker(w) ==
  /\ workers[w].phase # "idle"
  /\ Fault
  /\ stray' \in {stray, stray \cup Asks(w)}
  /\ Becomes(w, Idle)
  /\ UNCHANGED <<executions, handlers, answers>>

\* A call whose sender is gone arrives after all, perhaps more than once.
ServeStray ==
  /\ \E call \in stray :
       /\ Served(call.do)
       /\ Accepts(executions[call.id], call)
       /\ executions' = [executions EXCEPT ![call.id] = After(@, call)]
  /\ UNCHANGED <<handlers, workers, stray, answers, faults>>

AtWork(id) ==
  \E w \in Workers :
    /\ workers[w].phase # "idle"
    /\ workers[w].id = id
    /\ workers[w].attempt = executions[id].attempt

LeaseRunsOut(id) ==
  /\ executions[id].owner # Nobody
  /\ ~executions[id].expired
  /\ executions' = [executions EXCEPT ![id].expired = TRUE]
  /\ UNCHANGED <<handlers, workers, stray, answers>>

\* Nobody renews the lease of a worker that is gone.
LeaseLapses(id) == ~AtWork(id) /\ LeaseRunsOut(id) /\ UNCHANGED faults

\* A worker is too slow to renew its lease.
LeaseMissed(id) == AtWork(id) /\ LeaseRunsOut(id) /\ Fault

-----------------------------------------------------------------------------
Init ==
  /\ executions = <<>>
  /\ handlers = [h \in Handlers |-> Idle]
  /\ workers = [w \in Workers |-> Idle]
  /\ stray = {}
  /\ answers = {}
  /\ faults = 0

Works(w) ==
  \/ Decline(w) \/ FetchSnapshot(w) \/ Start(w) \/ SandboxEnds(w)
  \/ PublishOutput(w) \/ UploadArtifact(w) \/ Finish(w)

Next ==
  \/ \E h \in Handlers : BeginCreate(h) \/ CreateOrGet(h)
  \/ \E w \in Workers : ClaimNext(w) \/ Works(w) \/ Heartbeat(w) \/ LoseWorker(w)
  \/ \E id \in DOMAIN executions : Cancel(id) \/ LeaseLapses(id) \/ LeaseMissed(id)
  \/ ServeStray

Spec == Init /\ [][Next]_vars

(* Workers poll and go on with what they have claimed, sandboxes end by      *)
(* their timeout, and leases nobody renews run out.                          *)
Fairness ==
  /\ \A w \in Workers : WF_vars(ClaimNext(w)) /\ WF_vars(Works(w))
  /\ WF_vars(\E id \in DOMAIN executions : LeaseLapses(id))

FairSpec == Spec /\ Fairness
-----------------------------------------------------------------------------
(* Safety *)

(* However often a start is repeated, and whichever handlers race, a request *)
(* id names one execution, and every answer names it.                        *)
RequestsAreIdempotent ==
  /\ \A i, j \in DOMAIN executions : executions[i].request = executions[j].request => i = j
  /\ \A a, b \in answers : a.request = b.request => a = b

(* A worker whose lease was taken over publishes nothing any more: the       *)
(* events of an attempt all come before those of the next.                   *)
AttemptsInOrder ==
  \A id \in DOMAIN executions :
    LET log == executions[id].log
    IN \A m, n \in DOMAIN log :
         m < n /\ "state" \notin {log[m].kind, log[n].kind} => log[m].attempt <= log[n].attempt

(* A success is the success of the last attempt, whose output and artifact   *)
(* are all in the log: neither a lost lease, nor a rejected upload, nor an   *)
(* exhausted budget leaves a success without them.                           *)
SuccessIsComplete ==
  \A id \in DOMAIN executions :
    executions[id].status = "succeeded" =>
      \A kind \in {"output", "artifact"} :
        [kind |-> kind, status |-> "none", attempt |-> executions[id].attempt]
          \in Range(executions[id].log)

(* Work that was begun is only ever handed to a later attempt, so that the   *)
(* worker never has to give up with invalid-recovery-state.                  *)
RecoveryIsValid ==
  \A w \in Workers :
    workers[w].phase = "claimed" /\ workers[w].attempt <= 1 => workers[w].status = "starting"

(* "workerEventId + payload identity and artifactId identity are strongly    *)
(* idempotent" (specs/implementation/g2-execution-provider-remote-runner.md):*)
(* a worker that holds the lease can upload its artifact, also when an       *)
(* earlier attempt, whose worker was lost, has done so.                      *)
UploadsAreIdempotent ==
  \A w \in Workers :
    workers[w].phase = "uploading" /\ HoldsLease(w) =>
      ~Conflicting(executions[workers[w].id], CallOf(w, "artifact"))

(* "It claims one execution at a time, fetches the exact lease-fenced        *)
(* snapshot" (apps/remote-runner-worker/README.md): a worker that holds the  *)
(* lease of the execution it has claimed is not turned away, it goes on with *)
(* the execution unless it is lost.                                          *)
LeaseHolderGetsSnapshot ==
  [][\A w \in Workers :
       workers[w].phase = "claimed" /\ HoldsLease(w) /\ workers'[w].phase = "idle" =>
         faults' > faults]_vars

-----------------------------------------------------------------------------
(* Liveness *)

Exists(id) == id \in DOMAIN executions
HasStatus(id, S) == Exists(id) /\ executions[id].status \in S

(* Every execution ends, whichever workers are lost: a takeover, or the      *)
(* claim that finds the attempts used up, ends it; also when the event       *)
(* budget is used up, and when a cancellation meets a lost worker.           *)
EveryExecutionEnds ==
  \A id \in 1..Cardinality(Requests) : Exists(id) ~> HasStatus(id, Terminal)
-----------------------------------------------------------------------------
(* Refinement *)

\* An entry of the log as a job's event: of which attempt it is does not show.
Told(e) ==
  IF e.kind = "state" THEN [kind |-> "state", status |-> e.status]
  ELSE [kind |-> IF e.kind = "output" THEN "log" ELSE e.kind]

History(log) == [n \in DOMAIN log |-> Told(log[n])]

\* An execution that has no row yet is a job whose initial state is unpublished.
Job(id) == INSTANCE ExecutionJob WITH
  status <- IF Exists(id) THEN executions[id].status ELSE "queued",
  history <- IF Exists(id) THEN History(executions[id].log) ELSE <<>>

(* "State transition, event ordering, replay, and terminal settlement        *)
(* therefore remain identical for browser and remote providers"              *)
(* (executionJob.ts): whatever handlers, workers, late calls and             *)
(* cancellations do to the rows, each remote execution behaves as one job.   *)
(* This is Job(id)!Spec for every id, with the quantifier inside.            *)
ImplementsExecutionJob ==
  /\ \A id \in DOMAIN executions : Job(id)!Init
  /\ [][\A id \in DOMAIN executions \cup DOMAIN executions' :
          [Job(id)!Next]_(Job(id)!vars)]_vars
=============================================================================
