# Verification of Prodivix

TLA+ models, model-checking runs and machine-checked proofs for the parts of
Prodivix in which several actors change the same durable state: the commit of
workspace operations on the server, the outbox that brings the edits of browser
tabs there, the remote executions and the agent runs that workers carry out under
leases, the replay of mutations with external effects, and the session between the
plugin host and a sandbox.

Paths below are relative to the repository root.

## 1. The system

Prodivix is a visual editor for web projects. A *workspace* is a tree of
documents with a route manifest and settings. Editors change it by
*operations* (lists of reversible commands). An operation is applied at once in
the browser tab, persisted in an outbox in IndexedDB, sent to the Go backend, and
committed there in one PostgreSQL transaction. Projects are previewed, tested
and built by *executions*; remote ones are queued in PostgreSQL by a control
plane and run by worker processes. Plugins run in sandboxes behind a message
protocol. AI agents plan changes that end up as the same operations.

### Components

| Component | State | Operations | What makes it correct |
|---|---|---|---|
| Commit endpoint (`apps/backend/internal/modules/workspace/store_operation_commit*.go`, `store_settings_commit.go`, `operation_commit_*.go`) | workspace row with three counters, documents with two counters each, route row, operation log | commit an operation, commit settings, answer a repeated commit | one log record per commit id; a repeated request gets the stored answer; nothing is applied to a state other than the one its expected revisions describe; counters move exactly with values and stay JSON-safe |
| Commit planner and history replay (`packages/workspace-sync/src/workspaceOperationCommit*.ts`, `packages/workspace/src/workspaceHistoryReplay.ts`) | none (pure) | write set and expected vector of an operation; undo | agrees with the server's own analysis; undo restores |
| Causal outbox (`packages/workspace-sync/src/workspaceOutbox.ts`, `apps/web/src/editor/workspaceSync/indexedDbCausalOutboxStore.ts`) | entries with sequence, state, lease, attempts | enqueue, claim, wait, block, fail, requeue, remove, replace | only the head is sent; only the lease holder changes a claimed entry |
| Sync executor, recovery, replica (`workspaceOutboxExecutor.ts`, `workspaceRevisionRecovery.ts`, `workspaceLocalReplica.ts`, `acknowledgedEntrySettlement.ts`, `workspaceVfsOutboxExecutor.ts`, `workspaceConflictResolutionExecutor.ts`) | executions in memory, replica in IndexedDB, view of each tab | send, retry, rebase, ask the user, settle, open a workspace | each edit commits once and in order, none is forgotten, nobody's unseen value is overwritten, the replica is a server state, every edit leaves the outbox |
| Remote control plane and repository (`packages/runtime-remote/src/remoteExecutionControlPlane.ts`, `packages/runtime-remote-postgres/src/postgresExecutionRepository.ts`, `apps/remote-runner-control-plane`) | executions with status, events, artifacts, lease, attempts | create, cancel, claim, renew, transition, event, artifact | a request id names one execution; quota; fencing of stale workers; final ends; every execution ends |
| Worker agent (`apps/remote-runner-worker/src/workerAgent.ts`) | the claim it works on | poll, start, heartbeat, publish, upload, finish | never reports in the name of another attempt; success only with all outputs |
| Settings outbox (`workspaceSettingsOutbox*.ts`) | one more outbox, interleaved with the first | enqueue, send | order between settings and operations — *not modelled yet* |
| Three-way merge (`workspaceThreeWay.ts`) | none (pure) | merge | never decides a true conflict — *only per field* |
| Remote execution client, terminal broker, regional recovery | cursors, sessions, region authority | poll, resume, fail over | *not modelled yet* |
| Plugin protocol endpoint (`packages/plugin-protocol/src/session/protocolEndpoint.ts`) | sequence numbers, pending and closed requests, running handlers | request, answer, cancel, time out, close | an answer reaches its own question; late answers are harmless; no honest session ends by its own bookkeeping; withdrawn work stops |
| Plugin host (`packages/plugin-host`) | plugin records, contributions | activate, deactivate, grant | no contribution of a dead plugin — *not modelled yet* |
| Data gateway and server-function replay (`apps/backend/internal/modules/remoteexecution/data_gateway*.go`, `server_function_mutation_store.go`) | replay rows | claim, send, complete, release, fence | an external request is repeated only with an idempotency key and after a retryable outcome; answers agree; no claim stays open |
| Agent runs (`packages/ai/src/control`, `packages/ai/src/usage`, `apps/agent-runtime`, `apps/backend/internal/modules/agent`) | run facts, lease, dispatch rows, commands, task outputs, a journal per worker | create, start, claim, reserve, dispatch, settle, publish, recover, cancel | a cancellation is final; a success rests on its own paid answer; the model is asked within the budget; old operations are fenced; every run ends |
| Everything else (editors' models, compiler, UI, auth, CRUD modules, verification, assets) | – | – | see section 8 |

### Interactions

* Tab → outbox: the entry is persisted *before* the edit is applied to what the
  tab shows; if applying fails it is removed again.
* Outbox → server: one HTTP request per claim of the head. The request carries
  the commit id, the commands and the revisions its author relied on. The
  server answers with the new revisions (also for a repeated id), 409 (a revision
  is stale) or 422 (the operation does not fit).
* Server → replica: the answer is merged into the snapshot the entry was planned
  on, or the whole snapshot is read again when other commits came in between;
  replica and acknowledged id are written together, then the entry is removed.
* Tabs share outbox and replica through IndexedDB; there is no lock but the
  lease in an entry, which expires.
* Client → control plane: start requests with a request id, cancellations.
* Worker → control plane: claims, heartbeats and calls under a lease token.
* Preview → data gateway → a foreign server: one row per invocation decides what a
  repeated request gets.
* Host ↔ sandbox: two symmetric endpoints on a port that delivers in order.
* Agent worker → backend: guarded transitions under a lease; user → backend: cancel
  commands bound to the facts the user saw, which the worker finds at its next poll.

### Hard behaviours

Requests are lost, delayed and repeated; tabs and workers disappear at any
point; leases expire under an execution that is merely slow; two transactions
wait for each other's row lock with half of their reads done; counters restart
when a document is removed and restored; several devices write at once; whether a
model or a foreign server was asked cannot be known after a crash. The list
with the line where each bites is `hazards` in `PROJECT.json`.

## 2. The modules

| Module | Models | State | Actions |
|---|---|---|---|
| `CommitKernel` | analysis, application and validation of an operation; counters | – (operators) | – |
| `CommitPlanner` (extends it) | the client's planner; undo | – | – |
| `CommitLog` | abstract: an append-only log, and the answers it allows | `log`, `answered` | commit, answer |
| `WorkspaceCommit` (extends the planner, instantiates `CommitLog`) | the commit transactions | `db`, `handlers`, `requests`, `answers`, `snapshots` (history) | `IssueOperation/Undo/Settings`, `BeginCommit`, `Replay`, `CommitOperation`, `CommitSettings`, `Abort` |
| `WorkspaceCommit_proofs` | theorems about it: types, the log, the structure | | |
| `CommitPlanner_proofs` | lemmas about the kernel and the planner | | |
| `CommitHistory_proofs` (extends both) | theorems about the commit transactions over their history; the refinement | | |
| `CausalOutbox` | the outbox store, as operators on a store | – | – |
| `WorkspaceSync` (extends it) | tabs, executions, replica, network, and the server as content edits see it | `history`, `log`, `stray`, `store`, `replica`, `workers`, `views`, `intents` (history), `faults` | edits, claim to removal, rebase, conflicts, timers, reviews, crashes |
| `WorkspaceSync_proofs` | theorems about it | | |
| `ExecutionStatus` | the statuses of a job and the ways between them | – | – |
| `ExecutionJob` (extends it) | the controller of one job in `runtime-core`; abstract for remote executions | `status`, `history` | `PublishInitialState`, `Transition`, `PublishEvent` |
| `ExecutionRepository` (extends `ExecutionStatus`) | the rows of remote executions, as operators on a row | – | – |
| `RemoteExecution` (extends the repository, instantiates `ExecutionJob`) | control plane, workers, delayed calls | `executions`, `handlers`, `workers`, `stray`, `answers` (history), `faults` | create in two steps, cancel, claim, a worker's calls, lost workers, leases |
| `RemoteExecution_proofs` | theorems about it | | |
| `PluginProtocol` | two endpoints and their port | `ends`, `wire`, `results`, `closings` (history), `faults` | `Request`, `Withdraw`, `Receive`, `Handled`, `Close`, and their failures |
| `PluginProtocol_proofs` | theorems about it | | |
| `MutationReplay` | data mutations and server function mutations of one execution | `rows`, `handlers`, `sent`, `answers`, `lost` (history), `calls`, `cells`, `requests`, `faults` | `Arrive`, `Claim`, `Send`, `Hear`, `Complete`, `Release`, `Fence`, `Crash`, `ApplyStateMutation` |
| `MutationReplay_proofs` | theorems about it | | |
| `AgentRunControl` | the facts of a run, its events, and the projection of its operations, as operators | – | – |
| `AgentRuns` (extends it) | one agent task: backend, workers, a cancelling user | `run`, `rows`, `lease`, `commands`, `consumed`, `outputs`, `local`, `journal`, `invoked` (history), `faults` | one per call of the worker, from `Poll` to `Complete`, `Recover` and `End`; `StoreCommand`, `ExpireLease`, `Abandon` |
| `AgentRuns_proofs` | theorems about it | | |
| `MC*` | finite instances | | |

### How the code became actions

**WorkspaceCommit.** A transaction is two steps, because the code is:
`lockWorkspaceCommitSnapshot` takes a statement snapshot, waits for the row
lock, and continues with the locked workspace row but the *joined route row of
the snapshot* (PostgreSQL re-reads only the locked table). `BeginCommit`
therefore records the manifest, and everything after the lock is one action:
look-up of the commit id, documents under lock, comparison of the expected
vector, application and reversal of every command, validation, computed changes,
capacity, persistence and log record. `Abort` is any failure before COMMIT.
Clients plan from any committed snapshot (`snapshots`), so every staleness and
every reordering of requests is reachable; a request stays in `requests` for ever,
so it may be delivered any number of times.

A document's content is a function from fields to values; the tree is a value;
a manifest is a set of documents. A JSON patch is the field it replaces. These
are the distinctions the revision logic makes. An operation is a sequence of
commands of the shapes the editors produce (`Shapes`).

**WorkspaceSync.** An execution is a program counter: `waiting` for the answer,
`acked`, `stale` (409), `refused` (422), `merging`, `replaced`, `settling`,
`removing`. Each await of the code between two of these is a point where other
actors act. Losing an answer, closing the page, a late lease, a failed write of
the replica and a 422 after a wait for the row lock count against
`MaxFaults`. A request whose sender is gone stays deliverable in `stray`. An edit
(`intents`) is identified by its number; when a rebase or a review replaces its
operation, the entry id gets the next `try`. A tab opens the conflict at the head
(`OpenReview`) and keeps it in memory until the user answers; `KeepLocal` and
`KeepRemote` look the blocked entry up again, as `persistInitialEntry` and
`releaseResolvedSourceEntry` do, and may find it gone.

**RemoteExecution.** Every call of a worker is one action, since it is one
transaction: lease check, status check, idempotence, budget and append. Each
claim makes a fresh token, modelled by the attempt number. Time is the flag
`expired` of a lease: a renewed lease is one that has not expired, and an expired
one cannot be renewed. `FOR UPDATE SKIP LOCKED` may pass over any row that
another transaction holds, so a claim takes any claimable row. One poll
publishes one log event and one artifact. The handler refuses a body with fields its
endpoint does not list (`Served`); what the worker's client sends besides those is the
constant `ClientAdds`: nothing, or `executionId` as the HTTP client does (finding 4).

**PluginProtocol.** A message id is its sender's sequence number, as in
`nextEnvelope`. A request is pending before it is sent, so `Request` is one action
whether or not the port throws; timer and abort signal are `Withdraw`. `Receive`
handles one message with everything `receive` does synchronously; a handler's
return is an action of its own (`Handled`), since it is awaited. What a request
asks is its number, and an answer names the question its handler was given.

**MutationReplay.** `Invoke` is a program counter of a handler: the claim (a
transaction under an advisory lock), the upstream request, what is heard of it
(`ok`, retryable, final, nothing), and then completion, release or the deferred
fence. Every database call may commit and still answer with an error. A server
function mutation is one transaction.

**AgentRuns.** A worker computes the next facts from its copy (`local[w].view`), and
the backend stores them if its facts are still the ones the worker started from
(`Transition`): reducer and validator share one operator per event. Facts
never repeat, so equality stands for the comparison of cursor and digest. An
answer may be lost after its effect (`Answered`). A lease that has expired is no
lease, and the id a worker gives a lease is the generation, from which the code
derives it. The heartbeat appears as what it does when it fails (`Abandon`), and as
the reason why a lease in use does not expire without a fault.

## 3. Properties and runs

Bounds are named constants. Every property has a mutant of the mapped code that
breaks it (`mutants` in `PROJECT.json`; the mutated forms stand before the
definitions they replace).

### Commit endpoint

| Run | Bounds | Shows |
|---|---|---|
| `ServerCommits` | 2 documents, 1 field, 2 values, 3 paths, 2 requests of any shape, 2 handlers, counters to 3 | `ValidWorkspace`, `OneRecordPerCommit`, `GuardedStructureIsBaseline`, `PlannerAgreesWithServer`, `CountersFollowValues`, refinement `ImplementsCommitLog` |
| `RecreatedDocuments` | edit, remove, undo; 2 fields of 3 values; 4 requests, 1 handler; counters end at 5, and a document starts at 1 or, as in an import, one edit before the limit | `TypeOK`, `ContentIsBaselineUnlessRecreated`, `OverwrittenValuesWereSeen`, `ConflictIsFinal` |

Two interleaved transactions with two requests are enough for every race of
the row lock (a third transaction only waits longer); the repetition of revision
numbers needs an edit, the removal, its undo and the late edit on the document that
has come back, hence four requests and counters that allow four commits, and
one handler since the row lock serialises them. The document that starts near the limit
meets it with its second edit. Two fields let an edit fit a
document another field of which has changed, three values tell a restored value from
one that was never there. Three paths let a rename and an
addition meet or avoid each other.

### Outbox

| Run | Bounds | Shows |
|---|---|---|
| `OutboxTabs` | 2 tabs, 2 documents, 2 edits, 1 taken back, 1 remote commit (a new value or an undo), reviews open in both tabs; no fault | `OverwritesOnlySeen`, `ReplicaIsCommittedUnlessTakenBack` |
| `OutboxSettles` | fair; 1 tab, 2 executions, 2 edits of one cell, 1 remote commit of another value, 1 fault | `CommittedOnceInOrder`, `OverwritesOnlySeen`, `NothingForgotten`, `AcknowledgedStaysVisible`, `LeaseHolderOnly`, `SettledUnlessReverted` |
| `ReplicaCanonical` | | finding 1 |

The two runs divide the work: two tabs make the states the replica can be put
together from, and the reviews that are answered twice; two executions and a fault
make leases change hands and answers arrive late. `RemoteVals` says which
values other devices write: one of their own, which conflicts with an edit of the
same cell, and in `OutboxTabs` the initial one, which undoes it.

`MaxRebases` (2 in the code) is 1 in `OutboxSettles`, where a rebase and the
commit of the entry that replaces it race with the leases, and 0 in
`OutboxTabs`, where the bound is reached and the entry is left to the timer: a
second rebase in one execution would take another commit of another device.
`MaxAttempts` is 2 where the code settles at 3: the last attempt differs from
the others, more of the same kind do not.

### Remote executions

| Run | Bounds | Shows |
|---|---|---|
| `RemoteAttempts` | 1 request id, 2 identity keys, 2 handlers, 2 workers, 2 attempts, 1 cancellation (repeated and late), 3 faults, budget 6 events (it runs out); fair; a client whose bodies are accepted | `RequestsAreIdempotent`, `AttemptsInOrder`, `SuccessIsComplete`, `RecoveryIsValid`, refinement `ImplementsExecutionJob`, and the liveness property `EveryExecutionEnds` |
| `UploadRetry` | 2 workers, 2 attempts, 1 fault | finding 2 |
| `WorkerBodies` | 1 worker, no fault; the bodies the HTTP client sends | finding 4 |

Two attempts make one that is taken over and one nobody takes over; two workers suffice
since a worker may also take over from itself (and then only the token tells its calls
apart). Two keys and two handlers let equal and conflicting start requests of one id
pass the unlocked look-up together; what differs between two ids is the quota, which
one execution does not reach. A refused body ends an attempt as a lost worker does, so
with two attempts all that can happen with the HTTP client and one further fault is among
what `RemoteAttempts` allows with its three: its properties hold of that client too,
most of them because the client gets no further, and the same run with
`ClientAdds <- WholeRequest` passes too. The theorems hold for any `ClientAdds`.
Deadlock is not checked in these runs: the system stops when
every execution has ended and nobody asks for another one.

### Plugin session

| Run | Bounds | Shows |
|---|---|---|
| `PluginSession` | fair delivery; the host asks twice, the runtime once; 1 remembered closed request; 4 messages in a session; 1 fault | `OwnQuestion`, `NoSequenceViolation`, `LateAnswerIsHarmless`, `AbandonedWorkStops` |

With a memory of one the second withdrawal forgets the first, which the code's
memory of thousands does after as many; two requests, their cancellations and an
answer use up a session of four messages. `LateAnswerIsHarmless` has exactly the
exception the bounded memory forces.

### Mutation replay

| Run | Bounds | Shows |
|---|---|---|
| `MutationReplays` | fair; 2 handlers, 2 invocations (one with an idempotency key and 3 attempts, one with neither), 1 replay row, 2 inputs, 2 server function calls on one cell, 4 requests, 2 faults | `SentAgainOnlyAfterRetryable`, `AnswersAgree`, `RevisionsCountCalls`, `SettledRowsStay`, `EveryClaimIsResolved` |

Three attempts make a first, a middle and a last one. One row makes two first claims
compete for the last place. `EveryClaimIsResolved` excludes the claims whose handler
crashed or lost the database: those rows stay pending, which is what keeps
their effect from being repeated.

### Agent runs

| Run | Bounds | Shows |
|---|---|---|
| `AgentRuns` | 2 workers, 2 model invocations, 2 faults, cancel commands at any time; a refused renewal is answered as the worker expects | `OldOperationsAreFenced`, `CancelIsFinal`, `SuccessIsItsOwn`, `InvocationsWithinBudget`, `ChargedBeforeGoingOn` |
| `AgentRunsStall` | fair; the same bounds; a refused renewal is answered as the backend does | finding 3 |

Two invocations let the budget suffice once after a recovery and run out the
next time. Two faults make a crash inside the recovery from another one.
The backend gives no lease to a worker at all (finding 3), so with its answer the safety
of what follows would be checked of nothing; `AgentRuns` therefore takes the answer the
worker expects, which adds behaviours and removes none. It says nothing of liveness:
that a run ends is stated as `EveryRunEnds` and is false of the code.
`EveryRunEnds` has an exception, `OldAnswerKept`: the journal of a worker
(`fileJournal.ts`) is keyed by the run and immutable, so a worker that
keeps the answer of a generation another one has given up can neither publish
it nor write the next one; if only this worker gets the lease again, the run
stays where it is.

Names of one kind (handlers, commit ids, workers, tabs, requests) are symmetric
in the runs without fairness; the runs with fairness use no symmetry.

### Fairness

`WorkspaceSync!Fairness`: executions go on once they hold an entry (an async
function continues), the outbox is drained again and again
(`WorkspaceOutboxEffects.tsx` re-runs on a timer and on every change), timers
fire, tabs open the conflict at the head and the user answers a review that is opened
again and again (a reload closes it, hence `SF`), and an edit that failed is taken back.
Edits, remote commits and faults need not happen. Without answered reviews a
conflict blocks the outbox for ever, which is the design.

`RemoteExecution!Fairness`: workers poll (`apps/remote-runner-worker/src/main.ts`
loops for ever, and swallows what a poll throws), a worker goes on with what it has
claimed (the sandbox has a timeout), and a lease nobody renews expires.

`PluginProtocol!FairSpec`: the port delivers to an open endpoint. Handlers and callers
may do nothing for ever.

`MutationReplay!FairSpec`: a request that has arrived is worked on (the transport has
a timeout), unless its handler crashes.

`AgentRuns!Fairness`: workers poll (`consumer.ts` loops) and go on, a lease nobody
renews expires. Users need not do anything.

## 4. Findings

Each is a run that TLC ends with a counterexample, against a sentence of the
repository's documentation (quoted in `findings` of `PROJECT.json`).

1. `ReplicaCanonical`. Taking back an edit removes its entry without a lease and
   without telling other tabs. A tab that has already replayed it makes its next
   edit on that base; when this commits, the replica keeps a content no server
   state had, until the next full read.
2. `UploadRetry`. Artifacts carry an absolute expiry, so the same artifact
   uploaded by the next attempt is another descriptor and is refused; an execution
   whose worker is lost between upload and last transition cannot succeed any
   more. This is between agent and repository, for a client whose calls get through;
   the HTTP client fails earlier (finding 4).
3. `AgentRunsStall`. A worker that finds a run listed first renews the lease it may
   have, and claims the lease only if the answer is 404 or 409
   (`apps/agent-runtime/src/consumer.ts:377`). The backend refuses the renewal of a
   lease that is not there or has expired with `ErrUnauthorized`
   (`repository_transition.go:323`), which is 403 (`handler.go:247`). So the worker
   stops, at every poll, and a run that was started never gets its lease.
   `apps/agent-runtime/README.md:18` promises that even an unbound
   configuration "deliberately creates a durable blocked result". The tests let every
   renewal succeed (`consumer.test.ts:75`). The constant
   `RefusalIsConflict` states the difference: the run `AgentRuns` takes the answer the
   worker expects, the safety theorems hold for either.
4. `WorkerBodies`. The HTTP client of the worker posts its whole request, with
   `executionId`, to the endpoints for snapshots, transitions and events
   (`httpControlPlaneClient.ts:179`, `:193`, `:243`); their handler refuses every field
   it does not list (`record`, `httpHandler.ts:189`; `:572`, `:621`, `:828`). So a worker
   that has claimed an execution is answered 400 for its snapshot, throws, and leaves
   its lease to expire, and the execution ends with `worker-recovery-exhausted`.
   `apps/remote-runner-worker/README.md:3` promises that it "fetches the exact
   lease-fenced snapshot". Claims, renewals and artifacts are sent as the handler
   expects them. The client's tests stub `fetch`, and the handler's do not use the client.

Met on the way, explained by the models but without a run of their own:

* An edit that waited for the row lock while a routed document was removed validates
  the old manifest against the new documents (`WorkspaceCommit!BeginCommit`) and is
  refused with 422, although it conflicts with nothing; the client does not retry 422.
* A committed but unacknowledged edit is replayed onto a snapshot in which another
  device has already undone it. The next edit on this base commits, but its answer
  looks wrong to the client, and the entry fails for ever. This is why
  `SettledUnlessReverted` and `ReplicaIsCommittedUnlessTakenBack` exclude such undos.
* Two tabs may have the same conflict open. The second answer does not find the
  blocked entry any more and is enqueued at the end: an edit that was discarded in
  one tab comes back, and is sent behind later edits. It is planned on the snapshot
  that was reviewed, so nothing unseen is overwritten (`OverwritesOnlySeen`), but
  `CommittedOnceInOrder` is a property of one tab only, and is checked with one.
* `apps/agent-runtime/README.md:107` says that a worker "never claims a new generation
  to redispatch an uncertain model call". Recovery stores its events one by one;
  a crash after the new generation has started and before the run is ended leaves a
  run in `preparing`, and the next worker asks the model again. It does so within
  the budget and in a generation of its own (`InvocationsWithinBudget`), with the
  first call charged (`ChargedBeforeGoingOn`).

The models also show how far the counters of the server carry. After edit, remove,
undo a document is back at revision 1 with other content, so an edit planned on the
first revision 1 is accepted on it, although rule 3 of
`specs/decisions/36.atomic-workspace-operation-commit.md` says that equal revisions
mean the confirmed baseline. `ContentIsBaselineUnlessRecreated` has this exception.
What still holds is `OverwrittenValuesWereSeen`: the reverse operations must restore
the content, so no *value* is overwritten unseen.

## 5. Proofs

Theorems hold for every value of the constants that satisfies the assumptions of the
modules: any number of documents, values, tabs, workers, handlers, requests and
faults. They are conjuncts of inductive invariants, which TLC has checked on the
runs of the module as far as they are enumerable there.

### The commit endpoint

`WorkspaceCommit_proofs`:

* `TypeCorrect`: `Spec => []TypeOK`;
* `ExactlyOnce`: `Spec => []OneRecordPerCommit`;
* `NoLostStructure`: `Spec => []GuardedStructureIsBaseline`.

Neither of the last two is inductive. The invariant `IInv` adds

* `DbShape`, `HistoryOK`: the shape of the database and of the history of
  snapshots: snapshot *n* is the state with opSeq *n*, the last one is the present;
* `PlannedOnHistory`: every request was planned on a snapshot and carries its
  revisions, since planners only read committed states;
* `HandlersOK`: the operation request a waiting handler holds has passed the
  analysis (`WellFormed`), which ties the partitions it may write to its vector;
* `StructureFollowsRevision`: the workspace revision never falls, and two snapshots
  with the same one have the same structure. This is the heart of the matter: a
  request that passes the comparison of the workspace revision is applied to the
  structure of its base. A commit preserves it because it writes the manifest
  only together with a new workspace revision, also when the manifest its handler
  had read before the lock was an old one.

`CommitPlanner_proofs` has the lemmas about the operators: what a list of commands
does to a state, and that the vector a client plans is the one the server derives.
The states of an operation are a recursive function of the number of commands
applied. No prover can instantiate the library's induction theorems, so what would
be an induction is an argument about the least number of commands after which the
claim would fail, from the well-foundedness of the natural numbers
(`LeastNumber`).

`CommitHistory_proofs`, on top of both, relates a snapshot to a later one:

* `CommitsAreValid` (`ValidWorkspace`), `VectorsAgree` (`PlannerAgreesWithServer`),
  `NoLostContent` (`ContentIsBaselineUnlessRecreated`),
  `NothingUnseenIsOverwritten` (`OverwrittenValuesWereSeen`), `RefusalsAreFinal`
  (`ConflictIsFinal`), `CountersAreExact` (the action property `CountersFollowValues`);
* `Refinement`: `Spec => ImplementsCommitLog`, that is, `Log!Spec`: initial
  states map to initial states, and every step to a commit, an answer or a stutter.

Its invariant `HInv` adds to `IInv`

* `RequestsOK`: what a request says of its base;
* `RoutesOK`: the manifest a waiting handler has read is one the workspace had
  since the request was planned. With `StructureFollowsRevision` it is the present
  one if the workspace revision has passed, and the validation of anything else is
  of a valid combination: hence `ValidWorkspace`;
* `ContentFollowsCounter`: between two snapshots in which a document was not
  removed, its content counter rises, and tells its content;
* `CountersFollowStructure`: while the workspace revision stays, so do the counters
  of what it guards. So a precondition that has failed once fails for ever;
* `RecordsOK`, `ConflictsOK`: what was true when a request was committed, or
  refused, is kept with the position in the history at which it was.

### The outbox

`WorkspaceSync_proofs`, for any number of tabs, executions, rebases, edits and
faults:

* `NothingUnseenIsOverwritten` (`OverwritesOnlySeen`), `NoEditIsForgotten`
  (`NothingForgotten`), `AcknowledgedIsVisible` (`AcknowledgedStaysVisible`),
  `LeaseProtects` (the action property `LeaseHolderOnly`);
* `EditsCommitInOrder`: `CommittedOnceInOrder`, if there is one tab (`SingleTab`);
  with two it is false, see section 4;
* `ReplicaIsConfirmed`: `ReplicaIsCommittedUnlessTakenBack`.

The invariant (`Invariant`: `Spec => []IInv`) has these parts:

* `TypeOK`, `NamesOK`, `SeqsOK`: types; ids that anything names belong to edits that
  were made and are finitely many, so `Fresh` is fresh;
* `HistoryOK`, `LogOK`: a commit advances one revision; a commit id commits once;
* `CarriedOK`: whatever carries a request of one id – the entry, an execution, a
  delayed call – carries the same request, and no revision is ahead of the server;
* `StoreOK`, `WorkersOK`, `ViewsOK`, `ReplicaOK`: everything that is kept was planned
  on a snapshot with the revisions of a state of the server (`Dated`), overwrites a
  value its author has seen (`Serves`), and what an execution believes of its entry
  is so: acknowledged means committed, settling means done;
* `NothingForgotten` itself.

The notion that carries the proof is `Dead`: nothing of this id has committed, and
all that could still be delivered under it is behind the revision of its document.
Revisions do not fall, so a dead id stays dead (`DeadStays`), and a rebase
or a review may replace its entry without the edit being committed twice. What
a tab shows is the replay of the outbox; it is a recursive function, unfolded
as above (`MaterializedFacts`).

The order of commits needs more (`Order`): entries of edits that were not taken back
are in the order of the edits, one for each, and after what has committed; a request
that is out is over (committed or dead) or belongs to the first entry; and what a
tab has in review is still blocked. Only this last one needs the single tab. A
lemma per action shows what it may do to the order (`KeepsOrder`), and
`OrderStep` that this preserves it.

That the replica is a state of the server is about `Confirm`: after an acknowledgement
without a gap the execution does not fetch a snapshot, it puts the acknowledged
document into the optimistic base of its entry. This is right only if everything else
in that base had been committed when it was sent. The base may show edits of
entries in front that were not, and an edit of another device may have overwritten
them since. The theorem says that the comparison with the expected document
(`AsExpected`) and the order of the outbox are enough, unless somebody takes something
back (`NothingTakenBack`): a rejected edit stays in bases that were planned on it
(finding 1), and so does a committed value that another device has undone.
`TakenBackStays` shows that the condition is about the past, so `Faithful` is assumed
before a step whenever it is claimed after it:

* `Understood(s, B)`: each cell of a base or a view shows what the server held there
  at some time, or what an entry before place `B` writes (`Known`), and a snapshot
  that is neither old nor the server's is explained by an entry before `B` that is
  still `Open`: the server still holds the value it overwrites (`Explained`). So the
  base of the first entry of the outbox (`Leads`) is the state of the server or older
  (`FirstBase`), and what its operation overwrites has been in its cell (`FromHeld`);
* what no longer fits the server does not fit again (`ClosedStays`): the cell would have
  to get a value back that it held before. So an entry that is committed, blocked or
  being settled explains nothing any more, and its removal leaves nothing unexplained;
* `Confirmable`: a commit that follows the base of its entry was committed on just that
  base. With `Chained` (a commit changes its own document only) it follows that what
  `Confirm` puts together is `history[opSeq]` (`ConfirmedIsState`);
* `SentLeads`, `PlacesDistinct`: what may still be delivered belongs to the first entry or
  will not commit, and no two entries have the same place.

`Turn(x)` is what a step may do to all this, a lemma per action shows that it does
no more, and `FaithfulStep` that a turn keeps `Faithful`. A view is followed through the
replay of the outbox (`MaterializedUnderstood`) as its types were.

### Remote executions

`RemoteExecution_proofs`: `StartIsIdempotent` (`RequestsAreIdempotent`),
`TakenOverIsSilent` (`AttemptsInOrder`), `SuccessHasItsEvents` (`SuccessIsComplete`),
`FirstAttemptStarts` (`RecoveryIsValid`), and three that no run checks by themselves:
nothing is logged after the end of an execution (`EndIsLast`), stored events keep their
cursors (`EventsKeepTheirCursors`), and an execution that has ended does not change
(`EndedIsEnded`). The invariant is
about the rows (`RowsOK`: the log is in the order of attempts, ends once, agrees with
status and lease), the start requests (`RequestsOK`, `HandlersOK`), and what workers
and delayed calls carry (`WorkersOK`, `StrayOK`): an attempt is never ahead
of its row, and a success is reported only when the events of its attempt are stored.

`executionJob.ts` says that "state transition, event ordering, replay, and terminal
settlement therefore remain identical for browser and remote providers". For the
remote ones that is a refinement: `ExecutionJob` is the controller that the browser
provider runs, `Job(id)` maps a row to it (an execution without a row is a job that
has not published its initial state; attempts, leases and cancellation ids do not
show), and `RemoteExecutionIsAJob` proves `Spec => Job(id)!Spec` for every `id`.
`ImplementsExecutionJob` is the same with the quantifier inside, since TLC checks no
quantifier over specifications; `RemoteRefinement` proves it. The argument:
`JobGoesOn(x, y)` is what a job's controller allows, one lemma per transaction shows
that the repository does no more (`CancelledGoesOn`, `ClaimedGoesOn`, `ExhaustedGoesOn`,
`AcceptedGoesOn`), `NextGoesOn` carries this through the steps, where one claim may move
several rows, and `JobStep` through the mapping. That an accepted event never follows
the end needs the invariant: what has ended is nobody's (`GoodLease`). `Published`, that
every row has its first event, is the only addition.

### Plugin session

`PluginProtocol_proofs`, for any number of requests, messages and faults, and any size of
the memory: `AnswersAreOwn` (`OwnQuestion`), `SequencesAgree` (`NoSequenceViolation`),
`LateAnswersAreKnown` (`LateAnswerIsHarmless`). What is true of one side is a `Side(e)` of
the invariant:

* `WireOK`: the numbers on the way to an open endpoint follow the last one it read, with
  no gap. A message that cannot be encoded takes no number, one that cannot be sent ends
  the session of its sender;
* `AliveSide`: a request that is on its way, worked on or answered (`Alive`) is the one its
  author has pending under that id, or the author has withdrawn it and remembers no
  completion under it. An id is used twice only if nothing was sent under it;
* `OnceOK`, `CancelOK`: a request is answered once, when its handler is done, and what is
  cancelled is not pending;
* `InOrder`: the memory holds the ids closed last, in the order of their last closings. An
  id it has forgotten was closed before all it holds, and it is full.

The answer that ends a session over its correlation was alive, so its id was closed;
being forgotten, it is older than all `MaxClosed` distinct ids remembered: an injection of
the memory into the ids closed since.

### Mutation replay

`MutationReplay_proofs`: `NoDoubtfulRepeat` (`SentAgainOnlyAfterRetryable`),
`OneAnswerEach` (`AnswersAgree`), `EffectsAreRecorded` (`RevisionsCountCalls`),
`SettledForGood` (`SettledRowsStay`). The invariant: a request was sent under a claim,
once in its attempt, and what was sent in an earlier one was heard to fail
retryably (`SentOK`); no two handlers hold a claim of the same attempt, and the row
of a claim is pending (`HandlersOK`); rows and answers agree for good (`RowsOK`,
`AnswersOK`). The row of a handler that crashed stays pending, and a pending
row is not claimed again.

### Agent runs

`AgentRuns_proofs`, for either value of `RefusalIsConflict`:

* `CancellationIsFinal`: `Spec => []CancelIsFinal`;
* `OldAreFenced`: `Spec => []OldOperationsAreFenced`;
* `BudgetIsKept`: `Spec => []InvocationsWithinBudget`;
* `SuccessHasItsAnswer`: `Spec => []SuccessIsItsOwn`;
* `RecoveryHasCharged`: `Spec => ChargedBeforeGoingOn`.

Its `IInv` says, beside the types (`RunOK`, `LocalOK`), that

* `CommandsOK`: a command is bound to the present facts, or it is the one behind the
  cancellation in progress. Nothing else is possible, because no transition under a
  lease is stored while a command for the present facts waits;
* `RowsOK`: rows of generations left behind are fenced, and a started operation has a row;
* `ReservedOK`: a worker between its reservation and its operation has the
  reservation in its copy;
* `AskingOK`, `InvokedOK`: every generation in which the model was asked is paid for
  and its operation was claimed before (`Taken`), a worker about to ask is the only
  one in its generation, and has not asked yet. The row is what makes it so: it is
  `ready` once and claimed by one worker.

The last two need a second invariant on top of it, `OwnInv`, proved from `IInv` before and
after the step: an operation belongs to the generation it was started in and is paid
for, and a run that is only queued has reserved nothing (`OwnFacts`); the row of a
settled operation says so (`RowSettled`); a worker between its journal and the end of
the run has seen the operation of its own generation settle, publishes what its journal
holds of that generation, and completes only what is published (`AnswerOK`). The
generation is what carries the argument over a takeover: a journal keeps an older
answer, but `Resume` compares its generation with the run's.

The events come first: one lemma each that it leads from good facts to good facts and
forgets nothing that was paid for (`Follows`). Then what storing facts does to the rows
(`ProjectedRows`, `StoreStep`), then a lemma per step of a worker. The budget follows
because `invoked` is injective into the set of paid generations, whose size is bounded.

### Assumptions

TLC evaluates them in every run.

| Assumption | Says | Because |
|---|---|---|
| `MaxRevAssumption`, `SeedsAssumption` | there is a counter; the workspaces a project is created with are valid | they pass the server's own validation |
| `ShapesAssumption` | clients plan operations of the listed shapes | the list is that of the editors |
| `ValuesAssumption` | the initial value is a value | |
| `MaxAttemptsAssumption`, `MaxEventsAssumption` | limits are numbers, there is one attempt | configuration is validated so |
| `NobodyAssumption`, `ResultsAssumption` | "nobody" is no worker; a sandbox ends in a terminal status | types of the code |
| `MaximumAssumption`, `RetryNeedsIdempotency` | one attempt at least, more only for an idempotent invocation | `parseDataGatewayDocument` refuses other documents |
| `KindsAssumption` | data mutations and server function calls do not share ids | they have tables of their own |
| `EndsAssumption`, `LimitsAssumption`, `MaxRequestsAssumption` | a session has two ends; it remembers a request and allows a message; the bound of the model is a number | `normalizePositiveInteger` makes both limits positive |
| `MaxInvocationsAssumption`, `RefusalAssumption` | a budget has an invocation; the refusal is one of two answers | |

### Only model-checked

* Liveness under fairness and everything that needs `ENABLED`: out of the prover's reach.
* That counters stop at the limit of settings commits (`CanAdvance`) is reached by no
  run; `TypeCorrect` covers it.

Two things no run reaches: the refusal of an execution over the quota, which needs a
second request id, and the revision limits beyond the small `MaxRev`.

## 6. What the models leave out

*Server.* Authorization, size limits, request decoding, deletion of workspaces,
asset references. Redo (the construction is undo's). SQL serialization failures
are `Abort`. Workspace, route and sequence counters start at 1, as those of a created
project do; in an imported one they may start higher (`handlers.go:233`), as a document
does in `RecreatedDocuments`.

*Outbox.* `requeueFailedWorkspaceOutboxOperation` reads and writes in two
transactions, the model in one: `update` refuses an entry that is older than the
stored one, so a requeue in between makes it stale. A review whose answer failed
after it was persisted stays open and can be answered again, as a second tab's. The 128 remembered
acknowledgements are unbounded here. `updatedAt` ordering of store updates,
entries of older versions without a causal sequence, and the settings outbox. A
network that fails for ever: `MaxFaults` bounds it, so "every edit leaves the
outbox" is about finitely many failures. The server in this module commits content
edits only; that it may do so atomically is what the runs of `WorkspaceCommit` show.

*Remote executions.* Secret inspection, server authorities and functions, snapshot
storage, the terminal broker, byte budgets, artifact retention, authorization.
The clock of the control plane is one clock. Policies are the quota only. A handler
that dies between its two steps is one that never takes the second.

*Plugin session.* The handshake, payload schemas, error answers of handlers (a handler
answers or fails), events other than cancel, and timers as durations.

*Mutation replay.* Queries and streams, destination and policy checks before the claim,
the content of results. One execution; capacity is per execution in the code.

*Agent runs.* The modes propose and apply with their approvals, user commands other
than cancel, verification runs and residual cleanup; preparation of the context and
the stream of the model are one choice of outcome. Budgets in tokens and time (the
end "budget exhausted" is one of the unsuccessful ends). The expiry of a dispatch
claim is part of the lease's, which bounds it.

## 7. Plan

Done: sections 2–5, in the order server, planner, outbox, remote executions, plugin
session, mutation replay, agent runs.

Next, in order:

1. `SettingsOutbox` and its ordering with operations (`WorkspaceOutboxEffects.tsx:105`).
2. `PluginHost` on top of `PluginProtocol`: activation, permission changes and
   contribution transactions that interleave at awaits.
3. `RemoteClient`: event cursors and recovery, composed with `RemoteExecution`.
4. `AgentRuns`: proposals and their approval, recover commands, residual cleanup.
5. `ThreeWayMerge`: operators checked against a reference definition.

None of the modules has a `RECURSIVE` operator, so all of them can be proved about.

## 8. Not modelled, and why

Editors' document models, node graphs, animation, routing and the compiler are pure
transformations: they appear as the application of a command. User interfaces,
CLI, VS Code extension, docs and themes are presentation. Authentication, projects,
environments and the GitHub integration are single-table request handlers. Agent
evaluation is a benchmark pipeline. Browser runtimes and preview hosts adapt
external processes. Verification evidence, asset retention and regional recovery
have state worth modelling and come after the plan above.

## 9. Running

    tlc -workers 2 -config ServerCommits.cfg MCWorkspaceCommit.tla
    tlapm AgentRuns_proofs.tla
    tlapm CommitHistory_proofs.tla
    tlapm CommitPlanner_proofs.tla
    tlapm MutationReplay_proofs.tla
    tlapm PluginProtocol_proofs.tla
    tlapm RemoteExecution_proofs.tla
    tlapm WorkspaceCommit_proofs.tla
    tlapm WorkspaceSync_proofs.tla

Every `.cfg` belongs to the `MC` module named in `runs` of `PROJECT.json`, which
also maps each definition to the lines of source it stands for.
