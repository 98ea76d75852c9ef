--------------------------- MODULE WorkspaceCommit ---------------------------
(***************************************************************************)
(* The server side of the durable write path: one workspace in PostgreSQL   *)
(* and the transactions that commit operations and settings to it.          *)
(*                                                                          *)
(* A request is planned by some client from a snapshot it once read, may be *)
(* delivered any number of times and in any order, and stays deliverable    *)
(* for ever.  A handler is one server transaction.  Its first statement     *)
(* locks the workspace row and reads the route manifest of that statement's *)
(* snapshot; when the statement has to wait for the lock, PostgreSQL (READ  *)
(* COMMITTED) re-reads the locked row but not the joined manifest row, so   *)
(* the manifest the handler works on is the one from before the wait.       *)
(* Everything from lock to COMMIT is one step, because every writer of the  *)
(* workspace holds that row lock.                                           *)
(***************************************************************************)
EXTENDS CommitPlanner

CONSTANTS
  CommitIds,    \* operation, transaction and settings commit ids
  Handlers,     \* concurrent server transactions
  Shapes,       \* the kinds of operation clients plan, see Intents
  MaxRequests,  \* bound: how many distinct requests are ever issued
  Touched,      \* bound: the documents clients plan operations on
  Seeds         \* the workspaces a project is created with

ASSUME ShapesAssumption ==
  Shapes \subseteq {"edit", "editTwice", "rename", "renameEdit", "add", "remove", "layout",
                    "route", "settings", "undo"}

\* A new project is a valid workspace.
ASSUME SeedsAssumption ==
  \A w \in Seeds : ValidState(w) /\ w.settings \in Vals

VARIABLES
  db,        \* the workspace rows and its operation log
  handlers,  \* what each server transaction is doing
  requests,  \* requests issued so far, all of them deliverable
  answers,   \* responses the server has produced
  snapshots  \* history: snapshots[n] is the workspace at opSeq n

vars == <<db, handlers, requests, answers, snapshots>>

Idle == [phase |-> "idle"]

-----------------------------------------------------------------------------
(* What clients ask for *)

MayIssue == Cardinality(requests) < MaxRequests

Issue(r) ==
  /\ requests' = requests \cup {r}
  /\ UNCHANGED <<db, handlers, answers, snapshots>>

\* Ids are meant to be unique; a client that replays history may reuse one.
IssueOperation ==
  /\ MayIssue
  /\ \E n \in DOMAIN snapshots, shape \in Shapes \ {"settings", "undo"} :
       \E cs \in Intents(snapshots[n], shape) :
         /\ TargetDocs(cs) \subseteq Touched
         /\ Plannable(snapshots[n], cs)
         /\ \E id \in CommitIds : Issue(OperationRequest(id, snapshots[n], cs))

\* Undo of a committed operation, on any later snapshot it still fits.
IssueUndo ==
  /\ MayIssue
  /\ "undo" \in Shapes
  /\ \E n \in DOMAIN snapshots : \E m \in 1..(n - 1) :
       LET source == db.operations[m].request
           cs == Undo(source.commands)
       IN /\ source.domain = "operation"
          /\ Plannable(snapshots[n], cs)
          /\ \E id \in CommitIds : Issue(OperationRequest(id, snapshots[n], cs))

IssueSettings ==
  /\ MayIssue
  /\ "settings" \in Shapes
  /\ \E id \in CommitIds, n \in DOMAIN snapshots, v \in Vals :
       Issue(SettingsRequest(id, snapshots[n], v))

-----------------------------------------------------------------------------
(* The server transaction *)

\* The request hash covers the request, not the client's own base snapshot.
SameRequest(r, q) == [r EXCEPT !.base = 0] = [q EXCEPT !.base = 0]

\* Mutated form: the lookup misses operation commits, as if filtered by domain.
RecordsOfSettings(w, i) ==
  {rec \in Range(w.operations) : rec.id = i /\ rec.request.domain = "settings"}

\* The records of the operation log with commit id i (at most one).
Records(w, i) == {rec \in Range(w.operations) : rec.id = i}

Ok(r, mutation) == [kind |-> "ok", request |-> r, mutation |-> mutation]
Refused(r, kind) == [kind |-> kind, request |-> r]

\* Mutated form: only a metadata revision is compared.
DocumentConflictOfMetadata(w, e, q, d) ==
  IF q.absent \/ d \notin DOMAIN w.docs
  THEN q.absent = (d \in DOMAIN w.docs)
  ELSE q.meta /\ w.docs[d].metaRev # e.metaRev

(* The partition the server reports as stale: documents in id order, then   *)
(* the route, then the workspace.  Only the kind is kept here.              *)
DocumentConflict(w, e, q, d) ==
  IF q.absent \/ d \notin DOMAIN w.docs
  THEN q.absent = (d \in DOMAIN w.docs)
  ELSE \/ q.content /\ w.docs[d].contentRev # e.contentRev
       \/ q.meta /\ w.docs[d].metaRev # e.metaRev

\* Mutated form: the workspace revision is not compared.
ConflictsOfDocuments(w, r) ==
  LET req == Requirements(r.commands)
  IN \/ \E d \in DOMAIN req.docs : DocumentConflict(w, r.expected.docs[d], req.docs[d], d)
     \/ req.route /\ w.routeRev # r.expected.routeRev

Conflicts(w, r) ==
  LET req == Requirements(r.commands)
  IN \/ \E d \in DOMAIN req.docs : DocumentConflict(w, r.expected.docs[d], req.docs[d], d)
     \/ req.route /\ w.routeRev # r.expected.routeRev
     \/ req.workspace /\ w.workspaceRev # r.expected.workspaceRev

\* Every check after the preconditions; `before` holds the route the handler read.
Acceptable(w, before, r) ==
  LET after == Applied(before, r.commands)
  IN /\ ValidState(before)
     /\ EveryCommandReverses(before, r.commands)
     /\ ValidState(after)
     /\ NewDocsAreFirst(before, after)
     /\ WithinRequirements(before, after, Requirements(r.commands))
     /\ HasDurableDelta(before, after)
     /\ WithinCapacity(w, before, after)

RevisionOf(docs, d) ==
  [id |-> d, contentRev |-> docs[d].contentRev, metaRev |-> docs[d].metaRev]

\* Mutated form: the manifest that was read is written back in any case.
RouteAsRead(w, before, after) == after.route

\* Mutated form: a changed manifest is counted but not written.
RouteNotWritten(w, before, after) == w.route

\* The manifest row is written only when the operation changed the manifest.
NextRoute(w, before, after) == IF before.route # after.route THEN after.route ELSE w.route

\* The result of a commit: the counters, and the documents it wrote and removed.
MutationOf(w, updated, removed) ==
  [opSeq |-> w.opSeq, workspaceRev |-> w.workspaceRev, routeRev |-> w.routeRev,
   updated |-> updated, removed |-> removed]

\* One log record, under the commit id, with the request and its result.
Logged(w, r, mutation) ==
  [w EXCEPT !.operations =
     Append(@, [opSeq |-> w.opSeq, id |-> r.id, request |-> r, mutation |-> mutation])]

Committed(w, before, r) ==
  LET after == Applied(before, r.commands)
      ch == Changes(before, after)
      docs == NextDocs(before, after)
      next == [tree |-> after.tree, route |-> NextRoute(w, before, after), docs |-> docs,
               settings |-> w.settings, operations |-> w.operations,
               workspaceRev |-> w.workspaceRev + (IF ch.workspace THEN 1 ELSE 0),
               routeRev |-> w.routeRev + (IF ch.route THEN 1 ELSE 0),
               opSeq |-> w.opSeq + 1]
  IN Logged(next, r, MutationOf(next, {RevisionOf(docs, d) : d \in ch.write}, ch.delete))

CanAdvance(w) == w.workspaceRev < MaxRev /\ w.opSeq < MaxRev

CommittedSettings(w, r) ==
  LET next == [tree |-> w.tree, route |-> w.route, docs |-> w.docs,
               settings |-> r.settings, operations |-> w.operations,
               workspaceRev |-> w.workspaceRev + 1, routeRev |-> w.routeRev,
               opSeq |-> w.opSeq + 1]
  IN Logged(next, r, MutationOf(next, {}, {}))

Answer(h, answer) ==
  /\ answers' = answers \cup {answer}
  /\ handlers' = [handlers EXCEPT ![h] = Idle]
  /\ UNCHANGED requests

Refuse(h, answer) == Answer(h, answer) /\ UNCHANGED <<db, snapshots>>

Persist(h, w, r) ==
  /\ db' = w
  /\ snapshots' = Append(snapshots, Snapshot(w))
  /\ Answer(h, Ok(r, Last(w.operations).mutation))

\* BEGIN and the first statement, up to the lock on the workspace row.
BeginCommit(h) ==
  /\ handlers[h] = Idle
  /\ \E r \in requests :
       /\ r.domain = "operation" => WellFormed(r)
       /\ handlers' = [handlers EXCEPT
         ![h] = [phase |-> "locking", request |-> r, route |-> db.route]]
  /\ UNCHANGED <<db, requests, answers, snapshots>>

\* Mutated form: a replay reports the workspace revision of today.
ReplayedToday(w, rec) == [rec.mutation EXCEPT !.workspaceRev = w.workspaceRev]

\* The result stored with a log record, whatever the workspace w is by now.
Replayed(w, rec) == rec.mutation

\* A commit id that is already in the log: the stored result, or a refusal.
Replay(h) ==
  /\ handlers[h].phase = "locking"
  /\ LET r == handlers[h].request IN
       \E rec \in Records(db, r.id) :
         Refuse(h, IF SameRequest(rec.request, r)
                   THEN Ok(r, Replayed(db, rec)) ELSE Refused(r, "identity-mismatch"))

CommitOperation(h) ==
  /\ handlers[h].phase = "locking"
  /\ LET r == handlers[h].request
         before == [db EXCEPT !.route = handlers[h].route]
     IN /\ r.domain = "operation"
        /\ Records(db, r.id) = {}
        /\ \/ /\ Conflicts(db, r)
              /\ Refuse(h, Refused(r, "conflict"))
           \/ /\ ~Conflicts(db, r)
              /\ ~Acceptable(db, before, r)
              /\ Refuse(h, Refused(r, "invalid"))
           \/ /\ ~Conflicts(db, r)
              /\ Acceptable(db, before, r)
              /\ Persist(h, Committed(db, before, r), r)

CommitSettings(h) ==
  /\ handlers[h].phase = "locking"
  /\ LET r == handlers[h].request
     IN /\ r.domain = "settings"
        /\ Records(db, r.id) = {}
        /\ \/ /\ ~CanAdvance(db) \/ db.workspaceRev # r.expectedWorkspaceRev
              /\ Refuse(h, Refused(r, IF CanAdvance(db) THEN "conflict" ELSE "invalid"))
           \/ /\ CanAdvance(db)
              /\ db.workspaceRev = r.expectedWorkspaceRev
              /\ Persist(h, CommittedSettings(db, r), r)

\* A timeout, a lost connection or a crash before COMMIT: everything rolls back.
Abort(h) ==
  /\ handlers[h].phase = "locking"
  /\ handlers' = [handlers EXCEPT ![h] = Idle]
  /\ UNCHANGED <<db, requests, answers, snapshots>>

-----------------------------------------------------------------------------

Init ==
  /\ \E w \in Seeds :
       db = [tree |-> w.tree, route |-> w.route, docs |-> w.docs,
             settings |-> w.settings, workspaceRev |-> 1, routeRev |-> 1,
             opSeq |-> 1, operations |-> <<>>]
  /\ handlers = [h \in Handlers |-> Idle]
  /\ requests = {}
  /\ answers = {}
  /\ snapshots = <<Snapshot(db)>>

Next ==
  \/ IssueOperation
  \/ IssueUndo
  \/ IssueSettings
  \/ \E h \in Handlers : \/ BeginCommit(h)
                         \/ Replay(h)
                         \/ CommitOperation(h)
                         \/ CommitSettings(h)
                         \/ Abort(h)

Spec == Init /\ [][Next]_vars

-----------------------------------------------------------------------------
(* Properties *)

Operations == db.operations

\* The state an operation was applied to, and the one its client planned it on.
Before(rec) == snapshots[rec.opSeq - 1]
After(rec) == snapshots[rec.opSeq]
Base(rec) == snapshots[rec.request.base]

OperationRecords == {rec \in Range(Operations) : rec.request.domain = "operation"}

Workspaces ==
  [tree : Vals, route : SUBSET DocIds, settings : Vals, docs : DocumentMaps,
   workspaceRev : Rev, routeRev : Rev, opSeq : Rev]

Mutations ==
  [opSeq : Rev, workspaceRev : Rev, routeRev : Rev, removed : SUBSET DocIds,
   updated : SUBSET [id : DocIds, contentRev : Rev, metaRev : Rev]]

(* Types.  Every counter of the workspace and of each document it ever had  *)
(* is a JSON-safe positive integer, and every logged request was issued     *)
(* (revision_limits.go, the CHECK constraints of database.go).              *)
TypeOK ==
  /\ Snapshot(db) \in Workspaces
  /\ snapshots \in Seq(Workspaces)
  /\ db.operations \in Seq([opSeq : Rev, id : CommitIds, request : requests,
                            mutation : Mutations])
  /\ \A h \in Handlers : \/ handlers[h] = Idle
                         \/ /\ handlers[h].phase = "locking"
                            /\ handlers[h].request \in requests
                            /\ handlers[h].route \in SUBSET DocIds

(* What is committed passes the validation of a whole workspace - document  *)
(* paths differ, the manifest names documents that exist - although the     *)
(* manifest the server validated may be the one from before its lock wait.  *)
ValidWorkspace == ValidState(db)

(* One log record per commit: the log is as long as opSeq says, record n    *)
(* carries opSeq n + 1 and the state of that opSeq, and no commit id occurs *)
(* twice, however requests are duplicated and transactions interleave.      *)
OneRecordPerCommit ==
  /\ db.opSeq = Len(Operations) + 1
  /\ \A n \in DOMAIN Operations : /\ Operations[n].opSeq = n + 1
                                 /\ Operations[n].mutation.opSeq = n + 1
  /\ \A m, n \in DOMAIN Operations : Operations[m].id = Operations[n].id => m = n
  /\ Snapshot(db) = snapshots[db.opSeq]

\* Everything the workspace revision guards is the same in s and t.
SameStructure(s, t) ==
  /\ s.tree = t.tree
  /\ s.route = t.route
  /\ s.settings = t.settings
  /\ DOMAIN s.docs = DOMAIN t.docs
  /\ \A d \in DOMAIN t.docs : s.docs[d].meta = t.docs[d].meta

(* An operation whose vector holds the workspace revision was applied to    *)
(* exactly the tree, manifest, document set and metadata it was planned on, *)
(* although its handler may have read the manifest before waiting for the   *)
(* lock (lockWorkspaceCommitSnapshot joins the manifest row unlocked).      *)
GuardedStructureIsBaseline ==
  \A rec \in OperationRecords :
    rec.request.expected.workspaceRev # Omitted => SameStructure(Before(rec), Base(rec))

\* Document d was missing at some opSeq from m to n.
RemovedBetween(d, m, n) == \E k \in m..n : d \notin DOMAIN snapshots[k].docs

(* An operation that writes the content of a document was applied to the    *)
(* content it was planned on, unless the document was removed and put back  *)
(* in between (its counters then start again at 1).                         *)
ContentIsBaselineUnlessRecreated ==
  \A rec \in OperationRecords :
    \A c \in {x \in Range(rec.request.commands) : x.kind = "content"} :
      \/ Before(rec).docs[c.doc].content = Base(rec).docs[c.doc].content
      \/ RemovedBetween(c.doc, rec.request.base, rec.opSeq - 1)

(* The values an operation overwrites are the ones its client saw, even in  *)
(* a recreated document: the reverse operations are run on the new content  *)
(* and must restore it (applyDocumentCommand).                              *)
OverwrittenValuesWereSeen ==
  \A rec \in OperationRecords :
    LET first == Head(rec.request.commands)
    IN first.kind = "content" =>
         Before(rec).docs[first.doc].content[first.field] = first.from

(* A request answered with a conflict never commits afterwards, whichever   *)
(* duplicate of it arrives late: its client has moved on to a rebased       *)
(* operation.  The exception is again a recreated document.                 *)
ConflictIsFinal ==
  \A a \in answers, rec \in Range(Operations) :
    a.kind = "conflict" /\ SameRequest(rec.request, a.request) =>
      /\ a.request.domain = "operation"
      /\ \E c \in Range(a.request.commands) :
           /\ c.kind = "content"
           /\ RemovedBetween(c.doc, a.request.base, rec.opSeq - 1)

(* The client planner and the server analyser derive the same vector for    *)
(* every operation the editors plan: a planned request is never refused as  *)
(* malformed (collectCommandWriteSet, analyzeWorkspaceOperationRequirements). *)
PlannerAgreesWithServer ==
  \A r \in requests : r.domain = "operation" => WellFormed(r)

AdvancedWith(rev, value, before, after) ==
  after[rev] - before[rev] = IF after[value] # before[value] THEN 1 ELSE 0

(* A commit moves a counter exactly when the value of its partition moves,  *)
(* and by one, however many commands of the operation wrote to it.          *)
CountersFollowValues ==
  [][db'.opSeq # db.opSeq =>
       /\ db'.opSeq = db.opSeq + 1
       /\ AdvancedWith("routeRev", "route", db, db')
       /\ db'.workspaceRev - db.workspaceRev \in {0, 1}
       /\ \A d \in DOMAIN db.docs \cap DOMAIN db'.docs :
            /\ AdvancedWith("contentRev", "content", db.docs[d], db'.docs[d])
            /\ AdvancedWith("metaRev", "meta", db.docs[d], db'.docs[d])]_vars

(* The commit transactions implement the abstract log: exactly-once commit  *)
(* and exact replay.                                                        *)
Log == INSTANCE CommitLog WITH
  log <- Operations,
  answered <- {[request |-> a.request, mutation |-> a.mutation] :
                 a \in {x \in answers : x.kind = "ok"}}
ImplementsCommitLog == Log!Spec

=============================================================================
