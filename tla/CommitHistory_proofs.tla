------------------------- MODULE CommitHistory_proofs -------------------------
(***************************************************************************)
(* Theorems about WorkspaceCommit that need what is said of its history     *)
(* from one snapshot to a later one: the counters that have been compared,  *)
(* the manifests that handlers have read, and the requests that were        *)
(* refused.                                                                 *)
(***************************************************************************)
EXTENDS WorkspaceCommit_proofs, CommitPlanner_proofs

-----------------------------------------------------------------------------
(* The invariant of the history *)

\* The fields of the two kinds of request.
Shaped(r) ==
  /\ r.domain = "operation" => DOMAIN r = {"domain", "id", "commands", "expected", "base"}
  /\ r.domain = "settings" => DOMAIN r = {"domain", "id", "expectedWorkspaceRev", "settings", "base"}

\* What a request says of the snapshot it was planned on.
GoodRequest(r, base) ==
  /\ Shaped(r)
  /\ r.domain = "operation" =>
       /\ IsProgram(r.commands)
       /\ WellFormed(r)
       /\ r.expected = Expected(base, r.commands)
  /\ r.domain = "settings" => r.expectedWorkspaceRev = base.workspaceRev

RequestsOK == \A r \in requests : GoodRequest(r, snapshots[r.base])

\* The manifest that a handler works on is one that the workspace had since the
\* request was planned.
RoutesOK ==
  \A h \in Handlers :
    handlers[h].phase = "locking" =>
      \E k \in DOMAIN snapshots :
        handlers[h].request.base <= k /\ handlers[h].route = snapshots[k].route

\* The content of a document that was not removed is told by its counter.
ContentFollowsCounter ==
  \A m, n \in DOMAIN snapshots, d \in DocIds :
    m <= n /\ ~RemovedBetween(d, m, n) =>
      LET old == snapshots[m].docs[d]
          new == snapshots[n].docs[d]
      IN /\ old.contentRev <= new.contentRev
         /\ old.contentRev = new.contentRev => old.content = new.content

\* While the workspace revision stays, so do the counters of what it guards.
CountersFollowStructure ==
  \A m, n \in DOMAIN snapshots :
    m <= n /\ snapshots[m].workspaceRev = snapshots[n].workspaceRev =>
      /\ snapshots[m].routeRev = snapshots[n].routeRev
      /\ \A d \in DOMAIN snapshots[n].docs :
           snapshots[m].docs[d].metaRev = snapshots[n].docs[d].metaRev

\* The preconditions of r hold in s.
Fits(s, r) ==
  IF r.domain = "operation" THEN ~Conflicts(s, r) ELSE s.workspaceRev = r.expectedWorkspaceRev

\* What the first command of r overwrites in w is what its client saw.
SeesFirst(w, r) ==
  r.domain = "operation" /\ Head(r.commands).kind = "content" =>
    w.docs[Head(r.commands).doc].content[Head(r.commands).field] = Head(r.commands).from

RecordsOK ==
  \A n \in DOMAIN Operations :
    /\ Operations[n].request.base <= n
    /\ Operations[n].request.id = Operations[n].id
    /\ Fits(snapshots[n], Operations[n].request)
    /\ SeesFirst(snapshots[n], Operations[n].request)

\* A refusal was at some point of the history, before any record of its id.
RefusedAt(a, k) ==
  /\ a.request.base <= k
  /\ ~Fits(snapshots[k], a.request)
  /\ \A n \in DOMAIN Operations : Operations[n].id = a.request.id => k <= n

ConflictsOK ==
  \A a \in answers : a.kind = "conflict" =>
    a.request \in requests /\ \E k \in DOMAIN snapshots : RefusedAt(a, k)

HInv ==
  /\ RequestsOK
  /\ RoutesOK
  /\ ValidWorkspace
  /\ ContentFollowsCounter
  /\ CountersFollowStructure
  /\ RecordsOK
  /\ ConflictsOK

-----------------------------------------------------------------------------
(* What the types say of the history *)

\* What can be read off a snapshot.
LEMMA SnapshotFacts ==
  ASSUME NEW s \in Workspaces
  PROVE  /\ "docs" \in DOMAIN s /\ s.docs \in DocumentMaps /\ DOMAIN s.docs \subseteq DocIds
         /\ \A d \in DOMAIN s.docs :
              /\ s.docs[d] \in Document
              /\ s.docs[d].contentRev \in Nat \ {0} /\ s.docs[d].metaRev \in Nat \ {0}
         /\ s.workspaceRev \in Nat \ {0} /\ s.routeRev \in Nat \ {0}
         /\ s.route \subseteq DocIds
<1>1. Rev \subseteq Nat \ {0}
  BY MaxRevAssumption DEF Rev
<1>2. "docs" \in DOMAIN s /\ s.docs \in DocumentMaps
  BY DEF Workspaces
<1>3. DOMAIN s.docs \subseteq DocIds /\ \A d \in DOMAIN s.docs : s.docs[d] \in Document
  BY <1>2 DEF DocumentMaps
<1>4. \A d \in DOMAIN s.docs : s.docs[d].contentRev \in Rev /\ s.docs[d].metaRev \in Rev
  BY <1>3 DEF Document
<1> QED BY <1>1, <1>2, <1>3, <1>4 DEF Workspaces

\* The snapshots and the log, counted.
LEMMA HistoryFacts ==
  ASSUME IInv
  PROVE  /\ db.opSeq \in Nat /\ db.opSeq >= 1
         /\ DOMAIN snapshots = 1..db.opSeq
         /\ \A n \in DOMAIN snapshots : snapshots[n] \in Workspaces /\ snapshots[n].opSeq = n
         /\ snapshots[db.opSeq] = Snapshot(db) /\ Snapshot(db) \in Workspaces
         /\ DOMAIN Operations = 1..(db.opSeq - 1)
         /\ \A n \in DOMAIN Operations :
              /\ Operations[n].request \in requests /\ Operations[n].opSeq = n + 1
              /\ \A m \in DOMAIN Operations : Operations[m].id = Operations[n].id => m = n
         /\ \A r \in requests : r.base \in DOMAIN snapshots /\ r.domain \in {"operation", "settings"}
<1> DEFINE Record == [opSeq : Rev, id : CommitIds, request : requests, mutation : Mutations]
<1>1. /\ db.operations \in Seq(Record) /\ snapshots \in Seq(Workspaces)
      /\ Len(snapshots) = db.opSeq /\ db.opSeq = Len(db.operations) + 1
      /\ snapshots[db.opSeq] = Snapshot(db) /\ Snapshot(db) \in Workspaces
  BY DEF IInv, TypeOK, HistoryOK, OneRecordPerCommit, Operations
<1>2. db.opSeq \in Nat /\ db.opSeq >= 1 /\ DOMAIN snapshots = 1..db.opSeq
      /\ DOMAIN Operations = 1..(db.opSeq - 1)
  <2> HIDE DEF Record
  <2> QED BY <1>1, LenProperties DEF Operations
<1>3. \A n \in DOMAIN snapshots : snapshots[n] \in Workspaces /\ snapshots[n].opSeq = n
  BY <1>1, <1>2, ElementOfSeq DEF IInv, HistoryOK
<1>4. ASSUME NEW n \in DOMAIN Operations PROVE Operations[n].request \in requests
  <2>1. Operations[n] \in Record
    <3> HIDE DEF Record
    <3> QED BY <1>1, <1>2, <1>4, ElementOfSeq DEF Operations
  <2> QED BY <2>1
<1>5. \A n \in DOMAIN Operations :
        /\ Operations[n].opSeq = n + 1
        /\ \A m \in DOMAIN Operations : Operations[m].id = Operations[n].id => m = n
  BY DEF IInv, OneRecordPerCommit
<1>6. \A r \in requests : r.base \in DOMAIN snapshots /\ r.domain \in {"operation", "settings"}
  BY DEF IInv, PlannedOnHistory
<1> QED BY <1>1, <1>2, <1>3, <1>4, <1>5, <1>6

\* Two points of the history with the same workspace revision have the same
\* structure, and so do all the points between them.
LEMMA SameBetween ==
  ASSUME IInv, NEW m \in DOMAIN snapshots, NEW k \in DOMAIN snapshots, NEW n \in DOMAIN snapshots,
         m <= k, k <= n, snapshots[m].workspaceRev = snapshots[n].workspaceRev
  PROVE  /\ snapshots[k].workspaceRev = snapshots[n].workspaceRev
         /\ SameStructure(snapshots[m], snapshots[k]) /\ SameStructure(snapshots[k], snapshots[n])
<1>1. /\ snapshots[m].workspaceRev <= snapshots[k].workspaceRev
      /\ snapshots[k].workspaceRev <= snapshots[n].workspaceRev
  BY DEF IInv, StructureFollowsRevision
<1>2. /\ snapshots[m].workspaceRev \in Nat /\ snapshots[k].workspaceRev \in Nat
      /\ snapshots[n].workspaceRev \in Nat
  BY HistoryFacts, SnapshotFacts
<1>3. snapshots[k].workspaceRev = snapshots[n].workspaceRev
      /\ snapshots[m].workspaceRev = snapshots[k].workspaceRev
  BY <1>1, <1>2
<1> QED BY <1>3 DEF IInv, StructureFollowsRevision

-----------------------------------------------------------------------------
(* What one commit does to the workspace *)

\* Each counter moves exactly when its value does, and by one.
Counted(s, t) ==
  /\ AdvancedWith("routeRev", "route", s, t)
  /\ t.workspaceRev - s.workspaceRev \in {0, 1}
  /\ \A d \in DOMAIN s.docs \cap DOMAIN t.docs :
       /\ AdvancedWith("contentRev", "content", s.docs[d], t.docs[d])
       /\ AdvancedWith("metaRev", "meta", s.docs[d], t.docs[d])

\* The rows after the commit of an operation.
LEMMA CommittedFields ==
  ASSUME NEW w, NEW before, NEW r
  PROVE  LET after == Applied(before, r.commands)
             ch == Changes(before, after)
             next == Committed(w, before, r)
         IN /\ next.tree = after.tree /\ next.route = NextRoute(w, before, after)
            /\ next.docs = NextDocs(before, after) /\ next.settings = w.settings
            /\ next.workspaceRev = w.workspaceRev + (IF ch.workspace THEN 1 ELSE 0)
            /\ next.routeRev = w.routeRev + (IF ch.route THEN 1 ELSE 0)
<1> DEFINE after == Applied(before, r.commands)
           ch == Changes(before, after)
           docs == NextDocs(before, after)
           set == [tree |-> after.tree, route |-> NextRoute(w, before, after),
                   docs |-> docs, settings |-> w.settings, operations |-> w.operations,
                   workspaceRev |-> w.workspaceRev + (IF ch.workspace THEN 1 ELSE 0),
                   routeRev |-> w.routeRev + (IF ch.route THEN 1 ELSE 0),
                   opSeq |-> w.opSeq + 1]
           result == MutationOf(set, {RevisionOf(docs, d) : d \in ch.write}, ch.delete)
<1>1. Committed(w, before, r) = Logged(set, r, result)
  BY DEF Committed
<1> HIDE DEF after, ch, docs, result
<1>2. /\ DbShape(set)
      /\ set.tree = after.tree /\ set.route = NextRoute(w, before, after)
      /\ set.docs = docs /\ set.settings = w.settings
      /\ set.workspaceRev = w.workspaceRev + (IF ch.workspace THEN 1 ELSE 0)
      /\ set.routeRev = w.routeRev + (IF ch.route THEN 1 ELSE 0)
  BY DEF DbShape
<1> DEFINE next == Committed(w, before, r)
<1> HIDE DEF set, next
<1>3. next = Logged(set, r, result)
  BY <1>1 DEF next
<1>4. /\ DbShape(next)
      /\ next.tree = set.tree /\ next.route = set.route /\ next.docs = set.docs
      /\ next.settings = set.settings /\ next.workspaceRev = set.workspaceRev
      /\ next.routeRev = set.routeRev /\ next.opSeq = set.opSeq
      /\ next.operations = Append(set.operations,
           [opSeq |-> set.opSeq, id |-> r.id, request |-> r, mutation |-> result])
  BY <1>2, <1>3, LoggedFields
<1> QED BY <1>2, <1>4 DEF after, ch, docs, next

\* A commit leaves a valid workspace and counts what it changes, if its handler
\* read the present manifest; a handler that read an older one may only write
\* what the manifest does not depend on.
LEMMA OperationCounts ==
  ASSUME NEW w, NEW r, NEW R \in SUBSET DocIds, DbShape(w), Snapshot(w) \in Workspaces,
         ValidState(w), Acceptable(w, [w EXCEPT !.route = R], r),
         Requirements(r.commands).workspace => R = w.route
  PROVE  LET next == Committed(w, [w EXCEPT !.route = R], r)
         IN Counted(w, next) /\ ValidState(next)
<1> DEFINE before == [w EXCEPT !.route = R]
           after == Applied(before, r.commands)
           next == Committed(w, before, r)
           ch == Changes(before, after)
           docs == NextDocs(before, after)
<1>1. /\ w.workspaceRev \in Nat /\ w.routeRev \in Nat
  <2>1. Rev \subseteq Nat
    BY RevFacts
  <2> QED BY <2>1 DEF Workspaces, Snapshot
<1>2. before.docs = w.docs /\ before.tree = w.tree /\ before.route = R
  BY DEF DbShape
<1>3. /\ ValidState(before) /\ ValidState(after) /\ WithinCapacity(w, before, after)
      /\ WithinRequirements(before, after, Requirements(r.commands))
  BY DEF Acceptable
<1>4. /\ next.tree = after.tree /\ next.route = NextRoute(w, before, after)
      /\ next.docs = docs
      /\ next.workspaceRev = w.workspaceRev + (IF ch.workspace THEN 1 ELSE 0)
      /\ next.routeRev = w.routeRev + (IF ch.route THEN 1 ELSE 0)
  <2> HIDE DEF before
  <2> QED BY CommittedFields
<1> HIDE DEF after, before, next
<1>5. docs \in DocumentMaps
  BY <1>3, NextDocsType
<1>6. DOMAIN docs = DOMAIN after.docs
  BY DEF NextDocs
<1>7. \A d \in DOMAIN w.docs : w.docs[d] \in Document
  BY DEF ValidState, DocumentMaps
<1>8. \A d \in DOMAIN after.docs : after.docs[d] \in Document
  BY <1>3 DEF ValidState, DocumentMaps
<1>9. ASSUME NEW d \in DOMAIN docs
      PROVE  docs[d].content = after.docs[d].content /\ docs[d].meta = after.docs[d].meta
  <2>1. after.docs[d] \in Document
    BY <1>6, <1>8
  <2>2. CASE d \in DOMAIN before.docs
    BY <1>6, <2>1, <2>2 DEF NextDocs, NextDocument, Document
  <2>3. CASE d \notin DOMAIN before.docs
    BY <1>6, <2>3 DEF NextDocs
  <2> QED BY <2>2, <2>3
<1>10. ASSUME NEW d \in DOMAIN w.docs \cap DOMAIN docs
       PROVE  /\ AdvancedWith("contentRev", "content", w.docs[d], docs[d])
              /\ AdvancedWith("metaRev", "meta", w.docs[d], docs[d])
  <2>1. docs[d] = NextDocument(w.docs[d], after.docs[d])
    BY <1>2, <1>6 DEF NextDocs
  <2>2. w.docs[d] \in Document /\ after.docs[d] \in Document
    BY <1>6, <1>7, <1>8
  <2>3. w.docs[d].contentRev \in Nat /\ w.docs[d].metaRev \in Nat
    BY <2>2, RevFacts DEF Document
  <2>4. /\ docs[d].contentRev
             = w.docs[d].contentRev + (IF after.docs[d].content # w.docs[d].content THEN 1 ELSE 0)
        /\ docs[d].metaRev
             = w.docs[d].metaRev + (IF after.docs[d].meta # w.docs[d].meta THEN 1 ELSE 0)
    BY <2>1, <2>2 DEF NextDocument, Document
  <2> QED BY <1>9, <2>3, <2>4 DEF AdvancedWith
<1>11. R = w.route \/ (before.route = after.route /\ DOMAIN before.docs = DOMAIN after.docs)
  <2>1. ~Requirements(r.commands).workspace => ~ch.workspace
    BY <1>3 DEF WithinRequirements
  <2>2. ch.workspace <=> StructureChanged(before, after)
    BY DEF Changes
  <2> QED BY <2>1, <2>2 DEF StructureChanged
<1>12. AdvancedWith("routeRev", "route", w, next)
  <2>1. ch.route <=> before.route # after.route
    BY DEF Changes
  <2>2. next.route = IF before.route # after.route THEN after.route ELSE w.route
    BY <1>4 DEF NextRoute
  <2> HIDE DEF ch
  <2>3. CASE before.route = after.route
    BY <1>1, <1>4, <2>1, <2>2, <2>3 DEF AdvancedWith
  <2>4. CASE before.route # after.route
    BY <1>1, <1>2, <1>4, <1>11, <2>1, <2>2, <2>4 DEF AdvancedWith
  <2> QED BY <2>3, <2>4
<1>13. Counted(w, next)
  <2>1. next.workspaceRev - w.workspaceRev \in {0, 1}
    <3> HIDE DEF ch
    <3> QED BY <1>1, <1>4
  <2> QED BY <1>4, <1>10, <1>12, <2>1 DEF Counted
<1>14. ValidState(next)
  <2>1. \A d, e \in DOMAIN docs : docs[d].meta = docs[e].meta => d = e
    BY <1>3, <1>6, <1>9 DEF ValidState
  <2>2. next.tree \in Vals
    BY <1>3, <1>4 DEF ValidState
  <2>3. next.route \subseteq DOMAIN docs
    <3>1. CASE before.route # after.route
      BY <1>3, <1>4, <1>6, <3>1 DEF ValidState, NextRoute
    <3>2. CASE before.route = after.route
      <4>1. next.route = w.route
        BY <1>4, <3>2 DEF NextRoute
      <4>2. CASE R = w.route
        BY <1>2, <1>3, <1>6, <3>2, <4>1, <4>2 DEF ValidState
      <4>3. CASE DOMAIN before.docs = DOMAIN after.docs
        BY <1>2, <1>6, <4>1, <4>3 DEF ValidState
      <4> QED BY <1>11, <4>2, <4>3
    <3> QED BY <3>1, <3>2
  <2> QED BY <1>4, <1>5, <2>1, <2>2, <2>3 DEF ValidState
<1> QED BY <1>13, <1>14 DEF next, before

\* A commit of the settings leaves the documents, the manifest and their counters.
LEMMA SettingsCount ==
  ASSUME NEW w, NEW r, Snapshot(w) \in Workspaces, ValidState(w)
  PROVE  LET next == CommittedSettings(w, r)
         IN Counted(w, next) /\ ValidState(next)
<1> DEFINE next == CommittedSettings(w, r)
           set == [tree |-> w.tree, route |-> w.route, docs |-> w.docs,
                   settings |-> r.settings, operations |-> w.operations,
                   workspaceRev |-> w.workspaceRev + 1, routeRev |-> w.routeRev,
                   opSeq |-> w.opSeq + 1]
           result == MutationOf(set, {}, {})
<1>1. next = Logged(set, r, result)
  BY DEF CommittedSettings
<1>2. /\ DbShape(set) /\ set.tree = w.tree /\ set.route = w.route /\ set.docs = w.docs
      /\ set.workspaceRev = w.workspaceRev + 1 /\ set.routeRev = w.routeRev
  BY DEF DbShape
<1> HIDE DEF next, set, result
<1>3. /\ next.tree = w.tree /\ next.route = w.route /\ next.docs = w.docs
      /\ next.workspaceRev = w.workspaceRev + 1 /\ next.routeRev = w.routeRev
  <2>1. /\ DbShape(next)
        /\ next.tree = set.tree /\ next.route = set.route /\ next.docs = set.docs
        /\ next.settings = set.settings /\ next.workspaceRev = set.workspaceRev
        /\ next.routeRev = set.routeRev /\ next.opSeq = set.opSeq
        /\ next.operations = Append(set.operations,
             [opSeq |-> set.opSeq, id |-> r.id, request |-> r, mutation |-> result])
    BY <1>1, <1>2, LoggedFields
  <2> QED BY <1>2, <2>1
<1>4. /\ w.workspaceRev \in Nat /\ w.routeRev \in Nat
      /\ \A d \in DOMAIN w.docs : w.docs[d].contentRev \in Nat /\ w.docs[d].metaRev \in Nat
  <2>1. Snapshot(w).docs = w.docs /\ Snapshot(w).workspaceRev = w.workspaceRev
        /\ Snapshot(w).routeRev = w.routeRev
    BY DEF Snapshot
  <2> QED BY <2>1, SnapshotFacts
<1>5. Counted(w, next)
  BY <1>3, <1>4 DEF Counted, AdvancedWith
<1>6. ValidState(next)
  BY <1>3 DEF ValidState
<1> QED BY <1>5, <1>6 DEF next

-----------------------------------------------------------------------------
(* The steps *)

\* The preconditions compare what a snapshot shows.
LEMMA FitsSnapshot ==
  ASSUME NEW w, NEW r
  PROVE  Fits(Snapshot(w), r) <=> Fits(w, r)
<1>1. /\ Snapshot(w).docs = w.docs /\ Snapshot(w).routeRev = w.routeRev
      /\ Snapshot(w).workspaceRev = w.workspaceRev
  BY DEF Snapshot
<1>2. \A e, q, d : DocumentConflict(Snapshot(w), e, q, d) <=> DocumentConflict(w, e, q, d)
  BY <1>1 DEF DocumentConflict
<1> QED BY <1>1, <1>2 DEF Fits, Conflicts

\* An operation planned on a snapshot carries its vector.
LEMMA PlannedIsGood ==
  ASSUME IInv, NEW n \in DOMAIN snapshots, NEW id, NEW cs, IsProgram(cs),
         Plannable(snapshots[n], cs)
  PROVE  LET r == OperationRequest(id, snapshots[n], cs)
         IN r.base = n /\ GoodRequest(r, snapshots[n])
<1>1. snapshots[n] \in Workspaces /\ snapshots[n].opSeq = n
  BY HistoryFacts
<1>2. WellFormed(OperationRequest(id, snapshots[n], cs))
  BY <1>1, SnapshotFacts, PlannedIsWellFormed
<1> QED BY <1>1, <1>2 DEF GoodRequest, Shaped, OperationRequest

\* A client issues a request.
LEMMA IssueHStep ==
  ASSUME IInv, HInv, NEW r, Issue(r), GoodRequest(r, snapshots[r.base])
  PROVE  HInv'
<1>1. requests' = requests \cup {r} /\ UNCHANGED <<db, handlers, answers, snapshots>>
  BY DEF Issue
<1>2. RequestsOK'
  BY <1>1 DEF HInv, RequestsOK, GoodRequest
<1>3. ConflictsOK'
  BY <1>1 DEF HInv, ConflictsOK, RefusedAt, Operations
<1> QED BY <1>1, <1>2, <1>3 DEF HInv, RoutesOK, ValidWorkspace, ContentFollowsCounter, RemovedBetween,
           CountersFollowStructure, RecordsOK, Operations

\* A handler begins, gives up or answers, and commits nothing.
LEMMA HandlerHStep ==
  ASSUME IInv, HInv, NEW h \in Handlers, NEW x, handlers' = [handlers EXCEPT ![h] = x],
         x.phase = "locking" =>
           \E k \in DOMAIN snapshots : x.request.base <= k /\ x.route = snapshots[k].route,
         UNCHANGED <<db, requests, snapshots>>,
         \A a \in answers' \ answers :
           a.kind = "conflict" => a.request \in requests /\ \E k \in DOMAIN snapshots : RefusedAt(a, k)
  PROVE  HInv'
<1>1. \A g \in Handlers : handlers'[g] = IF g = h THEN x ELSE handlers[g]
  BY DEF IInv, HandlersOK
<1>2. RoutesOK'
  BY <1>1 DEF HInv, RoutesOK
<1>3. ConflictsOK'
  BY DEF HInv, ConflictsOK, RefusedAt, Operations
<1> QED BY <1>2, <1>3 DEF HInv, RequestsOK, ValidWorkspace, ContentFollowsCounter, RemovedBetween,
           CountersFollowStructure, RecordsOK, Operations

\* A commit adds a snapshot that follows from the one before it.
LEMMA PersistHStep ==
  ASSUME IInv, IInv', HInv, NEW h \in Handlers, NEW w, NEW r \in requests, Persist(h, w, r),
         Advances(db, w, r), Counted(db, w), ValidState(w), Fits(db, r), SeesFirst(db, r)
  PROVE  HInv'
<1> DEFINE N == db.opSeq
<1>1. /\ db' = w /\ snapshots' = Append(snapshots, Snapshot(w))
      /\ handlers' = [handlers EXCEPT ![h] = Idle] /\ requests' = requests
      /\ answers' = answers \cup {Ok(r, Last(w.operations).mutation)}
  BY DEF Persist, Answer
<1>2. PICK mutation \in Mutations :
        w.operations = Append(db.operations,
          [opSeq |-> w.opSeq, id |-> r.id, request |-> r, mutation |-> mutation])
  BY DEF Advances
<1> DEFINE rec == [opSeq |-> w.opSeq, id |-> r.id, request |-> r, mutation |-> mutation]
<1>3. /\ N \in Nat /\ N >= 1 /\ DOMAIN snapshots = 1..N /\ DOMAIN Operations = 1..(N - 1)
      /\ snapshots[N] = Snapshot(db) /\ Snapshot(db) \in Workspaces
      /\ \A q \in requests : q.base \in 1..N
      /\ w.opSeq = N + 1 /\ Snapshot(w) \in Workspaces
  BY HistoryFacts DEF Advances
<1>4. /\ DOMAIN snapshots' = 1..(N + 1) /\ snapshots'[N + 1] = Snapshot(w)
      /\ \A n \in 1..N : snapshots'[n] = snapshots[n]
  BY <1>1, <1>3 DEF IInv, TypeOK
<1>5. /\ DOMAIN Operations' = 1..N /\ Operations'[N] = rec
      /\ \A n \in 1..(N - 1) : Operations'[n] = Operations[n]
  BY <1>1, <1>2, <1>3 DEF IInv, TypeOK, Operations
<1>6. rec.request = r /\ rec.id = r.id /\ rec.opSeq = N + 1
  BY <1>3
<1> HIDE DEF rec, N
<1>7. RequestsOK'
  BY <1>1, <1>3, <1>4 DEF HInv, RequestsOK, GoodRequest
<1>8. RoutesOK'
  <2>1. \A g \in Handlers : handlers'[g] = IF g = h THEN Idle ELSE handlers[g]
    BY <1>1 DEF IInv, HandlersOK
  <2>2. Idle.phase # "locking"
    BY DEF Idle
  <2>3. \A k \in 1..N : k \in 1..(N + 1)
    BY <1>3
  <2> QED BY <1>3, <1>4, <2>1, <2>2, <2>3 DEF HInv, RoutesOK
<1>9. ValidWorkspace'
  BY <1>1 DEF ValidWorkspace, ValidState
<1>10. ContentFollowsCounter'
  <2> SUFFICES ASSUME NEW m \in 1..(N + 1), NEW n \in 1..(N + 1), NEW d \in DocIds, m <= n,
                      \A k \in m..n : d \in DOMAIN snapshots'[k].docs
               PROVE  LET old == snapshots'[m].docs[d]
                          new == snapshots'[n].docs[d]
                      IN /\ old.contentRev <= new.contentRev
                         /\ old.contentRev = new.contentRev => old.content = new.content
    BY <1>4 DEF ContentFollowsCounter, RemovedBetween
  <2>1. CASE n # N + 1
    <3>1. m \in 1..N /\ n \in 1..N /\ \A k \in m..n : k \in 1..N
      BY <1>3, <2>1
    <3>2. ~RemovedBetween(d, m, n)
      BY <1>4, <3>1 DEF RemovedBetween
    <3> QED BY <1>3, <1>4, <3>1, <3>2 DEF HInv, ContentFollowsCounter
  <2>2. CASE m = N + 1
    <3>1. n = m /\ d \in DOMAIN snapshots'[m].docs
      BY <1>3, <2>2
    <3>2. snapshots'[m].docs[d].contentRev \in Nat
      BY <1>3, <1>4, <2>2, <3>1, SnapshotFacts
    <3> QED BY <3>1, <3>2
  <2>3. CASE n = N + 1 /\ m # N + 1
    <3>1. m \in 1..N /\ N \in 1..N /\ m <= N /\ N \in m..n /\ n \in m..n
          /\ \A k \in m..N : k \in 1..N /\ k \in m..n
      BY <1>3, <2>3
    <3>2. ~RemovedBetween(d, m, N)
      BY <1>4, <3>1 DEF RemovedBetween
    <3>3. d \in DOMAIN snapshots[N].docs /\ d \in DOMAIN Snapshot(w).docs
          /\ d \in DOMAIN snapshots[m].docs
      BY <1>4, <2>3, <3>1, <3>2 DEF RemovedBetween
    <3>4. /\ snapshots[m].docs[d].contentRev <= snapshots[N].docs[d].contentRev
          /\ snapshots[m].docs[d].contentRev = snapshots[N].docs[d].contentRev
               => snapshots[m].docs[d].content = snapshots[N].docs[d].content
      BY <1>3, <3>1, <3>2 DEF HInv, ContentFollowsCounter
    <3>5. /\ snapshots[m].docs[d].contentRev \in Nat /\ snapshots[N].docs[d].contentRev \in Nat
          /\ Snapshot(w).docs[d].contentRev \in Nat
      BY <1>3, <3>1, <3>3, HistoryFacts, SnapshotFacts
    <3>6. AdvancedWith("contentRev", "content", snapshots[N].docs[d], Snapshot(w).docs[d])
      BY <1>3, <3>3 DEF Counted, Snapshot
    <3>7. Snapshot(w).docs[d].contentRev - snapshots[N].docs[d].contentRev
            = IF Snapshot(w).docs[d].content # snapshots[N].docs[d].content THEN 1 ELSE 0
      BY <3>6 DEF AdvancedWith
    <3>8. /\ snapshots[m].docs[d].contentRev <= Snapshot(w).docs[d].contentRev
          /\ snapshots[m].docs[d].contentRev = Snapshot(w).docs[d].contentRev
               => snapshots[m].docs[d].content = Snapshot(w).docs[d].content
      BY <3>4, <3>5, <3>7
    <3> QED BY <1>4, <2>3, <3>1, <3>8
  <2> QED BY <2>1, <2>2, <2>3
<1>11. CountersFollowStructure'
  <2> SUFFICES ASSUME NEW m \in 1..(N + 1), NEW n \in 1..(N + 1), m <= n,
                      snapshots'[m].workspaceRev = snapshots'[n].workspaceRev
               PROVE  /\ snapshots'[m].routeRev = snapshots'[n].routeRev
                      /\ \A d \in DOMAIN snapshots'[n].docs :
                           snapshots'[m].docs[d].metaRev = snapshots'[n].docs[d].metaRev
    BY <1>4 DEF CountersFollowStructure
  <2>1. CASE n # N + 1
    <3>1. m \in 1..N /\ n \in 1..N
      BY <1>3, <2>1
    <3>2. snapshots'[m] = snapshots[m] /\ snapshots'[n] = snapshots[n]
      BY <1>4, <3>1
    <3>3. m \in DOMAIN snapshots /\ n \in DOMAIN snapshots
      BY <1>3, <3>1
    <3>4. snapshots[m].workspaceRev = snapshots[n].workspaceRev
      BY <3>2
    <3>5. /\ snapshots[m].routeRev = snapshots[n].routeRev
          /\ \A d \in DOMAIN snapshots[n].docs :
               snapshots[m].docs[d].metaRev = snapshots[n].docs[d].metaRev
      BY <3>3, <3>4 DEF HInv, CountersFollowStructure
    <3> QED BY <3>2, <3>5
  <2>2. CASE m = N + 1
    BY <1>3, <2>2
  <2>3. CASE n = N + 1 /\ m # N + 1
    <3>1. m \in 1..N /\ N \in 1..N /\ m <= N /\ N \in 1..(N + 1) /\ N <= N + 1
      BY <1>3, <2>3
    <3>2. /\ snapshots'[m].workspaceRev <= snapshots'[N].workspaceRev
          /\ snapshots'[N].workspaceRev <= snapshots'[N + 1].workspaceRev
          /\ snapshots'[N].workspaceRev = snapshots'[N + 1].workspaceRev
               => SameStructure(snapshots'[N], snapshots'[N + 1])
      BY <1>4, <2>3, <3>1 DEF IInv, StructureFollowsRevision, SameStructure
    <3>3. /\ snapshots[m].workspaceRev \in Nat /\ snapshots[N].workspaceRev \in Nat
          /\ Snapshot(w).workspaceRev \in Nat
      BY <1>3, <3>1, HistoryFacts, SnapshotFacts
    <3>4. /\ snapshots[m].workspaceRev = snapshots[N].workspaceRev
          /\ SameStructure(snapshots[N], Snapshot(w))
      BY <1>4, <2>3, <3>1, <3>2, <3>3
    <3>5. /\ snapshots[m].routeRev = snapshots[N].routeRev
          /\ \A d \in DOMAIN snapshots[N].docs :
               snapshots[m].docs[d].metaRev = snapshots[N].docs[d].metaRev
      BY <1>3, <3>1, <3>4 DEF HInv, CountersFollowStructure
    <3>6. /\ snapshots[N].route = Snapshot(w).route
          /\ DOMAIN snapshots[N].docs = DOMAIN Snapshot(w).docs
          /\ \A d \in DOMAIN Snapshot(w).docs : snapshots[N].docs[d].meta = Snapshot(w).docs[d].meta
      BY <3>4 DEF SameStructure
    <3>7. /\ AdvancedWith("routeRev", "route", snapshots[N], Snapshot(w))
          /\ \A d \in DOMAIN Snapshot(w).docs :
               AdvancedWith("metaRev", "meta", snapshots[N].docs[d], Snapshot(w).docs[d])
      BY <1>3, <3>6 DEF Counted, Snapshot, AdvancedWith
    <3>8. /\ snapshots[N].routeRev \in Nat /\ Snapshot(w).routeRev \in Nat
          /\ \A d \in DOMAIN Snapshot(w).docs :
               snapshots[N].docs[d].metaRev \in Nat /\ Snapshot(w).docs[d].metaRev \in Nat
      BY <1>3, <3>1, <3>6, HistoryFacts, SnapshotFacts
    <3>9. /\ snapshots[N].routeRev = Snapshot(w).routeRev
          /\ \A d \in DOMAIN Snapshot(w).docs :
               snapshots[N].docs[d].metaRev = Snapshot(w).docs[d].metaRev
      BY <3>6, <3>7, <3>8 DEF AdvancedWith
    <3> QED BY <1>4, <2>3, <3>1, <3>5, <3>6, <3>9
  <2> QED BY <2>1, <2>2, <2>3
<1>12. RecordsOK'
  <2>1. Fits(snapshots[N], r) /\ SeesFirst(snapshots[N], r)
    BY <1>3, FitsSnapshot DEF SeesFirst, Snapshot
  <2> SUFFICES ASSUME NEW n \in 1..N
               PROVE  /\ Operations'[n].request.base <= n
                      /\ Operations'[n].request.id = Operations'[n].id
                      /\ Fits(snapshots'[n], Operations'[n].request)
                      /\ SeesFirst(snapshots'[n], Operations'[n].request)
    BY <1>5 DEF RecordsOK, Fits, SeesFirst
  <2>2. CASE n = N
    BY <1>3, <1>4, <1>5, <1>6, <2>1, <2>2
  <2>3. CASE n # N
    <3>1. n \in 1..(N - 1) /\ n \in 1..N
      BY <1>3, <2>3
    <3> QED BY <1>3, <1>4, <1>5, <3>1 DEF HInv, RecordsOK
  <2> QED BY <2>2, <2>3
<1>13. ConflictsOK'
  <2> SUFFICES ASSUME NEW a \in answers', a.kind = "conflict"
               PROVE  a.request \in requests' /\ \E k \in DOMAIN snapshots' : RefusedAt(a, k)'
    BY DEF ConflictsOK
  <2>1. a \in answers
    BY <1>1 DEF Ok
  <2>2. PICK k \in 1..N : RefusedAt(a, k)
    BY <1>3, <2>1 DEF HInv, ConflictsOK
  <2>3. k \in 1..(N + 1) /\ k <= N
    BY <1>3
  <2>4. ~Fits(snapshots'[k], a.request)
    BY <1>4, <2>2 DEF RefusedAt
  <2>5. ASSUME NEW n \in 1..N, Operations'[n].id = a.request.id PROVE k <= n
    <3>1. CASE n = N
      BY <2>3, <3>1
    <3>2. CASE n # N
      <4>1. n \in 1..(N - 1)
        BY <1>3, <3>2
      <4> QED BY <1>3, <1>5, <2>2, <2>5, <4>1 DEF RefusedAt
    <3> QED BY <3>1, <3>2
  <2>6. RefusedAt(a, k)'
    BY <1>5, <2>2, <2>4, <2>5 DEF RefusedAt, Fits
  <2> QED BY <1>1, <1>4, <2>1, <2>3, <2>6 DEF HInv, ConflictsOK
<1> QED BY <1>7, <1>8, <1>9, <1>10, <1>11, <1>12, <1>13 DEF HInv

\* The invariant holds in a new project.
LEMMA HInit == Init => HInv
<1> SUFFICES ASSUME Init PROVE HInv
  OBVIOUS
<1>1. PICK w \in Seeds :
        db = [tree |-> w.tree, route |-> w.route, docs |-> w.docs,
              settings |-> w.settings, workspaceRev |-> 1, routeRev |-> 1,
              opSeq |-> 1, operations |-> <<>>]
  BY DEF Init
<1>2. /\ \A h \in Handlers : handlers[h] = Idle
      /\ requests = {} /\ answers = {} /\ snapshots = <<Snapshot(db)>>
  BY DEF Init
<1>3. ValidState(w)
  BY SeedsAssumption
<1>4. DOMAIN snapshots = 1..1 /\ \A n \in 1..1 : n = 1
  BY <1>2
<1>5. IInv /\ Snapshot(db) \in Workspaces /\ snapshots[1] = Snapshot(db)
  BY <1>1, <1>2, InitIInv DEF IInv, TypeOK
<1>6. RequestsOK /\ ConflictsOK
  BY <1>2 DEF RequestsOK, ConflictsOK
<1>7. RoutesOK
  BY <1>2 DEF RoutesOK, Idle
<1>8. ValidWorkspace
  BY <1>1, <1>3 DEF ValidWorkspace, ValidState
<1>9. ContentFollowsCounter
  <2> SUFFICES ASSUME NEW d \in DocIds, ~RemovedBetween(d, 1, 1)
               PROVE  snapshots[1].docs[d].contentRev <= snapshots[1].docs[d].contentRev
    BY <1>4 DEF ContentFollowsCounter
  <2>1. d \in DOMAIN snapshots[1].docs
    BY DEF RemovedBetween
  <2> QED BY <1>5, <2>1, SnapshotFacts
<1>10. CountersFollowStructure
  BY <1>4 DEF CountersFollowStructure
<1>11. RecordsOK
  BY <1>1 DEF RecordsOK, Operations
<1> QED BY <1>6, <1>7, <1>8, <1>9, <1>10, <1>11 DEF HInv

\* A handler whose operation declares the workspace revision, and whose vector
\* holds, has read the present manifest, also when it waited for the lock.
LEMMA RouteIsPresent ==
  ASSUME IInv, HInv, NEW h \in Handlers, handlers[h].phase = "locking",
         handlers[h].request.domain = "operation", ~Conflicts(db, handlers[h].request),
         Requirements(handlers[h].request.commands).workspace
  PROVE  handlers[h].route = db.route
<1> DEFINE r == handlers[h].request
<1>1. r \in requests
  BY DEF IInv, TypeOK, Idle
<1>2. /\ r.base \in DOMAIN snapshots
      /\ r.expected.workspaceRev \in {Omitted, snapshots[r.base].workspaceRev}
  BY <1>1 DEF IInv, PlannedOnHistory
<1>3. WellFormed(r)
  BY <1>1 DEF HInv, RequestsOK, GoodRequest
<1>4. r.expected.workspaceRev # Omitted
  BY <1>3 DEF WellFormed, ExpectedMatches
<1>5. r.expected.workspaceRev = db.workspaceRev
  BY DEF Conflicts
<1>6. PICK k \in DOMAIN snapshots : r.base <= k /\ handlers[h].route = snapshots[k].route
  BY DEF HInv, RoutesOK
<1>7. db.opSeq \in DOMAIN snapshots /\ k <= db.opSeq /\ snapshots[db.opSeq] = Snapshot(db)
  BY <1>6, HistoryFacts
<1>8. Snapshot(db).workspaceRev = db.workspaceRev /\ Snapshot(db).route = db.route
  BY DEF Snapshot
<1>9. snapshots[r.base].workspaceRev = snapshots[db.opSeq].workspaceRev
  BY <1>2, <1>4, <1>5, <1>7, <1>8
<1> HIDE DEF r
<1>10. SameStructure(snapshots[k], snapshots[db.opSeq])
  BY <1>2, <1>6, <1>7, <1>9, SameBetween
<1> QED BY <1>6, <1>7, <1>8, <1>10 DEF SameStructure

\* The reverse of the first command restores the workspace before the commit, so
\* what it overwrites is what its client saw.
LEMMA FirstIsSeen ==
  ASSUME NEW w, NEW R, NEW r, DbShape(w), r.domain = "operation" => IsProgram(r.commands),
         Acceptable(w, [w EXCEPT !.route = R], r)
  PROVE  SeesFirst(w, r)
<1> SUFFICES ASSUME r.domain = "operation", Head(r.commands).kind = "content"
             PROVE  w.docs[Head(r.commands).doc].content[Head(r.commands).field]
                      = Head(r.commands).from
  BY DEF SeesFirst
<1> DEFINE cs == r.commands
           before == [w EXCEPT !.route = R]
<1>1. Len(cs) \in Nat /\ DOMAIN cs = 1..Len(cs)
  BY DEF IsProgram
<1>2. before.docs = w.docs
  BY DEF DbShape
<1>3. EveryCommandReverses(before, cs) /\ HasDurableDelta(before, Applied(before, cs))
  BY DEF Acceptable
<1> HIDE DEF before, cs
<1>4. States(before, cs)[0] = before
  BY <1>1, StatesUnfold
<1>5. Len(cs) # 0
  <2> SUFFICES ASSUME Len(cs) = 0 PROVE FALSE
    OBVIOUS
  <2>1. HasDurableDelta(before, before)
    BY <1>3, <1>4 DEF Applied
  <2> QED BY <2>1 DEF HasDurableDelta, Changes, ContentChanged, MetaChanged, AddedDocs, RemovedDocs
<1>6. 1 \in DOMAIN cs /\ Head(cs) = cs[1] /\ 1 - 1 = 0
  BY <1>1, <1>5
<1>7. ReverseRestores(before, cs[1])
  BY <1>3, <1>4, <1>6 DEF EveryCommandReverses
<1>8. cs[1].kind = "content"
  BY <1>6 DEF cs
<1>9. before.docs[cs[1].doc].content[cs[1].field] = cs[1].from
  BY <1>7, <1>8 DEF ReverseRestores, ReversePatchRestores
<1> QED BY <1>2, <1>6, <1>9 DEF cs

\* A committed operation may be undone: it is a list of commands.
LEMMA CommittedIsProgram ==
  ASSUME IInv, HInv, NEW n \in DOMAIN snapshots, NEW m \in 1..(n - 1),
         db.operations[m].request.domain = "operation"
  PROVE  IsProgram(db.operations[m].request.commands)
<1>1. n \in 1..db.opSeq /\ db.opSeq \in Nat /\ DOMAIN Operations = 1..(db.opSeq - 1)
  BY HistoryFacts
<1>2. m \in DOMAIN Operations
  BY <1>1
<1>3. db.operations[m].request \in requests
  BY <1>2, HistoryFacts DEF Operations
<1> QED BY <1>3 DEF HInv, RequestsOK, GoodRequest

\* A transaction that commits: everything that is true of its result.
Persists(h, w, r) ==
  /\ Persist(h, w, r) /\ r \in requests /\ Records(db, r.id) = {}
  /\ Advances(db, w, r) /\ Counted(db, w) /\ ValidState(w)
  /\ Fits(db, r) /\ SeesFirst(db, r)

\* A transaction that answers without a commit; a conflict is one of this moment.
Declines(h, a) ==
  /\ Refuse(h, a)
  /\ a.kind # "ok"
  /\ a.kind = "conflict" => a.request \in requests /\ \E k \in DOMAIN snapshots : RefusedAt(a, k)

\* A request of the present moment that does not fit is refused for good.
LEMMA ConflictOfNow ==
  ASSUME IInv, NEW r \in requests, Records(db, r.id) = {}, ~Fits(db, r)
  PROVE  /\ Refused(r, "conflict").request \in requests
         /\ \E k \in DOMAIN snapshots : RefusedAt(Refused(r, "conflict"), k)
<1>1. Refused(r, "conflict").request = r
  BY DEF Refused
<1>2. db.opSeq \in DOMAIN snapshots /\ r.base <= db.opSeq /\ ~Fits(snapshots[db.opSeq], r)
  BY HistoryFacts, FitsSnapshot
<1>3. \A n \in DOMAIN Operations : Operations[n].id # r.id
  BY DEF Records, Range, Operations
<1> QED BY <1>1, <1>2, <1>3 DEF RefusedAt

\* What a handler works on.
LEMMA LockedFacts ==
  ASSUME IInv, HInv, NEW h \in Handlers, handlers[h].phase = "locking"
  PROVE  /\ handlers[h].request \in requests /\ handlers[h].route \in SUBSET DocIds
         /\ DbShape(db) /\ Snapshot(db) \in Workspaces /\ ValidState(db)
BY DEF IInv, TypeOK, Idle, HInv, ValidWorkspace

\* A transaction that looked its id up in vain declines or commits.
LEMMA CommitOrDecline ==
  ASSUME IInv, HInv, NEW h \in Handlers, CommitOperation(h) \/ CommitSettings(h)
  PROVE  (\E a : Declines(h, a)) \/ (\E w, r : Persists(h, w, r))
<1>1. CASE CommitOperation(h)
  <2> DEFINE r == handlers[h].request
             R == handlers[h].route
             before == [db EXCEPT !.route = R]
  <2>1. /\ handlers[h].phase = "locking" /\ r.domain = "operation" /\ Records(db, r.id) = {}
        /\ \/ Conflicts(db, r) /\ Refuse(h, Refused(r, "conflict"))
           \/ Refuse(h, Refused(r, "invalid"))
           \/ ~Conflicts(db, r) /\ Acceptable(db, before, r)
                /\ Persist(h, Committed(db, before, r), r)
    BY <1>1 DEF CommitOperation
  <2>2. /\ r \in requests /\ R \in SUBSET DocIds
        /\ DbShape(db) /\ Snapshot(db) \in Workspaces /\ ValidState(db)
    BY <2>1, LockedFacts
  <2>3. CASE Conflicts(db, r) /\ Refuse(h, Refused(r, "conflict"))
    <3>1. ~Fits(db, r)
      BY <2>1, <2>3 DEF Fits
    <3>2. Refused(r, "conflict").kind # "ok"
      BY DEF Refused
    <3> HIDE DEF r
    <3>3. Declines(h, Refused(r, "conflict"))
      BY <2>1, <2>2, <2>3, <3>1, <3>2, ConflictOfNow DEF Declines
    <3> QED BY <3>3
  <2>4. CASE Refuse(h, Refused(r, "invalid"))
    <3>1. Refused(r, "invalid").kind \notin {"conflict", "ok"}
      BY DEF Refused
    <3> QED BY <2>4, <3>1 DEF Declines
  <2>5. CASE ~Conflicts(db, r) /\ Acceptable(db, before, r)
               /\ Persist(h, Committed(db, before, r), r)
    <3>1. Requirements(r.commands).workspace => R = db.route
      BY <2>1, <2>5, RouteIsPresent
    <3>2. Fits(db, r)
      BY <2>1, <2>5 DEF Fits
    <3>3. IsProgram(r.commands)
      BY <2>1, <2>2 DEF HInv, RequestsOK, GoodRequest
    <3> HIDE DEF r, R
    <3>4. Advances(db, Committed(db, before, r), r)
      BY <2>2, <2>5, OperationAdvance
    <3>5. Counted(db, Committed(db, before, r)) /\ ValidState(Committed(db, before, r))
      BY <2>2, <2>5, <3>1, OperationCounts
    <3>6. SeesFirst(db, r)
      BY <2>2, <2>5, <3>3, FirstIsSeen
    <3> HIDE DEF before
    <3>7. Persists(h, Committed(db, before, r), r)
      BY <2>1, <2>2, <2>5, <3>2, <3>4, <3>5, <3>6 DEF Persists
    <3> QED BY <3>7
  <2> QED BY <2>1, <2>3, <2>4, <2>5
<1>2. CASE CommitSettings(h)
  <2> DEFINE r == handlers[h].request
  <2>1. /\ handlers[h].phase = "locking" /\ r.domain = "settings" /\ Records(db, r.id) = {}
        /\ \/ db.workspaceRev # r.expectedWorkspaceRev /\ Refuse(h, Refused(r, "conflict"))
           \/ Refuse(h, Refused(r, "invalid"))
           \/ CanAdvance(db) /\ db.workspaceRev = r.expectedWorkspaceRev
                /\ Persist(h, CommittedSettings(db, r), r)
    BY <1>2 DEF CommitSettings
  <2>2. r \in requests /\ DbShape(db) /\ Snapshot(db) \in Workspaces /\ ValidState(db)
    BY <2>1, LockedFacts
  <2>3. CASE db.workspaceRev # r.expectedWorkspaceRev /\ Refuse(h, Refused(r, "conflict"))
    <3>1. ~Fits(db, r)
      BY <2>1, <2>3 DEF Fits
    <3>2. Refused(r, "conflict").kind # "ok"
      BY DEF Refused
    <3> HIDE DEF r
    <3>3. Declines(h, Refused(r, "conflict"))
      BY <2>1, <2>2, <2>3, <3>1, <3>2, ConflictOfNow DEF Declines
    <3> QED BY <3>3
  <2>4. CASE Refuse(h, Refused(r, "invalid"))
    <3>1. Refused(r, "invalid").kind \notin {"conflict", "ok"}
      BY DEF Refused
    <3> QED BY <2>4, <3>1 DEF Declines
  <2>5. CASE CanAdvance(db) /\ db.workspaceRev = r.expectedWorkspaceRev
               /\ Persist(h, CommittedSettings(db, r), r)
    <3>1. r.settings \in Vals
      BY <2>1, <2>2 DEF IInv, PlannedOnHistory
    <3>2. Fits(db, r) /\ SeesFirst(db, r)
      BY <2>1, <2>5 DEF Fits, SeesFirst
    <3> HIDE DEF r
    <3>3. Advances(db, CommittedSettings(db, r), r)
      BY <2>2, <2>5, <3>1, SettingsAdvance
    <3>4. Counted(db, CommittedSettings(db, r)) /\ ValidState(CommittedSettings(db, r))
      BY <2>2, SettingsCount
    <3>5. Persists(h, CommittedSettings(db, r), r)
      BY <2>1, <2>2, <2>5, <3>2, <3>3, <3>4 DEF Persists
    <3> QED BY <3>5
  <2> QED BY <2>1, <2>3, <2>4, <2>5
<1> QED BY <1>1, <1>2

\* Every step of a client or of a transaction keeps the invariant of the history.
LEMMA NextHInv == IInv /\ IInv' /\ HInv /\ [Next]_vars => HInv'
<1> SUFFICES ASSUME IInv, IInv', HInv, [Next]_vars PROVE HInv'
  OBVIOUS
<1>1. CASE IssueOperation
  <2>1. PICK n \in DOMAIN snapshots, shape \in Shapes \ {"settings", "undo"} :
          \E cs \in Intents(snapshots[n], shape) :
            /\ Plannable(snapshots[n], cs)
            /\ \E id : Issue(OperationRequest(id, snapshots[n], cs))
    BY <1>1 DEF IssueOperation
  <2>2. PICK cs \in Intents(snapshots[n], shape) :
          /\ Plannable(snapshots[n], cs)
          /\ \E id : Issue(OperationRequest(id, snapshots[n], cs))
    BY <2>1
  <2>3. shape \in PlannedShapes
    BY ShapesAssumption DEF PlannedShapes
  <2>4. IsProgram(cs)
    BY <2>3, IntentIsProgram
  <2> QED BY <2>2, <2>4, PlannedIsGood, IssueHStep
<1>2. CASE IssueUndo
  <2>1. PICK n \in DOMAIN snapshots :
          \E m \in 1..(n - 1) :
            /\ db.operations[m].request.domain = "operation"
            /\ Plannable(snapshots[n], Undo(db.operations[m].request.commands))
            /\ \E id : Issue(OperationRequest(id, snapshots[n],
                                              Undo(db.operations[m].request.commands)))
    BY <1>2 DEF IssueUndo
  <2>2. PICK m \in 1..(n - 1) :
            /\ db.operations[m].request.domain = "operation"
            /\ Plannable(snapshots[n], Undo(db.operations[m].request.commands))
            /\ \E id : Issue(OperationRequest(id, snapshots[n],
                                              Undo(db.operations[m].request.commands)))
    BY <2>1
  <2>3. IsProgram(Undo(db.operations[m].request.commands))
    BY <2>2, CommittedIsProgram, UndoIsProgram
  <2> QED BY <2>2, <2>3, PlannedIsGood, IssueHStep
<1>3. CASE IssueSettings
  <2>1. PICK id \in CommitIds, n \in DOMAIN snapshots, v \in Vals :
          Issue(SettingsRequest(id, snapshots[n], v))
    BY <1>3 DEF IssueSettings
  <2>2. snapshots[n].opSeq = n
    BY HistoryFacts
  <2> DEFINE r == SettingsRequest(id, snapshots[n], v)
  <2>3. r.base = n /\ GoodRequest(r, snapshots[n])
    BY <2>2 DEF GoodRequest, Shaped, SettingsRequest
  <2> HIDE DEF r
  <2>4. Issue(r)
    BY <2>1 DEF r
  <2> QED BY <2>3, <2>4, IssueHStep
<1>4. ASSUME NEW h \in Handlers, BeginCommit(h) PROVE HInv'
  <2>1. PICK r \in requests :
          handlers' = [handlers EXCEPT
            ![h] = [phase |-> "locking", request |-> r, route |-> db.route]]
    BY <1>4 DEF BeginCommit
  <2> DEFINE x == [phase |-> "locking", request |-> r, route |-> db.route]
  <2>2. UNCHANGED <<db, requests, answers, snapshots>>
    BY <1>4 DEF BeginCommit
  <2>3. r.base \in 1..db.opSeq /\ db.opSeq \in Nat /\ db.opSeq >= 1
        /\ DOMAIN snapshots = 1..db.opSeq /\ snapshots[db.opSeq].route = db.route
    BY HistoryFacts DEF Snapshot
  <2>4. \E k \in DOMAIN snapshots : x.request.base <= k /\ x.route = snapshots[k].route
    BY <2>3
  <2> HIDE DEF x
  <2>5. handlers' = [handlers EXCEPT ![h] = x]
    BY <2>1 DEF x
  <2> QED BY <2>2, <2>4, <2>5, HandlerHStep
<1>5. ASSUME NEW h \in Handlers, NEW a, Refuse(h, a),
             a.kind = "conflict" => a.request \in requests /\ \E k \in DOMAIN snapshots : RefusedAt(a, k)
      PROVE  HInv'
  <2>1. /\ handlers' = [handlers EXCEPT ![h] = Idle] /\ answers' = answers \cup {a}
        /\ UNCHANGED <<db, requests, snapshots>>
    BY <1>5 DEF Refuse, Answer
  <2>2. Idle.phase # "locking"
    BY DEF Idle
  <2> QED BY <1>5, <2>1, <2>2, HandlerHStep
<1>6. ASSUME NEW h \in Handlers, Replay(h) PROVE HInv'
  <2>1. PICK rec : Refuse(h, IF SameRequest(rec.request, handlers[h].request)
                             THEN Ok(handlers[h].request, Replayed(db, rec))
                             ELSE Refused(handlers[h].request, "identity-mismatch"))
    BY <1>6 DEF Replay
  <2>2. /\ Ok(handlers[h].request, Replayed(db, rec)).kind # "conflict"
        /\ Refused(handlers[h].request, "identity-mismatch").kind # "conflict"
    BY DEF Ok, Refused
  <2> QED BY <1>5, <2>1, <2>2
<1>7. ASSUME NEW h \in Handlers, CommitOperation(h) \/ CommitSettings(h) PROVE HInv'
  <2>1. CASE \E a : Declines(h, a)
    BY <1>5, <2>1 DEF Declines
  <2>2. CASE \E w, r : Persists(h, w, r)
    BY <2>2, PersistHStep DEF Persists
  <2> QED BY <1>7, <2>1, <2>2, CommitOrDecline
<1>8. ASSUME NEW h \in Handlers, Abort(h) PROVE HInv'
  <2>1. handlers' = [handlers EXCEPT ![h] = Idle] /\ UNCHANGED <<db, requests, answers, snapshots>>
    BY <1>8 DEF Abort
  <2>2. Idle.phase # "locking"
    BY DEF Idle
  <2> QED BY <2>1, <2>2, HandlerHStep
<1>9. CASE UNCHANGED vars
  <2>1. UNCHANGED <<db, handlers, requests, answers, snapshots>>
    BY <1>9 DEF vars
  <2>2. RequestsOK'
    BY <2>1 DEF HInv, RequestsOK, GoodRequest
  <2>3. RoutesOK' /\ ValidWorkspace'
    BY <2>1 DEF HInv, RoutesOK, ValidWorkspace
  <2>4. ContentFollowsCounter' /\ CountersFollowStructure'
    BY <2>1 DEF HInv, ContentFollowsCounter, RemovedBetween, CountersFollowStructure
  <2>5. RecordsOK'
    BY <2>1 DEF HInv, RecordsOK, Operations, Fits, SeesFirst
  <2>6. ConflictsOK'
    BY <2>1 DEF HInv, ConflictsOK, RefusedAt, Operations, Fits
  <2> QED BY <2>2, <2>3, <2>4, <2>5, <2>6 DEF HInv
<1> QED BY <1>1, <1>2, <1>3, <1>4, <1>6, <1>7, <1>8, <1>9 DEF Next

\* Both invariants hold in every state of the system.
LEMMA HistoryInvariance == Spec => [](IInv /\ HInv)
<1>1. Init => IInv /\ HInv
  BY InitIInv, HInit
<1>2. (IInv /\ HInv) /\ [Next]_vars => (IInv /\ HInv)'
  BY NextIInv, NextHInv
<1> QED BY <1>1, <1>2, PTL DEF Spec

-----------------------------------------------------------------------------
(* What the vector of a request says *)

\* What the vector of an operation holds was read off the snapshot it was planned on.
LEMMA VectorFacts ==
  ASSUME NEW s, NEW r, GoodRequest(r, s), r.domain = "operation"
  PROVE  LET req == Requirements(r.commands)
         IN /\ req.workspace => r.expected.workspaceRev = s.workspaceRev
            /\ \A d \in DOMAIN req.docs :
                 /\ req.docs[d].content /\ d \in DOMAIN s.docs
                      => r.expected.docs[d].contentRev = s.docs[d].contentRev
                 /\ ~req.workspace =>
                      /\ ~req.docs[d].absent /\ ~req.docs[d].meta
                      /\ \E c \in Range(r.commands) : c.kind = "content" /\ c.doc = d
            /\ req.route => req.workspace
<1> DEFINE cs == r.commands
           req == Requirements(cs)
           ws == WriteSet(cs)
<1>1. /\ \A c \in Range(cs) : c.kind \in Kinds
      /\ r.expected = Expected(s, cs)
  BY DEF GoodRequest, IsProgram, Range
<1>2. req.workspace => r.expected.workspaceRev = s.workspaceRev
  BY <1>1 DEF Expected, WriteSet, Requirements, Kinds
<1>3. ASSUME NEW d \in DOMAIN req.docs, req.docs[d].content, d \in DOMAIN s.docs
      PROVE  r.expected.docs[d].contentRev = s.docs[d].contentRev
  <2>1. d \in TargetDocs(cs)
    BY DEF Requirements
  <2>2. On(cs, {"content", "remove"}, d) # {}
    BY <1>3, <2>1 DEF Requirements
  <2>3. On(cs, {"content", "add", "remove"}, d) # {}
    BY <2>2 DEF On
  <2>4. d \in DOMAIN ws.docs /\ ws.docs[d].content
    BY <2>1, <2>3 DEF WriteSet
  <2>5. r.expected.docs[d] = Expectation(s, d, ws.docs[d])
    BY <1>1, <2>4 DEF Expected
  <2> HIDE DEF ws
  <2> QED BY <1>3, <2>4, <2>5 DEF Expectation
<1>4. ASSUME NEW d \in DOMAIN req.docs, ~req.workspace
      PROVE  /\ ~req.docs[d].absent /\ ~req.docs[d].meta
             /\ \E c \in Range(cs) : c.kind = "content" /\ c.doc = d
  <2>1. \A c \in Range(cs) : c.kind = "content"
    BY <1>4 DEF Requirements
  <2>2. d \in TargetDocs(cs)
    BY DEF Requirements
  <2>3. On(cs, {"add"}, d) = {} /\ On(cs, {"meta", "remove"}, d) = {}
    BY <2>1 DEF On
  <2>4. \E c \in Range(cs) : c.doc = d
    BY <2>2 DEF TargetDocs
  <2> QED BY <2>1, <2>2, <2>3, <2>4 DEF Requirements
<1>5. req.route => req.workspace
  BY DEF Requirements
<1> QED BY <1>2, <1>3, <1>4, <1>5

\* A document that a command of the operation edits is not one that it adds.
LEMMA EditedIsNotAdded ==
  ASSUME NEW cs, OneStructuralChange(cs), NEW c \in Range(cs), c.kind = "content"
  PROVE  /\ c.doc \in DOMAIN Requirements(cs).docs
         /\ Requirements(cs).docs[c.doc].content /\ ~Requirements(cs).docs[c.doc].absent
<1>1. c.doc \in TargetDocs(cs) /\ On(cs, {"content", "remove"}, c.doc) # {}
  BY DEF TargetDocs, On
<1>2. On(cs, {"add"}, c.doc) = {}
  <2> SUFFICES ASSUME NEW e \in Range(cs), e.kind = "add", e.doc = c.doc PROVE FALSE
    BY DEF On
  <2>1. PICK i \in DOMAIN cs : cs[i] = e
    BY DEF Range
  <2>2. PICK j \in DOMAIN cs : cs[j] = c
    BY DEF Range
  <2> QED BY <2>1, <2>2 DEF OneStructuralChange
<1> QED BY <1>1, <1>2 DEF Requirements

\* An operation that fits a later snapshot, and edits no document that was away
\* since it was planned, fits every snapshot in between.
LEMMA StillFits ==
  ASSUME IInv, HInv, NEW r, r.domain = "operation", NEW b \in DOMAIN snapshots,
         NEW k \in DOMAIN snapshots, NEW n \in DOMAIN snapshots, b <= k, k <= n,
         GoodRequest(r, snapshots[b]), ~Conflicts(snapshots[n], r),
         \A c \in Range(r.commands) : c.kind = "content" => ~RemovedBetween(c.doc, b, n)
  PROVE  ~Conflicts(snapshots[k], r)
<1> DEFINE req == Requirements(r.commands)
<1>1. /\ DOMAIN snapshots = 1..db.opSeq /\ db.opSeq \in Nat
      /\ \A j \in DOMAIN snapshots : snapshots[j] \in Workspaces
  BY HistoryFacts
<1>2. /\ req.workspace => r.expected.workspaceRev = snapshots[b].workspaceRev
      /\ \A d \in DOMAIN req.docs :
           /\ req.docs[d].content /\ d \in DOMAIN snapshots[b].docs
                => r.expected.docs[d].contentRev = snapshots[b].docs[d].contentRev
           /\ ~req.workspace =>
                /\ ~req.docs[d].absent /\ ~req.docs[d].meta
                /\ \E c \in Range(r.commands) : c.kind = "content" /\ c.doc = d
      /\ req.route => req.workspace
  BY VectorFacts
<1>3. /\ \A d \in DOMAIN req.docs :
           ~DocumentConflict(snapshots[n], r.expected.docs[d], req.docs[d], d)
      /\ req.route => snapshots[n].routeRev = r.expected.routeRev
      /\ req.workspace => snapshots[n].workspaceRev = r.expected.workspaceRev
  BY DEF Conflicts
<1>a. \A d \in DOMAIN req.docs : req.docs[d].absent \in BOOLEAN
  BY DEF Requirements
<1> HIDE DEF req
<1>4. ASSUME req.workspace, NEW j \in DOMAIN snapshots, b <= j, j <= n
      PROVE  /\ snapshots[j].workspaceRev = snapshots[n].workspaceRev
             /\ snapshots[j].routeRev = snapshots[n].routeRev
             /\ DOMAIN snapshots[j].docs = DOMAIN snapshots[n].docs
             /\ \A d \in DOMAIN snapshots[n].docs :
                  snapshots[j].docs[d].metaRev = snapshots[n].docs[d].metaRev
  <2>1. snapshots[b].workspaceRev = snapshots[n].workspaceRev
    BY <1>2, <1>3, <1>4
  <2>2. /\ snapshots[j].workspaceRev = snapshots[n].workspaceRev
        /\ SameStructure(snapshots[j], snapshots[n])
    BY <1>4, <2>1, SameBetween
  <2>3. /\ snapshots[j].routeRev = snapshots[n].routeRev
        /\ \A d \in DOMAIN snapshots[n].docs :
             snapshots[j].docs[d].metaRev = snapshots[n].docs[d].metaRev
    BY <1>4, <2>2 DEF HInv, CountersFollowStructure
  <2> QED BY <2>2, <2>3 DEF SameStructure
<1>5. ASSUME NEW d \in DOMAIN req.docs, ~req.docs[d].absent
      PROVE  /\ ~RemovedBetween(d, b, n) /\ d \in DOMAIN snapshots[n].docs
             /\ d \in DOMAIN snapshots[k].docs /\ d \in DOMAIN snapshots[b].docs
  <2>1. d \in DOMAIN snapshots[n].docs
    BY <1>3, <1>5, <1>a DEF DocumentConflict
  <2>2. ~RemovedBetween(d, b, n)
    <3>1. CASE req.workspace
      <4>1. \A j \in b..n : j \in DOMAIN snapshots /\ b <= j /\ j <= n
        BY <1>1
      <4> QED BY <1>4, <2>1, <3>1, <4>1 DEF RemovedBetween
    <3>2. CASE ~req.workspace
      BY <1>2, <3>2
    <3> QED BY <3>1, <3>2
  <2>3. b \in b..n /\ k \in b..n
    BY <1>1
  <2> QED BY <2>1, <2>2, <2>3 DEF RemovedBetween
<1>6. ASSUME NEW d \in DOMAIN req.docs
      PROVE  ~DocumentConflict(snapshots[k], r.expected.docs[d], req.docs[d], d)
  <2>1. CASE req.docs[d].absent
    <3>1. d \notin DOMAIN snapshots[n].docs /\ req.workspace
      BY <1>2, <1>3, <1>a, <2>1 DEF DocumentConflict
    <3>2. d \notin DOMAIN snapshots[k].docs
      BY <1>4, <3>1
    <3> QED BY <1>a, <2>1, <3>2 DEF DocumentConflict
  <2>2. CASE ~req.docs[d].absent
    <3>1. /\ ~RemovedBetween(d, b, n) /\ d \in DOMAIN snapshots[n].docs
          /\ d \in DOMAIN snapshots[k].docs /\ d \in DOMAIN snapshots[b].docs
      BY <1>5, <2>2
    <3>2. /\ req.docs[d].content =>
               snapshots[n].docs[d].contentRev = r.expected.docs[d].contentRev
          /\ req.docs[d].meta => snapshots[n].docs[d].metaRev = r.expected.docs[d].metaRev
      BY <1>3, <2>2, <3>1 DEF DocumentConflict
    <3>3. req.docs[d].meta => snapshots[k].docs[d].metaRev = r.expected.docs[d].metaRev
      BY <1>2, <1>4, <3>1, <3>2
    <3>4. ASSUME req.docs[d].content
          PROVE  snapshots[k].docs[d].contentRev = r.expected.docs[d].contentRev
      <4>1. ~RemovedBetween(d, b, k) /\ ~RemovedBetween(d, k, n)
        <5>1. \A j \in b..k : j \in b..n
          BY <1>1
        <5>2. \A j \in k..n : j \in b..n
          BY <1>1
        <5> QED BY <3>1, <5>1, <5>2 DEF RemovedBetween
      <4>2. d \in DocIds
        BY <1>1, <3>1, SnapshotFacts
      <4>3. /\ snapshots[b].docs[d].contentRev <= snapshots[k].docs[d].contentRev
            /\ snapshots[k].docs[d].contentRev <= snapshots[n].docs[d].contentRev
        BY <4>1, <4>2 DEF HInv, ContentFollowsCounter
      <4>4. snapshots[b].docs[d].contentRev = snapshots[n].docs[d].contentRev
        BY <1>2, <3>1, <3>2, <3>4
      <4>5. /\ snapshots[b].docs[d].contentRev \in Nat /\ snapshots[k].docs[d].contentRev \in Nat
            /\ snapshots[n].docs[d].contentRev \in Nat
        BY <1>1, <3>1, SnapshotFacts
      <4>6. snapshots[k].docs[d].contentRev = snapshots[n].docs[d].contentRev
        BY <4>3, <4>4, <4>5
      <4> QED BY <3>2, <3>4, <4>6
    <3> QED BY <2>2, <3>1, <3>3, <3>4 DEF DocumentConflict
  <2> QED BY <2>1, <2>2
<1>7. req.route => snapshots[k].routeRev = r.expected.routeRev
  BY <1>2, <1>3, <1>4
<1>8. req.workspace => snapshots[k].workspaceRev = r.expected.workspaceRev
  BY <1>3, <1>4
<1> QED BY <1>6, <1>7, <1>8 DEF Conflicts, req

\* Requests with the same hash differ at most in the base their client recorded.
LEMMA SameRequestFacts ==
  ASSUME NEW q, NEW r, Shaped(q), Shaped(r), q.domain \in {"operation", "settings"},
         r.domain \in {"operation", "settings"}, SameRequest(q, r)
  PROVE  /\ q.domain = r.domain /\ q.id = r.id
         /\ r.domain = "operation" => q.commands = r.commands /\ q.expected = r.expected
         /\ r.domain = "settings" => q.expectedWorkspaceRev = r.expectedWorkspaceRev
<1>1. /\ [q EXCEPT !.base = 0] = [r EXCEPT !.base = 0]
      /\ DOMAIN q = DOMAIN [q EXCEPT !.base = 0] /\ DOMAIN r = DOMAIN [r EXCEPT !.base = 0]
  BY DEF SameRequest
<1>2. \A x \in DOMAIN r : x # "base" => q[x] = r[x]
  BY <1>1
<1>3. {"domain", "id"} \subseteq DOMAIN r
  BY DEF Shaped
<1>4. q.domain = r.domain /\ q.id = r.id
  BY <1>2, <1>3
<1> QED BY <1>2, <1>4 DEF Shaped

-----------------------------------------------------------------------------
(* The theorems *)

(* What is committed passes the validation of a whole workspace, although   *)
(* the manifest that was validated may be the one from before the wait for  *)
(* the lock: an operation that the manifest bears on declares the workspace *)
(* revision, and while that stays so does the manifest                      *)
(* (lockWorkspaceCommitSnapshot, validateWorkspaceCommitPreconditions).     *)
THEOREM CommitsAreValid == Spec => []ValidWorkspace
<1>1. HInv => ValidWorkspace
  BY DEF HInv
<1> QED BY <1>1, HistoryInvariance, PTL

(* Every operation the editors plan, from any snapshot and with any undo,   *)
(* carries the vector that the server derives for it                        *)
(* (collectCommandWriteSet, analyzeWorkspaceOperationRequirements).         *)
THEOREM VectorsAgree == Spec => []PlannerAgreesWithServer
<1>1. HInv => PlannerAgreesWithServer
  BY DEF HInv, RequestsOK, GoodRequest, PlannerAgreesWithServer
<1> QED BY <1>1, HistoryInvariance, PTL

(* No lost update of a content: a content command was applied to the        *)
(* content of its base snapshot, unless the document was away in between    *)
(* (validateWorkspaceCommitPreconditions).                                  *)
THEOREM NoLostContent == Spec => []ContentIsBaselineUnlessRecreated
<1>1. IInv /\ HInv => ContentIsBaselineUnlessRecreated
  <2> SUFFICES ASSUME IInv, HInv, NEW n \in DOMAIN Operations,
                      Operations[n].request.domain = "operation",
                      NEW c \in Range(Operations[n].request.commands), c.kind = "content",
                      ~RemovedBetween(c.doc, Operations[n].request.base, Operations[n].opSeq - 1)
               PROVE  Before(Operations[n]).docs[c.doc].content
                        = Base(Operations[n]).docs[c.doc].content
    BY DEF ContentIsBaselineUnlessRecreated, OperationRecords, Range
  <2> DEFINE r == Operations[n].request
             b == r.base
             d == c.doc
  <2>1. /\ DOMAIN snapshots = 1..db.opSeq /\ db.opSeq \in Nat /\ db.opSeq >= 1
        /\ DOMAIN Operations = 1..(db.opSeq - 1)
        /\ Operations[n].opSeq = n + 1 /\ r \in requests
        /\ \A j \in DOMAIN snapshots : snapshots[j] \in Workspaces
    BY HistoryFacts
  <2>2. b \in DOMAIN snapshots
    BY <2>1, HistoryFacts
  <2>3. n \in DOMAIN snapshots /\ Operations[n].opSeq - 1 = n
    BY <2>1
  <2>4. b <= n /\ ~Conflicts(snapshots[n], r)
    BY DEF HInv, RecordsOK, Fits
  <2>5. GoodRequest(r, snapshots[b])
    BY <2>1 DEF HInv, RequestsOK
  <2>6. OneStructuralChange(r.commands)
    BY <2>5 DEF GoodRequest, WellFormed
  <2> HIDE DEF r, b
  <2>7. ~RemovedBetween(d, b, n)
    BY <2>3 DEF r, b
  <2>8. d \in DOMAIN snapshots[b].docs /\ d \in DOMAIN snapshots[n].docs
    <3>1. b \in b..n /\ n \in b..n
      BY <2>1, <2>2, <2>3, <2>4
    <3> QED BY <2>7, <3>1 DEF RemovedBetween
  <2> DEFINE q == Requirements(r.commands).docs[d]
             e == r.expected.docs[d]
  <2>9. d \in DOMAIN Requirements(r.commands).docs /\ q.content /\ ~q.absent /\ q.absent \in BOOLEAN
    <3>1. d \in DOMAIN Requirements(r.commands).docs /\ q.content /\ ~q.absent
      BY <2>6, EditedIsNotAdded DEF r
    <3>2. q.absent \in BOOLEAN
      BY <3>1 DEF Requirements
    <3> QED BY <3>1, <3>2
  <2>10. e.contentRev = snapshots[b].docs[d].contentRev
    BY <2>5, <2>8, <2>9, VectorFacts DEF r
  <2>11. ~DocumentConflict(snapshots[n], e, q, d)
    BY <2>4, <2>9 DEF Conflicts
  <2> HIDE DEF q, e
  <2>12. snapshots[n].docs[d].contentRev = snapshots[b].docs[d].contentRev
    BY <2>8, <2>9, <2>10, <2>11 DEF DocumentConflict
  <2>13. d \in DocIds
    BY <2>1, <2>3, <2>8, SnapshotFacts
  <2>14. snapshots[n].docs[d].content = snapshots[b].docs[d].content
    BY <2>2, <2>3, <2>4, <2>7, <2>12, <2>13 DEF HInv, ContentFollowsCounter
  <2> QED BY <2>3, <2>14 DEF Before, Base, r, b
<1> QED BY <1>1, HistoryInvariance, PTL

(* What an operation overwrites first is what its client saw, also in a     *)
(* document that was removed and put back: its reverse has been run on the  *)
(* new content and restores it (applyDocumentCommand).                      *)
THEOREM NothingUnseenIsOverwritten == Spec => []OverwrittenValuesWereSeen
<1>1. IInv /\ HInv => OverwrittenValuesWereSeen
  <2> SUFFICES ASSUME IInv, HInv, NEW n \in DOMAIN Operations,
                      Operations[n].request.domain = "operation",
                      Head(Operations[n].request.commands).kind = "content"
               PROVE  LET first == Head(Operations[n].request.commands)
                      IN Before(Operations[n]).docs[first.doc].content[first.field] = first.from
    BY DEF OverwrittenValuesWereSeen, OperationRecords, Range
  <2>1. Operations[n].opSeq - 1 = n
    BY HistoryFacts
  <2> QED BY <2>1 DEF HInv, RecordsOK, SeesFirst, Before
<1> QED BY <1>1, HistoryInvariance, PTL

(* A request that was refused with a conflict never commits afterwards,     *)
(* except as an operation that edits a document which was away since it was *)
(* planned (CommitWorkspaceOperation, CommitWorkspaceSettings).             *)
THEOREM RefusalsAreFinal == Spec => []ConflictIsFinal
<1>1. IInv /\ HInv => ConflictIsFinal
  <2> SUFFICES ASSUME IInv, HInv, NEW a \in answers, NEW n \in DOMAIN Operations,
                      a.kind = "conflict", SameRequest(Operations[n].request, a.request),
                      ~(/\ a.request.domain = "operation"
                        /\ \E c \in Range(a.request.commands) :
                             /\ c.kind = "content"
                             /\ RemovedBetween(c.doc, a.request.base, Operations[n].opSeq - 1))
               PROVE  FALSE
    BY DEF ConflictIsFinal, Range
  <2> DEFINE r == a.request
             q == Operations[n].request
             b == r.base
  <2>1. /\ DOMAIN snapshots = 1..db.opSeq /\ db.opSeq \in Nat /\ db.opSeq >= 1
        /\ DOMAIN Operations = 1..(db.opSeq - 1)
        /\ Operations[n].opSeq = n + 1 /\ q \in requests
        /\ \A j \in DOMAIN snapshots : snapshots[j] \in Workspaces
    BY HistoryFacts
  <2>2. PICK k \in DOMAIN snapshots : RefusedAt(a, k)
    BY DEF HInv, ConflictsOK
  <2>3. r \in requests
    BY DEF HInv, ConflictsOK
  <2>4. /\ b \in DOMAIN snapshots /\ r.domain \in {"operation", "settings"}
        /\ q.domain \in {"operation", "settings"}
    BY <2>1, <2>3, HistoryFacts
  <2>5. n \in DOMAIN snapshots /\ Operations[n].opSeq - 1 = n
    <3>1. n \in 1..(db.opSeq - 1) /\ Operations[n].opSeq = n + 1
      BY <2>1
    <3> QED BY ONLY <2>1, <3>1
  <2>6. Fits(snapshots[n], q) /\ q.id = Operations[n].id
    BY DEF HInv, RecordsOK
  <2>7. Shaped(q) /\ GoodRequest(r, snapshots[b]) /\ Shaped(r)
    BY <2>1, <2>3 DEF HInv, RequestsOK, GoodRequest
  <2>8. SameRequest(q, r)
    OBVIOUS
  <2> HIDE DEF r, q, b
  <2>9. /\ q.domain = r.domain /\ q.id = r.id
        /\ r.domain = "operation" => q.commands = r.commands /\ q.expected = r.expected
        /\ r.domain = "settings" => q.expectedWorkspaceRev = r.expectedWorkspaceRev
    BY <2>4, <2>7, <2>8, SameRequestFacts
  <2>10. b <= k /\ k <= n /\ ~Fits(snapshots[k], r)
    BY <2>2, <2>6, <2>9 DEF RefusedAt, r, b
  <2>11. Fits(snapshots[n], r)
    BY <2>4, <2>6, <2>9 DEF Fits, Conflicts
  <2>12. CASE r.domain = "settings"
    <3>1. r.expectedWorkspaceRev = snapshots[b].workspaceRev
      BY <2>7, <2>12 DEF GoodRequest
    <3>2. r.expectedWorkspaceRev = snapshots[n].workspaceRev
          /\ r.expectedWorkspaceRev # snapshots[k].workspaceRev
      BY <2>10, <2>11, <2>12 DEF Fits
    <3>3. snapshots[k].workspaceRev = snapshots[n].workspaceRev
      <4>1. snapshots[b].workspaceRev = snapshots[n].workspaceRev
        BY ONLY <3>1, <3>2
      <4> QED BY <2>4, <2>5, <2>10, <4>1, SameBetween
    <3> QED BY ONLY <3>2, <3>3
  <2>13. CASE r.domain = "operation"
    <3>1. \A c \in Range(r.commands) : c.kind = "content" => ~RemovedBetween(c.doc, b, n)
      BY <2>5, <2>13 DEF r, b
    <3>2. ~Conflicts(snapshots[n], r) /\ Conflicts(snapshots[k], r)
      BY <2>10, <2>11, <2>13 DEF Fits
    <3> QED BY <2>4, <2>5, <2>7, <2>10, <2>13, <3>1, <3>2, StillFits
  <2> QED BY <2>4, <2>12, <2>13
<1> QED BY <1>1, HistoryInvariance, PTL

\* A step changes the workspace only by a commit.
LEMMA OnlyCommitsChange ==
  ASSUME IInv, HInv, [Next]_vars
  PROVE  (UNCHANGED db) \/ \E h \in Handlers : \E w, r : Persists(h, w, r)
<1>1. CASE IssueOperation \/ IssueUndo \/ IssueSettings
  BY <1>1 DEF IssueOperation, IssueUndo, IssueSettings, Issue
<1>2. ASSUME NEW h \in Handlers, BeginCommit(h) \/ Replay(h) \/ Abort(h) PROVE UNCHANGED db
  BY <1>2 DEF BeginCommit, Replay, Abort, Refuse
<1>3. ASSUME NEW h \in Handlers, CommitOperation(h) \/ CommitSettings(h)
      PROVE  (UNCHANGED db) \/ \E w, r : Persists(h, w, r)
  <2>1. CASE \E a : Declines(h, a)
    BY <2>1 DEF Declines, Refuse
  <2> QED BY <1>3, <2>1, CommitOrDecline
<1>4. CASE UNCHANGED vars
  BY <1>4 DEF vars
<1> QED BY <1>1, <1>2, <1>3, <1>4 DEF Next

(* A commit moves the counter of a partition exactly when it moves its      *)
(* value, and by one, however many commands wrote to it and whichever       *)
(* manifest the handler had read (buildWorkspaceCommitChanges).             *)
THEOREM CountersAreExact == Spec => CountersFollowValues
<1> DEFINE A == db'.opSeq # db.opSeq =>
                  /\ db'.opSeq = db.opSeq + 1
                  /\ AdvancedWith("routeRev", "route", db, db')
                  /\ db'.workspaceRev - db.workspaceRev \in {0, 1}
                  /\ \A d \in DOMAIN db.docs \cap DOMAIN db'.docs :
                       /\ AdvancedWith("contentRev", "content", db.docs[d], db'.docs[d])
                       /\ AdvancedWith("metaRev", "meta", db.docs[d], db'.docs[d])
<1>1. IInv /\ HInv /\ [Next]_vars => A
  <2> SUFFICES ASSUME IInv, HInv, [Next]_vars, db'.opSeq # db.opSeq PROVE A
    OBVIOUS
  <2>1. PICK h \in Handlers : \E w, r : Persists(h, w, r)
    BY OnlyCommitsChange
  <2>2. PICK w, r : Persists(h, w, r)
    BY <2>1
  <2>3. db' = w /\ w.opSeq = db.opSeq + 1 /\ Counted(db, w)
    BY <2>2 DEF Persists, Persist, Advances
  <2> QED BY <2>3 DEF Counted
<1>2. A => [A]_vars
  OBVIOUS
<1>3. IInv /\ HInv /\ [Next]_vars => [A]_vars
  BY <1>1, <1>2
<1> QED BY <1>3, HistoryInvariance, PTL DEF Spec, CountersFollowValues

-----------------------------------------------------------------------------
(* The commit transactions implement the abstract log *)

\* The answers as the abstract log has them.
Answered ==
  {[request |-> a.request, mutation |-> a.mutation] : a \in {x \in answers : x.kind = "ok"}}

\* An answer that reports no commit is nothing to the abstract log.
LEMMA DeclinedIsStutter ==
  ASSUME NEW a, a.kind # "ok", answers' = answers \cup {a}
  PROVE  Answered' = Answered
BY DEF Answered

\* An answer that reports a commit is one answer of the abstract log.
LEMMA OkIsAnswered ==
  ASSUME NEW r, NEW mutation, answers' = answers \cup {Ok(r, mutation)}
  PROVE  Answered' = Answered \cup {[request |-> r, mutation |-> mutation]}
<1>1. /\ Ok(r, mutation).kind = "ok" /\ Ok(r, mutation).request = r
      /\ Ok(r, mutation).mutation = mutation
  BY DEF Ok
<1> DEFINE o == Ok(r, mutation)
<1> HIDE DEF o
<1>2. {x \in answers' : x.kind = "ok"} = {x \in answers : x.kind = "ok"} \cup {o}
  BY <1>1 DEF o
<1> QED BY <1>1, <1>2 DEF Answered, o

\* A commit is the commit of the abstract log.
LEMMA PersistsIsCommit ==
  ASSUME IInv, NEW h, NEW w, NEW r, Persists(h, w, r)
  PROVE  Log!Commit
<1>1. /\ db' = w /\ answers' = answers \cup {Ok(r, Last(w.operations).mutation)}
      /\ Records(db, r.id) = {}
  BY DEF Persists, Persist, Answer
<1>2. PICK mutation \in Mutations :
        w.operations = Append(db.operations,
          [opSeq |-> w.opSeq, id |-> r.id, request |-> r, mutation |-> mutation])
  BY DEF Persists, Advances
<1> DEFINE rec == [opSeq |-> w.opSeq, id |-> r.id, request |-> r, mutation |-> mutation]
<1>3. rec.id = r.id /\ rec.request = r /\ rec.mutation = mutation
  OBVIOUS
<1>4. w.operations = Append(db.operations, rec)
  BY <1>2
<1> HIDE DEF rec
<1>5. Len(db.operations) \in Nat /\ DOMAIN db.operations = 1..Len(db.operations)
      /\ \E S : db.operations \in Seq(S)
  BY DEF IInv, TypeOK
<1>6. /\ Len(w.operations) = Len(db.operations) + 1
      /\ w.operations[Len(db.operations) + 1] = rec
      /\ DOMAIN w.operations = 1..(Len(db.operations) + 1)
  <2>1. PICK S : db.operations \in Seq(S)
    BY <1>5
  <2>2. db.operations \in Seq(S \cup {rec})
    BY <2>1, SeqMonotonic
  <2> QED BY <1>4, <2>2, AppendProperties
<1>7. Last(w.operations) = rec
  BY <1>6 DEF Last
<1>8. Answered' = Answered \cup {[request |-> r, mutation |-> mutation]}
  BY <1>1, <1>3, <1>7, OkIsAnswered
<1>9. \A n \in DOMAIN Operations : Operations[n].id # rec.id
  BY <1>1, <1>3 DEF Records, Range, Operations
<1>10. Operations' = Append(Operations, rec) /\ rec \in {Operations'[n] : n \in DOMAIN Operations'}
  <2>1. Len(db.operations) + 1 \in DOMAIN w.operations
    BY <1>5, <1>6
  <2> QED BY <1>1, <1>4, <1>6, <2>1 DEF Operations
<1>11. Answered' = Answered \cup {[request |-> rec.request, mutation |-> rec.mutation]}
  BY <1>3, <1>8
<1> QED BY <1>3, <1>9, <1>10, <1>11 DEF Log!Commit, Answered

\* The answer to a request whose id is in the log is a replay, or nothing.
LEMMA ReplayIsReplay ==
  ASSUME NEW h, Replay(h)
  PROVE  Log!Replay \/ UNCHANGED <<Operations, Answered>>
<1> DEFINE r == handlers[h].request
<1>1. PICK rec \in Range(db.operations) :
        Refuse(h, IF SameRequest(rec.request, r)
                  THEN Ok(r, Replayed(db, rec)) ELSE Refused(r, "identity-mismatch"))
  BY DEF Replay, Records
<1> HIDE DEF r
<1>2. PICK n \in DOMAIN Operations : rec = Operations[n]
  BY DEF Range, Operations
<1>3. db' = db
  BY <1>1 DEF Refuse
<1>4. CASE SameRequest(rec.request, r)
  <2>1. answers' = answers \cup {Ok(r, rec.mutation)}
    BY <1>1, <1>4 DEF Refuse, Answer, Replayed
  <2> DEFINE a == [request |-> r, mutation |-> rec.mutation]
  <2>2. Answered' = Answered \cup {a}
    BY <2>1, OkIsAnswered
  <2>3. a.request = r /\ a.mutation = rec.mutation
    OBVIOUS
  <2> HIDE DEF a
  <2>4. Log!Hashed(Operations[n].request) = Log!Hashed(a.request)
    BY <1>2, <1>4, <2>3 DEF SameRequest, Log!Hashed
  <2> QED BY <1>2, <1>3, <2>2, <2>3, <2>4 DEF Log!Replay, Answered, Operations
<1>5. CASE ~SameRequest(rec.request, r)
  <2>1. answers' = answers \cup {Refused(r, "identity-mismatch")}
    BY <1>1, <1>5 DEF Refuse, Answer
  <2>2. Refused(r, "identity-mismatch").kind # "ok"
    BY DEF Refused
  <2> QED BY <1>3, <2>1, <2>2, DeclinedIsStutter DEF Operations
<1> QED BY <1>4, <1>5

(* The commit transactions implement CommitLog: under any interleaving of   *)
(* duplicated requests, aborts and replays, a commit id is committed once,  *)
(* and every answer that reports a commit carries the result stored with    *)
(* the first (CommitWorkspaceOperation, CommitWorkspaceSettings).           *)
THEOREM Refinement == Spec => ImplementsCommitLog
<1>1. Init => Log!Init
  BY DEF Init, Log!Init, Operations
<1>2. IInv /\ HInv /\ [Next]_vars => [Log!Next]_(Log!vars)
  <2> SUFFICES ASSUME IInv, HInv, [Next]_vars
               PROVE  Log!Next \/ UNCHANGED <<Operations, Answered>>
    BY DEF Log!vars, Answered
  <2>1. CASE IssueOperation \/ IssueUndo \/ IssueSettings
    BY <2>1 DEF IssueOperation, IssueUndo, IssueSettings, Issue, Operations, Answered
  <2>2. ASSUME NEW h \in Handlers, BeginCommit(h) \/ Abort(h)
        PROVE  UNCHANGED <<Operations, Answered>>
    BY <2>2 DEF BeginCommit, Abort, Operations, Answered
  <2>3. ASSUME NEW h \in Handlers, Replay(h)
        PROVE  Log!Next \/ UNCHANGED <<Operations, Answered>>
    BY <2>3, ReplayIsReplay DEF Log!Next
  <2>4. ASSUME NEW h \in Handlers, CommitOperation(h) \/ CommitSettings(h)
        PROVE  Log!Next \/ UNCHANGED <<Operations, Answered>>
    <3>1. CASE \E a : Declines(h, a)
      BY <3>1, DeclinedIsStutter DEF Declines, Refuse, Answer, Operations
    <3>2. CASE \E w, r : Persists(h, w, r)
      BY <3>2, PersistsIsCommit DEF Log!Next
    <3> QED BY <2>4, <3>1, <3>2, CommitOrDecline
  <2>5. CASE UNCHANGED vars
    BY <2>5 DEF vars, Operations, Answered
  <2> QED BY <2>1, <2>2, <2>3, <2>4, <2>5 DEF Next
<1> QED BY <1>1, <1>2, HistoryInvariance, PTL DEF Spec, ImplementsCommitLog, Log!Spec
=============================================================================
