------------------------ MODULE WorkspaceCommit_proofs ------------------------
(* Theorems about WorkspaceCommit for every value of its constants. *)
EXTENDS WorkspaceCommit, SequenceTheorems, TLAPS

\* The documents after a commit have their type again.
LEMMA NextDocsType ==
  ASSUME NEW db0, NEW before, NEW after, ValidState(before), ValidState(after),
         WithinCapacity(db0, before, after)
  PROVE  NextDocs(before, after) \in DocumentMaps
<1> DEFINE next == NextDocs(before, after)
<1>1. after.docs \in DocumentMaps /\ before.docs \in DocumentMaps
  BY DEF ValidState
<1>2. DOMAIN after.docs \in (SUBSET DocIds) \ {{}}
  BY <1>1 DEF DocumentMaps
<1>3. ASSUME NEW d \in DOMAIN after.docs PROVE next[d] \in Document
  <2>1. after.docs[d] \in Document
    BY <1>1 DEF DocumentMaps
  <2>2. CASE d \notin DOMAIN before.docs
    BY <2>1, <2>2 DEF NextDocs
  <2>3. CASE d \in DOMAIN before.docs
    <3>1. before.docs[d] \in Document
      BY <1>1, <2>3 DEF DocumentMaps
    <3>2. next[d] = NextDocument(before.docs[d], after.docs[d])
      BY <2>3 DEF NextDocs
    <3>3. next[d].contentRev \in Rev /\ next[d].metaRev \in Rev
      <4>1. CASE d \in Changes(before, after).write
        BY <4>1 DEF WithinCapacity
      <4>2. CASE d \notin Changes(before, after).write
        <5>1. /\ before.docs[d].content = after.docs[d].content
              /\ before.docs[d].meta = after.docs[d].meta
          BY <4>2, <2>3 DEF Changes, ContentChanged, MetaChanged, Kept
        <5>2. next[d].contentRev = before.docs[d].contentRev + 0
              /\ next[d].metaRev = before.docs[d].metaRev + 0
          BY <5>1, <3>2, <2>1 DEF NextDocument, Document
        <5> QED BY <5>2, <3>1, MaxRevAssumption DEF Document, Rev
      <4> QED BY <4>1, <4>2
    <3> QED BY <3>2, <3>3, <2>1 DEF NextDocument, Document
  <2> QED BY <2>2, <2>3
<1>4. next \in [DOMAIN after.docs -> Document]
  BY <1>3 DEF NextDocs
<1> QED BY <1>2, <1>4 DEF DocumentMaps

-----------------------------------------------------------------------------
(* What a commit does to the workspace rows, whichever kind it is *)

DbShape(w) ==
  w = [tree |-> w.tree, route |-> w.route, docs |-> w.docs, settings |-> w.settings,
       workspaceRev |-> w.workspaceRev, routeRev |-> w.routeRev, opSeq |-> w.opSeq,
       operations |-> w.operations]

Advances(w, next, r) ==
  /\ DbShape(next)
  /\ Snapshot(next) \in Workspaces
  /\ next.opSeq = w.opSeq + 1
  /\ \E mutation \in Mutations :
       /\ mutation.opSeq = next.opSeq
       /\ next.operations = Append(w.operations,
            [opSeq |-> next.opSeq, id |-> r.id, request |-> r, mutation |-> mutation])
  /\ w.workspaceRev <= next.workspaceRev
  /\ next.workspaceRev = w.workspaceRev => SameStructure(Snapshot(w), Snapshot(next))

\* A counter below its limit may be advanced by one.
LEMMA RevFacts == Rev \in SUBSET Nat /\ 1 \in Rev /\ \A n \in Rev : n < MaxRev => n + 1 \in Rev
BY MaxRevAssumption DEF Rev

\* Writing the log record changes nothing but the log.
LEMMA LoggedFields ==
  ASSUME NEW w, NEW r, NEW m, NEW next, DbShape(w), next = Logged(w, r, m)
  PROVE  /\ DbShape(next)
         /\ next.tree = w.tree /\ next.route = w.route /\ next.docs = w.docs
         /\ next.settings = w.settings /\ next.workspaceRev = w.workspaceRev
         /\ next.routeRev = w.routeRev /\ next.opSeq = w.opSeq
         /\ next.operations = Append(w.operations,
              [opSeq |-> w.opSeq, id |-> r.id, request |-> r, mutation |-> m])
BY DEF Logged, DbShape

\* A settings commit leads to a later database of the right shape.
LEMMA SettingsAdvance ==
  ASSUME NEW w, NEW r, DbShape(w), Snapshot(w) \in Workspaces, CanAdvance(w),
         r.settings \in Vals
  PROVE  Advances(w, CommittedSettings(w, r), r)
<1> DEFINE next == CommittedSettings(w, r)
<1>1. /\ w.tree \in Vals /\ w.route \in SUBSET DocIds /\ w.docs \in DocumentMaps
      /\ w.workspaceRev \in Rev /\ w.routeRev \in Rev /\ w.opSeq \in Rev
      /\ w.workspaceRev < MaxRev /\ w.opSeq < MaxRev
  BY DEF Workspaces, Snapshot, CanAdvance
<1> DEFINE set == [tree |-> w.tree, route |-> w.route, docs |-> w.docs,
                   settings |-> r.settings, operations |-> w.operations,
                   workspaceRev |-> w.workspaceRev + 1, routeRev |-> w.routeRev,
                   opSeq |-> w.opSeq + 1]
           result == MutationOf(set, {}, {})
<1>a. /\ DbShape(set)
      /\ set.tree = w.tree /\ set.route = w.route /\ set.docs = w.docs
      /\ set.settings = r.settings /\ set.routeRev = w.routeRev
      /\ set.workspaceRev = w.workspaceRev + 1 /\ set.opSeq = w.opSeq + 1
      /\ set.operations = w.operations
  BY DEF DbShape
<1>b. next = Logged(set, r, result)
  BY DEF CommittedSettings
<1> HIDE DEF set, next, result
<1>2. /\ next.tree = w.tree /\ next.route = w.route /\ next.docs = w.docs
      /\ next.settings = r.settings /\ next.routeRev = w.routeRev
      /\ next.workspaceRev = w.workspaceRev + 1 /\ next.opSeq = w.opSeq + 1
      /\ DbShape(next)
      /\ next.operations = Append(w.operations,
           [opSeq |-> next.opSeq, id |-> r.id, request |-> r,
            mutation |-> result])
  <2>1. /\ DbShape(next)
        /\ next.tree = set.tree /\ next.route = set.route /\ next.docs = set.docs
        /\ next.settings = set.settings /\ next.workspaceRev = set.workspaceRev
        /\ next.routeRev = set.routeRev /\ next.opSeq = set.opSeq
        /\ next.operations = Append(set.operations,
             [opSeq |-> set.opSeq, id |-> r.id, request |-> r, mutation |-> result])
    BY <1>a, <1>b, LoggedFields
  <2> QED BY <1>a, <2>1
<1>c. result = MutationOf(next, {}, {})
  BY <1>a, <1>2 DEF MutationOf, result
<1>3. Snapshot(next) \in Workspaces
  BY <1>1, <1>2, RevFacts DEF Snapshot, Workspaces
<1>4. MutationOf(next, {}, {}) \in Mutations
  BY <1>1, <1>2, RevFacts DEF MutationOf, Mutations
<1>5. w.workspaceRev <= next.workspaceRev /\ next.workspaceRev # w.workspaceRev
  BY <1>1, <1>2 DEF Rev
<1>6. MutationOf(next, {}, {}).opSeq = next.opSeq
  BY DEF MutationOf
<1>7. /\ DbShape(next)
      /\ next.opSeq = w.opSeq + 1
      /\ \E mutation \in Mutations :
           /\ mutation.opSeq = next.opSeq
           /\ next.operations = Append(w.operations,
                [opSeq |-> next.opSeq, id |-> r.id, request |-> r, mutation |-> mutation])
  BY <1>2, <1>4, <1>6, <1>c
<1> QED BY <1>3, <1>5, <1>7 DEF Advances, next

\* An operation commit leads to a later database of the right shape, also from a
\* manifest R that was read before the lock.
LEMMA OperationAdvance ==
  ASSUME NEW w, NEW r, NEW R \in SUBSET DocIds, DbShape(w), Snapshot(w) \in Workspaces,
         Acceptable(w, [w EXCEPT !.route = R], r)
  PROVE  Advances(w, Committed(w, [w EXCEPT !.route = R], r), r)
<1> DEFINE before == [w EXCEPT !.route = R]
           after == Applied(before, r.commands)
           next == Committed(w, before, r)
           ch == Changes(before, after)
           docs == NextDocs(before, after)
<1>1. /\ w.tree \in Vals /\ w.route \in SUBSET DocIds /\ w.docs \in DocumentMaps
      /\ w.settings \in Vals
      /\ w.workspaceRev \in Rev /\ w.routeRev \in Rev /\ w.opSeq \in Rev
  BY DEF Workspaces, Snapshot
<1>2. before.docs = w.docs /\ before.tree = w.tree
  BY DEF DbShape
<1>3. ValidState(before) /\ ValidState(after) /\ WithinCapacity(w, before, after)
  BY DEF Acceptable
<1> HIDE DEF after, before
<1>4. docs \in DocumentMaps
  BY <1>3, NextDocsType
<1>5. after.tree \in Vals /\ after.route \in SUBSET DocIds
  BY <1>3 DEF ValidState, DocumentMaps
<1> DEFINE set == [tree |-> after.tree, route |-> NextRoute(w, before, after),
                   docs |-> docs, settings |-> w.settings, operations |-> w.operations,
                   workspaceRev |-> w.workspaceRev + (IF ch.workspace THEN 1 ELSE 0),
                   routeRev |-> w.routeRev + (IF ch.route THEN 1 ELSE 0),
                   opSeq |-> w.opSeq + 1]
           result == MutationOf(set, {RevisionOf(docs, d) : d \in ch.write}, ch.delete)
<1>a. next = Logged(set, r, result)
  BY DEF Committed, after
<1> HIDE DEF docs, ch, next
<1>b. /\ DbShape(set)
      /\ set.tree = after.tree /\ set.route = NextRoute(w, before, after)
      /\ set.docs = docs /\ set.settings = w.settings
      /\ set.workspaceRev = w.workspaceRev + (IF ch.workspace THEN 1 ELSE 0)
      /\ set.routeRev = w.routeRev + (IF ch.route THEN 1 ELSE 0)
      /\ set.opSeq = w.opSeq + 1
      /\ set.operations = w.operations
  BY DEF DbShape
<1>c. result.opSeq = set.opSeq /\ result.workspaceRev = set.workspaceRev
      /\ result.routeRev = set.routeRev
  BY DEF MutationOf
<1> HIDE DEF set, result
<1>6. /\ next.tree = after.tree /\ next.route = NextRoute(w, before, after)
      /\ next.docs = docs /\ next.settings = w.settings
      /\ next.workspaceRev = w.workspaceRev + (IF ch.workspace THEN 1 ELSE 0)
      /\ next.routeRev = w.routeRev + (IF ch.route THEN 1 ELSE 0)
      /\ next.opSeq = w.opSeq + 1
      /\ DbShape(next)
      /\ next.operations = Append(w.operations,
           [opSeq |-> next.opSeq, id |-> r.id, request |-> r, mutation |-> result])
  <2>1. /\ DbShape(next)
        /\ next.tree = set.tree /\ next.route = set.route /\ next.docs = set.docs
        /\ next.settings = set.settings /\ next.workspaceRev = set.workspaceRev
        /\ next.routeRev = set.routeRev /\ next.opSeq = set.opSeq
        /\ next.operations = Append(set.operations,
             [opSeq |-> set.opSeq, id |-> r.id, request |-> r, mutation |-> result])
    BY <1>a, <1>b, LoggedFields
  <2> QED BY <1>b, <2>1
<1>7. next.opSeq \in Rev /\ next.workspaceRev \in Rev /\ next.routeRev \in Rev
  BY <1>1, <1>3, <1>6, RevFacts DEF WithinCapacity, ch
<1>8. Snapshot(next) \in Workspaces
  BY <1>1, <1>4, <1>5, <1>6, <1>7 DEF Snapshot, Workspaces, NextRoute
<1>9. result \in Mutations /\ result.opSeq = next.opSeq
  <2> DEFINE D == DOMAIN after.docs
  <2>1. D \in SUBSET DocIds /\ docs \in [D -> Document]
    <3>1. DOMAIN docs = D
      BY DEF docs, NextDocs
    <3> QED BY <1>3, <1>4, <3>1 DEF ValidState, DocumentMaps
  <2>2. ch.write \subseteq D
    BY DEF ch, Changes, ContentChanged, MetaChanged, AddedDocs, Kept
  <2>3. ch.delete \subseteq DocIds
    BY <1>1, <1>2 DEF ch, Changes, RemovedDocs, DocumentMaps
  <2>4. \A d \in ch.write : RevisionOf(docs, d) \in [id : DocIds, contentRev : Rev, metaRev : Rev]
    BY <2>1, <2>2 DEF RevisionOf, Document
  <2>5. set.opSeq = next.opSeq /\ set.workspaceRev = next.workspaceRev
        /\ set.routeRev = next.routeRev
    BY <1>6, <1>b
  <2>6. {RevisionOf(docs, d) : d \in ch.write}
          \in SUBSET [id : DocIds, contentRev : Rev, metaRev : Rev]
    BY <2>4
  <2> QED BY <1>7, <1>c, <2>3, <2>5, <2>6 DEF MutationOf, Mutations, result
<1>10. w.workspaceRev <= next.workspaceRev
  BY <1>1, <1>6, <1>7 DEF Rev
<1>11. ASSUME next.workspaceRev = w.workspaceRev
       PROVE  SameStructure(Snapshot(w), Snapshot(next))
  <2>1. ~StructureChanged(before, after)
    BY <1>1, <1>6, <1>11 DEF ch, Changes, Rev
  <2>2. before.tree = after.tree /\ before.route = after.route
        /\ DOMAIN before.docs = DOMAIN after.docs
        /\ \A d \in DOMAIN after.docs : before.docs[d].meta = after.docs[d].meta
    BY <2>1 DEF StructureChanged, MetaChanged, Kept
  <2>3. DOMAIN docs = DOMAIN after.docs
    BY DEF docs, NextDocs
  <2>4. ASSUME NEW d \in DOMAIN docs PROVE docs[d].meta = after.docs[d].meta
    <3>1. after.docs[d] \in Document
      BY <1>3, <2>3, <2>4 DEF ValidState, DocumentMaps
    <3> QED BY <2>2, <2>3, <3>1 DEF docs, NextDocs, NextDocument, Document
  <2> QED BY <1>2, <1>6, <2>2, <2>3, <2>4 DEF SameStructure, Snapshot, NextRoute
<1> QED BY <1>6, <1>8, <1>9, <1>10, <1>11 DEF Advances, before, next

-----------------------------------------------------------------------------
(* The inductive invariant *)

\* Equal workspace revisions mean equal structure, in all of the history.
StructureFollowsRevision ==
  \A m, n \in DOMAIN snapshots :
    m <= n => /\ snapshots[m].workspaceRev <= snapshots[n].workspaceRev
              /\ snapshots[m].workspaceRev = snapshots[n].workspaceRev
                   => SameStructure(snapshots[m], snapshots[n])

HistoryOK ==
  /\ Len(snapshots) = db.opSeq
  /\ \A n \in DOMAIN snapshots : snapshots[n].opSeq = n

\* A request carries the workspace revision of the snapshot it was planned on.
PlannedOnHistory(r) ==
  /\ r.id \in CommitIds
  /\ r.base \in DOMAIN snapshots
  /\ r.domain \in {"operation", "settings"}
  /\ r.domain = "settings" => r.settings \in Vals
  /\ r.domain = "operation" =>
       r.expected.workspaceRev \in {Omitted, snapshots[r.base].workspaceRev}

HandlersOK ==
  /\ handlers = [h \in Handlers |-> handlers[h]]
  /\ \A h \in Handlers : /\ handlers[h].phase = "locking"
                         /\ handlers[h].request.domain = "operation"
                         => WellFormed(handlers[h].request)

IInv ==
  /\ TypeOK
  /\ DbShape(db)
  /\ OneRecordPerCommit
  /\ HistoryOK
  /\ \A r \in requests : PlannedOnHistory(r)
  /\ HandlersOK
  /\ StructureFollowsRevision
  /\ GuardedStructureIsBaseline

\* The invariant holds in an imported workspace.
LEMMA InitIInv == Init => IInv
<1> SUFFICES ASSUME Init PROVE IInv
  OBVIOUS
<1>1. PICK w \in Seeds :
        db = [tree |-> w.tree, route |-> w.route, docs |-> w.docs,
              settings |-> w.settings, workspaceRev |-> 1, routeRev |-> 1,
              opSeq |-> 1, operations |-> <<>>]
  BY DEF Init
<1>2. /\ handlers = [h \in Handlers |-> Idle] /\ requests = {}
      /\ snapshots = <<Snapshot(db)>>
  BY DEF Init
<1>3. ValidState(w) /\ w.settings \in Vals
  BY SeedsAssumption
<1>4. w.route \in SUBSET DocIds
  BY <1>3 DEF ValidState, DocumentMaps
<1>5. Snapshot(db) \in Workspaces
  BY <1>1, <1>3, <1>4, RevFacts DEF Snapshot, Workspaces, ValidState
<1>6. TypeOK
  BY <1>1, <1>2, <1>5 DEF TypeOK
<1>7. DbShape(db)
  BY <1>1 DEF DbShape
<1>8. HistoryOK /\ Snapshot(db) = snapshots[db.opSeq]
  BY <1>1, <1>2 DEF HistoryOK, Snapshot
<1>9. OneRecordPerCommit
  BY <1>1, <1>8 DEF OneRecordPerCommit, Operations
<1>10. HandlersOK
  BY <1>2 DEF HandlersOK, Idle
<1>11. StructureFollowsRevision
  <2>1. SameStructure(Snapshot(db), Snapshot(db))
    BY DEF SameStructure
  <2>2. Snapshot(db).workspaceRev \in Nat
    BY <1>1 DEF Snapshot
  <2> QED BY <1>2, <2>1, <2>2 DEF StructureFollowsRevision
<1>12. GuardedStructureIsBaseline
  BY <1>1 DEF GuardedStructureIsBaseline, OperationRecords, Operations, Range
<1> QED BY <1>2, <1>6, <1>7, <1>8, <1>9, <1>10, <1>11, <1>12 DEF IInv

\* Only the handlers and the answers change: an abort, a refusal, a replay.
LEMMA HandlerStep ==
  ASSUME IInv, NEW h \in Handlers, NEW x, handlers' = [handlers EXCEPT ![h] = x],
         x = Idle \/ (/\ x.phase = "locking"
                      /\ x.request \in requests
                      /\ x.route \in SUBSET DocIds
                      /\ x.request.domain = "operation" => WellFormed(x.request)),
         UNCHANGED <<db, requests, snapshots>>
  PROVE  IInv'
<1>1. \A g \in Handlers : handlers'[g] = IF g = h THEN x ELSE handlers[g]
  BY DEF IInv, HandlersOK
<1>2. TypeOK'
  BY <1>1 DEF IInv, TypeOK
<1>3. HandlersOK'
  <2>1. handlers' = [g \in Handlers |-> handlers'[g]]
    BY DEF IInv, HandlersOK
  <2>2. ASSUME NEW g \in Handlers, handlers'[g].phase = "locking",
               handlers'[g].request.domain = "operation"
        PROVE  WellFormed(handlers'[g].request)
    BY <1>1, <2>2 DEF IInv, HandlersOK, Idle
  <2>3. \A r : WellFormed(r)' = WellFormed(r)
    OBVIOUS
  <2> QED BY <2>1, <2>2 DEF HandlersOK
<1> QED BY <1>2, <1>3 DEF IInv, DbShape, OneRecordPerCommit, HistoryOK, PlannedOnHistory,
             StructureFollowsRevision, GuardedStructureIsBaseline, Operations,
             OperationRecords, Before, Base

\* A client plans a request on a snapshot it has read.
LEMMA IssueStep ==
  ASSUME IInv, NEW r, PlannedOnHistory(r), Issue(r)
  PROVE  IInv'
<1>1. requests' = requests \cup {r} /\ UNCHANGED <<db, handlers, answers, snapshots>>
  BY DEF Issue
<1>2. TypeOK'
  <2>1. requests \subseteq requests'
    BY <1>1
  <2>2. db'.operations \in Seq([opSeq : Rev, id : CommitIds, request : requests',
                                mutation : Mutations])
    <3> DEFINE Old == [opSeq : Rev, id : CommitIds, request : requests, mutation : Mutations]
               New == [opSeq : Rev, id : CommitIds, request : requests', mutation : Mutations]
    <3>1. Old \subseteq New
      BY <2>1
    <3>2. db.operations \in Seq(Old)
      BY DEF IInv, TypeOK
    <3> HIDE DEF Old, New
    <3>3. db.operations \in Seq(New)
      BY <3>1, <3>2, SeqMonotonic
    <3> QED BY <1>1, <3>3 DEF New
  <2> QED BY <1>1, <2>1, <2>2 DEF IInv, TypeOK
<1>3. \A q \in requests' : PlannedOnHistory(q)'
  BY <1>1 DEF IInv, PlannedOnHistory
<1> QED BY <1>1, <1>2, <1>3 DEF IInv, DbShape, OneRecordPerCommit, HistoryOK, HandlersOK,
             StructureFollowsRevision, GuardedStructureIsBaseline, Operations,
             OperationRecords, Before, Base

\* A request made from a committed snapshot was planned on the history.
LEMMA SnapshotPlanned ==
  ASSUME IInv, NEW n \in DOMAIN snapshots, NEW id \in CommitIds
  PROVE  /\ \A cs : PlannedOnHistory(OperationRequest(id, snapshots[n], cs))
         /\ \A v \in Vals : PlannedOnHistory(SettingsRequest(id, snapshots[n], v))
<1>1. snapshots[n].opSeq = n
  BY DEF IInv, HistoryOK
<1> QED BY <1>1 DEF PlannedOnHistory, OperationRequest, SettingsRequest, Expected

\* A commit: one more record, one more snapshot.
LEMMA PersistStep ==
  ASSUME IInv, NEW h \in Handlers, NEW w, NEW r \in requests, Advances(db, w, r),
         Records(db, r.id) = {}, Persist(h, w, r),
         r.domain = "operation" /\ r.expected.workspaceRev # Omitted
           => r.expected.workspaceRev = db.workspaceRev
  PROVE  IInv'
<1>1. /\ db' = w /\ snapshots' = Append(snapshots, Snapshot(w))
      /\ handlers' = [handlers EXCEPT ![h] = Idle] /\ requests' = requests
  BY DEF Persist, Answer
<1>2. /\ DbShape(w) /\ Snapshot(w) \in Workspaces /\ w.opSeq = db.opSeq + 1
      /\ db.workspaceRev <= w.workspaceRev
      /\ w.workspaceRev = db.workspaceRev => SameStructure(Snapshot(db), Snapshot(w))
  BY DEF Advances
<1>3. PICK mutation \in Mutations :
        /\ mutation.opSeq = w.opSeq
        /\ w.operations = Append(db.operations,
             [opSeq |-> w.opSeq, id |-> r.id, request |-> r, mutation |-> mutation])
  BY DEF Advances
<1> DEFINE rec == [opSeq |-> w.opSeq, id |-> r.id, request |-> r, mutation |-> mutation]
           Record == [opSeq : Rev, id : CommitIds, request : requests, mutation : Mutations]
<1>4. /\ db.operations \in Seq(Record) /\ snapshots \in Seq(Workspaces)
      /\ Len(snapshots) = db.opSeq /\ db.opSeq = Len(db.operations) + 1
      /\ snapshots[db.opSeq] = Snapshot(db)
  BY DEF IInv, TypeOK, HistoryOK, OneRecordPerCommit, Operations
<1>a. /\ db.opSeq \in Nat /\ db.opSeq >= 1
      /\ DOMAIN snapshots = 1..db.opSeq
      /\ DOMAIN db.operations = 1..(db.opSeq - 1)
      /\ \A n \in 1..db.opSeq : n # db.opSeq => n \in DOMAIN db.operations
  BY <1>4
<1>b. /\ w.opSeq \in Nat /\ w.workspaceRev \in Nat /\ db.workspaceRev \in Nat
      /\ Snapshot(w).workspaceRev = w.workspaceRev
      /\ \A n \in 1..db.opSeq : snapshots[n].workspaceRev \in Nat
  <2>1. \A n \in 1..db.opSeq : snapshots[n] \in Workspaces
    BY <1>4, <1>a
  <2>2. \A s \in Workspaces : s.workspaceRev \in Nat /\ s.opSeq \in Nat
    BY RevFacts DEF Workspaces
  <2>3. Snapshot(db) \in Workspaces
    BY <1>4, <1>a, <2>1
  <2> QED BY <1>2, <2>1, <2>2, <2>3 DEF Snapshot
<1>5. PlannedOnHistory(r) /\ r.base \in 1..db.opSeq
  BY <1>4 DEF IInv, PlannedOnHistory
<1>6. rec \in Record
  BY <1>2, <1>5 DEF PlannedOnHistory, Workspaces, Snapshot
<1>7. /\ w.operations \in Seq(Record) /\ Len(w.operations) = db.opSeq
      /\ DOMAIN w.operations = 1..db.opSeq
      /\ w.operations[db.opSeq] = rec
      /\ \A n \in DOMAIN db.operations : w.operations[n] = db.operations[n]
  BY <1>3, <1>4, <1>6
<1>8. /\ snapshots' \in Seq(Workspaces) /\ Len(snapshots') = w.opSeq
      /\ DOMAIN snapshots' = 1..w.opSeq
      /\ snapshots'[w.opSeq] = Snapshot(w)
      /\ \A n \in 1..db.opSeq : snapshots'[n] = snapshots[n]
  BY <1>1, <1>2, <1>4
<1>9. TypeOK'
  <2>1. \A g \in Handlers : handlers'[g] = IF g = h THEN Idle ELSE handlers[g]
    BY <1>1 DEF IInv, HandlersOK
  <2>2. Snapshot(db') \in Workspaces
    BY <1>1, <1>2
  <2>3. \A g \in Handlers : \/ handlers'[g] = Idle
                            \/ /\ handlers'[g].phase = "locking"
                               /\ handlers'[g].request \in requests'
                               /\ handlers'[g].route \in SUBSET DocIds
    BY <1>1, <2>1 DEF IInv, TypeOK
  <2> QED BY <1>1, <1>7, <1>8, <2>2, <2>3 DEF TypeOK
<1>10. DbShape(db')
  BY <1>1, <1>2
<1>11. OneRecordPerCommit'
  <2>1. \A n \in DOMAIN db.operations : db.operations[n].id # r.id
    BY DEF Records, Range
  <2>2. ASSUME NEW n \in 1..db.opSeq
        PROVE  w.operations[n].opSeq = n + 1 /\ w.operations[n].mutation.opSeq = n + 1
    <3>1. CASE n = db.opSeq
      BY <3>1, <1>2, <1>3, <1>7
    <3>2. CASE n # db.opSeq
      <4>1. n \in DOMAIN db.operations /\ w.operations[n] = db.operations[n]
        BY ONLY <3>2, <1>a, <1>7
      <4>2. \A k \in DOMAIN db.operations : /\ db.operations[k].opSeq = k + 1
                                            /\ db.operations[k].mutation.opSeq = k + 1
        BY DEF IInv, OneRecordPerCommit, Operations
      <4> QED BY ONLY <4>1, <4>2
    <3> QED BY <3>1, <3>2
  <2>3. ASSUME NEW m \in 1..db.opSeq, NEW n \in 1..db.opSeq,
               w.operations[m].id = w.operations[n].id
        PROVE  m = n
    <3>1. \A i \in 1..db.opSeq : i # db.opSeq => i \in DOMAIN db.operations
      BY <1>4
    <3> QED BY <2>1, <2>3, <1>7, <3>1 DEF IInv, OneRecordPerCommit, Operations
  <2> QED BY <1>1, <1>2, <1>7, <1>8, <2>2, <2>3 DEF OneRecordPerCommit, Operations
<1>12. HistoryOK'
  <2>1. ASSUME NEW n \in 1..w.opSeq PROVE snapshots'[n].opSeq = n
    <3>1. CASE n = w.opSeq
      BY <3>1, <1>8 DEF Snapshot
    <3>2. CASE n # w.opSeq
      <4>1. n \in 1..db.opSeq /\ snapshots'[n] = snapshots[n]
        BY <3>2, <1>2, <1>a, <1>8
      <4> QED BY <4>1, <1>a DEF IInv, HistoryOK
    <3> QED BY <3>1, <3>2
  <2> QED BY <1>1, <1>8, <2>1 DEF HistoryOK
<1>13. \A q \in requests' : PlannedOnHistory(q)'
  BY <1>1, <1>2, <1>4, <1>8 DEF IInv, PlannedOnHistory
<1>14. HandlersOK'
  <2>1. \A g \in Handlers : handlers'[g] = IF g = h THEN Idle ELSE handlers[g]
    BY <1>1 DEF IInv, HandlersOK
  <2> QED BY <1>1, <2>1 DEF IInv, HandlersOK, Idle
<1>15. StructureFollowsRevision'
  <2> SUFFICES ASSUME NEW m \in 1..w.opSeq, NEW n \in 1..w.opSeq, m <= n
               PROVE  /\ snapshots'[m].workspaceRev <= snapshots'[n].workspaceRev
                      /\ snapshots'[m].workspaceRev = snapshots'[n].workspaceRev
                           => SameStructure(snapshots'[m], snapshots'[n])
    BY <1>8 DEF StructureFollowsRevision, SameStructure
  <2>1. CASE n # w.opSeq
    <3>1. m \in 1..db.opSeq /\ n \in 1..db.opSeq
      BY <2>1, <1>2, <1>a
    <3> QED BY <3>1, <1>8, <1>a DEF IInv, StructureFollowsRevision
  <2>2. CASE m = w.opSeq
    <3>1. n = m
      BY <2>2
    <3>2. snapshots'[m].workspaceRev \in Nat
      BY <2>2, <1>8, <1>b
    <3> QED BY <3>1, <3>2 DEF SameStructure
  <2>3. CASE n = w.opSeq /\ m # w.opSeq
    <3>1. m \in 1..db.opSeq /\ m <= db.opSeq
      BY <2>3, <1>2, <1>4
    <3>2. /\ snapshots[m].workspaceRev <= db.workspaceRev
          /\ snapshots[m].workspaceRev = db.workspaceRev
               => SameStructure(snapshots[m], Snapshot(db))
      BY <3>1, <1>4 DEF IInv, StructureFollowsRevision, Snapshot
    <3>3. ASSUME snapshots[m].workspaceRev = w.workspaceRev
          PROVE  SameStructure(snapshots[m], Snapshot(w))
      <4>1. SameStructure(snapshots[m], Snapshot(db)) /\ SameStructure(Snapshot(db), Snapshot(w))
        BY <3>1, <3>2, <3>3, <1>2, <1>b
      <4> QED BY <4>1 DEF SameStructure
    <3> QED BY <2>3, <3>1, <3>2, <3>3, <1>2, <1>8, <1>b
  <2> QED BY <2>1, <2>2, <2>3
<1>16. GuardedStructureIsBaseline'
  <2> SUFFICES ASSUME NEW n \in 1..db.opSeq, w.operations[n].request.domain = "operation",
                      w.operations[n].request.expected.workspaceRev # Omitted
               PROVE  SameStructure(snapshots'[w.operations[n].opSeq - 1],
                                    snapshots'[w.operations[n].request.base])
    <3>1. ASSUME NEW x \in OperationRecords', x.request.expected.workspaceRev # Omitted
          PROVE  \E n \in 1..db.opSeq : x = w.operations[n] /\ x.request.domain = "operation"
      BY <1>1, <1>7 DEF OperationRecords, Operations, Range
    <3>2. \A s, t : SameStructure(s, t)' = SameStructure(s, t)
      OBVIOUS
    <3> QED BY <3>1, <3>2 DEF GuardedStructureIsBaseline, Before, Base
  <2>1. CASE n # db.opSeq
    <3>1. n \in DOMAIN db.operations /\ w.operations[n] = db.operations[n]
      BY <2>1, <1>4, <1>7
    <3>2. db.operations[n].opSeq - 1 \in 1..db.opSeq
      BY <3>1, <1>4 DEF IInv, OneRecordPerCommit, Operations
    <3>3. db.operations[n].request.base \in 1..db.opSeq
      <4>1. db.operations[n].request \in requests
        <5>1. db.operations[n] \in Record
          <6> HIDE DEF Record
          <6> QED BY <3>1, <1>4
        <5> QED BY <5>1
      <4> QED BY <4>1, <1>a DEF IInv, PlannedOnHistory
    <3>4. SameStructure(snapshots[db.operations[n].opSeq - 1],
                        snapshots[db.operations[n].request.base])
      BY <3>1 DEF IInv, GuardedStructureIsBaseline, OperationRecords, Operations, Range,
                  Before, Base
    <3> QED BY <3>1, <3>2, <3>3, <3>4, <1>8
  <2>2. CASE n = db.opSeq
    <3>1. w.operations[n].request = r /\ w.operations[n].opSeq - 1 = db.opSeq
      BY <2>2, <1>2, <1>4, <1>7
    <3>2. snapshots[r.base].workspaceRev = snapshots[db.opSeq].workspaceRev
      BY <3>1, <1>4, <1>5 DEF PlannedOnHistory, Snapshot
    <3>3. SameStructure(snapshots[r.base], snapshots[db.opSeq])
      BY <3>2, <1>4, <1>5 DEF IInv, StructureFollowsRevision
    <3>4. db.opSeq \in 1..db.opSeq
      BY <1>4
    <3>5. SameStructure(snapshots[db.opSeq], snapshots[r.base])
      <4>1. \A s, t : SameStructure(s, t) => SameStructure(t, s)
        BY DEF SameStructure
      <4> QED BY <3>3, <4>1
    <3> QED BY <3>1, <3>4, <3>5, <1>5, <1>8, <2>2
  <2> QED BY <2>1, <2>2
<1> QED BY <1>9, <1>10, <1>11, <1>12, <1>13, <1>14, <1>15, <1>16 DEF IInv

-----------------------------------------------------------------------------
(* Every step of the server and of the clients preserves it *)

\* Every step of a client or of a transaction keeps the invariant.
LEMMA NextIInv == IInv /\ [Next]_vars => IInv'
<1> SUFFICES ASSUME IInv, [Next]_vars PROVE IInv'
  OBVIOUS
<1>1. CASE IssueOperation
  <2>1. PICK n \in DOMAIN snapshots, id \in CommitIds :
          \E cs : Issue(OperationRequest(id, snapshots[n], cs))
    BY <1>1 DEF IssueOperation
  <2> QED BY <2>1, SnapshotPlanned, IssueStep
<1>2. CASE IssueUndo
  <2>1. PICK n \in DOMAIN snapshots, id \in CommitIds :
          \E cs : Issue(OperationRequest(id, snapshots[n], cs))
    BY <1>2 DEF IssueUndo
  <2> QED BY <2>1, SnapshotPlanned, IssueStep
<1>3. CASE IssueSettings
  <2>1. PICK n \in DOMAIN snapshots, v \in Vals, id \in CommitIds :
          Issue(SettingsRequest(id, snapshots[n], v))
    BY <1>3 DEF IssueSettings
  <2> QED BY <2>1, SnapshotPlanned, IssueStep
<1>4. ASSUME NEW h \in Handlers, BeginCommit(h) PROVE IInv'
  <2>1. PICK r \in requests :
          /\ r.domain = "operation" => WellFormed(r)
          /\ handlers' = [handlers EXCEPT
               ![h] = [phase |-> "locking", request |-> r, route |-> db.route]]
    BY <1>4 DEF BeginCommit
  <2>2. UNCHANGED <<db, requests, snapshots>>
    BY <1>4 DEF BeginCommit
  <2>3. db.route \in SUBSET DocIds
    BY DEF IInv, TypeOK, Workspaces, Snapshot
  <2> QED BY <2>1, <2>2, <2>3, HandlerStep
<1>5. ASSUME NEW h \in Handlers, NEW a, Refuse(h, a) PROVE IInv'
  BY <1>5, HandlerStep DEF Refuse, Answer
<1>6. ASSUME NEW h \in Handlers, handlers[h].phase = "locking"
      PROVE  handlers[h].request \in requests /\ handlers[h].route \in SUBSET DocIds
  BY <1>6 DEF IInv, TypeOK, Idle
<1>7. DbShape(db) /\ Snapshot(db) \in Workspaces
  BY DEF IInv, TypeOK
<1>8. ASSUME NEW h \in Handlers, Replay(h) PROVE IInv'
  BY <1>5, <1>8 DEF Replay
<1>9. ASSUME NEW h \in Handlers, CommitOperation(h) PROVE IInv'
  <2> DEFINE r == handlers[h].request
             before == [db EXCEPT !.route = handlers[h].route]
  <2>1. /\ handlers[h].phase = "locking" /\ r.domain = "operation" /\ Records(db, r.id) = {}
        /\ \/ \E a : Refuse(h, a)
           \/ ~Conflicts(db, r) /\ Acceptable(db, before, r)
                /\ Persist(h, Committed(db, before, r), r)
    BY <1>9 DEF CommitOperation
  <2>2. CASE \E a : Refuse(h, a)
    BY <2>2, <1>5
  <2>3. CASE ~Conflicts(db, r) /\ Acceptable(db, before, r)
               /\ Persist(h, Committed(db, before, r), r)
    <3>1. r \in requests /\ handlers[h].route \in SUBSET DocIds
      BY <1>6, <2>1
    <3>2. Advances(db, Committed(db, before, r), r)
      BY <1>7, <2>3, <3>1, OperationAdvance
    <3>3. WellFormed(r)
      BY <2>1 DEF IInv, HandlersOK
    <3>4. r.expected.workspaceRev # Omitted => r.expected.workspaceRev = db.workspaceRev
      BY <2>3, <3>3 DEF WellFormed, ExpectedMatches, Conflicts
    <3> HIDE DEF r, before
    <3> QED BY <2>1, <2>3, <3>1, <3>2, <3>4, PersistStep
  <2> QED BY <2>1, <2>2, <2>3
<1>10. ASSUME NEW h \in Handlers, CommitSettings(h) PROVE IInv'
  <2> DEFINE r == handlers[h].request
  <2>1. /\ handlers[h].phase = "locking" /\ r.domain = "settings" /\ Records(db, r.id) = {}
        /\ \/ \E a : Refuse(h, a)
           \/ CanAdvance(db) /\ Persist(h, CommittedSettings(db, r), r)
    BY <1>10 DEF CommitSettings
  <2>2. CASE \E a : Refuse(h, a)
    BY <2>2, <1>5
  <2>3. CASE CanAdvance(db) /\ Persist(h, CommittedSettings(db, r), r)
    <3>1. r \in requests
      BY <1>6, <2>1
    <3>2. r.settings \in Vals
      BY <2>1, <3>1 DEF IInv, PlannedOnHistory
    <3>3. Advances(db, CommittedSettings(db, r), r)
      BY <1>7, <2>3, <3>2, SettingsAdvance
    <3> HIDE DEF r
    <3> QED BY <2>1, <2>3, <3>1, <3>3, PersistStep
  <2> QED BY <2>1, <2>2, <2>3
<1>11. ASSUME NEW h \in Handlers, Abort(h) PROVE IInv'
  BY <1>11, HandlerStep DEF Abort
<1>12. CASE UNCHANGED vars
  BY <1>12 DEF vars, IInv, TypeOK, DbShape, OneRecordPerCommit, HistoryOK, PlannedOnHistory,
       HandlersOK, StructureFollowsRevision, GuardedStructureIsBaseline, Operations,
       OperationRecords, Before, Base
<1> QED BY <1>1, <1>2, <1>3, <1>4, <1>8, <1>9, <1>10, <1>11, <1>12 DEF Next

\* The invariant holds in every state of the system.
LEMMA Invariance == Spec => []IInv
BY InitIInv, NextIInv, PTL DEF Spec

(* Every counter stays a JSON-safe positive integer and every row has its   *)
(* type, for any workspace, any limit and any number of transactions        *)
(* (validateWorkspaceCommitRevisionCapacity).                               *)
THEOREM TypeCorrect == Spec => []TypeOK
<1>1. IInv => TypeOK
  BY DEF IInv
<1> QED BY <1>1, Invariance, PTL

(* Exactly-once commit: the log is contiguous, record n is the commit of    *)
(* opSeq n + 1, and no commit id has two records, for any number of clients *)
(* and transactions (CommitWorkspaceOperation, CommitWorkspaceSettings).    *)
THEOREM ExactlyOnce == Spec => []OneRecordPerCommit
<1>1. IInv => OneRecordPerCommit
  BY DEF IInv
<1> QED BY <1>1, Invariance, PTL

(* No lost update of the structure: an operation that carries the workspace *)
(* revision was applied to the tree, manifest, settings, document set and   *)
(* metadata of its base snapshot, whatever committed in between             *)
(* (validateWorkspaceCommitPreconditions).                                  *)
THEOREM NoLostStructure == Spec => []GuardedStructureIsBaseline
<1>1. IInv => GuardedStructureIsBaseline
  BY DEF IInv
<1> QED BY <1>1, Invariance, PTL
=============================================================================
