---------------------------- MODULE WorkspaceSync ----------------------------
(***************************************************************************)
(* The client side of the durable write path: browser tabs that edit one    *)
(* workspace, the outbox and the local replica they share in IndexedDB, the *)
(* executions that drain the outbox, and the server behind a network that   *)
(* loses, delays and repeats requests.                                      *)
(*                                                                          *)
(* A document is a revision and some fields; an edit writes one field.  The *)
(* server is the commit endpoint of WorkspaceCommit seen by content edits:  *)
(* a commit id commits once and is replayed afterwards, a stale revision is *)
(* a conflict (409), an operation that does not fit is refused (422).       *)
(***************************************************************************)
EXTENDS CausalOutbox, Sequences, SequencesExt, Functions

CONSTANTS
  Docs, Fields, Vals, Initial,
  RemoteVals,      \* the values other devices write
  Tabs,            \* browser tabs of one user, sharing one IndexedDB
  Workers,         \* executions that may be draining the outbox at once
  MaxRebases,      \* MAX_AUTOMATIC_REBASE_ATTEMPTS
  MaxIntents,      \* bound: edits
  MaxRemoteWrites, \* bound: commits of other devices
  MaxFaults,       \* bound: crashes, lost responses, late leases, failed writes
  MaxRejections    \* bound: edits whose optimistic application fails

ASSUME ValuesAssumption == Initial \in Vals

VARIABLES
  history,  \* history[n] is the workspace at opSeq n; the last is the server's
  log,      \* log[n] is the commit that led to history[n + 1]
  stray,    \* requests nobody waits for any more, still deliverable
  store,    \* the outbox
  replica,  \* the local replica: a snapshot and the acknowledged entry ids
  workers,  \* the executions
  views,    \* what each tab shows, and the conflict it has opened for review
  intents,  \* history: the edits of the user, in the order they were queued
  faults    \* how many faults have happened

shared == <<store, replica>>
server == <<history, log>>
vars == <<history, log, stray, store, replica, workers, views, intents, faults>>

Idle == [phase |-> "idle"]
Server == Last(history)

Value(snapshot, op) == snapshot.docs[op.doc].content[op.field]

\* Applied optimistically: the content changes, the confirmed revisions do not.
Applied(snapshot, op) ==
  [snapshot EXCEPT !.docs[op.doc].content[op.field] = op.to]

-----------------------------------------------------------------------------
(* The server *)

Request(id, entry) ==
  [id |-> id, op |-> entry.op, rev |-> entry.base.docs[entry.op.doc].rev]

Commits(id) == {n \in DOMAIN log : log[n].id = id}

\* The opSeq a commit id was committed at.
OpSeqOf(id) == 1 + CHOOSE n \in Commits(id) : TRUE

Append1(id, op) ==
  /\ history' = Append(history,
       [Applied(Server, op) EXCEPT !.opSeq = @ + 1, !.docs[op.doc].rev = @ + 1])
  /\ log' = Append(log, [id |-> id, op |-> op])

Stale(r) == Server.docs[r.op.doc].rev # r.rev
Fits(r) == Value(Server, r.op) = r.op.from

\* The request commits: its id is new, its revision current, it fits.
Commit(r) ==
  /\ Commits(r.id) = {}
  /\ ~Stale(r)
  /\ Fits(r)
  /\ Append1(r.id, r.op)

RemoteCommits == {n \in DOMAIN log : log[n].id.intent = 0}

\* Another device commits an edit planned on the current state.
RemoteWrite ==
  /\ Cardinality(RemoteCommits) < MaxRemoteWrites
  /\ \E d \in Docs, f \in Fields, v \in RemoteVals :
       LET op == [doc |-> d, field |-> f, from |-> Server.docs[d].content[f], to |-> v]
       IN /\ op.from # v
          /\ Append1([intent |-> 0, try |-> Len(log)], op)
  /\ UNCHANGED <<stray, shared, workers, views, intents, faults>>

\* A request whose sender has given up arrives after all; its answer is lost.
ServeStray ==
  /\ \E r \in stray : Commit(r)
  /\ UNCHANGED <<stray, shared, workers, views, intents, faults>>

-----------------------------------------------------------------------------
(* The local replica *)

\* Mutated form: an older snapshot replaces a newer one.
AdvancedBlindly(rep, snapshot, ids) ==
  [snapshot |-> snapshot, acked |-> rep.acked \cup ids]

\* The snapshot watermark only moves forward, acknowledged ids accumulate.
Advanced(rep, snapshot, ids) ==
  [snapshot |-> IF snapshot.opSeq >= rep.snapshot.opSeq THEN snapshot ELSE rep.snapshot,
   acked |-> rep.acked \cup ids]

\* What a replay ends with when an operation does not fit.
Unreadable == [opSeq |-> 0]

\* One pending entry replayed onto the local view.
Replay(snapshot, entry) ==
  LET onto == IF entry.base.opSeq > snapshot.opSeq THEN entry.base ELSE snapshot
  IN IF snapshot = Unreadable THEN Unreadable
     ELSE IF entry.state = "conflict" THEN Applied(entry.base, entry.op)
     ELSE IF Value(onto, entry.op) = entry.op.from THEN Applied(onto, entry.op)
     ELSE Unreadable

\* The confirmed replica with the pending entries replayed in causal order.
Materialized(rep, outbox) ==
  LET At(n) == {id \in DOMAIN outbox \ rep.acked : outbox[id].seq = n}
      shown[n \in 0..LastSeq(outbox)] ==
        IF n = 0 THEN rep.snapshot
        ELSE IF At(n) = {} THEN shown[n - 1]
        ELSE Replay(shown[n - 1], outbox[CHOOSE id \in At(n) : TRUE])
  IN shown[LastSeq(outbox)]

-----------------------------------------------------------------------------
(* The tabs *)

NoId == [intent |-> 0, try |-> 0]
Pending(id) == [intent |-> id, try |-> 0]
NoReview == [id |-> NoId]

\* The intent and its entry, planned on what the tab shows.
Queue(t, op, status) ==
  /\ intents' = Append(intents,
       [op |-> op, seen |-> {op.from}, at |-> views[t].snapshot.opSeq, status |-> status])
  /\ store' = Enqueued(store, Pending(Len(intents) + 1), NewEntry(op, views[t].snapshot))

EditOf(t, d, f, v) ==
  [doc |-> d, field |-> f, from |-> views[t].snapshot.docs[d].content[f], to |-> v]

\* The entry is persisted before the edit is applied to what the tab shows.
Edit(t) ==
  /\ Len(intents) < MaxIntents
  /\ views[t].doomed = NoId
  /\ \E d \in Docs, f \in Fields, v \in Vals :
       LET op == EditOf(t, d, f, v)
       IN /\ op.from # v
          /\ Queue(t, op, "open")
          /\ views' = [views EXCEPT ![t].snapshot = Applied(@, op)]
  /\ UNCHANGED <<server, stray, replica, workers, faults>>

Rejections == {i \in DOMAIN intents : intents[i].status \in {"doomed", "rejected"}}

\* The entry is persisted, and applying the edit is going to fail.
EditInVain(t) ==
  /\ Len(intents) < MaxIntents
  /\ Cardinality(Rejections) < MaxRejections
  /\ views[t].doomed = NoId
  /\ \E d \in Docs, f \in Fields, v \in Vals :
       LET op == EditOf(t, d, f, v)
       IN /\ op.from # v
          /\ Queue(t, op, "doomed")
          /\ views' = [views EXCEPT ![t].doomed = Pending(Len(intents) + 1)]
  /\ UNCHANGED <<server, stray, replica, workers, faults>>

\* The failed edit is taken back: its entry is removed, claimed or not.
RejectEdit(t) ==
  /\ views[t].doomed # NoId
  /\ store' = Removed(store, views[t].doomed)
  /\ intents' = [intents EXCEPT ![views[t].doomed.intent].status = "rejected"]
  /\ views' = [views EXCEPT ![t].doomed = NoId]
  /\ UNCHANGED <<server, stray, replica, workers, faults>>

(* Opening the workspace: a snapshot the server once answered with advances *)
(* the replica (an old one leaves it alone), and the tab shows the replica   *)
(* with the outbox replayed, or the answer itself when that is not possible. *)
(* What a reloaded tab was about to take back stays in the outbox.           *)
OpenWorkspace(t) ==
  /\ \E n \in DOMAIN history :
       /\ replica' = Advanced(replica, history[n], {})
       /\ LET local == Materialized(replica', store)
          IN views' = [views EXCEPT ![t] =
               [snapshot |-> IF local = Unreadable THEN history[n] ELSE local,
                doomed |-> NoId, review |-> NoReview]]
  /\ intents' = [i \in DOMAIN intents |->
       IF views[t].doomed.intent = i /\ intents[i].status = "doomed"
       THEN [intents[i] EXCEPT !.status = "open"] ELSE intents[i]]
  /\ UNCHANGED <<server, stray, store, workers, faults>>

-----------------------------------------------------------------------------
(* The executions: claim the head, send it, recover from the answer, settle *)

Becomes(w, worker) == workers' = [workers EXCEPT ![w] = worker]
Advances(w, phase) == workers' = [workers EXCEPT ![w].phase = phase]

\* A transition of the entry that needs the lease; without it the execution ends.
Lets(w, entry) ==
  /\ Becomes(w, Idle)
  /\ store' = IF OwnsLease(store, workers[w].id, w)
              THEN [store EXCEPT ![workers[w].id] = entry] ELSE store

Claim(w) ==
  /\ workers[w].phase = "idle"
  /\ \E id \in DOMAIN store :
       /\ Candidate(store, id)
       /\ store' = [store EXCEPT ![id] = Claimed(@, w)]
       /\ Becomes(w, [phase |-> "waiting", id |-> id, entry |-> store'[id],
                      rebases |-> 0, opSeq |-> 0])
  /\ UNCHANGED <<server, stray, replica, views, intents, faults>>

RequestOf(w) == Request(workers[w].id, workers[w].entry)

\* The server answers: a commit, a stored commit, a conflict, a refusal.
ServeRequest(w) ==
  /\ workers[w].phase = "waiting"
  /\ LET r == RequestOf(w)
     IN \/ /\ Commit(r)
           /\ Becomes(w, [workers[w] EXCEPT !.phase = "acked", !.opSeq = Len(history')])
        \/ /\ Commits(r.id) # {}
           /\ Becomes(w, [workers[w] EXCEPT !.phase = "acked", !.opSeq = OpSeqOf(r.id)])
           /\ UNCHANGED server
        \/ /\ Commits(r.id) = {}
           /\ Stale(r)
           /\ Advances(w, "stale")
           /\ UNCHANGED server
        \/ /\ Commits(r.id) = {}
           /\ ~Stale(r)
           /\ ~Fits(r)
           /\ Advances(w, "refused")
           /\ UNCHANGED server
  /\ UNCHANGED <<stray, shared, views, intents, faults>>

Fault == faults < MaxFaults /\ faults' = faults + 1

\* What the execution was waiting for may still reach the server.
Strays(w) ==
  stray' = IF workers[w].phase = "waiting" THEN stray \cup {RequestOf(w)} ELSE stray

\* The request, its answer, or the snapshot fetched after it is lost.
NetworkFails(w) ==
  /\ workers[w].phase \in {"waiting", "acked", "stale"}
  /\ Fault
  /\ Strays(w)
  /\ Lets(w, Waiting(workers[w].entry))
  /\ UNCHANGED <<server, replica, views, intents>>

\* The page is closed while it executes; its lease stays behind.
CrashWorker(w) ==
  /\ workers[w].phase # "idle"
  /\ Fault
  /\ Strays(w)
  /\ Becomes(w, Idle)
  /\ UNCHANGED <<server, shared, views, intents>>

\* A manifest read before a lock wait makes the server refuse a valid request.
RefusedInPassing(w) ==
  /\ workers[w].phase = "waiting"
  /\ Fault
  /\ Advances(w, "refused")
  /\ UNCHANGED <<server, stray, shared, views, intents>>

Base(w) == workers[w].entry.base
OpOf(w) == workers[w].entry.op

\* The acknowledged document is the one the execution expected from its base.
AsExpected(w) ==
  history[workers[w].opSeq].docs[OpOf(w).doc].content =
    Applied(Base(w), OpOf(w)).docs[OpOf(w).doc].content

\* A refusal, or an acknowledgement of something else, is final until a requeue.
FailEntry(w) ==
  /\ \/ workers[w].phase = "refused"
     \/ workers[w].phase = "acked" /\ ~AsExpected(w)
  /\ Lets(w, Failed(workers[w].entry))
  /\ UNCHANGED <<server, stray, replica, views, intents, faults>>

Settling(w, snapshot) ==
  Becomes(w, [phase |-> "settling", id |-> workers[w].id,
              entry |-> workers[w].entry, snapshot |-> snapshot])

\* Mutated form: the base is confirmed although other commits came in between.
ConfirmedAlone(w) ==
  [Applied(Base(w), OpOf(w)) EXCEPT
     !.opSeq = workers[w].opSeq,
     !.docs[OpOf(w).doc] = history[workers[w].opSeq].docs[OpOf(w).doc]]

\* The latest snapshot after a gap, the base with the committed document if none.
Confirmed(w) ==
  IF workers[w].opSeq > Base(w).opSeq + 1 THEN Server
  ELSE [Applied(Base(w), OpOf(w)) EXCEPT
          !.opSeq = workers[w].opSeq,
          !.docs[OpOf(w).doc] = history[workers[w].opSeq].docs[OpOf(w).doc]]

Confirm(w) ==
  /\ workers[w].phase = "acked"
  /\ AsExpected(w)
  /\ Settling(w, Confirmed(w))
  /\ UNCHANGED <<server, stray, shared, views, intents, faults>>

FetchRemote(w) ==
  /\ workers[w].phase = "stale"
  /\ Becomes(w, [workers[w] EXCEPT !.phase = "merging", !.opSeq = Len(history)])
  /\ UNCHANGED <<server, stray, shared, views, intents, faults>>

(* The three-way merge of an edit of one cell: its base, what the edit made  *)
(* of it, and what the cell holds remotely.                                  *)
RemoteValue(w) == Value(history[workers[w].opSeq], OpOf(w))

\* Mutated form: an edit the remote side left alone counts as made there too.
AlreadyAppliedOrUntouched(w) ==
  /\ workers[w].phase = "merging"
  /\ RemoteValue(w) \in {OpOf(w).to, OpOf(w).from}
  /\ Settling(w, history[workers[w].opSeq])
  /\ UNCHANGED <<server, stray, shared, views, intents, faults>>

\* The remote side made the same edit: there is nothing left to send.
AlreadyApplied(w) ==
  /\ workers[w].phase = "merging"
  /\ RemoteValue(w) = OpOf(w).to
  /\ Settling(w, history[workers[w].opSeq])
  /\ UNCHANGED <<server, stray, shared, views, intents, faults>>

\* Mutated form: what the user wrote always wins.
RebasableAnyway(w) == RemoteValue(w) # OpOf(w).to

Rebasable(w) ==
  /\ RemoteValue(w) # OpOf(w).to
  /\ RemoteValue(w) = Value(Base(w), OpOf(w))

\* The ids that some entry, commit, request or execution still names.
NamedIds ==
  DOMAIN store \cup replica.acked
    \cup {log[n].id : n \in DOMAIN log} \cup {r.id : r \in stray}
    \cup {workers[w].id : w \in {v \in Workers : workers[v].phase # "idle"}}

\* A fresh id for an operation that stands for the same edit as entry id.
Fresh(id) ==
  [id EXCEPT !.try = 1 + Max({i.try : i \in {j \in NamedIds : j.intent = id.intent}
                                              \cup {id}})]

Resolved(op, remote) ==
  NewEntry([op EXCEPT !.from = Value(remote, op)], remote)

\* The remote side left the cell alone: a fresh operation, sent at once.
Rebase(w) ==
  LET id == workers[w].id
      fresh == Fresh(id)
  IN /\ workers[w].phase = "merging"
     /\ Rebasable(w)
     /\ workers[w].rebases < MaxRebases
     /\ IF OwnsLease(store, id, w)
        THEN /\ store' = Replaced(store, id, fresh,
                                  Resolved(OpOf(w), history[workers[w].opSeq]))
             /\ Becomes(w, [workers[w] EXCEPT !.phase = "replaced", !.id = fresh])
        ELSE Becomes(w, Idle) /\ UNCHANGED store
     /\ UNCHANGED <<server, stray, replica, views, intents, faults>>

\* It keeps changing: the next attempt is left to the retry timer.
GiveUpRebasing(w) ==
  /\ workers[w].phase = "merging"
  /\ Rebasable(w)
  /\ workers[w].rebases = MaxRebases
  /\ Lets(w, Waiting(workers[w].entry))
  /\ UNCHANGED <<server, stray, replica, views, intents, faults>>

ClaimReplacement(w) ==
  LET id == workers[w].id
  IN /\ workers[w].phase = "replaced"
     /\ IF Candidate(store, id)
        THEN /\ store' = [store EXCEPT ![id] = Claimed(@, w)]
             /\ Becomes(w, [workers[w] EXCEPT !.phase = "waiting", !.entry = store'[id],
                                              !.rebases = @ + 1, !.opSeq = 0])
        ELSE Becomes(w, Idle) /\ UNCHANGED store
     /\ UNCHANGED <<server, stray, replica, views, intents, faults>>

\* Both sides changed the cell: the entry waits for the review of the user.
BlockOnConflict(w) ==
  /\ workers[w].phase = "merging"
  /\ RemoteValue(w) # OpOf(w).to
  /\ ~Rebasable(w)
  /\ Lets(w, Blocked(workers[w].entry, workers[w].opSeq))
  /\ UNCHANGED <<server, stray, replica, views, intents, faults>>

\* The confirmed snapshot and the acknowledged id are one write of the replica.
WriteReplica(w) ==
  /\ workers[w].phase = "settling"
  /\ replica' = Advanced(replica, workers[w].snapshot, {workers[w].id})
  /\ Advances(w, "removing")
  /\ UNCHANGED <<server, stray, store, views, intents, faults>>

\* It fails: another attempt, but not for ever.
ReplicaWriteFails(w) ==
  /\ workers[w].phase = "settling"
  /\ Fault
  /\ IF workers[w].entry.attempts < MaxAttempts
     THEN Lets(w, Waiting(workers[w].entry))
     ELSE Advances(w, "removing") /\ UNCHANGED store
  /\ UNCHANGED <<server, stray, replica, views, intents>>

RemoveEntry(w) ==
  /\ workers[w].phase = "removing"
  /\ store' = IF OwnsLease(store, workers[w].id, w)
              THEN Removed(store, workers[w].id) ELSE store
  /\ Becomes(w, Idle)
  /\ UNCHANGED <<server, stray, replica, views, intents, faults>>

-----------------------------------------------------------------------------
(* Time and the user *)

Overdue(id) ==
  /\ store' = [store EXCEPT ![id].due = TRUE]
  /\ UNCHANGED <<server, stray, replica, workers, views, intents>>

RetryDue(id) ==
  /\ store[id].state = "retry-wait"
  /\ ~store[id].due
  /\ Overdue(id)
  /\ UNCHANGED faults

OwnerAlive(id) ==
  /\ workers[store[id].owner].phase # "idle"
  /\ workers[store[id].owner].id = id

\* A lease runs out: of an execution that is gone, or of one that is slow.
LeaseExpires(id) ==
  /\ store[id].state = "sending"
  /\ ~store[id].due
  /\ Overdue(id)
  /\ IF OwnerAlive(id) THEN Fault ELSE UNCHANGED faults

(* The reviews: a tab opens the conflict at the head of the outbox and keeps *)
(* it in memory.  Another tab may have it open as well, and answer first.    *)
InReview(t) == views[t].review # NoReview
IsBlocked(id) == id \in DOMAIN store /\ store[id].state = "conflict"

OpenReview(t) ==
  /\ ~InReview(t)
  /\ \E id \in DOMAIN store :
       /\ IsHead(store, id)
       /\ IsBlocked(id)
       /\ views' = [views EXCEPT ![t].review =
            [id |-> id, op |-> store[id].op, session |-> store[id].session]]
  /\ UNCHANGED <<server, stray, shared, workers, intents, faults>>

CloseReview(t) == views' = [views EXCEPT ![t].review = NoReview]

\* Mutated form: the resolution is built on the latest snapshot instead.
LatestSnapshot(review) == Server

ReviewedSnapshot(review) == history[review.session]

(* The local value is kept: a fresh operation on the reviewed snapshot takes *)
(* the place of the blocked entry, or the end of the queue if that is gone.  *)
KeepLocal(t) ==
  LET review == views[t].review
      entry == Resolved(review.op, ReviewedSnapshot(review))
      fresh == Fresh(review.id)
  IN /\ InReview(t)
     /\ store' = IF IsBlocked(review.id) THEN Replaced(store, review.id, fresh, entry)
                 ELSE Enqueued(store, fresh, entry)
     /\ intents' = [intents EXCEPT ![review.id.intent].seen =
                      @ \cup {Value(history[review.session], review.op)}]
     /\ CloseReview(t)
     /\ UNCHANGED <<server, stray, replica, workers, faults>>

\* The remote value is kept: the edit is discarded if it is still blocked.
KeepRemote(t) ==
  LET id == views[t].review.id
  IN /\ InReview(t)
     /\ IF IsBlocked(id)
        THEN /\ store' = Removed(store, id)
             /\ intents' = [intents EXCEPT ![id.intent].status =
                              IF @ = "rejected" THEN @ ELSE "discarded"]
        ELSE UNCHANGED <<store, intents>>
     /\ CloseReview(t)
     /\ UNCHANGED <<server, stray, replica, workers, faults>>

\* The user asks for another try of a failed entry.
Requeue(id) ==
  /\ store[id].state = "failed"
  /\ store' = [store EXCEPT ![id] = Requeued(@)]
  /\ UNCHANGED <<server, stray, replica, workers, views, intents, faults>>
-----------------------------------------------------------------------------
Init ==
  LET start == [opSeq |-> 1,
                docs |-> [d \in Docs |-> [rev |-> 1, content |-> [f \in Fields |-> Initial]]]]
  IN /\ history = <<start>>
     /\ log = <<>>
     /\ stray = {}
     /\ store = Empty
     /\ replica = [snapshot |-> start, acked |-> {}]
     /\ workers = [w \in Workers |-> Idle]
     /\ views = [t \in Tabs |-> [snapshot |-> start, doomed |-> NoId, review |-> NoReview]]
     /\ intents = <<>>
     /\ faults = 0

\* What an execution does by itself once it has claimed an entry.
Executes(w) ==
  \/ ServeRequest(w) \/ FailEntry(w) \/ Confirm(w) \/ FetchRemote(w)
  \/ AlreadyApplied(w) \/ Rebase(w) \/ GiveUpRebasing(w) \/ ClaimReplacement(w)
  \/ BlockOnConflict(w) \/ WriteReplica(w) \/ RemoveEntry(w)

Mishap(w) ==
  \/ NetworkFails(w) \/ CrashWorker(w) \/ RefusedInPassing(w) \/ ReplicaWriteFails(w)

Timer(id) == RetryDue(id) \/ LeaseExpires(id)
Answer(t) == KeepLocal(t) \/ KeepRemote(t)

Next ==
  \/ RemoteWrite
  \/ ServeStray
  \/ \E t \in Tabs :
       Edit(t) \/ EditInVain(t) \/ RejectEdit(t) \/ OpenWorkspace(t) \/ OpenReview(t) \/ Answer(t)
  \/ \E w \in Workers : Claim(w) \/ Executes(w) \/ Mishap(w)
  \/ \E id \in DOMAIN store : Timer(id) \/ Requeue(id)

Spec == Init /\ [][Next]_vars

(* Executions run once they hold an entry, the outbox is drained, timers     *)
(* fire, and the user answers the reviews; edits and faults need not happen. *)
Fairness ==
  /\ \A w \in Workers : WF_vars(Executes(w)) /\ WF_vars(Claim(w))
  /\ WF_vars(\E id \in DOMAIN store : Timer(id))
  /\ WF_vars(\E id \in DOMAIN store : Requeue(id))
  /\ \A t \in Tabs : WF_vars(RejectEdit(t)) /\ WF_vars(OpenReview(t)) /\ SF_vars(Answer(t))

FairSpec == Spec /\ Fairness
-----------------------------------------------------------------------------
(* Safety *)

(* An entry under a live lease is changed only by a step of the execution   *)
(* that holds the lease: an execution whose lease was taken over has no     *)
(* effect on the entry any more.  The exceptions are the lease running out  *)
(* and an edit that is taken back, whose entry is removed without a lease.  *)
LeaseHolderOnly ==
  [][\A id \in DOMAIN store :
       store[id].state = "sending" /\ ~store[id].due =>
         \/ /\ id \in DOMAIN store'
            /\ store'[id] \in {store[id], [store[id] EXCEPT !.due = TRUE]}
         \/ workers'[store[id].owner] # workers[store[id].owner]
         \/ intents'[id.intent].status = "rejected"]_vars

\* The commits of this user's edits, those taken back aside.
OwnCommits ==
  {n \in DOMAIN log :
     log[n].id.intent # 0 /\ intents[log[n].id.intent].status # "rejected"}

(* An edit commits at most once, whatever is lost, repeated, rebased or     *)
(* resolved by hand, and edits commit in the order they were made.  This is  *)
(* about one tab: a second one that answers the same review sends again what *)
(* the first one has resolved, behind the edits made since.                  *)
CommittedOnceInOrder ==
  \A m, n \in OwnCommits : m < n => log[m].id.intent < log[n].id.intent

(* A commit overwrites a value its author saw: when the edit was made, or   *)
(* in the review of a conflict.  A rebase never decides that by itself, and  *)
(* an answer is about the snapshot that was reviewed, however late it comes. *)
OverwritesOnlySeen ==
  \A n \in DOMAIN log :
    LET i == log[n].id.intent IN i # 0 => log[n].op.from \in intents[i].seen

IsPending(i) == \E id \in DOMAIN store \ replica.acked : id.intent = i
IsCommitted(i) == \E n \in DOMAIN log : log[n].id.intent = i

\* A later state of the server holds what the edit wrote.
WasMadeElsewhere(i) ==
  \E n \in DOMAIN history :
    n > intents[i].at /\ Value(history[n], intents[i].op) = intents[i].op.to

(* An edit leaves the outbox only because the server has it, someone else   *)
(* made the same edit, or the user gave it up; crashes at any point between *)
(* persisting, sending, caching and removing lose nothing.                  *)
NothingForgotten ==
  \A i \in DOMAIN intents :
    \/ intents[i].status \in {"rejected", "discarded"}
    \/ IsPending(i)
    \/ IsCommitted(i)
    \/ WasMadeElsewhere(i)

(* What was acknowledged and cached stays visible: no late snapshot puts    *)
(* the replica behind a commit whose entry is already gone.                 *)
AcknowledgedStaysVisible ==
  \A id \in replica.acked :
    Commits(id) # {} => replica.snapshot.opSeq >= OpSeqOf(id)

\* Another device put back a value a cell held before.
Reverted(n) ==
  \E m \in 1..n : Value(history[m], log[n].op) = log[n].op.to

\* Nothing queued was taken back or given up, and nothing undone elsewhere.
NothingTakenBack ==
  /\ \A i \in DOMAIN intents : intents[i].status \notin {"rejected", "discarded"}
  /\ \A n \in RemoteCommits : ~Reverted(n)

(* As long as no edit is taken back, given up or undone by another device,  *)
(* the replica is a state the server was in, although it is put together    *)
(* from an optimistic base and the acknowledged documents.                  *)
ReplicaIsCommittedUnlessTakenBack ==
  NothingTakenBack => replica.snapshot \in Range(history)

(* The replica holds the "server-confirmed canonical WorkspaceSnapshot"     *)
(* (specs/decisions/07.workspace-sync.md), in every case.                   *)
ReplicaIsCommitted == replica.snapshot \in Range(history)

-----------------------------------------------------------------------------
(* Liveness *)

Queued(i) == \E id \in DOMAIN store : id.intent = i

(* Every edit leaves the outbox: no entry waits for ever behind a head that *)
(* nothing moves, whichever requests, leases and writes were lost.          *)
Settled == \A i \in 1..MaxIntents : Queued(i) ~> ~Queued(i)

(* Every edit leaves the outbox, as long as no other device puts a value    *)
(* back that a cell held before.                                            *)
SettledUnlessReverted ==
  [](\A n \in RemoteCommits : ~Reverted(n)) => Settled
=============================================================================
