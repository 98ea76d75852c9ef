-------------------------- MODULE WorkspaceSync_proofs --------------------------
(***************************************************************************)
(* Theorems about WorkspaceSync, for any number of tabs and executions and  *)
(* any bounds: no commit overwrites what its author has not seen, a lease   *)
(* protects its entry, no edit is forgotten, what was acknowledged stays    *)
(* visible, the edits of one tab commit once and in order, and the replica  *)
(* is a state of the server as long as nothing is taken back.               *)
(*                                                                         *)
(* The parts of the invariant: what the server holds (HistoryOK, LogOK),    *)
(* that a commit id stands for one request wherever it is kept (CarriedOK), *)
(* that everything that is kept was planned on a state of the server and    *)
(* belongs to an edit (StoreOK, WorkersOK, ViewsOK, ReplicaOK), and that    *)
(* ids are used once (NamesOK).  A request that found its document changed  *)
(* is dead: it will never commit.                                           *)
(***************************************************************************)
EXTENDS WorkspaceSync, SequenceTheorems, WellFoundedInduction, TLAPS

\* A set of natural numbers has a least one.
LEMMA LeastNumber ==
  ASSUME NEW T, T \subseteq Nat, T # {}
  PROVE  \E x \in T : \A y \in T : x <= y
<1> DEFINE R == {ss \in Nat \X Nat : ss[1] < ss[2]}
<1>1. IsWellFoundedOn(R, Nat)
  BY NatLessThanWellFounded DEF OpToRel
<1>2. \A x, y \in T : x < y => <<x, y>> \in R
  OBVIOUS
<1> HIDE DEF R
<1>3. PICK x \in T : \A y \in T : ~ (<<y, x>> \in R)
  BY <1>1, WFMin
<1>4. \A y \in T : ~(y < x)
  BY <1>2, <1>3
<1> QED BY <1>4

\* A bounded set of natural numbers has a greatest one, which is its Max.
LEMMA MaxOfBounded ==
  ASSUME NEW N \in Nat, NEW S, S \subseteq 0..N, S # {}
  PROVE  Max(S) \in S /\ \A x \in S : x <= Max(S)
<1> DEFINE T == {k \in Nat : \A x \in S : x <= k}
<1>1. N \in T
  OBVIOUS
<1>2. PICK k \in T : \A y \in T : k <= y
  BY <1>1, LeastNumber
<1>3. k \in S
  <2> SUFFICES ASSUME k \notin S PROVE FALSE
    OBVIOUS
  <2>1. \A x \in S : x <= k - 1
    BY <1>2
  <2>2. k - 1 \in Nat
    <3>1. PICK x \in S : TRUE
      OBVIOUS
    <3> QED BY <2>1, <3>1, <1>2
  <2> QED BY <2>1, <2>2, <1>2
<1>4. \E x \in S : \A y \in S : x >= y
  BY <1>2, <1>3
<1>5. Max(S) = CHOOSE x \in S : \A y \in S : x >= y
  BY DEF Max
<1>6. Max(S) \in S /\ \A y \in S : Max(S) >= y
  BY <1>4, <1>5
<1> QED BY <1>6

-----------------------------------------------------------------------------
(* Types *)

\* The values documents hold.
AllVals == Vals \cup RemoteVals

Ids == [intent : Nat, try : Nat]
Snapshots == [opSeq : Nat, docs : [Docs -> [rev : Nat, content : [Fields -> AllVals]]]]
Ops == [doc : Docs, field : Fields, from : AllVals, to : AllVals]
States == {"queued", "sending", "retry-wait", "conflict", "failed"}
Entries == [seq : Nat, op : Ops, base : Snapshots, attempts : Nat, state : States,
            owner : Workers \cup {"none"}, due : BOOLEAN, session : Nat]
Requests == [id : Ids, op : Ops, rev : Nat]

\* An execution that is not idle: it sends, or it settles what was sent.
Senders == [phase : {"waiting", "acked", "stale", "refused", "merging", "replaced"},
            id : Ids, entry : Entries, rebases : Nat, opSeq : Nat]
Settlers == [phase : {"settling", "removing"}, id : Ids, entry : Entries,
             snapshot : Snapshots]

Reviews == {NoReview} \cup [id : Ids, op : Ops, session : Nat]

Executions == {Idle} \cup Senders \cup Settlers
Views == [snapshot : Snapshots, doomed : Ids, review : Reviews]
Edits == [op : Ops, seen : SUBSET AllVals, at : Nat,
          status : {"open", "doomed", "rejected", "discarded"}]

\* Every variable has its type, and the log is one shorter than the history.
TypeOK ==
  /\ history \in Seq(Snapshots)
  /\ log \in Seq([id : Ids, op : Ops])
  /\ Len(history) = Len(log) + 1
  /\ stray \subseteq Requests
  /\ DOMAIN store \subseteq Ids
  /\ store \in [DOMAIN store -> Entries]
  /\ replica \in [snapshot : Snapshots, acked : SUBSET Ids]
  /\ workers \in [Workers -> Executions]
  /\ views \in [Tabs -> Views]
  /\ intents \in Seq(Edits)
-----------------------------------------------------------------------------
(* Names: entry ids are used once *)

\* Ids belong to edits that were made, and the attempts are bounded.
NamesOK == \E N \in Nat : NamedIds \subseteq [intent : 0..Len(intents), try : 0..N]

\* The causal sequence is bounded.
SeqsOK == \E N \in Nat : \A id \in DOMAIN store : store[id].seq \in 0..N

\* A fresh id belongs to the same edit and names nothing yet.
LEMMA FreshFacts ==
  ASSUME NamesOK, NEW id \in Ids
  PROVE  Fresh(id) \in Ids /\ Fresh(id).intent = id.intent /\ Fresh(id) \notin NamedIds
<1> DEFINE S == {i.try : i \in {j \in NamedIds : j.intent = id.intent} \cup {id}}
<1>1. PICK N \in Nat : NamedIds \subseteq [intent : 0..Len(intents), try : 0..N]
  BY DEF NamesOK
<1>a. id.try \in Nat
  BY DEF Ids
<1>2. PICK M \in Nat : N <= M /\ id.try <= M
  <2>1. N <= N + id.try /\ id.try <= N + id.try /\ N + id.try \in Nat
    BY <1>a
  <2> QED BY <2>1
<1>3. S \subseteq 0..M /\ id.try \in S
  <2>1. \A i \in NamedIds : i.try \in 0..N
    BY <1>1
  <2>2. \A i \in NamedIds \cup {id} : i.try \in 0..M
    BY <2>1, <1>2, <1>a
  <2> QED BY <2>2
<1>4. \A i \in NamedIds : i.intent = id.intent => i.try \in S
  OBVIOUS
<1> DEFINE m == Max(S)
<1>5. Fresh(id) = [id EXCEPT !.try = 1 + m]
  BY DEF Fresh
<1> HIDE DEF S
<1>6. m \in 0..M /\ \A x \in S : x <= m
  BY <1>3, MaxOfBounded
<1> HIDE DEF m
<1>7. Fresh(id) \in Ids /\ Fresh(id).intent = id.intent /\ Fresh(id).try = 1 + m
  BY <1>5, <1>6 DEF Ids
<1>8. \A i \in NamedIds : i.intent = id.intent => i.try <= m
  BY <1>4, <1>6
<1> QED BY <1>6, <1>7, <1>8

\* The youngest entry has the greatest sequence.
LEMMA LastSeqFacts ==
  ASSUME SeqsOK
  PROVE  LastSeq(store) \in Nat /\ \A id \in DOMAIN store : store[id].seq <= LastSeq(store)
<1> DEFINE S == {0} \cup {store[id].seq : id \in DOMAIN store}
<1>1. PICK N \in Nat : \A id \in DOMAIN store : store[id].seq \in 0..N
  BY DEF SeqsOK
<1>2. S \subseteq 0..N /\ 0 \in S /\ \A id \in DOMAIN store : store[id].seq \in S
  BY <1>1
<1>3. LastSeq(store) = Max(S)
  BY DEF LastSeq
<1> HIDE DEF S
<1> DEFINE m == Max(S)
<1>4. m \in S /\ \A x \in S : x <= m
  BY <1>2, MaxOfBounded
<1>5. LastSeq(store) = m
  BY <1>3
<1> HIDE DEF m
<1>6. m \in 0..N /\ m \in Nat
  BY <1>2, <1>4
<1>7. \A id \in DOMAIN store : store[id].seq <= m
  BY <1>2, <1>4
<1> QED BY <1>5, <1>6, <1>7

-----------------------------------------------------------------------------
(* What the operators on entries and stores do *)

\* An entry in another state, under the lease of o.
Moved(e, st, o) == [[[e EXCEPT !.state = st] EXCEPT !.owner = o] EXCEPT !.due = FALSE]

\* An entry that sends the same, in the same place.
Still(e, x) == x \in Entries /\ x.op = e.op /\ x.base = e.base /\ x.seq = e.seq

\* No transition changes what an entry sends.
LEMMA EntryTypes ==
  ASSUME NEW e \in Entries, NEW w \in Workers, NEW n \in Nat
  PROVE  /\ Still(e, Claimed(e, w)) /\ Claimed(e, w).state = "sending"
         /\ Claimed(e, w).owner = w
         /\ Still(e, Waiting(e)) /\ Waiting(e).state = "retry-wait"
         /\ Still(e, Failed(e)) /\ Failed(e).state = "failed"
         /\ Still(e, Requeued(e)) /\ Requeued(e).state = "queued"
         /\ Still(e, Blocked(e, n)) /\ Blocked(e, n).state = "conflict"
         /\ Blocked(e, n).session = n
<1>1. \A x \in Entries, st \in States :
        LET y == [x EXCEPT !.state = st]
        IN /\ y \in Entries /\ y.op = x.op /\ y.base = x.base /\ y.seq = x.seq
           /\ y.state = st /\ y.owner = x.owner
  BY DEF Entries
<1>2. \A x \in Entries, o \in Workers \cup {"none"} :
        LET y == [x EXCEPT !.owner = o]
        IN /\ y \in Entries /\ y.op = x.op /\ y.base = x.base /\ y.seq = x.seq
           /\ y.state = x.state /\ y.owner = o
  BY DEF Entries
<1>3. \A x \in Entries, b \in BOOLEAN :
        LET y == [x EXCEPT !.due = b]
        IN /\ y \in Entries /\ y.op = x.op /\ y.base = x.base /\ y.seq = x.seq
           /\ y.state = x.state /\ y.owner = x.owner /\ y.session = x.session
  BY DEF Entries
<1>4. \A x \in Entries, a \in Nat :
        LET y == [x EXCEPT !.attempts = a]
        IN /\ y \in Entries /\ y.op = x.op /\ y.base = x.base /\ y.seq = x.seq
           /\ y.state = x.state /\ y.owner = x.owner
  BY DEF Entries
<1>5. \A x \in Entries :
        LET y == [x EXCEPT !.session = n]
        IN /\ y \in Entries /\ y.op = x.op /\ y.base = x.base /\ y.seq = x.seq
           /\ y.state = x.state /\ y.session = n
  BY DEF Entries
<1>6. \A st \in States, o \in Workers \cup {"none"} :
        LET x == Moved(e, st, o)
        IN /\ x \in Entries /\ x.op = e.op /\ x.base = e.base /\ x.seq = e.seq
           /\ x.state = st /\ x.owner = o /\ x.attempts = e.attempts
  <2> TAKE st \in States, o \in Workers \cup {"none"}
  <2> DEFINE x == [e EXCEPT !.state = st]
             y == [x EXCEPT !.owner = o]
             z == [y EXCEPT !.due = FALSE]
  <2>1. /\ x \in Entries /\ x.op = e.op /\ x.base = e.base /\ x.seq = e.seq
        /\ x.state = st /\ x.attempts = e.attempts
    BY <1>1 DEF Entries
  <2> HIDE DEF x
  <2>2. /\ y \in Entries /\ y.op = x.op /\ y.base = x.base /\ y.seq = x.seq
        /\ y.state = x.state /\ y.owner = o /\ y.attempts = x.attempts
    BY <1>2, <2>1 DEF Entries
  <2> HIDE DEF y
  <2>3. /\ z \in Entries /\ z.op = y.op /\ z.base = y.base /\ z.seq = y.seq
        /\ z.state = y.state /\ z.owner = y.owner /\ z.attempts = y.attempts
    BY <1>3, <2>2 DEF Entries
  <2> HIDE DEF z
  <2>4. /\ z \in Entries /\ z.op = e.op /\ z.base = e.base /\ z.seq = e.seq
        /\ z.state = st /\ z.owner = o /\ z.attempts = e.attempts
    BY <2>1, <2>2, <2>3
  <2> QED BY <2>4 DEF x, y, z, Moved
<1>7. \A st \in States :
        /\ Released(e, st) \in Entries /\ Released(e, st).op = e.op
        /\ Released(e, st).base = e.base /\ Released(e, st).seq = e.seq
        /\ Released(e, st).state = st
  <2> TAKE st \in States
  <2> DEFINE x == Moved(e, st, "none")
  <2>1. "none" \in Workers \cup {"none"}
    OBVIOUS
  <2>2. x \in Entries /\ x.op = e.op /\ x.base = e.base /\ x.seq = e.seq /\ x.state = st
    BY ONLY <1>6, <2>1
  <2>3. Released(e, st) = x
    BY DEF Released, Moved
  <2> HIDE DEF x
  <2> QED BY <2>2, <2>3
<1>8. LET x == Claimed(e, w)
      IN /\ x \in Entries /\ x.op = e.op /\ x.base = e.base /\ x.seq = e.seq
         /\ x.state = "sending" /\ x.owner = w
  <2> DEFINE x == Moved(e, "sending", w)
             a == IF x.attempts < MaxAttempts THEN x.attempts + 1 ELSE x.attempts
  <2>1. /\ x \in Entries /\ x.op = e.op /\ x.base = e.base /\ x.seq = e.seq
        /\ x.state = "sending" /\ x.owner = w /\ x.attempts = e.attempts
    BY <1>6 DEF States
  <2>2. Claimed(e, w) = [x EXCEPT !.attempts = a]
    BY <2>1 DEF Claimed, Moved
  <2> HIDE DEF x
  <2>3. x.attempts \in Nat
    BY <2>1 DEF Entries
  <2>4. a \in Nat
    BY <2>3
  <2> HIDE DEF a
  <2> QED BY <2>1, <2>2, <2>4, <1>4
<1>9. LET x == Blocked(e, n)
      IN x \in Entries /\ x.op = e.op /\ x.base = e.base /\ x.seq = e.seq
         /\ x.state = "conflict" /\ x.session = n
  <2> DEFINE r == Released(e, "conflict")
  <2>1. r \in Entries /\ r.op = e.op /\ r.base = e.base /\ r.seq = e.seq /\ r.state = "conflict"
    BY <1>7 DEF States
  <2>2. Blocked(e, n) = [r EXCEPT !.session = n]
    BY DEF Blocked
  <2> HIDE DEF r
  <2> QED BY <2>1, <2>2, <1>5
<1>10. /\ Waiting(e) = Released(e, "retry-wait") /\ Failed(e) = Released(e, "failed")
       /\ Requeued(e) = Released(e, "queued")
  BY DEF Waiting, Failed, Requeued
<1>11. {"retry-wait", "failed", "queued"} \subseteq States
  BY DEF States
<1>13. \A st \in {"retry-wait", "failed", "queued"} :
         /\ Released(e, st) \in Entries /\ Released(e, st).op = e.op
         /\ Released(e, st).base = e.base /\ Released(e, st).seq = e.seq
         /\ Released(e, st).state = st
  BY <1>7, <1>11
<1> QED BY <1>8, <1>9, <1>10, <1>13 DEF Still

\* An entry whose time has come.
LEMMA DueEntry ==
  ASSUME NEW e \in Entries, NEW x, x = [e EXCEPT !.due = TRUE]
  PROVE  Still(e, x) /\ x.state = e.state /\ x.session = e.session
BY DEF Entries, Still

\* An entry that is queued again.
LEMMA RequeuedFacts ==
  ASSUME NEW e \in Entries
  PROVE  Still(e, Requeued(e)) /\ Requeued(e).state = "queued"
BY DEF Requeued, Released, Entries, States, Still

\* A new entry.
LEMMA NewEntryType ==
  ASSUME NEW op \in Ops, NEW s \in Snapshots
  PROVE  /\ NewEntry(op, s) \in Entries
         /\ NewEntry(op, s).op = op /\ NewEntry(op, s).base = s
         /\ NewEntry(op, s).state = "queued"
BY DEF NewEntry, Entries, States

\* An entry with its place in the outbox.
Placed(e, n, f) ==
  /\ f \in Entries
  /\ f.op = e.op /\ f.base = e.base /\ f.state = e.state /\ f.seq = n

\* Putting an entry at the end.
LEMMA EnqueuedFacts ==
  ASSUME SeqsOK, NEW id, NEW e \in Entries
  PROVE  \E f : /\ Placed(e, LastSeq(store) + 1, f)
                /\ Enqueued(store, id, e) =
                     [i \in DOMAIN store \cup {id} |-> IF i = id THEN f ELSE store[i]]
<1>1. PICK f : f = [e EXCEPT !.seq = LastSeq(store) + 1]
  OBVIOUS
<1>2. Placed(e, LastSeq(store) + 1, f)
  BY <1>1, LastSeqFacts DEF Entries, Placed
<1> QED BY <1>1, <1>2 DEF Enqueued

\* The outbox with f, under a fresh id, in the place of entry id.
InPlaceOf(id, fresh, f) ==
  [i \in (DOMAIN store \ {id}) \cup {fresh} |-> IF i = fresh THEN f ELSE store[i]]

\* Putting an entry in the place of another one.
LEMMA ReplacedFacts ==
  ASSUME NEW id, store[id] \in Entries, NEW fresh, NEW e \in Entries
  PROVE  \E f : /\ Placed(e, store[id].seq, f)
                /\ Replaced(store, id, fresh, e) = InPlaceOf(id, fresh, f)
<1>2. PICK g : g = [e EXCEPT !.seq = store[id].seq]
  OBVIOUS
<1>3. PICK f : f = [g EXCEPT !.attempts = store[id].attempts]
  OBVIOUS
<1>4. g \in Entries /\ g.op = e.op /\ g.base = e.base /\ g.state = e.state
      /\ g.seq = store[id].seq
  BY <1>2 DEF Entries
<1>5. Placed(e, store[id].seq, f)
  BY <1>3, <1>4 DEF Entries, Placed
<1>6. f = [e EXCEPT !.seq = store[id].seq, !.attempts = store[id].attempts]
  BY <1>2, <1>3
<1> QED BY <1>5, <1>6 DEF Replaced, InPlaceOf

-----------------------------------------------------------------------------
(* The invariant *)

\* Executions whose entry is one that has been, or may be, sent under its id.
Sending == {w \in Workers : workers[w].phase \notin {"idle", "replaced"}}

\* Every request that is kept somewhere and may be sent, again or at all.
Carried ==
  stray \cup {Request(id, store[id]) : id \in DOMAIN store} \cup {RequestOf(w) : w \in Sending}

Behind(r) == r.rev < Server.docs[r.op.doc].rev

\* No request of this id has committed, and none ever will.
Dead(id) == Commits(id) = {} /\ \A r \in Carried : r.id = id => Behind(r)

\* A snapshot that shows the revisions of a state of the server.
Dated(s) ==
  /\ s \in Snapshots
  /\ s.opSeq \in DOMAIN history
  /\ \A d \in Docs : s.docs[d].rev = history[s.opSeq].docs[d].rev

\* An operation that stands for edit i, and overwrites a value its author saw.
Serves(i, op) ==
  /\ i \in DOMAIN intents
  /\ op.from \in intents[i].seen
  /\ op.doc = intents[i].op.doc /\ op.field = intents[i].op.field
  /\ op.to = intents[i].op.to

\* It was planned on a snapshot that is no older than the edit.
Planned(i, op, base) ==
  /\ Serves(i, op)
  /\ Value(base, op) = op.from
  /\ Dated(base)
  /\ intents[i].at <= base.opSeq

\* Nothing has to be done for edit i any more.
Done(i) == IsCommitted(i) \/ WasMadeElsewhere(i)

\* A snapshot of opSeq k holds the commit of this id, if there ever is one.
Covered(id, k) == (\E n \in Commits(id) : n + 1 <= k) \/ Dead(id)

\* The states are numbered, and each commit advances one revision.
HistoryOK ==
  /\ \A n \in DOMAIN history : history[n].opSeq = n
  /\ \A m, n \in DOMAIN history : m <= n =>
       \A d \in Docs : history[m].docs[d].rev <= history[n].docs[d].rev
  /\ \A n \in DOMAIN log : \A d \in Docs :
       history[n + 1].docs[d].rev =
         history[n].docs[d].rev + (IF d = log[n].op.doc THEN 1 ELSE 0)

\* A commit id commits once, and what commits is an edit someone made.
LogOK ==
  /\ \A m, n \in DOMAIN log : log[m].id = log[n].id => m = n
  /\ \A n \in DOMAIN log :
       IF log[n].id.intent = 0 THEN log[n].id.try = n - 1
       ELSE Serves(log[n].id.intent, log[n].op)

\* An id stands for one request, which commits on the revision it carries.
CarriedOK ==
  \A r \in Carried :
    /\ Serves(r.id.intent, r.op)
    /\ r.rev <= Server.docs[r.op.doc].rev
    /\ \A n \in Commits(r.id) : log[n].op = r.op /\ history[n].docs[r.op.doc].rev = r.rev
    /\ \A q \in Carried : q.id = r.id => q = r

EntryOK(id, e) ==
  /\ Planned(id.intent, e.op, e.base)
  /\ e.state = "conflict" =>
       e.session \in DOMAIN history /\ e.base.opSeq < e.session /\ Dead(id)

StoreOK == \A id \in DOMAIN store : EntryOK(id, store[id])

\* What an execution knows of the entry it works on.
WorkerOK(x) ==
  x.phase # "idle" =>
    /\ Planned(x.id.intent, x.entry.op, x.entry.base)
    /\ x.phase # "replaced" /\ x.id \in DOMAIN store => x.entry.seq = store[x.id].seq
    /\ x.phase = "acked" => \E n \in Commits(x.id) : x.opSeq = n + 1
    /\ x.phase = "stale" => Dead(x.id) /\ x.entry.base.opSeq < Len(history)
    /\ x.phase = "merging" =>
         Dead(x.id) /\ x.opSeq \in DOMAIN history /\ x.entry.base.opSeq < x.opSeq
    /\ x.phase = "settling" =>
         Dated(x.snapshot) /\ Done(x.id.intent) /\ Covered(x.id, x.snapshot.opSeq)
    /\ x.phase = "removing" =>
         Done(x.id.intent) /\ (Commits(x.id) # {} \/ Dead(x.id))

WorkersOK == \A w \in Workers : WorkerOK(workers[w])

ViewOK(v) ==
  /\ Dated(v.snapshot)
  /\ v.doomed = NoId \/ v.doomed.intent \in DOMAIN intents
  /\ v.review # NoReview =>
       /\ Serves(v.review.id.intent, v.review.op)
       /\ v.review.session \in DOMAIN history
       /\ intents[v.review.id.intent].at <= v.review.session

ViewsOK == \A t \in Tabs : ViewOK(views[t])

ReplicaOK ==
  /\ Dated(replica.snapshot)
  /\ \A id \in replica.acked :
       /\ id.intent \in DOMAIN intents
       /\ Done(id.intent)
       /\ Covered(id, replica.snapshot.opSeq)

IInv ==
  /\ TypeOK /\ NamesOK /\ SeqsOK
  /\ HistoryOK /\ LogOK /\ CarriedOK
  /\ StoreOK /\ WorkersOK /\ ViewsOK /\ ReplicaOK
  /\ NothingForgotten
-----------------------------------------------------------------------------
(* The server *)

LEMMA SnapshotFacts ==
  ASSUME NEW s \in Snapshots
  PROVE  /\ s.opSeq \in Nat
         /\ \A d \in Docs : s.docs[d].rev \in Nat /\ s.docs[d].content \in [Fields -> AllVals]
BY DEF Snapshots

\* An operation changes one cell, and no revision.
LEMMA AppliedFacts ==
  ASSUME NEW s \in Snapshots, NEW op \in Ops
  PROVE  /\ Applied(s, op) \in Snapshots
         /\ Applied(s, op).opSeq = s.opSeq
         /\ \A d \in Docs : /\ Applied(s, op).docs[d].rev = s.docs[d].rev
                            /\ d # op.doc => Applied(s, op).docs[d] = s.docs[d]
         /\ \A d \in Docs : Applied(s, op).docs[d] \in [rev : Nat, content : [Fields -> AllVals]]
<1>1. op.doc \in Docs /\ op.field \in Fields /\ op.to \in AllVals
  BY DEF Ops
<1> DEFINE D == [rev : Nat, content : [Fields -> AllVals]]
           c == [s.docs[op.doc].content EXCEPT ![op.field] = op.to]
           x == [s.docs[op.doc] EXCEPT !.content = c]
           docs == [s.docs EXCEPT ![op.doc] = x]
<1>2. s.docs \in [Docs -> D] /\ s.docs[op.doc] \in D
  BY <1>1 DEF Snapshots
<1>a. c \in [Fields -> AllVals]
  BY <1>1, <1>2
<1> HIDE DEF c
<1>b. x \in D /\ x.rev = s.docs[op.doc].rev
  BY <1>2, <1>a
<1>c. Applied(s, op) = [s EXCEPT !.docs = docs]
  BY DEF Applied, c
<1> HIDE DEF x, D
<1>3. docs \in [Docs -> D]
  BY <1>1, <1>2, <1>b
<1>4. \A d \in Docs : docs[d].rev = s.docs[d].rev /\ (d # op.doc => docs[d] = s.docs[d])
  BY <1>1, <1>2, <1>b
<1> HIDE DEF docs
<1>6. Applied(s, op) \in Snapshots /\ Applied(s, op).opSeq = s.opSeq /\ Applied(s, op).docs = docs
  BY <1>3, <1>c DEF Snapshots, D
<1> QED BY <1>3, <1>4, <1>6 DEF D

\* What the types say of history and log.
LEMMA ServerFacts ==
  ASSUME TypeOK
  PROVE  /\ Len(history) \in Nat /\ Len(history) >= 1 /\ Len(log) \in Nat
         /\ Len(history) = Len(log) + 1
         /\ DOMAIN history = 1..Len(history) /\ DOMAIN log = 1..(Len(history) - 1)
         /\ \A n \in DOMAIN history : history[n] \in Snapshots
         /\ \A n \in DOMAIN log : log[n].id \in Ids /\ log[n].op \in Ops
         /\ Server = history[Len(history)] /\ Server \in Snapshots
         /\ Len(history) \in DOMAIN history
<1>1. history \in Seq(Snapshots) /\ log \in Seq([id : Ids, op : Ops])
      /\ Len(history) = Len(log) + 1
  BY DEF TypeOK
<1>2. Len(log) \in Nat /\ DOMAIN log = 1..Len(log) /\ DOMAIN history = 1..Len(history)
  BY <1>1
<1>3. /\ \A n \in DOMAIN history : history[n] \in Snapshots
      /\ \A n \in DOMAIN log : log[n] \in [id : Ids, op : Ops]
  <2>1. \A n \in 1..Len(history) : history[n] \in Snapshots
    BY <1>1, ElementOfSeq
  <2>2. \A n \in 1..Len(log) : log[n] \in [id : Ids, op : Ops]
    BY <1>1, ElementOfSeq
  <2> QED BY <2>1, <2>2, <1>2
<1>4. Len(history) \in Nat /\ Len(history) >= 1 /\ Len(log) = Len(history) - 1
      /\ Len(history) \in DOMAIN history
  <2> DEFINE k == Len(log)
  <2>1. k \in Nat /\ Len(history) = k + 1 /\ DOMAIN history = 1..(k + 1)
    BY <1>1, <1>2
  <2> HIDE DEF k
  <2>2. k + 1 \in Nat /\ k + 1 >= 1 /\ k = (k + 1) - 1 /\ k + 1 \in 1..(k + 1)
    BY <2>1
  <2> QED BY <2>1, <2>2 DEF k
<1>5. Server = history[Len(history)]
  BY DEF Server, Last
<1> QED BY <1>1, <1>2, <1>3, <1>4, <1>5

\* The server commits op under this id: the request of another device, or one
\* that is carried.
Grows(id, op) ==
  /\ Append1(id, op)
  /\ \/ id.intent = 0 /\ id.try = Len(log)
     \/ \E r \in Carried : r.id = id /\ r.op = op /\ Commit(r)

\* The state after a commit.
LEMMA GrowsFacts ==
  ASSUME TypeOK, HistoryOK, NEW id \in Ids, NEW op \in Ops, Grows(id, op)
  PROVE  LET n == Len(history)
         IN /\ history' \in Seq(Snapshots) /\ log' \in Seq([id : Ids, op : Ops])
            /\ Len(history') = n + 1 /\ Len(log') = n
            /\ DOMAIN history' = 1..(n + 1) /\ DOMAIN log' = 1..n
            /\ \A m \in DOMAIN history : history'[m] = history[m]
            /\ \A m \in DOMAIN log : log'[m] = log[m]
            /\ log'[n].id = id /\ log'[n].op = op
            /\ history'[n + 1] \in Snapshots /\ history'[n + 1].opSeq = n + 1
            /\ \A d \in Docs : history'[n + 1].docs[d].rev =
                                 Server.docs[d].rev + (IF d = op.doc THEN 1 ELSE 0)
<1> DEFINE n == Len(history)
           a == Applied(Server, op)
           s == [a EXCEPT !.opSeq = @ + 1, !.docs[op.doc].rev = @ + 1]
           x == [a.docs[op.doc] EXCEPT !.rev = a.docs[op.doc].rev + 1]
           docs == [a.docs EXCEPT ![op.doc] = x]
<1>1. op.doc \in Docs
  BY DEF Ops
<1>2. /\ n \in Nat /\ n >= 1 /\ Server = history[n] /\ Server \in Snapshots
      /\ n \in DOMAIN history /\ DOMAIN history = 1..n /\ Len(log) = n - 1
      /\ DOMAIN log = 1..(n - 1)
  BY ServerFacts
<1>3. /\ a \in Snapshots /\ a.opSeq = n
      /\ \A d \in Docs : a.docs[d].rev = Server.docs[d].rev
  BY <1>2, AppliedFacts DEF HistoryOK
<1> HIDE DEF a
<1>4. a.docs \in [Docs -> [rev : Nat, content : [Fields -> AllVals]]]
  BY <1>3 DEF Snapshots
<1>6. s = [[a EXCEPT !.opSeq = n + 1] EXCEPT !.docs = docs]
  BY <1>3 DEF Snapshots
<1>b. x \in [rev : Nat, content : [Fields -> AllVals]] /\ x.rev = a.docs[op.doc].rev + 1
  BY <1>1, <1>4
<1> HIDE DEF x
<1>5. /\ docs \in [Docs -> [rev : Nat, content : [Fields -> AllVals]]]
      /\ \A d \in Docs : docs[d].rev = a.docs[d].rev + (IF d = op.doc THEN 1 ELSE 0)
  <2>1. docs \in [Docs -> [rev : Nat, content : [Fields -> AllVals]]]
    BY <1>4, <1>b
  <2>2. \A d \in Docs : a.docs[d].rev \in Nat
    BY <1>4
  <2>3. \A d \in Docs : docs[d] = IF d = op.doc THEN x ELSE a.docs[d]
    BY <1>4
  <2> QED BY <2>1, <2>2, <2>3, <1>b
<1> HIDE DEF docs
<1>7. s \in Snapshots /\ s.opSeq = n + 1 /\ s.docs = docs
  <2> DEFINE b == [a EXCEPT !.opSeq = n + 1]
  <2>1. b \in Snapshots /\ b.opSeq = n + 1
    BY <1>2, <1>3 DEF Snapshots
  <2> HIDE DEF b
  <2>2. LET c == [b EXCEPT !.docs = docs]
        IN c \in Snapshots /\ c.opSeq = b.opSeq /\ c.docs = docs
    BY <2>1, <1>5 DEF Snapshots
  <2>3. s = [b EXCEPT !.docs = docs]
    BY <1>6 DEF b
  <2> HIDE DEF s
  <2> QED BY <2>1, <2>2, <2>3
<1>8. history' = Append(history, s) /\ log' = Append(log, [id |-> id, op |-> op])
  BY DEF Grows, Append1, a
<1> HIDE DEF s
<1>9. history \in Seq(Snapshots) /\ log \in Seq([id : Ids, op : Ops])
  BY DEF TypeOK
<1>10. /\ history' \in Seq(Snapshots) /\ Len(history') = n + 1
       /\ \A m \in 1..n : history'[m] = history[m]
       /\ history'[n + 1] = s
  BY <1>2, <1>7, <1>8, <1>9
<1>11. /\ log' \in Seq([id : Ids, op : Ops]) /\ Len(log') = n
       /\ \A m \in 1..(n - 1) : log'[m] = log[m]
       /\ log'[n] = [id |-> id, op |-> op]
  <2> DEFINE e == [id |-> id, op |-> op]
  <2>1. e \in [id : Ids, op : Ops]
    OBVIOUS
  <2>2. log' = Append(log, e)
    BY <1>8
  <2> HIDE DEF e
  <2>3. /\ log' \in Seq([id : Ids, op : Ops]) /\ Len(log') = Len(log) + 1
        /\ \A m \in 1..Len(log) : log'[m] = log[m]
        /\ log'[Len(log) + 1] = e
    BY <2>1, <2>2, <1>9
  <2> QED BY <2>3, <1>2 DEF e
<1>12. DOMAIN history' = 1..(n + 1) /\ DOMAIN log' = 1..n
  BY <1>10, <1>11
<1> QED BY <1>2, <1>3, <1>5, <1>7, <1>10, <1>11, <1>12
\* What a step may do to the server.
ServerStep == UNCHANGED server \/ \E id \in Ids, op \in Ops : Grows(id, op)

\* History and log only grow, and so do revisions.
ServerOnward ==
  /\ Len(history) <= Len(history')
  /\ \A n \in DOMAIN history : n \in DOMAIN history' /\ history'[n] = history[n]
  /\ \A n \in DOMAIN log : n \in DOMAIN log' /\ log'[n] = log[n]
  /\ \A d \in Docs : Server.docs[d].rev <= Server'.docs[d].rev

\* What an edit is stays, and its author may see more.
IntentsOnward ==
  \A i \in DOMAIN intents :
    /\ i \in DOMAIN intents'
    /\ intents'[i].op = intents[i].op /\ intents'[i].at = intents[i].at
    /\ intents[i].seen \subseteq intents'[i].seen

\* Nothing is carried that was not carried before, but for new entries.
CarriedStep ==
  \A r \in Carried' :
    \/ r \in Carried
    \/ /\ r.id \notin NamedIds
       /\ r.id \in DOMAIN store'
       /\ r = Request(r.id, store'[r.id])

\* Every step of the system has these three properties.
StepOK == ServerStep /\ IntentsOnward /\ CarriedStep

LEMMA HistoryStep ==
  ASSUME TypeOK, HistoryOK, ServerStep
  PROVE  ServerOnward /\ HistoryOK'
<1>1. /\ Len(history) \in Nat /\ DOMAIN history = 1..Len(history)
      /\ DOMAIN log = 1..(Len(history) - 1) /\ Server = history[Len(history)]
      /\ \A n \in DOMAIN history : \A d \in Docs : history[n].docs[d].rev \in Nat
      /\ Len(history) \in DOMAIN history /\ Len(history) >= 1
  BY ServerFacts, SnapshotFacts
<1>2. CASE UNCHANGED server
  <2>1. history' = history /\ log' = log
    BY <1>2 DEF server
  <2>2. \A d \in Docs : Server.docs[d].rev <= Server'.docs[d].rev
    BY <1>1, <2>1 DEF Server
  <2>3. HistoryOK'
    BY <2>1 DEF HistoryOK
  <2>4. Len(history) <= Len(history')
    BY <1>1, <2>1
  <2> QED BY <2>1, <2>2, <2>3, <2>4 DEF ServerOnward
<1>3. ASSUME NEW id \in Ids, NEW op \in Ops, Grows(id, op)
      PROVE  ServerOnward /\ HistoryOK'
  <2> DEFINE n == Len(history)
  <2>1. /\ DOMAIN history' = 1..(n + 1) /\ DOMAIN log' = 1..n /\ Len(history') = n + 1
        /\ \A m \in 1..n : history'[m] = history[m]
        /\ \A m \in 1..(n - 1) : log'[m] = log[m]
        /\ history'[n + 1].opSeq = n + 1
        /\ log'[n].op = op
        /\ \A d \in Docs : history'[n + 1].docs[d].rev =
                             history[n].docs[d].rev + (IF d = op.doc THEN 1 ELSE 0)
    <3>1. /\ DOMAIN history' = 1..(n + 1) /\ DOMAIN log' = 1..n /\ Len(history') = n + 1
          /\ \A m \in DOMAIN history : history'[m] = history[m]
          /\ \A m \in DOMAIN log : log'[m] = log[m]
          /\ history'[n + 1].opSeq = n + 1
          /\ log'[n].op = op
          /\ \A d \in Docs : history'[n + 1].docs[d].rev =
                               Server.docs[d].rev + (IF d = op.doc THEN 1 ELSE 0)
      BY <1>3, GrowsFacts
    <3>2. DOMAIN history = 1..n /\ DOMAIN log = 1..(n - 1) /\ Server = history[n]
      BY <1>1
    <3> QED BY ONLY <3>1, <3>2
  <2>2. n \in Nat /\ n >= 1
    BY <1>1
  <2>3. Server' = history'[n + 1]
    BY <2>1 DEF Server, Last
  <2>a. \A m \in 1..n : \A d \in Docs : history[m].docs[d].rev \in Nat
    BY <1>1
  <2>b. \A m \in 1..n : history[m].opSeq = m
    BY <1>1 DEF HistoryOK
  <2>c. \A i, j \in 1..n : i <= j =>
          \A d \in Docs : history[i].docs[d].rev <= history[j].docs[d].rev
    BY <1>1 DEF HistoryOK
  <2>d. \A m \in 1..(n - 1) : \A d \in Docs :
          history[m + 1].docs[d].rev =
            history[m].docs[d].rev + (IF d = log[m].op.doc THEN 1 ELSE 0)
    BY <1>1 DEF HistoryOK
  <2>e. DOMAIN history = 1..n /\ DOMAIN log = 1..(n - 1) /\ Server = history[n]
    BY <1>1
  <2> HIDE DEF n
  <2>4. \A d \in Docs : history[n].docs[d].rev <= history'[n + 1].docs[d].rev
    BY <2>1, <2>2, <2>a
  <2>5. ServerOnward
    <3>1. Len(history) = n
      BY DEF n
    <3>2. \A m \in 1..n : m \in 1..(n + 1)
      BY <2>2
    <3>3. \A m \in 1..(n - 1) : m \in 1..n
      BY <2>2
    <3>4. \A d \in Docs : Server.docs[d].rev <= Server'.docs[d].rev
      BY <2>3, <2>4, <2>e
    <3>5. n <= n + 1
      BY <2>2
    <3> QED BY <2>1, <2>e, <3>1, <3>2, <3>3, <3>4, <3>5 DEF ServerOnward
  <2>6. ASSUME NEW m \in 1..(n + 1) PROVE history'[m].opSeq = m
    <3>1. CASE m = n + 1
      BY <3>1, <2>1
    <3>2. CASE m \in 1..n
      BY <3>2, <2>1, <2>b
    <3> QED BY <3>1, <3>2, <2>2
  <2>7. ASSUME NEW i \in 1..(n + 1), NEW j \in 1..(n + 1), i <= j, NEW d \in Docs
        PROVE  history'[i].docs[d].rev <= history'[j].docs[d].rev
    <3>1. CASE j \in 1..n
      <4>1. i \in 1..n
        BY <2>2, <2>7, <3>1
      <4> QED BY <3>1, <4>1, <2>1, <2>c, <2>7
    <3>2. CASE j = n + 1 /\ i = n + 1
      BY <3>2, <2>1, <2>2, <2>a
    <3>3. CASE j = n + 1 /\ i \in 1..n
      <4>1. history[i].docs[d].rev <= history[n].docs[d].rev
        BY <3>3, <2>2, <2>c
      <4>2. history[n].docs[d].rev <= history'[n + 1].docs[d].rev
        BY <2>4
      <4>3. history[i].docs[d].rev \in Nat /\ history[n].docs[d].rev \in Nat
            /\ history'[n + 1].docs[d].rev \in Nat
        BY <3>3, <2>1, <2>2, <2>a
      <4>4. history'[i] = history[i]
        BY <3>3, <2>1
      <4> QED BY <3>3, <4>1, <4>2, <4>3, <4>4
    <3> QED BY <3>1, <3>2, <3>3, <2>2
  <2>8. ASSUME NEW m \in 1..n, NEW d \in Docs
        PROVE  history'[m + 1].docs[d].rev =
                 history'[m].docs[d].rev + (IF d = log'[m].op.doc THEN 1 ELSE 0)
    <3>1. CASE m = n
      BY <3>1, <2>1, <2>2
    <3>2. CASE m # n
      <4>1. m \in 1..(n - 1) /\ m \in 1..n /\ m + 1 \in 1..n
        BY <3>2, <2>2
      <4> QED BY <4>1, <2>1, <2>d
    <3> QED BY <3>1, <3>2
  <2>9. HistoryOK'
    BY <2>1, <2>6, <2>7, <2>8 DEF HistoryOK
  <2> QED BY <2>5, <2>9
<1> QED BY <1>2, <1>3 DEF ServerStep
-----------------------------------------------------------------------------
(* What stays as it is when the server, the edits and the requests move on *)

\* A carried request has an id that is named, and that belongs to an edit.
LEMMA CarriedNamed ==
  ASSUME TypeOK, NEW r \in Carried
  PROVE  /\ r.id \in NamedIds /\ r.id \in Ids
         /\ r.op \in Ops /\ r.rev \in Nat /\ r \in Requests
<1>1. CASE r \in stray
  BY <1>1 DEF TypeOK, Requests, NamedIds
<1>2. ASSUME NEW id \in DOMAIN store, r = Request(id, store[id])
      PROVE  r.id \in NamedIds /\ r.id \in Ids /\ r.op \in Ops /\ r.rev \in Nat
             /\ r \in Requests
  <2>1. store[id] \in Entries /\ id \in Ids
    BY DEF TypeOK
  <2>2. store[id].op \in Ops /\ store[id].base \in Snapshots /\ store[id].op.doc \in Docs
    BY <2>1 DEF Entries, Ops
  <2>3. store[id].base.docs[store[id].op.doc].rev \in Nat
    BY <2>2, SnapshotFacts
  <2> QED BY <1>2, <2>1, <2>2, <2>3 DEF Request, Requests, NamedIds
<1>3. ASSUME NEW w \in Sending, r = RequestOf(w)
      PROVE  r.id \in NamedIds /\ r.id \in Ids /\ r.op \in Ops /\ r.rev \in Nat
             /\ r \in Requests
  <2>1. workers[w] \in Executions /\ workers[w].phase # "idle"
        /\ w \in Workers
    BY DEF TypeOK, Sending
  <2>2. workers[w].id \in Ids /\ workers[w].entry \in Entries
    BY <2>1 DEF Executions, Senders, Settlers, Idle
  <2>3. workers[w].entry.op \in Ops /\ workers[w].entry.base \in Snapshots
        /\ workers[w].entry.op.doc \in Docs
    BY <2>2 DEF Entries, Ops
  <2>4. workers[w].entry.base.docs[workers[w].entry.op.doc].rev \in Nat
    BY <2>3, SnapshotFacts
  <2>5. workers[w].id \in NamedIds
    BY <2>1 DEF NamedIds
  <2> QED BY <1>3, <2>2, <2>3, <2>4, <2>5 DEF Request, Requests, RequestOf
<1> QED BY <1>1, <1>2, <1>3 DEF Carried

LEMMA DatedStays ==
  ASSUME ServerOnward, NEW s, Dated(s)
  PROVE  Dated(s)'
BY DEF Dated, ServerOnward

LEMMA ServesStays ==
  ASSUME IntentsOnward, NEW i, NEW op, Serves(i, op)
  PROVE  Serves(i, op)'
BY DEF Serves, IntentsOnward

LEMMA PlannedStays ==
  ASSUME ServerOnward, IntentsOnward, NEW i, NEW op, NEW base, Planned(i, op, base)
  PROVE  Planned(i, op, base)'
<1>1. Serves(i, op)' /\ Dated(base)'
  BY DatedStays, ServesStays DEF Planned
<1>2. intents'[i].at = intents[i].at
  BY DEF Planned, Serves, IntentsOnward
<1> QED BY <1>1, <1>2 DEF Planned

LEMMA DoneStays ==
  ASSUME ServerOnward, IntentsOnward, NEW i \in DOMAIN intents, Done(i)
  PROVE  Done(i)'
<1>1. intents'[i].at = intents[i].at /\ intents'[i].op = intents[i].op
  BY DEF IntentsOnward
<1> QED BY <1>1 DEF Done, IsCommitted, WasMadeElsewhere, ServerOnward

\* An id that is new in the log is that of another device, or was carried by a
\* request that is not behind.
LEMMA NewInLog ==
  ASSUME TypeOK, HistoryOK, ServerStep, NEW n \in DOMAIN log'
  PROVE  \/ n \in DOMAIN log /\ log'[n] = log[n]
         \/ /\ n = Len(history) /\ log'[n].id \in Ids /\ log'[n].op \in Ops
            /\ \/ log'[n].id.intent = 0 /\ log'[n].id.try = n - 1
               \/ \E r \in Carried : /\ r.id = log'[n].id /\ r.op = log'[n].op
                                     /\ Commit(r)
<1>1. CASE UNCHANGED server
  BY <1>1 DEF server
<1>2. ASSUME NEW id \in Ids, NEW op \in Ops, Grows(id, op), n \notin DOMAIN log
      PROVE  /\ n = Len(history) /\ log'[n].id = id /\ log'[n].op = op
             /\ Len(log) = n - 1
  <2> DEFINE k == Len(history)
  <2>1. k \in Nat /\ k >= 1 /\ DOMAIN log = 1..(k - 1) /\ Len(log) = k - 1
    BY ServerFacts
  <2>2. DOMAIN log' = 1..k /\ log'[k].id = id /\ log'[k].op = op
    BY <1>2, GrowsFacts
  <2> HIDE DEF k
  <2>3. n = k
    BY <1>2, <2>1, <2>2
  <2> QED BY <2>1, <2>2, <2>3 DEF k
<1>3. ASSUME NEW id \in Ids, NEW op \in Ops, Grows(id, op), n \in DOMAIN log
      PROVE  log'[n] = log[n]
  BY <1>3, GrowsFacts
<1>4. ASSUME NEW id \in Ids, NEW op \in Ops, Grows(id, op), n \notin DOMAIN log
      PROVE  /\ n = Len(history) /\ log'[n].id \in Ids /\ log'[n].op \in Ops
             /\ \/ log'[n].id.intent = 0 /\ log'[n].id.try = n - 1
                \/ \E r \in Carried : /\ r.id = log'[n].id /\ r.op = log'[n].op
                                      /\ Commit(r)
  BY <1>2, <1>4 DEF Grows
<1> QED BY <1>1, <1>3, <1>4 DEF ServerStep

\* What is dead stays dead, unless its id could be carried again.
LEMMA DeadStays ==
  ASSUME TypeOK, HistoryOK, StepOK, NEW id \in NamedIds, id.intent # 0, Dead(id)
  PROVE  Dead(id)'
<1>1. ServerOnward
  BY HistoryStep DEF StepOK
<1>2. ASSUME NEW n \in DOMAIN log', log'[n].id = id PROVE FALSE
  <2>1. ~(n \in DOMAIN log /\ log'[n] = log[n])
    BY <1>2 DEF Dead, Commits
  <2>2. PICK r \in Carried : r.id = id /\ Commit(r)
    BY <1>2, <2>1, NewInLog DEF StepOK
  <2>3. r.rev < Server.docs[r.op.doc].rev /\ Server.docs[r.op.doc].rev = r.rev
    BY <2>2 DEF Dead, Behind, Commit, Stale
  <2>4. r.rev \in Nat
    BY CarriedNamed
  <2> QED BY <2>3, <2>4
<1>3. ASSUME NEW r \in Carried', r.id = id PROVE Behind(r)'
  <2>1. r \in Carried
    BY <1>3 DEF StepOK, CarriedStep
  <2>2. r.rev < Server.docs[r.op.doc].rev /\ r.op.doc \in Docs /\ r.rev \in Nat
    BY <2>1, <1>3, CarriedNamed DEF Dead, Behind, Ops
  <2>3. Server.docs[r.op.doc].rev <= Server'.docs[r.op.doc].rev
    BY <1>1, <2>2 DEF ServerOnward
  <2>4. Server.docs[r.op.doc].rev \in Nat
    BY <2>2, ServerFacts, SnapshotFacts
  <2>5. Server'.docs[r.op.doc].rev \in Nat
    <3>1. CASE UNCHANGED server
      BY <3>1, <2>4 DEF server, Server
    <3>2. ASSUME NEW x \in Ids, NEW op \in Ops, Grows(x, op)
          PROVE  Server' \in Snapshots
      BY <3>2, GrowsFacts DEF Server, Last
    <3> QED BY <3>1, <3>2, <2>2, SnapshotFacts DEF StepOK, ServerStep
  <2> QED BY <2>2, <2>3, <2>4, <2>5 DEF Behind
<1> QED BY <1>2, <1>3 DEF Dead, Commits

\* The same for a snapshot that covers what has committed.
LEMMA CoveredStays ==
  ASSUME TypeOK, HistoryOK, StepOK, NEW id \in NamedIds, id.intent # 0,
         NEW k \in Nat, NEW m \in Nat, k <= m, Covered(id, k)
  PROVE  Covered(id, m)'
<1>1. CASE Dead(id)
  BY <1>1, DeadStays DEF Covered
<1>2. ASSUME NEW n \in Commits(id), n + 1 <= k PROVE Covered(id, m)'
  <2>1. n \in DOMAIN log' /\ log'[n] = log[n] /\ log[n].id = id
    BY HistoryStep DEF StepOK, ServerOnward, Commits
  <2>2. n \in Nat
    BY ServerFacts DEF Commits
  <2>3. n + 1 <= m
    BY <1>2, <2>2
  <2> QED BY <2>1, <2>3 DEF Covered, Commits
<1> QED BY <1>1, <1>2 DEF Covered
\* The log holds no id that nobody has used.
LEMMA NamedInLog ==
  ASSUME TypeOK, HistoryOK, LogOK, CarriedOK, ServerStep, NEW n \in DOMAIN log',
         log'[n].id.intent # 0
  PROVE  log'[n].id \in NamedIds /\ log'[n].id \in Ids
<1>1. CASE n \in DOMAIN log /\ log'[n] = log[n]
  BY <1>1, ServerFacts DEF NamedIds
<1>2. CASE \E r \in Carried : r.id = log'[n].id
  BY <1>2, CarriedNamed
<1> QED BY <1>1, <1>2, NewInLog

\* A carried request belongs to an edit, so its id is not that of another device.
LEMMA CarriedIntent ==
  ASSUME TypeOK, CarriedOK, NEW r \in Carried
  PROVE  r.id.intent # 0 /\ r.id.intent \in DOMAIN intents /\ Serves(r.id.intent, r.op)
<1>1. Serves(r.id.intent, r.op)
  BY DEF CarriedOK
<1>2. 0 \notin DOMAIN intents
  BY DEF TypeOK
<1> QED BY <1>1, <1>2 DEF Serves

\* The log stays in order, whatever the server commits.
LEMMA LogStep ==
  ASSUME TypeOK, HistoryOK, LogOK, CarriedOK, StepOK
  PROVE  LogOK'
<1>1. ServerOnward /\ ServerStep /\ IntentsOnward
  BY HistoryStep DEF StepOK
<1>2. /\ DOMAIN log = 1..(Len(history) - 1) /\ Len(history) \in Nat
  BY ServerFacts
<1>3. \A n \in DOMAIN log : log'[n] = log[n]
  BY <1>1 DEF ServerOnward
<1>4. ASSUME NEW m \in DOMAIN log, NEW n \in DOMAIN log', n \notin DOMAIN log,
             log'[n].id = log[m].id
      PROVE  FALSE
  <2>1. /\ n = Len(history)
        /\ \/ log'[n].id.intent = 0 /\ log'[n].id.try = n - 1
           \/ \E r \in Carried : r.id = log'[n].id /\ r.op = log'[n].op /\ Commit(r)
    BY <1>1, <1>4, NewInLog
  <2>2. CASE log'[n].id.intent = 0 /\ log'[n].id.try = n - 1
    <3>1. log[m].id.try = m - 1
      BY <2>2, <1>4 DEF LogOK
    <3> QED BY <3>1, <2>1, <2>2, <1>2, <1>4
  <2>3. ASSUME NEW r \in Carried, r.id = log'[n].id, Commit(r) PROVE FALSE
    BY <2>3, <1>4 DEF Commit, Commits
  <2> QED BY <2>1, <2>2, <2>3
<1>5. ASSUME NEW m \in DOMAIN log', NEW n \in DOMAIN log', log'[m].id = log'[n].id
      PROVE  m = n
  <2>1. CASE m \in DOMAIN log /\ n \in DOMAIN log
    BY <2>1, <1>3, <1>5 DEF LogOK
  <2>2. CASE m \notin DOMAIN log /\ n \notin DOMAIN log
    BY <2>2, <1>1, NewInLog
  <2> QED BY <2>1, <2>2, <1>3, <1>4, <1>5
<1>6. ASSUME NEW n \in DOMAIN log'
      PROVE  (IF log[n].id.intent = 0 THEN log[n].id.try = n - 1
              ELSE Serves(log[n].id.intent, log[n].op))'
  <2>0. \A i, op : Serves(i, op) => Serves(i, op)'
    BY <1>1, ServesStays
  <2> DEFINE x == log'[n]
  <2>1. CASE n \in DOMAIN log
    <3>1. IF x.id.intent = 0 THEN x.id.try = n - 1 ELSE Serves(x.id.intent, x.op)
      BY <2>1, <1>3 DEF LogOK
    <3> HIDE DEF x
    <3>2. IF x.id.intent = 0 THEN x.id.try = n - 1 ELSE \A i, op : i = x.id.intent /\ op = x.op => Serves(i, op)'
      BY <3>1, <2>0
    <3> QED BY <3>2 DEF x
  <2>2. ASSUME NEW r \in Carried, r.id = x.id, r.op = x.op
        PROVE  x.id.intent # 0 /\ \A i, op : i = x.id.intent /\ op = x.op => Serves(i, op)'
    BY <2>2, <2>0, CarriedIntent
  <2> QED BY <2>1, <2>2, <1>1, NewInLog
<1> QED BY <1>5, <1>6 DEF LogOK

\* What a new entry carries.
LEMMA NewCarried ==
  ASSUME TypeOK', HistoryOK', StoreOK', NEW id \in DOMAIN store',
         NEW r, r = Request(id, store'[id])
  PROVE  Serves(r.id.intent, r.op)' /\ r.rev <= Server'.docs[r.op.doc].rev
<1> DEFINE e == store'[id]
           b == e.base
           d == e.op.doc
<1>1. \A op, base : op = e.op /\ base = e.base => Planned(id.intent, op, base)'
  BY DEF StoreOK, EntryOK
<1>2. d \in Docs
  BY DEF TypeOK, Entries, Ops
<1>a. r.id = id /\ r.op = e.op /\ r.rev = b.docs[d].rev
  BY DEF Request
<1> HIDE DEF e
<1>3. /\ b.opSeq \in DOMAIN history' /\ b.docs[d].rev = history'[b.opSeq].docs[d].rev
      /\ \A op : op = e.op => Serves(id.intent, op)'
  BY <1>1, <1>2 DEF Planned, Dated
<1>4. Server' = history'[Len(history')] /\ Len(history') \in Nat
      /\ DOMAIN history' = 1..Len(history')
  BY DEF Server, Last, TypeOK
<1>5. b.opSeq <= Len(history') /\ Len(history') \in DOMAIN history'
  BY <1>3, <1>4
<1>6. history'[b.opSeq].docs[d].rev <= history'[Len(history')].docs[d].rev
  BY <1>2, <1>3, <1>5 DEF HistoryOK
<1> QED BY <1>a, <1>3, <1>4, <1>6

\* An id goes on to stand for one request.
LEMMA CarriedKept ==
  ASSUME TypeOK, HistoryOK, LogOK, CarriedOK, StepOK, TypeOK', HistoryOK', StoreOK'
  PROVE  CarriedOK'
<1>1. ServerOnward /\ ServerStep /\ IntentsOnward /\ CarriedStep
  BY HistoryStep DEF StepOK
<1>2. ASSUME NEW r \in Carried', r \in Carried, NEW n \in DOMAIN log', log'[n].id = r.id
      PROVE  log'[n].op = r.op /\ history'[n].docs[r.op.doc].rev = r.rev
  <2>1. CASE n \in DOMAIN log /\ log'[n] = log[n]
    <3>1. n \in Commits(r.id) /\ n \in DOMAIN history
      BY <2>1, <1>2, ServerFacts DEF Commits
    <3>2. log[n].op = r.op /\ history[n].docs[r.op.doc].rev = r.rev
      BY <1>2, <3>1 DEF CarriedOK
    <3> QED BY <2>1, <3>1, <3>2, <1>1 DEF ServerOnward
  <2>2. ASSUME n = Len(history), NEW q \in Carried, q.id = log'[n].id, q.op = log'[n].op,
               Commit(q)
        PROVE  log'[n].op = r.op /\ history'[n].docs[r.op.doc].rev = r.rev
    <3>1. q = r
      BY <1>2, <2>2 DEF CarriedOK
    <3>2. Server.docs[r.op.doc].rev = r.rev
      BY <3>1, <2>2 DEF Commit, Stale
    <3>3. history'[n] = Server
      BY <2>2, <1>1, ServerFacts DEF ServerOnward
    <3> QED BY <3>1, <3>2, <3>3, <2>2
  <2> QED BY <2>1, <2>2, <1>1, <1>2, NewInLog, CarriedIntent
<1>3. ASSUME NEW r \in Carried', r \in Carried
      PROVE  Serves(r.id.intent, r.op)' /\ r.rev <= Server'.docs[r.op.doc].rev
  <2>1. Serves(r.id.intent, r.op) /\ r.rev <= Server.docs[r.op.doc].rev
    BY <1>3 DEF CarriedOK
  <2>2. r.op.doc \in Docs /\ r.rev \in Nat
    BY <1>3, CarriedNamed DEF Ops
  <2>3. Server.docs[r.op.doc].rev <= Server'.docs[r.op.doc].rev
    BY <1>1, <2>2 DEF ServerOnward
  <2>4. Server.docs[r.op.doc].rev \in Nat /\ Server'.docs[r.op.doc].rev \in Nat
    <3>1. Server \in Snapshots
      BY ServerFacts
    <3>2. Server' \in Snapshots
      <4>1. history' \in Seq(Snapshots) /\ Len(history') = Len(log') + 1 /\ Len(log') \in Nat
        BY DEF TypeOK
      <4>2. Server' = history'[Len(history')]
        BY DEF Server, Last
      <4>3. Len(history') \in 1..Len(history')
        BY <4>1
      <4> QED BY <4>1, <4>2, <4>3, ElementOfSeq
    <3> QED BY <3>1, <3>2, <2>2, SnapshotFacts
  <2>5. Serves(r.id.intent, r.op)'
    BY <2>1, <1>1, ServesStays
  <2> QED BY <2>1, <2>2, <2>3, <2>4, <2>5
<1>4. ASSUME NEW r \in Carried', r.id \notin NamedIds, r.id \in DOMAIN store',
             r = Request(r.id, store'[r.id]), NEW n \in DOMAIN log', log'[n].id = r.id
      PROVE  FALSE
  <2>1. r.id.intent # 0
    <3>1. Serves(r.id.intent, r.op)'
      BY <1>4, NewCarried
    <3>2. 0 \notin DOMAIN intents'
      BY DEF TypeOK
    <3> QED BY <3>1, <3>2 DEF Serves
  <2> QED BY <2>1, <1>1, <1>4, NamedInLog
<1>5. ASSUME NEW r \in Carried', NEW q \in Carried', q.id = r.id PROVE q = r
  <2>1. CASE r \in Carried /\ q \in Carried
    BY <2>1, <1>5 DEF CarriedOK
  <2>2. CASE r \in Carried \/ q \in Carried
    <3>1. r.id \in NamedIds
      BY <2>2, <1>5, CarriedNamed
    <3> QED BY <3>1, <2>1, <1>1, <1>5 DEF CarriedStep
  <2>3. CASE r \notin Carried /\ q \notin Carried
    BY <2>3, <1>1, <1>5 DEF CarriedStep
  <2> QED BY <2>2, <2>3
<1> SUFFICES ASSUME NEW r \in Carried'
             PROVE  /\ Serves(r.id.intent, r.op)'
                    /\ r.rev <= Server'.docs[r.op.doc].rev
                    /\ \A n \in DOMAIN log' : log'[n].id = r.id =>
                         log'[n].op = r.op /\ history'[n].docs[r.op.doc].rev = r.rev
                    /\ \A q \in Carried' : q.id = r.id => q = r
  BY DEF CarriedOK, Commits
<1>6. CASE r \in Carried
  BY <1>6, <1>2, <1>3, <1>5
<1>7. CASE r \notin Carried
  <2>1. r.id \notin NamedIds /\ r.id \in DOMAIN store' /\ r = Request(r.id, store'[r.id])
    BY <1>7, <1>1 DEF CarriedStep
  <2>2. Serves(r.id.intent, r.op)' /\ r.rev <= Server'.docs[r.op.doc].rev
    BY <2>1, NewCarried
  <2> QED BY <2>1, <2>2, <1>4, <1>5
<1> QED BY <1>6, <1>7
-----------------------------------------------------------------------------
(* What a step keeps *)

\* An entry keeps its place in the causal order; an id that is new in the outbox
\* names nothing yet.
StoreStep ==
  \A id \in DOMAIN store' :
    \/ id \in DOMAIN store /\ store'[id].seq = store[id].seq
    \/ id \notin NamedIds

LEMMA Keeps ==
  ASSUME IInv, StepOK
  PROVE  /\ HistoryOK' /\ LogOK'
         /\ Len(history) <= Len(history')
         /\ \A n \in DOMAIN history : n \in DOMAIN history'
         /\ \A i, op : Serves(i, op) => Serves(i, op)'
         /\ \A i, op, base : Planned(i, op, base) => Planned(i, op, base)'
         /\ \A s : Dated(s) => Dated(s)'
         /\ \A i \in DOMAIN intents : Done(i) => Done(i)'
         /\ \A id \in NamedIds : id.intent \in DOMAIN intents /\ Dead(id) => Dead(id)'
         /\ \A id \in NamedIds, k \in Nat, m \in Nat :
              id.intent \in DOMAIN intents /\ k <= m /\ Covered(id, k) => Covered(id, m)'
         /\ \A id \in Ids : Commits(id) # {} => (Commits(id) # {})'
<1>1. /\ TypeOK /\ HistoryOK /\ LogOK /\ CarriedOK
      /\ ServerOnward /\ HistoryOK' /\ LogOK' /\ IntentsOnward
  BY HistoryStep, LogStep DEF IInv, StepOK
<1>2. 0 \notin DOMAIN intents
  BY <1>1 DEF TypeOK
<1>3. \A i, op : Serves(i, op) => Serves(i, op)'
  BY <1>1, ServesStays
<1>4. \A i, op, base : Planned(i, op, base) => Planned(i, op, base)'
  BY <1>1, PlannedStays
<1>5. \A s : Dated(s) => Dated(s)'
  BY <1>1, DatedStays
<1>6. \A i \in DOMAIN intents : Done(i) => Done(i)'
  BY <1>1, DoneStays
<1>7. \A id \in NamedIds : id.intent \in DOMAIN intents /\ Dead(id) => Dead(id)'
  BY <1>1, <1>2, DeadStays
<1>8. \A id \in NamedIds, k \in Nat, m \in Nat :
        id.intent \in DOMAIN intents /\ k <= m /\ Covered(id, k) => Covered(id, m)'
  BY <1>1, <1>2, CoveredStays
<1>9. \A id \in Ids : Commits(id) # {} => (Commits(id) # {})'
  BY <1>1 DEF Commits, ServerOnward
<1>10. Len(history) <= Len(history') /\ \A n \in DOMAIN history : n \in DOMAIN history'
  BY <1>1 DEF ServerOnward
<1> QED BY <1>1, <1>3, <1>4, <1>5, <1>6, <1>7, <1>8, <1>9, <1>10

\* An execution and its entry.
LEMMA WorkerFacts ==
  ASSUME TypeOK, WorkersOK, NEW w \in Workers, workers[w].phase # "idle"
  PROVE  /\ workers[w] \in Senders \cup Settlers
         /\ workers[w].id \in NamedIds /\ workers[w].id \in Ids
         /\ workers[w].id.intent \in DOMAIN intents
         /\ workers[w].entry \in Entries
         /\ workers[w].phase = "settling" => workers[w].snapshot \in Snapshots
         /\ workers[w].phase \in {"acked", "stale", "merging"} => workers[w].opSeq \in Nat
         /\ WorkerOK(workers[w])
<1>1. workers[w] \in Senders \cup Settlers
  BY DEF TypeOK, Executions, Idle
<1>2. WorkerOK(workers[w])
  BY DEF WorkersOK
<1>3. workers[w].id.intent \in DOMAIN intents
  BY <1>2 DEF WorkerOK, Planned, Serves
<1>4. workers[w].id \in NamedIds
  BY DEF NamedIds
<1> QED BY <1>1, <1>2, <1>3, <1>4 DEF Senders, Settlers

LEMMA WorkersKept ==
  ASSUME IInv, StepOK, StoreStep, NEW x \in Executions, WorkerOK(x),
         x.phase # "idle" => x.id \in NamedIds
  PROVE  WorkerOK(x)'
<1>1. CASE x.phase = "idle"
  BY <1>1 DEF WorkerOK
<1>2. CASE x.phase # "idle"
  <2>1. /\ x \in Senders \cup Settlers /\ x.id \in NamedIds /\ x.id \in Ids
        /\ x.id.intent \in DOMAIN intents /\ WorkerOK(x)
        /\ x.phase = "settling" => x.snapshot \in Snapshots
    BY <1>2 DEF Executions, Senders, Settlers, Idle, WorkerOK, Planned, Serves
  <2>2. Planned(x.id.intent, x.entry.op, x.entry.base)'
    BY <1>2, <2>1, Keeps DEF WorkerOK
  <2>3. x.phase # "replaced" /\ x.id \in DOMAIN store' => x.entry.seq = store'[x.id].seq
    BY <1>2, <2>1 DEF WorkerOK, StoreStep
  <2>4. ASSUME x.phase = "acked" PROVE \E n \in Commits(x.id)' : x.opSeq = n + 1
    <3>1. PICK n \in Commits(x.id) : x.opSeq = n + 1
      BY <2>1, <2>4 DEF WorkerOK
    <3>2. n \in Commits(x.id)'
      BY HistoryStep DEF Commits, ServerOnward, IInv, StepOK
    <3> QED BY <3>1, <3>2
  <2>5. ASSUME x.phase = "stale" PROVE Dead(x.id)' /\ x.entry.base.opSeq < Len(history')
    <3>1. Dead(x.id) /\ x.entry.base.opSeq < Len(history)
      BY <2>1, <2>5 DEF WorkerOK
    <3>2. x.entry.base \in Snapshots
      BY <1>2, <2>1 DEF WorkerOK, Planned, Dated
    <3>3. x.entry.base.opSeq \in Nat /\ Len(history) \in Nat /\ Len(history') >= Len(history)
          /\ Len(history') \in Int
      <4>1. Len(history) \in Nat
        BY ServerFacts DEF IInv
      <4>2. ServerOnward
        BY HistoryStep DEF IInv, StepOK
      <4>3. Len(history') \in Int
        <5>1. CASE UNCHANGED server
          BY <5>1, <4>1 DEF server
        <5>2. ASSUME NEW id \in Ids, NEW op \in Ops, Grows(id, op)
              PROVE  Len(history') = Len(history) + 1
          BY <5>2, GrowsFacts DEF IInv
        <5> QED BY <4>1, <5>1, <5>2 DEF StepOK, ServerStep
      <4> QED BY <3>2, <4>1, <4>2, <4>3, SnapshotFacts DEF ServerOnward
    <3> QED BY <2>1, <3>1, <3>3, Keeps
  <2>6. ASSUME x.phase = "merging"
        PROVE  Dead(x.id)' /\ x.opSeq \in DOMAIN history' /\ x.entry.base.opSeq < x.opSeq
    BY <2>1, <2>6, Keeps DEF WorkerOK
  <2>7. ASSUME x.phase = "settling"
        PROVE  Dated(x.snapshot)' /\ Done(x.id.intent)' /\ Covered(x.id, x.snapshot.opSeq)'
    <3>1. Dated(x.snapshot) /\ Done(x.id.intent) /\ Covered(x.id, x.snapshot.opSeq)
      BY <2>1, <2>7 DEF WorkerOK
    <3>2. x.snapshot.opSeq \in Nat
      BY <2>1, <2>7, SnapshotFacts
    <3> QED BY <2>1, <3>1, <3>2, Keeps
  <2>8. ASSUME x.phase = "removing"
        PROVE  Done(x.id.intent)' /\ ((Commits(x.id) # {})' \/ Dead(x.id)')
    BY <2>1, <2>8, Keeps DEF WorkerOK
  <2> HIDE DEF Senders, Settlers
  <2> QED BY <2>2, <2>3, <2>4, <2>5, <2>6, <2>7, <2>8 DEF WorkerOK
<1> QED BY <1>1, <1>2

LEMMA ViewsKept ==
  ASSUME IInv, StepOK, NEW t \in Tabs, NEW v, v = views[t]
  PROVE  ViewOK(v)'
<1>1. ViewOK(v)
  BY DEF IInv, ViewsOK
<1>2. Dated(v.snapshot)'
  BY <1>1, Keeps DEF ViewOK
<1>3. IntentsOnward
  BY DEF StepOK
<1>4. v.doomed = NoId \/ v.doomed.intent \in DOMAIN intents'
  BY <1>1, <1>3 DEF ViewOK, IntentsOnward
<1>5. ASSUME v.review # NoReview
      PROVE  /\ Serves(v.review.id.intent, v.review.op)'
             /\ v.review.session \in DOMAIN history'
             /\ intents'[v.review.id.intent].at <= v.review.session
  <2>1. /\ Serves(v.review.id.intent, v.review.op)
        /\ v.review.session \in DOMAIN history
        /\ intents[v.review.id.intent].at <= v.review.session
    BY <1>1, <1>5 DEF ViewOK
  <2>2. intents'[v.review.id.intent].at = intents[v.review.id.intent].at
    BY <1>3, <2>1 DEF IntentsOnward, Serves
  <2> QED BY <2>1, <2>2, Keeps
<1> QED BY <1>2, <1>4, <1>5 DEF ViewOK

\* An entry that may be kept.
LEMMA EntriesKept ==
  ASSUME IInv, StepOK, NEW id, NEW e, EntryOK(id, e),
         id \in NamedIds \/ e.state # "conflict"
  PROVE  EntryOK(id, e)'
<1>1. id.intent \in DOMAIN intents
  BY DEF EntryOK, Planned, Serves
<1>2. Planned(id.intent, e.op, e.base)'
  BY Keeps DEF EntryOK
<1>3. ASSUME e.state = "conflict"
      PROVE  e.session \in DOMAIN history' /\ e.base.opSeq < e.session /\ Dead(id)'
  <2>1. e.session \in DOMAIN history /\ e.base.opSeq < e.session /\ Dead(id)
    BY <1>3 DEF EntryOK
  <2> QED BY <1>1, <1>3, <2>1, Keeps
<1> QED BY <1>2, <1>3 DEF EntryOK

\* An acknowledged id.
LEMMA AckedKept ==
  ASSUME IInv, StepOK, NEW id \in replica.acked, NEW m \in Nat,
         replica.snapshot.opSeq <= m
  PROVE  /\ id.intent \in DOMAIN intents'
         /\ Done(id.intent)' /\ Covered(id, m)'
<1>1. /\ id \in NamedIds /\ id.intent \in DOMAIN intents /\ Done(id.intent)
      /\ Covered(id, replica.snapshot.opSeq)
  BY DEF IInv, ReplicaOK, NamedIds
<1>2. replica.snapshot.opSeq \in Nat
  BY SnapshotFacts DEF IInv, ReplicaOK, Dated
<1>3. id.intent \in DOMAIN intents'
  BY <1>1 DEF StepOK, IntentsOnward
<1> QED BY <1>1, <1>2, <1>3, Keeps

\* Everything together.
LEMMA Assemble ==
  ASSUME IInv, StepOK, TypeOK', NamesOK', SeqsOK', StoreOK', WorkersOK', ViewsOK', ReplicaOK',
         NothingForgotten'
  PROVE  IInv'
BY Keeps, CarriedKept DEF IInv
\* Ids stay bounded when at most one is added.
LEMMA NamesStep ==
  ASSUME TypeOK, NamesOK, NEW x \in Ids, NamedIds' \subseteq NamedIds \cup {x},
         x.intent <= Len(intents'), Len(intents) <= Len(intents'), Len(intents') \in Nat
  PROVE  NamesOK'
<1>1. PICK N \in Nat : NamedIds \subseteq [intent : 0..Len(intents), try : 0..N]
  BY DEF NamesOK
<1>2. Len(intents) \in Nat /\ x.intent \in Nat /\ x.try \in Nat
      /\ x = [intent |-> x.intent, try |-> x.try]
  BY DEF TypeOK, Ids
<1> DEFINE M == N + x.try
<1>3. M \in Nat /\ N <= M /\ x.try <= M
  BY <1>2
<1>4. x \in [intent : 0..Len(intents'), try : 0..M]
  BY <1>2, <1>3
<1>5. \A id \in NamedIds : id \in [intent : 0..Len(intents'), try : 0..M]
  <2>1. 0..Len(intents) \subseteq 0..Len(intents') /\ 0..N \subseteq 0..M
    BY <1>2, <1>3
  <2> HIDE DEF M
  <2> QED BY <1>1, <2>1
<1> HIDE DEF M
<1> QED BY <1>3, <1>4, <1>5 DEF NamesOK

\* The causal sequence stays bounded.
LEMMA SeqsStep ==
  ASSUME TypeOK, SeqsOK,
         \A id \in DOMAIN store' :
           \/ \E j \in DOMAIN store : store'[id].seq = store[j].seq
           \/ store'[id].seq = LastSeq(store) + 1
  PROVE  SeqsOK'
<1> DEFINE n == LastSeq(store)
<1>1. n \in Nat /\ \A id \in DOMAIN store : store[id].seq <= n
  BY LastSeqFacts
<1>2. \A id \in DOMAIN store : store[id].seq \in Nat
  BY DEF TypeOK, Entries
<1> HIDE DEF n
<1>3. \A id \in DOMAIN store' : store'[id].seq \in 0..(n + 1)
  BY <1>1, <1>2 DEF n
<1> QED BY <1>1, <1>3 DEF SeqsOK

\* A commit of another device, and of a request whose sender has given up.
LEMMA CommitSteps ==
  ASSUME IInv, RemoteWrite \/ ServeStray
  PROVE  IInv' /\ StepOK /\ StoreStep
<1>1. /\ UNCHANGED <<stray, store, replica, workers, views, intents>>
      /\ \E id \in Ids, op \in Ops : Grows(id, op)
  <2>1. CASE RemoteWrite
    <3>1. PICK d \in Docs, f \in Fields, v \in RemoteVals :
            LET op == [doc |-> d, field |-> f, from |-> Server.docs[d].content[f], to |-> v]
            IN Append1([intent |-> 0, try |-> Len(log)], op)
      BY <2>1 DEF RemoteWrite
    <3> DEFINE op == [doc |-> d, field |-> f, from |-> Server.docs[d].content[f], to |-> v]
               id == [intent |-> 0, try |-> Len(log)]
    <3>2. Server.docs[d].content[f] \in AllVals
      BY ServerFacts, SnapshotFacts DEF IInv
    <3>3. op \in Ops
      BY <3>2 DEF Ops, AllVals
    <3>4. id \in Ids
      BY ServerFacts DEF Ids, IInv
    <3>5. Grows(id, op)
      BY <3>1 DEF Grows
    <3> QED BY <2>1, <3>3, <3>4, <3>5 DEF RemoteWrite, shared
  <2>2. CASE ServeStray
    <3>1. PICK r \in stray : Commit(r)
      BY <2>2 DEF ServeStray
    <3>2. r \in Carried /\ r.id \in Ids /\ r.op \in Ops
      BY CarriedNamed DEF Carried, IInv
    <3>3. Grows(r.id, r.op)
      BY <3>1, <3>2 DEF Grows, Commit
    <3> QED BY <2>2, <3>2, <3>3 DEF ServeStray, shared
  <2> QED BY <2>1, <2>2
<1>2. PICK x \in Ids, op \in Ops : Grows(x, op)
  BY <1>1
<1>3. TypeOK /\ NamesOK /\ SeqsOK /\ HistoryOK
  BY DEF IInv
<1>4. /\ history' \in Seq(Snapshots) /\ log' \in Seq([id : Ids, op : Ops])
      /\ Len(history') = Len(log') + 1
  BY <1>2, <1>3, GrowsFacts
<1>5. TypeOK'
  BY <1>1, <1>3, <1>4 DEF TypeOK
<1>6. Carried' = Carried
  BY <1>1 DEF Carried, Sending, RequestOf
<1>7. IntentsOnward
  BY <1>1 DEF IntentsOnward
<1>8. StepOK
  BY <1>2, <1>6, <1>7 DEF StepOK, CarriedStep, ServerStep
<1>9. StoreStep
  BY <1>1 DEF StoreStep
<1>10. SeqsOK'
  BY <1>1, <1>3 DEF SeqsOK
<1>11. NamesOK'
  <2>1. NamedIds' \subseteq NamedIds \cup {x}
    <3>1. ASSUME NEW n \in DOMAIN log' PROVE log'[n].id \in NamedIds \cup {x}
      <4>1. CASE n \in DOMAIN log
        BY <4>1, <1>2, <1>3, GrowsFacts DEF NamedIds
      <4>2. CASE n = Len(history)
        BY <4>2, <1>2, <1>3, GrowsFacts
      <4> QED BY <4>1, <4>2, <1>3, <1>8, NewInLog DEF StepOK
    <3> QED BY <1>1, <3>1 DEF NamedIds
  <2>2. Len(intents) \in Nat /\ intents' = intents
    BY <1>1, <1>3 DEF TypeOK
  <2>3. x.intent <= Len(intents)
    <3>1. CASE x.intent = 0
      BY <3>1, <2>2
    <3>2. ASSUME NEW r \in Carried, r.id = x PROVE x.intent \in DOMAIN intents
      BY <3>2, CarriedIntent DEF IInv
    <3>3. DOMAIN intents = 1..Len(intents)
      BY <1>3 DEF TypeOK
    <3> QED BY <3>1, <3>2, <3>3, <2>2, <1>2 DEF Grows
  <2> QED BY <1>3, <2>1, <2>2, <2>3, NamesStep
<1>12. StoreOK'
  <2>1. \A id \in DOMAIN store : \A e : e = store[id] => EntryOK(id, e)'
    BY <1>8, EntriesKept DEF IInv, StoreOK, NamedIds
  <2> QED BY <1>1, <2>1 DEF StoreOK
<1>13. WorkersOK'
  <2>1. \A w \in Workers : \A y : y = workers[w] => WorkerOK(y)'
    BY <1>3, <1>8, <1>9, WorkersKept, WorkerFacts DEF IInv, WorkersOK, TypeOK
  <2> QED BY <1>1, <2>1 DEF WorkersOK
<1>14. ViewsOK'
  BY <1>1, <1>8, ViewsKept DEF ViewsOK
<1>15. ReplicaOK'
  <2>1. replica.snapshot.opSeq \in Nat /\ Dated(replica.snapshot)
    BY SnapshotFacts DEF IInv, ReplicaOK, Dated
  <2>2. \A id \in replica.acked : /\ id.intent \in DOMAIN intents' /\ Done(id.intent)'
                                  /\ Covered(id, replica.snapshot.opSeq)'
    BY <1>1, <1>8, <2>1, AckedKept
  <2>3. Dated(replica.snapshot)'
    BY <1>1, <1>8, <2>1, Keeps
  <2> QED BY <1>1, <2>2, <2>3 DEF ReplicaOK
<1>16. NothingForgotten'
  <2> SUFFICES ASSUME NEW i \in DOMAIN intents,
                      intents[i].status \notin {"rejected", "discarded"}, ~IsPending(i)
               PROVE  Done(i)'
    BY <1>1 DEF NothingForgotten, IsPending, Done
  <2>1. Done(i)
    BY DEF IInv, NothingForgotten, Done
  <2> QED BY <2>1, <1>8, Keeps
<1> QED BY <1>5, <1>8, <1>9, <1>10, <1>11, <1>12, <1>13, <1>14, <1>15, <1>16, Assemble
-----------------------------------------------------------------------------
(* The tabs *)

\* No request is invented by a step that changes the outbox only.
LEMMA CarriedByStore ==
  ASSUME UNCHANGED <<stray, workers>>,
         \A id \in DOMAIN store' :
           \/ id \in DOMAIN store /\ store'[id].op = store[id].op
                                  /\ store'[id].base = store[id].base
           \/ id \notin NamedIds
  PROVE  CarriedStep
<1>1. ASSUME NEW id \in DOMAIN store', NEW r, r = Request(id, store'[id])
      PROVE  \/ r \in Carried
             \/ r.id \notin NamedIds /\ r.id \in DOMAIN store' /\ r = Request(r.id, store'[r.id])
  <2>1. r.id = id
    BY <1>1 DEF Request
  <2>2. CASE id \in DOMAIN store /\ store'[id].op = store[id].op
                                 /\ store'[id].base = store[id].base
    <3>1. r = Request(id, store[id])
      BY <2>2, <1>1 DEF Request
    <3> QED BY <2>2, <3>1 DEF Carried
  <2>3. CASE id \notin NamedIds
    BY <2>1, <2>3, <1>1
  <2> QED BY <2>2, <2>3
<1>2. ASSUME NEW w \in Sending' PROVE w \in Sending /\ RequestOf(w)' = RequestOf(w)
  BY <1>2 DEF Sending, RequestOf
<1>3. \A r \in stray' \cup {RequestOf(w)' : w \in Sending'} : r \in Carried
  BY <1>2 DEF Carried
<1> QED BY <1>1, <1>3 DEF CarriedStep, Carried

\* No edit is forgotten by a step that removes entries only when the edit is done,
\* given up, or queued again.
LEMMA ForgottenStep ==
  ASSUME IInv, StepOK,
         \A i \in DOMAIN intents' : i \notin DOMAIN intents => IsPending(i)',
         \A i \in DOMAIN intents : intents[i].status \in {"rejected", "discarded"} =>
                                     intents'[i].status \in {"rejected", "discarded"},
         \A id \in DOMAIN store \ replica.acked :
           \/ id \in DOMAIN store' \ replica'.acked
           \/ IsPending(id.intent)'
           \/ Done(id.intent)'
           \/ intents'[id.intent].status \in {"rejected", "discarded"}
  PROVE  NothingForgotten'
<1> SUFFICES ASSUME NEW i \in DOMAIN intents',
                    intents'[i].status \notin {"rejected", "discarded"}, ~IsPending(i)'
             PROVE  Done(i)'
  BY DEF NothingForgotten, Done
<1>1. i \in DOMAIN intents /\ intents[i].status \notin {"rejected", "discarded"}
  OBVIOUS
<1>2. CASE Done(i)
  BY <1>1, <1>2, Keeps
<1>3. ASSUME NEW id \in DOMAIN store \ replica.acked, id.intent = i PROVE Done(i)'
  <2>1. ~(id \in DOMAIN store' \ replica'.acked)
    BY <1>3 DEF IsPending
  <2> QED BY <2>1, <1>3
<1> QED BY <1>1, <1>2, <1>3 DEF IInv, NothingForgotten, IsPending, Done

\* The id of a new edit names nothing yet.
LEMMA NewEditFacts ==
  ASSUME TypeOK, NamesOK
  PROVE  /\ Pending(Len(intents) + 1) \in Ids
         /\ Pending(Len(intents) + 1) \notin NamedIds
         /\ Pending(Len(intents) + 1).intent = Len(intents) + 1
         /\ Len(intents) \in Nat /\ DOMAIN intents = 1..Len(intents)
<1>1. Len(intents) \in Nat /\ DOMAIN intents = 1..Len(intents)
  BY DEF TypeOK
<1>2. PICK N \in Nat : NamedIds \subseteq [intent : 0..Len(intents), try : 0..N]
  BY DEF NamesOK
<1> DEFINE x == Pending(Len(intents) + 1)
<1>3. x \in Ids /\ x.intent = Len(intents) + 1
  BY <1>1 DEF Pending, Ids
<1> HIDE DEF x
<1>4. \A j \in NamedIds : j.intent \in 0..Len(intents)
  BY <1>2
<1> QED BY <1>1, <1>3, <1>4 DEF x

\* Queueing an edit that was made on what a tab shows.
LEMMA QueueSteps ==
  ASSUME IInv, NEW t \in Tabs, NEW op \in Ops, op.from = Value(views[t].snapshot, op),
         NEW status \in {"open", "doomed"}, Queue(t, op, status),
         UNCHANGED <<server, stray, replica, workers>>,
         views' \in [Tabs -> Views],
         \A u \in Tabs : u # t => views'[u] = views[u],
         views'[t].snapshot.opSeq = views[t].snapshot.opSeq,
         \A d \in Docs : views'[t].snapshot.docs[d].rev = views[t].snapshot.docs[d].rev,
         views'[t].review = views[t].review,
         views'[t].doomed \in {views[t].doomed, Pending(Len(intents) + 1)}
  PROVE  IInv' /\ StepOK /\ StoreStep
<1> SUFFICES ASSUME NEW n, n = Len(intents) + 1, NEW id, id = Pending(n),
                    NEW base, base = views[t].snapshot, NEW e, e = NewEntry(op, base),
                    NEW x, x = [op |-> op, seen |-> {op.from}, at |-> base.opSeq,
                                status |-> status]
             PROVE  IInv' /\ StepOK /\ StoreStep
  OBVIOUS
<1>1. TypeOK /\ NamesOK /\ SeqsOK
  BY DEF IInv
<1>2. /\ id \in Ids /\ id \notin NamedIds /\ id.intent = n
      /\ n \in Nat /\ n >= 1 /\ DOMAIN intents = 1..(n - 1) /\ Len(intents) = n - 1
  BY <1>1, NewEditFacts
<1>3. Dated(base) /\ base \in Snapshots /\ base.opSeq \in Nat
  BY SnapshotFacts DEF IInv, ViewsOK, ViewOK, Dated
<1>4. e \in Entries /\ e.op = op /\ e.base = base /\ e.state = "queued"
  BY <1>3, NewEntryType
<1>5. x \in Edits
  BY <1>3 DEF Ops, Edits
<1>6. intents' = Append(intents, x) /\ store' = Enqueued(store, id, e)
  BY DEF Queue
<1>x. x.op = op /\ x.seen = {op.from} /\ x.at = base.opSeq /\ x.status = status
  OBVIOUS
<1>7. /\ intents' \in Seq(Edits)
      /\ Len(intents') = n /\ DOMAIN intents' = 1..n
      /\ intents'[n] = x
      /\ \A i \in DOMAIN intents : intents'[i] = intents[i]
  BY <1>1, <1>2, <1>5, <1>6 DEF TypeOK
<1>8. /\ DOMAIN store' = DOMAIN store \cup {id}
      /\ \A j \in DOMAIN store : store'[j] = store[j] /\ j # id
      /\ store'[id] \in Entries /\ store'[id].op = op /\ store'[id].base = base
      /\ store'[id].state = "queued" /\ store'[id].seq = LastSeq(store) + 1
      /\ store' \in [DOMAIN store' -> Entries]
  <2>1. id \notin DOMAIN store
    BY <1>2 DEF NamedIds
  <2>2. PICK f : /\ Placed(e, LastSeq(store) + 1, f)
                 /\ store' = [i \in DOMAIN store \cup {id} |-> IF i = id THEN f ELSE store[i]]
    <3>1. e \in Entries /\ SeqsOK
      BY <1>1, <1>4
    <3>2. \E f : /\ Placed(e, LastSeq(store) + 1, f)
                /\ Enqueued(store, id, e) =
                     [i \in DOMAIN store \cup {id} |-> IF i = id THEN f ELSE store[i]]
      BY ONLY <3>1, EnqueuedFacts
    <3> QED BY <1>6, <3>2
  <2>3. \A j \in DOMAIN store : store[j] \in Entries
    BY <1>1 DEF TypeOK
  <2> QED BY ONLY <1>4, <2>1, <2>2, <2>3 DEF Placed
<1>9. TypeOK'
  <2>1. DOMAIN store' \subseteq Ids
    BY <1>1, <1>2, <1>8 DEF TypeOK
  <2> QED BY <1>1, <1>7, <1>8, <2>1 DEF TypeOK, server
<1>10. IntentsOnward
  BY <1>2, <1>7 DEF IntentsOnward
<1>11. CarriedStep
  <2>1. \A j \in DOMAIN store' :
           \/ j \in DOMAIN store /\ store'[j].op = store[j].op
                                 /\ store'[j].base = store[j].base
           \/ j \notin NamedIds
    BY <1>2, <1>8
  <2> QED BY <2>1, CarriedByStore
<1>12. StepOK
  BY <1>10, <1>11 DEF StepOK, ServerStep
<1>13. StoreStep
  BY <1>2, <1>8 DEF StoreStep
<1>14. SeqsOK'
  <2>1. \A j \in DOMAIN store' :
           \/ \E k \in DOMAIN store : store'[j].seq = store[k].seq
           \/ store'[j].seq = LastSeq(store) + 1
    BY <1>8
  <2> QED BY <1>1, <2>1, SeqsStep
<1>15. NamesOK'
  <2>1. NamedIds' \subseteq NamedIds \cup {id}
    BY <1>8 DEF NamedIds, server
  <2>2. id.intent <= Len(intents') /\ Len(intents) <= Len(intents') /\ Len(intents') \in Nat
    BY <1>2, <1>7
  <2> QED BY <1>1, <1>2, <2>1, <2>2, NamesStep
<1>16. StoreOK'
  <2>1. \A j \in DOMAIN store : \A f : f = store[j] => EntryOK(j, f)'
    BY <1>12, EntriesKept DEF IInv, StoreOK, NamedIds
  <2>2. \A f : f = store'[id] => EntryOK(id, f)'
    <3> TAKE f
    <3> HAVE f = store'[id]
    <3>1. f.op = op /\ f.base = base /\ f.state = "queued"
      BY <1>8
    <3>2. Serves(n, op)'
      BY <1>x, <1>2, <1>7 DEF Serves
    <3>3. Dated(base)'
      BY <1>3, <1>12, Keeps
    <3>4. intents'[n].at = base.opSeq
      BY <1>x, <1>7
    <3>5. base.opSeq <= base.opSeq
      BY <1>3
    <3>6. Value(base, op) = op.from
      OBVIOUS
    <3> QED BY <1>2, <3>1, <3>2, <3>3, <3>4, <3>5, <3>6 DEF EntryOK, Planned
  <2> QED BY <1>8, <2>1, <2>2 DEF StoreOK
<1>17. WorkersOK'
  <2>1. \A w \in Workers : \A y : y = workers[w] => WorkerOK(y)'
    BY <1>1, <1>12, <1>13, WorkersKept, WorkerFacts DEF IInv, WorkersOK, TypeOK
  <2> QED BY <2>1 DEF WorkersOK
<1>18. ViewsOK'
  <2>1. \A u \in Tabs : \A v : v = views[u] => ViewOK(v)'
    BY <1>12, ViewsKept
  <2>2. ASSUME NEW v, v = views'[t] PROVE ViewOK(v)'
    <3>1. PICK o : o = views[t]
      OBVIOUS
    <3>2. ViewOK(o)'
      BY <2>1, <3>1
    <3>3. v.review = o.review /\ v.doomed \in {o.doomed, id}
      BY <2>2, <3>1
    <3>4. /\ v.snapshot.opSeq = o.snapshot.opSeq /\ v.snapshot \in Snapshots
          /\ \A d \in Docs : v.snapshot.docs[d].rev = o.snapshot.docs[d].rev
      BY <2>2, <3>1 DEF Views
    <3>5. Dated(v.snapshot)'
      BY <3>2, <3>4 DEF ViewOK, Dated
    <3>6. v.doomed = NoId \/ v.doomed.intent \in DOMAIN intents'
      BY <1>2, <1>7, <3>2, <3>3 DEF ViewOK
    <3>7. v.review # NoReview =>
            /\ Serves(v.review.id.intent, v.review.op)'
            /\ v.review.session \in DOMAIN history'
            /\ intents'[v.review.id.intent].at <= v.review.session
      BY <3>2, <3>3 DEF ViewOK
    <3> QED BY <3>5, <3>6, <3>7 DEF ViewOK
  <2> QED BY <2>1, <2>2 DEF ViewsOK
<1>19. ReplicaOK'
  <2>1. replica.snapshot.opSeq \in Nat /\ Dated(replica.snapshot)
    BY SnapshotFacts DEF IInv, ReplicaOK, Dated
  <2>2. \A j \in replica.acked : /\ j.intent \in DOMAIN intents' /\ Done(j.intent)'
                                  /\ Covered(j, replica.snapshot.opSeq)'
    BY <1>12, <2>1, AckedKept
  <2>3. Dated(replica.snapshot)'
    BY <1>12, <2>1, Keeps
  <2> QED BY <2>2, <2>3 DEF ReplicaOK
<1>20. NothingForgotten'
  <2>1. ASSUME NEW i \in DOMAIN intents', i \notin DOMAIN intents PROVE IsPending(i)'
    <3>1. i = n
      BY <2>1, <1>2, <1>7
    <3>2. id \notin replica'.acked
      BY <1>2 DEF NamedIds
    <3> QED BY <3>1, <3>2, <1>2, <1>8 DEF IsPending
  <2> QED BY <2>1, <1>7, <1>8, <1>12, ForgottenStep
<1> QED BY <1>9, <1>12, <1>13, <1>14, <1>15, <1>16, <1>17, <1>18, <1>19, <1>20, Assemble
-----------------------------------------------------------------------------
(* Steps that make no new edit *)

\* The server stays as it is, or commits a request that is carried.
Serving ==
  \/ UNCHANGED server
  \/ \E r \in Carried : Commit(r)

\* What an execution turns into: nothing, or one that carries what was carried.
Moves(y) ==
  \/ y.phase = "idle"
  \/ y.phase = "replaced" /\ y.id \in DOMAIN store'
  \/ y.phase # "replaced" /\ Request(y.id, y.entry) \in Carried

\* What becomes of the outbox: x is the only entry that may be new.
Stores(x) ==
  \A id \in DOMAIN store' :
    \/ /\ id \in DOMAIN store
       /\ store'[id].seq = store[id].seq
       /\ Request(id, store'[id]) \in Carried
    \/ /\ id = x /\ x \notin NamedIds
       /\ \/ \E j \in DOMAIN store : store'[id].seq = store[j].seq
          \/ store'[id].seq = LastSeq(store) + 1

\* Types and names after such a step, and what it does as a whole.
LEMMA SystemMoves ==
  ASSUME IInv, NEW x \in Ids, x.intent \in 0..Len(intents), Serving, Stores(x),
         stray' \subseteq Carried,
         store' \in [DOMAIN store' -> Entries],
         replica' \in [snapshot : Snapshots, acked : SUBSET NamedIds],
         workers' \in [Workers -> Executions],
         \A w \in Workers : workers'[w] = workers[w] \/ Moves(workers'[w]),
         views' \in [Tabs -> Views],
         intents' \in Seq(Edits), Len(intents') = Len(intents), IntentsOnward
  PROVE  TypeOK' /\ NamesOK' /\ SeqsOK' /\ StepOK /\ StoreStep
<1>1. TypeOK /\ NamesOK /\ SeqsOK /\ HistoryOK
  BY DEF IInv
<1>2. \A r \in Carried : /\ r.id \in NamedIds /\ r.id \in Ids /\ r.op \in Ops /\ r \in Requests
  BY <1>1, CarriedNamed
<1>3. ASSUME NEW r \in Carried, Commit(r)
      PROVE  r.id \in Ids /\ r.op \in Ops /\ r.id \in NamedIds /\ Grows(r.id, r.op)
  BY <1>2, <1>3 DEF Grows, Commit
<1>4. ServerStep
  BY <1>3 DEF Serving, ServerStep
<1>5. /\ history' \in Seq(Snapshots) /\ log' \in Seq([id : Ids, op : Ops])
      /\ Len(history') = Len(log') + 1
      /\ \A n \in DOMAIN log' : log'[n].id \in NamedIds
  <2>1. CASE UNCHANGED server
    BY <2>1, <1>1 DEF TypeOK, server, NamedIds
  <2>2. ASSUME NEW r \in Carried, Commit(r)
        PROVE  /\ history' \in Seq(Snapshots) /\ log' \in Seq([id : Ids, op : Ops])
               /\ Len(history') = Len(log') + 1
               /\ \A n \in DOMAIN log' : log'[n].id \in NamedIds
    <3>1. r.id \in Ids /\ r.op \in Ops /\ Grows(r.id, r.op)
      BY <2>2, <1>3
    <3>2. /\ history' \in Seq(Snapshots) /\ log' \in Seq([id : Ids, op : Ops])
          /\ Len(history') = Len(log') + 1
      BY <3>1, <1>1, GrowsFacts
    <3>3. \A n \in DOMAIN log' : n \in DOMAIN log \/ n = Len(history)
      BY <1>1, <1>4, NewInLog
    <3>4. log'[Len(history)].id = r.id /\ \A n \in DOMAIN log : log'[n] = log[n]
      BY <3>1, <1>1, GrowsFacts
    <3>5. ASSUME NEW n \in DOMAIN log' PROVE log'[n].id \in NamedIds
      BY <3>3, <3>4, <1>2 DEF NamedIds
    <3> QED BY <3>2, <3>5
  <2> QED BY <2>1, <2>2 DEF Serving
<1>6. DOMAIN store' \subseteq Ids /\ DOMAIN store' \subseteq NamedIds \cup {x}
  BY <1>1 DEF Stores, TypeOK, NamedIds
<1>7. NamedIds \subseteq Ids
  <2>1. DOMAIN store \subseteq Ids /\ replica.acked \subseteq Ids
        /\ \A r \in stray : r.id \in Ids
    BY <1>1 DEF TypeOK, Requests
  <2>2. \A n \in DOMAIN log : log[n].id \in Ids
    BY <1>1, ServerFacts
  <2>3. \A w \in Workers : workers[w].phase # "idle" => workers[w].id \in Ids
    BY <1>1, WorkerFacts DEF IInv
  <2> QED BY <2>1, <2>2, <2>3 DEF NamedIds
<1>8. TypeOK'
  <2>1. stray' \subseteq Requests
    BY <1>2
  <2>2. replica' \in [snapshot : Snapshots, acked : SUBSET Ids]
    BY <1>7
  <2> QED BY <1>5, <1>6, <2>1, <2>2 DEF TypeOK
<1>9. ASSUME NEW w \in Workers, workers'[w].phase # "idle"
      PROVE  /\ workers'[w].id \in NamedIds \cup {x}
             /\ workers'[w].phase # "replaced" =>
                  Request(workers'[w].id, workers'[w].entry) \in Carried
  <2>1. CASE workers'[w] = workers[w]
    <3>1. workers'[w].id \in NamedIds
      BY <2>1, <1>9 DEF NamedIds
    <3>2. workers'[w].phase # "replaced" =>
            Request(workers'[w].id, workers'[w].entry) \in Carried
      BY <2>1, <1>9 DEF Carried, Sending, RequestOf
    <3> QED BY <3>1, <3>2
  <2>2. CASE Moves(workers'[w])
    <3>1. \A id, e : Request(id, e) \in Carried => id \in NamedIds
      BY <1>2 DEF Request
    <3> QED BY <2>2, <3>1, <1>6, <1>9 DEF Moves
  <2> QED BY <2>1, <2>2
<1>10. CarriedStep
  <2>1. ASSUME NEW r \in Carried'
        PROVE  \/ r \in Carried
               \/ r.id \notin NamedIds /\ r.id \in DOMAIN store' /\ r = Request(r.id, store'[r.id])
    <3>1. CASE r \in stray'
      BY <3>1
    <3>2. ASSUME NEW id \in DOMAIN store', r = Request(id, store'[id])
          PROVE  \/ r \in Carried
                 \/ r.id \notin NamedIds /\ r.id \in DOMAIN store' /\ r = Request(r.id, store'[r.id])
      <4>1. r.id = id
        BY <3>2 DEF Request
      <4>2. Request(id, store'[id]) \in Carried \/ id \notin NamedIds
        BY DEF Stores
      <4> QED BY <3>2, <4>1, <4>2
    <3>3. ASSUME NEW w \in Sending', r = RequestOf(w)' PROVE r \in Carried
      BY <3>3, <1>9 DEF Sending, RequestOf
    <3> QED BY <3>1, <3>2, <3>3 DEF Carried
  <2> QED BY <2>1 DEF CarriedStep
<1>11. StoreStep
  BY DEF Stores, StoreStep
<1>12. SeqsOK'
  <2>1. \A id \in DOMAIN store' :
           \/ \E j \in DOMAIN store : store'[id].seq = store[j].seq
           \/ store'[id].seq = LastSeq(store) + 1
    BY DEF Stores
  <2> QED BY <2>1, <1>1, SeqsStep
<1>13. NamesOK'
  <2>1. \A r \in stray' : r.id \in NamedIds
    BY <1>2
  <2>2. NamedIds' \subseteq NamedIds \cup {x}
    <3>1. replica'.acked \subseteq NamedIds
      OBVIOUS
    <3>2. {log'[n].id : n \in DOMAIN log'} \subseteq NamedIds
      BY <1>5
    <3>3. {r.id : r \in stray'} \subseteq NamedIds
      BY <2>1
    <3>4. {workers'[w].id : w \in {v \in Workers : workers'[v].phase # "idle"}}
            \subseteq NamedIds \cup {x}
      BY <1>9
    <3>5. NamedIds' = DOMAIN store' \cup replica'.acked
            \cup {log'[n].id : n \in DOMAIN log'} \cup {r.id : r \in stray'}
            \cup {workers'[w].id : w \in {v \in Workers : workers'[v].phase # "idle"}}
      BY DEF NamedIds
    <3> QED BY ONLY <1>6, <3>1, <3>2, <3>3, <3>4, <3>5
  <2>3. x.intent <= Len(intents') /\ Len(intents) <= Len(intents') /\ Len(intents') \in Nat
    BY <1>1 DEF TypeOK
  <2> QED BY <1>1, <2>2, <2>3, NamesStep
<1> QED BY <1>4, <1>8, <1>10, <1>11, <1>12, <1>13 DEF StepOK

\* The invariant after such a step, if no tab takes part in it.
LEMMA SystemSteps ==
  ASSUME IInv, TypeOK', NamesOK', SeqsOK', StepOK, StoreStep, UNCHANGED <<views, intents>>,
         \A w \in Workers : workers'[w] = workers[w] \/ WorkerOK(workers[w])',
         \A id \in DOMAIN store' :
           EntryOK(id, store'[id]) /\ (id \in NamedIds \/ store'[id].state # "conflict"),
         \A id \in DOMAIN store \ DOMAIN store' :
           \/ Done(id.intent)
           \/ \E j \in DOMAIN store' \ DOMAIN store : j.intent = id.intent,
         \/ replica' = replica
         \/ /\ ReplicaOK' /\ store' = store
            /\ \A id \in replica'.acked \ replica.acked : Done(id.intent)
  PROVE  IInv'
<1>1. TypeOK
  BY DEF IInv
<1>2. WorkersOK'
  <2>1. \A w \in Workers : \A y : y = workers[w] => WorkerOK(y)'
    BY <1>1, WorkersKept, WorkerFacts DEF IInv, WorkersOK, TypeOK
  <2> QED BY <2>1 DEF WorkersOK
<1>3. StoreOK'
  <2>1. \A id \in DOMAIN store' : \A e : e = store'[id] => EntryOK(id, e)'
    BY EntriesKept
  <2> QED BY <2>1 DEF StoreOK
<1>4. ViewsOK'
  BY ViewsKept DEF ViewsOK
<1>5. ReplicaOK'
  <2>1. CASE replica' = replica
    <3>1. replica.snapshot.opSeq \in Nat /\ Dated(replica.snapshot)
      BY SnapshotFacts DEF IInv, ReplicaOK, Dated
    <3>2. \A id \in replica.acked : /\ id.intent \in DOMAIN intents' /\ Done(id.intent)'
                                    /\ Covered(id, replica.snapshot.opSeq)'
      <4>1. PICK k \in Nat : k = replica.snapshot.opSeq
        BY <3>1
      <4>2. k <= k
        OBVIOUS
      <4>3. \A id \in replica.acked : id.intent \in DOMAIN intents' /\ Done(id.intent)'
                                      /\ Covered(id, k)'
        BY <4>1, <4>2, AckedKept
      <4> QED BY <2>1, <4>1, <4>3
    <3>3. Dated(replica.snapshot)'
      BY <2>1, <3>1, Keeps
    <3> QED BY <2>1, <3>2, <3>3 DEF ReplicaOK
  <2> QED BY <2>1
<1>6. NothingForgotten'
  <2>1. ASSUME NEW id \in DOMAIN store \ replica.acked,
               ~(id \in DOMAIN store' \ replica'.acked)
        PROVE  IsPending(id.intent)' \/ Done(id.intent)'
    <3>1. id.intent \in DOMAIN intents
      BY <2>1 DEF IInv, StoreOK, EntryOK, Planned, Serves
    <3>2. CASE Done(id.intent)
      BY <3>1, <3>2, Keeps
    <3>3. ASSUME NEW j \in DOMAIN store' \ DOMAIN store, j.intent = id.intent
          PROVE  IsPending(id.intent)' \/ Done(id.intent)'
      <4>1. j \notin NamedIds
        BY <3>3 DEF StoreStep
      <4>2. j \notin replica.acked
        BY <4>1 DEF NamedIds
      <4>3. replica' = replica
        BY <3>3
      <4> QED BY <3>3, <4>2, <4>3 DEF IsPending
    <3> QED BY <2>1, <3>2, <3>3
  <2> QED BY <2>1, ForgottenStep
<1> QED BY <1>2, <1>3, <1>4, <1>5, <1>6, Assemble

\* An execution goes on, or ends; the outbox and the replica stay as they are.
LEMMA BecomesStep ==
  ASSUME IInv, NEW w \in Workers, NEW y \in Executions, Becomes(w, y), WorkerOK(y),
         \/ y.phase = "idle"
         \/ /\ w \in Sending /\ y.phase # "replaced"
            /\ y.id = workers[w].id /\ y.entry = workers[w].entry,
         stray' = stray \/ (w \in Sending /\ stray' = stray \cup {RequestOf(w)}),
         UNCHANGED <<server, shared, views, intents>>
  PROVE  IInv' /\ StepOK /\ StoreStep
<1>1. TypeOK
  BY DEF IInv
<1>2. /\ workers' \in [Workers -> Executions]
      /\ \A v \in Workers : v # w => workers'[v] = workers[v]
      /\ workers'[w] = y
  BY <1>1 DEF Becomes, TypeOK
<1>3. UNCHANGED <<history, log, store, replica, views, intents>>
  BY DEF server, shared
<1>4. TypeOK' /\ NamesOK' /\ SeqsOK' /\ StepOK /\ StoreStep
  <2>1. NoId \in Ids /\ NoId.intent \in 0..Len(intents)
    BY <1>1 DEF NoId, Ids, TypeOK
  <2>2. Serving
    BY DEF Serving
  <2>3. Stores(NoId)
    BY <1>3 DEF Stores, Carried
  <2>4. stray' \subseteq Carried
    BY DEF Carried
  <2>5. \A v \in Workers : workers'[v] = workers[v] \/ Moves(workers'[v])
    BY <1>2 DEF Moves, Carried, RequestOf
  <2>6. replica.acked \subseteq NamedIds /\ replica \in [snapshot : Snapshots, acked : SUBSET Ids]
    BY <1>1 DEF NamedIds, TypeOK
  <2>7. replica' \in [snapshot : Snapshots, acked : SUBSET NamedIds]
    BY <1>3, <2>6
  <2>8. IntentsOnward
    BY <1>3 DEF IntentsOnward
  <2> QED BY <1>1, <1>2, <1>3, <2>1, <2>2, <2>3, <2>4, <2>5, <2>7, <2>8, SystemMoves
             DEF TypeOK
<1>5. WorkerOK(y)'
  <2>1. y.phase # "idle" => y.id \in NamedIds
    BY DEF Sending, NamedIds
  <2> QED BY <1>4, <2>1, WorkersKept
<1>6. \A v \in Workers : workers'[v] = workers[v] \/ WorkerOK(workers[v])'
  BY <1>2, <1>5
<1>7. \A id \in DOMAIN store' :
        EntryOK(id, store'[id]) /\ (id \in NamedIds \/ store'[id].state # "conflict")
  BY <1>3 DEF IInv, StoreOK, NamedIds
<1> QED BY <1>3, <1>4, <1>6, <1>7, SystemSteps

\* A transition of the entry of an execution that ends, if it has the lease.
LEMMA LetsStep ==
  ASSUME IInv, NEW w \in Sending, NEW e \in Entries, Lets(w, e),
         e.op = workers[w].entry.op, e.base = workers[w].entry.base,
         e.seq = workers[w].entry.seq,
         e.state = "conflict" =>
           e.session \in DOMAIN history /\ e.base.opSeq < e.session /\ Dead(workers[w].id),
         stray' = stray \/ stray' = stray \cup {RequestOf(w)},
         UNCHANGED <<server, replica, views, intents>>
  PROVE  IInv' /\ StepOK /\ StoreStep
<1>1. TypeOK /\ w \in Workers /\ workers[w].phase \notin {"idle", "replaced"}
  BY DEF IInv, Sending
<1>2. PICK id : id = workers[w].id
  OBVIOUS
<1>3. WorkerOK(workers[w]) /\ id \in NamedIds
  BY <1>1, <1>2, WorkerFacts DEF IInv
<1>4. store' = IF OwnsLease(store, id, w) THEN [store EXCEPT ![id] = e] ELSE store
  BY <1>2 DEF Lets
<1>5. store \in [DOMAIN store -> Entries] /\ \A j \in DOMAIN store : store[j] \in Entries
  BY <1>1 DEF TypeOK
<1>6. /\ DOMAIN store' = DOMAIN store /\ store' \in [DOMAIN store' -> Entries]
      /\ \A j \in DOMAIN store : store'[j] = store[j] \/ (j = id /\ store'[j] = e)
  BY <1>4, <1>5
<1>7. /\ workers' \in [Workers -> Executions]
      /\ \A v \in Workers : v # w => workers'[v] = workers[v]
      /\ workers'[w] = Idle
  BY <1>1 DEF Lets, Becomes, TypeOK, Executions
<1>8. UNCHANGED <<history, log, replica, views, intents>>
  BY DEF server
<1>9. TypeOK' /\ NamesOK' /\ SeqsOK' /\ StepOK /\ StoreStep
  <2>1. NoId \in Ids /\ NoId.intent \in 0..Len(intents)
    BY <1>1 DEF NoId, Ids, TypeOK
  <2>2. Serving
    BY DEF Serving
  <2>3. Stores(NoId)
    <3>1. ASSUME NEW j \in DOMAIN store'
          PROVE  /\ j \in DOMAIN store
                 /\ store'[j].seq = store[j].seq
                 /\ Request(j, store'[j]) \in Carried
      <4>1. CASE store'[j] = store[j]
        BY <4>1, <1>6 DEF Carried
      <4>2. CASE j = id /\ store'[j] = e
        <5>1. Request(id, e) = RequestOf(w)
          BY <1>2 DEF Request, RequestOf
        <5>2. workers[w].entry.seq = store[id].seq
          BY <1>1, <1>2, <1>3, <1>6, <4>2 DEF WorkerOK
        <5> QED BY <4>2, <5>1, <5>2, <1>6 DEF Carried
      <4> QED BY <4>1, <4>2, <1>6
    <3> QED BY <3>1 DEF Stores
  <2>4. stray' \subseteq Carried
    BY DEF Carried
  <2>5. \A v \in Workers : workers'[v] = workers[v] \/ Moves(workers'[v])
    BY <1>7 DEF Moves, Idle
  <2>6. replica.acked \subseteq NamedIds /\ replica \in [snapshot : Snapshots, acked : SUBSET Ids]
    BY <1>1 DEF NamedIds, TypeOK
  <2>7. replica' \in [snapshot : Snapshots, acked : SUBSET NamedIds]
    BY <1>8, <2>6
  <2>8. IntentsOnward
    BY <1>8 DEF IntentsOnward
  <2> QED BY <1>1, <1>6, <1>7, <1>8, <2>1, <2>2, <2>3, <2>4, <2>5, <2>7, <2>8, SystemMoves
             DEF TypeOK
<1>10. \A v \in Workers : workers'[v] = workers[v] \/ WorkerOK(workers[v])'
  BY <1>7 DEF WorkerOK, Idle
<1>11. ASSUME NEW j \in DOMAIN store'
       PROVE  EntryOK(j, store'[j]) /\ j \in NamedIds
  <2>1. CASE store'[j] = store[j]
    BY <2>1, <1>6 DEF IInv, StoreOK, NamedIds
  <2>2. CASE j = id /\ store'[j] = e
    <3>1. EntryOK(id, e)
      BY <1>1, <1>2, <1>3 DEF EntryOK, WorkerOK
    <3> QED BY <2>2, <3>1, <1>3
  <2> QED BY <2>1, <2>2, <1>6
<1> QED BY <1>6, <1>8, <1>9, <1>10, <1>11, SystemSteps
\* An edit that was made.
LEMMA EditFacts ==
  ASSUME TypeOK, NEW i \in DOMAIN intents
  PROVE  intents[i] \in Edits /\ intents[i].at \in Nat /\ intents[i].seen \subseteq AllVals
<1>1. intents \in Seq(Edits) /\ DOMAIN intents = 1..Len(intents)
  BY DEF TypeOK
<1>2. intents[i] \in Edits
  BY <1>1, ElementOfSeq
<1> QED BY <1>2 DEF Edits

-----------------------------------------------------------------------------
(* The executions *)

\* An execution that waits for an answer, or works on one.
LEMMA SenderFacts ==
  ASSUME IInv, NEW w \in Workers,
         workers[w].phase \in {"waiting", "acked", "stale", "refused", "merging", "replaced"}
  PROVE  /\ workers[w] \in Senders
         /\ workers[w].phase # "replaced" => w \in Sending /\ RequestOf(w) \in Carried
         /\ workers[w].id \in NamedIds /\ workers[w].id \in Ids
         /\ workers[w].entry \in Entries /\ workers[w].entry.op \in Ops
         /\ workers[w].entry.base \in Snapshots
         /\ workers[w].entry.op.doc \in Docs
         /\ Planned(workers[w].id.intent, workers[w].entry.op, workers[w].entry.base)
         /\ Dated(workers[w].entry.base)
         /\ WorkerOK(workers[w])
<1>1. workers[w].phase # "idle" /\ TypeOK /\ WorkersOK
  BY DEF IInv
<1>2. /\ workers[w] \in Senders \cup Settlers
      /\ workers[w].id \in NamedIds /\ workers[w].id \in Ids
      /\ workers[w].entry \in Entries /\ WorkerOK(workers[w])
  BY <1>1, WorkerFacts
<1>3. workers[w] \in Senders
  BY <1>2 DEF Settlers
<1>4. workers[w].phase # "replaced" => w \in Sending /\ RequestOf(w) \in Carried
  BY <1>1 DEF Sending, Carried
<1>5. workers[w].entry.op \in Ops /\ workers[w].entry.base \in Snapshots
      /\ workers[w].entry.op.doc \in Docs
  BY <1>2 DEF Entries, Ops
<1>6. Planned(workers[w].id.intent, workers[w].entry.op, workers[w].entry.base)
  BY <1>1, <1>2 DEF WorkerOK
<1> QED BY <1>2, <1>3, <1>4, <1>5, <1>6 DEF Planned

\* A request that found its document changed is dead.
LEMMA StaleIsDead ==
  ASSUME IInv, NEW w \in Workers, workers[w].phase = "waiting",
         Commits(workers[w].id) = {}, Stale(RequestOf(w))
  PROVE  Dead(workers[w].id) /\ workers[w].entry.base.opSeq < Len(history)
<1>1. PICK r : r = RequestOf(w)
  OBVIOUS
<1>2. PICK x : x = workers[w]
  OBVIOUS
<1>3. /\ r \in Carried /\ Dated(x.entry.base) /\ x.entry.op.doc \in Docs
      /\ x.entry.base \in Snapshots
  BY <1>1, <1>2, SenderFacts
<1>4. r.id = x.id /\ r.op = x.entry.op /\ r.rev = x.entry.base.docs[x.entry.op.doc].rev
  BY <1>1, <1>2 DEF RequestOf, Request
<1>5. r.rev <= Server.docs[r.op.doc].rev /\ \A q \in Carried : q.id = r.id => q = r
  BY <1>3 DEF IInv, CarriedOK
<1>6. r.rev \in Nat /\ Server.docs[r.op.doc].rev \in Nat
  BY <1>3, <1>4, CarriedNamed, ServerFacts, SnapshotFacts DEF IInv
<1>7. Server.docs[r.op.doc].rev # r.rev
  BY <1>1 DEF Stale
<1>8. Behind(r)
  BY <1>5, <1>6, <1>7 DEF Behind
<1>9. Dead(x.id)
  BY <1>2, <1>4, <1>5, <1>8 DEF Dead
<1>10. x.entry.base.opSeq \in DOMAIN history
       /\ r.rev = history[x.entry.base.opSeq].docs[r.op.doc].rev
  BY <1>3, <1>4 DEF Dated
<1>11. x.entry.base.opSeq # Len(history)
  BY <1>7, <1>10, ServerFacts DEF IInv
<1>12. DOMAIN history = 1..Len(history) /\ Len(history) \in Nat
  BY ServerFacts DEF IInv
<1>13. x.entry.base.opSeq < Len(history)
  BY <1>10, <1>11, <1>12
<1> QED BY <1>2, <1>9, <1>13

\* The server answers a request: it has committed before, it conflicts, it is refused.
LEMMA AnswerSteps ==
  ASSUME IInv, NEW w \in Workers, workers[w].phase = "waiting",
         UNCHANGED <<stray, server, shared, views, intents>>,
         \/ /\ Commits(workers[w].id) # {}
            /\ Becomes(w, [workers[w] EXCEPT !.phase = "acked", !.opSeq = OpSeqOf(workers[w].id)])
         \/ /\ Commits(workers[w].id) = {} /\ Stale(RequestOf(w))
            /\ Advances(w, "stale")
         \/ Advances(w, "refused")
  PROVE  IInv' /\ StepOK /\ StoreStep
<1>1. PICK x : x = workers[w]
  OBVIOUS
<1>2. /\ x \in Senders /\ w \in Sending /\ WorkerOK(x)
      /\ Planned(x.id.intent, x.entry.op, x.entry.base)
  BY <1>1, SenderFacts
<1>3. x.id \in DOMAIN store => x.entry.seq = store[x.id].seq
  BY <1>1, <1>2 DEF WorkerOK
<1>4. ASSUME NEW y \in Senders, Becomes(w, y), y.id = x.id, y.entry = x.entry,
             \/ y.phase = "acked" /\ \E n \in Commits(y.id) : y.opSeq = n + 1
             \/ y.phase = "stale" /\ Dead(y.id) /\ y.entry.base.opSeq < Len(history)
             \/ y.phase = "refused"
      PROVE  IInv' /\ StepOK /\ StoreStep
  <2>1. WorkerOK(y)
    BY <1>2, <1>3, <1>4 DEF WorkerOK
  <2>2. y \in Executions
    BY DEF Executions
  <2> QED BY <1>1, <1>2, <1>4, <2>1, <2>2, BecomesStep
<1>5. CASE Commits(x.id) # {} /\ Becomes(w, [x EXCEPT !.phase = "acked", !.opSeq = OpSeqOf(x.id)])
  <2>1. PICK n : n = CHOOSE m \in Commits(x.id) : TRUE
    OBVIOUS
  <2>2. n \in Commits(x.id) /\ OpSeqOf(x.id) = 1 + n
    BY <1>5, <2>1 DEF OpSeqOf
  <2>3. n \in Nat
    BY <2>2, ServerFacts DEF Commits, IInv
  <2>4. PICK k \in Nat : k = OpSeqOf(x.id) /\ k = n + 1
    BY <2>2, <2>3
  <2>5. PICK y : y = [x EXCEPT !.phase = "acked", !.opSeq = k]
    OBVIOUS
  <2>6. y \in Senders /\ y.phase = "acked" /\ y.id = x.id /\ y.entry = x.entry /\ y.opSeq = k
    BY <1>2, <2>4, <2>5 DEF Senders
  <2>7. Becomes(w, y)
    BY <1>5, <2>4, <2>5
  <2>8. \E m \in Commits(y.id) : y.opSeq = m + 1
    BY <2>2, <2>4, <2>6
  <2> QED BY <1>4, <2>6, <2>7, <2>8
<1>6. CASE Commits(x.id) = {} /\ Stale(RequestOf(w)) /\ Becomes(w, [x EXCEPT !.phase = "stale"])
  <2>1. PICK y : y = [x EXCEPT !.phase = "stale"]
    OBVIOUS
  <2>2. y \in Senders /\ y.phase = "stale" /\ y.id = x.id /\ y.entry = x.entry
    BY <1>2, <2>1 DEF Senders
  <2>3. Dead(x.id) /\ x.entry.base.opSeq < Len(history)
    BY <1>1, <1>6, StaleIsDead
  <2> QED BY <1>4, <1>6, <2>1, <2>2, <2>3
<1>7. CASE Becomes(w, [x EXCEPT !.phase = "refused"])
  <2>1. PICK y : y = [x EXCEPT !.phase = "refused"]
    OBVIOUS
  <2>2. y \in Senders /\ y.phase = "refused" /\ y.id = x.id /\ y.entry = x.entry
    BY <1>2, <2>1 DEF Senders
  <2> QED BY <1>4, <1>7, <2>1, <2>2
<1>8. workers \in [Workers -> Executions]
  BY DEF IInv, TypeOK
<1>9. \A p : Advances(w, p) => Becomes(w, [x EXCEPT !.phase = p])
  <2>1. \A p : [workers EXCEPT ![w].phase = p] = [workers EXCEPT ![w] = [x EXCEPT !.phase = p]]
    BY <1>1, <1>8
  <2> QED BY <2>1 DEF Advances, Becomes
<1> QED BY <1>1, <1>5, <1>6, <1>7, <1>9

\* The server commits the request of an execution.
LEMMA CommitRequestStep ==
  ASSUME IInv, NEW w \in Workers, workers[w].phase = "waiting", Commit(RequestOf(w)),
         Becomes(w, [workers[w] EXCEPT !.phase = "acked", !.opSeq = Len(history')]),
         UNCHANGED <<stray, shared, views, intents>>
  PROVE  IInv' /\ StepOK /\ StoreStep
<1>1. PICK x : x = workers[w]
  OBVIOUS
<1>2. /\ x \in Senders /\ w \in Sending /\ WorkerOK(x) /\ RequestOf(w) \in Carried
      /\ Planned(x.id.intent, x.entry.op, x.entry.base) /\ x.id \in Ids
      /\ x.entry.op \in Ops
  BY <1>1, SenderFacts
<1>3. TypeOK /\ HistoryOK /\ RequestOf(w).id = x.id /\ RequestOf(w).op = x.entry.op
  BY <1>1 DEF IInv, RequestOf, Request
<1>4. Grows(x.id, x.entry.op)
  BY <1>2, <1>3 DEF Grows, Commit
<1>5. /\ Len(history') = Len(history) + 1 /\ Len(history) \in DOMAIN log'
      /\ log'[Len(history)].id = x.id /\ Len(history) \in Nat
  BY <1>2, <1>3, <1>4, GrowsFacts, ServerFacts
<1>6. PICK n \in Nat : n = Len(history)
  BY <1>5
<1>7. PICK k \in Nat : k = n + 1
  BY <1>6
<1>8. PICK y : y = [x EXCEPT !.phase = "acked", !.opSeq = k]
  OBVIOUS
<1>9. y \in Senders /\ y.phase = "acked" /\ y.id = x.id /\ y.entry = x.entry /\ y.opSeq = n + 1
  BY <1>2, <1>7, <1>8 DEF Senders
<1>10. Len(history') = k
  BY <1>5, <1>6, <1>7
<1>11. Becomes(w, y)
  BY <1>1, <1>8, <1>10
<1>12. /\ workers' \in [Workers -> Executions]
       /\ \A v \in Workers : v # w => workers'[v] = workers[v]
       /\ workers'[w] = y
  BY <1>3, <1>9, <1>11 DEF Becomes, TypeOK, Executions
<1>13. UNCHANGED <<stray, store, replica, views, intents>>
  BY DEF shared
<1>14. TypeOK' /\ NamesOK' /\ SeqsOK' /\ StepOK /\ StoreStep
  <2>1. NoId \in Ids /\ NoId.intent \in 0..Len(intents)
    BY <1>3 DEF NoId, Ids, TypeOK
  <2>2. Serving
    BY <1>2 DEF Serving
  <2>3. Stores(NoId)
    BY <1>13 DEF Stores, Carried
  <2>4. stray' \subseteq Carried
    BY <1>13 DEF Carried
  <2>5. \A v \in Workers : workers'[v] = workers[v] \/ Moves(workers'[v])
    BY <1>1, <1>2, <1>9, <1>12 DEF Moves, RequestOf
  <2>6. replica.acked \subseteq NamedIds /\ replica \in [snapshot : Snapshots, acked : SUBSET Ids]
    BY <1>3 DEF NamedIds, TypeOK
  <2>7. replica' \in [snapshot : Snapshots, acked : SUBSET NamedIds]
    BY <1>13, <2>6
  <2>8. IntentsOnward
    BY <1>13 DEF IntentsOnward
  <2> QED BY <1>3, <1>12, <1>13, <2>1, <2>2, <2>3, <2>4, <2>5, <2>7, <2>8, SystemMoves
             DEF TypeOK
<1>15. WorkerOK(y)'
  <2>1. Planned(y.id.intent, y.entry.op, y.entry.base)'
    BY <1>2, <1>9, <1>14, Keeps
  <2>2. y.id \in DOMAIN store' => y.entry.seq = store'[y.id].seq
    BY <1>1, <1>2, <1>9, <1>13 DEF WorkerOK
  <2>3. \E m \in Commits(y.id)' : y.opSeq = m + 1
    BY <1>5, <1>6, <1>9 DEF Commits
  <2> QED BY <1>9, <2>1, <2>2, <2>3 DEF WorkerOK
<1>16. \A v \in Workers : workers'[v] = workers[v] \/ WorkerOK(workers[v])'
  BY <1>12, <1>15
<1>17. \A id \in DOMAIN store' :
         EntryOK(id, store'[id]) /\ (id \in NamedIds \/ store'[id].state # "conflict")
  BY <1>13 DEF IInv, StoreOK, NamedIds
<1> QED BY <1>13, <1>14, <1>16, <1>17, SystemSteps

\* The request reaches the server.
LEMMA ServeRequestStep ==
  ASSUME IInv, NEW w \in Workers, ServeRequest(w)
  PROVE  IInv' /\ StepOK /\ StoreStep
<1>1. /\ workers[w].phase = "waiting" /\ UNCHANGED <<stray, shared, views, intents>>
      /\ RequestOf(w).id = workers[w].id
  BY DEF ServeRequest, RequestOf, Request
<1>2. CASE /\ Commit(RequestOf(w))
           /\ Becomes(w, [workers[w] EXCEPT !.phase = "acked", !.opSeq = Len(history')])
  BY <1>1, <1>2, CommitRequestStep
<1>3. CASE /\ UNCHANGED server
           /\ \/ /\ Commits(workers[w].id) # {}
                 /\ Becomes(w, [workers[w] EXCEPT !.phase = "acked",
                                                  !.opSeq = OpSeqOf(workers[w].id)])
              \/ Commits(workers[w].id) = {} /\ Stale(RequestOf(w)) /\ Advances(w, "stale")
              \/ Advances(w, "refused")
  BY <1>1, <1>3, AnswerSteps
<1> QED BY <1>1, <1>2, <1>3 DEF ServeRequest

\* A transition of the entry keeps what it sends.
LEMMA LetsEntry ==
  ASSUME IInv, NEW w \in Sending,
         NEW e \in {Waiting(workers[w].entry), Failed(workers[w].entry)},
         Lets(w, e), stray' = stray \/ stray' = stray \cup {RequestOf(w)},
         UNCHANGED <<server, replica, views, intents>>
  PROVE  IInv' /\ StepOK /\ StoreStep
<1>1. workers[w].entry \in Entries /\ w \in Workers
  BY WorkerFacts DEF IInv, Sending
<1>2. PICK f \in Entries : f = workers[w].entry
  BY <1>1
<1>3. Still(f, Waiting(f)) /\ Still(f, Failed(f))
  BY <1>1, EntryTypes
<1>4. Waiting(f).state = "retry-wait" /\ Failed(f).state = "failed"
  BY <1>1, EntryTypes
<1>5. e \in {Waiting(f), Failed(f)}
  BY <1>2
<1>6. e.op = f.op /\ e.base = f.base /\ e.seq = f.seq /\ e \in Entries /\ e.state # "conflict"
  BY <1>3, <1>4, <1>5 DEF Still
<1>7. /\ e \in Entries /\ e.op = workers[w].entry.op /\ e.base = workers[w].entry.base
      /\ e.seq = workers[w].entry.seq /\ e.state # "conflict"
  BY <1>2, <1>6
<1> QED BY <1>7, LetsStep

\* Requests and answers that are lost, refusals, and executions that die.
LEMMA MishapSteps ==
  ASSUME IInv, NEW w \in Workers,
         NetworkFails(w) \/ CrashWorker(w) \/ RefusedInPassing(w) \/ FailEntry(w)
  PROVE  IInv' /\ StepOK /\ StoreStep
<1>1. CASE NetworkFails(w)
  <2>1. w \in Sending
    BY <1>1 DEF NetworkFails, Sending
  <2>2. stray' = stray \/ stray' = stray \cup {RequestOf(w)}
    BY <1>1 DEF NetworkFails, Strays
  <2> QED BY <1>1, <2>1, <2>2, LetsEntry DEF NetworkFails
<1>2. CASE CrashWorker(w)
  <2>1. stray' = stray \/ (w \in Sending /\ stray' = stray \cup {RequestOf(w)})
    BY <1>2 DEF CrashWorker, Strays, Sending
  <2>2. Idle \in Executions /\ Idle.phase = "idle" /\ WorkerOK(Idle)
    BY DEF Executions, Idle, WorkerOK
  <2> QED BY <1>2, <2>1, <2>2, BecomesStep DEF CrashWorker
<1>3. CASE RefusedInPassing(w)
  BY <1>3, AnswerSteps DEF RefusedInPassing
<1>4. CASE FailEntry(w)
  <2>1. w \in Sending
    BY <1>4 DEF FailEntry, Sending
  <2> QED BY <1>4, <2>1, LetsEntry DEF FailEntry
<1> QED BY <1>1, <1>2, <1>3, <1>4

\* The snapshot to merge with is fetched.
LEMMA FetchStep ==
  ASSUME IInv, NEW w \in Workers, FetchRemote(w)
  PROVE  IInv' /\ StepOK /\ StoreStep
<1>1. PICK x : x = workers[w]
  OBVIOUS
<1>2. x.phase = "stale" /\ workers[w].phase = "stale"
  BY <1>1 DEF FetchRemote
<1>3. /\ x \in Senders /\ w \in Sending /\ WorkerOK(x)
      /\ Planned(x.id.intent, x.entry.op, x.entry.base)
  BY <1>1, <1>2, SenderFacts
<1>4. PICK n \in Nat : n = Len(history) /\ n \in DOMAIN history
  BY ServerFacts DEF IInv
<1>5. PICK y : y = [x EXCEPT !.phase = "merging", !.opSeq = n]
  OBVIOUS
<1>6. y \in Senders /\ y.phase = "merging" /\ y.id = x.id /\ y.entry = x.entry /\ y.opSeq = n
  BY <1>3, <1>4, <1>5 DEF Senders
<1>7. Becomes(w, y)
  BY <1>1, <1>4, <1>5 DEF FetchRemote
<1>8. WorkerOK(y)
  BY <1>2, <1>3, <1>4, <1>6 DEF WorkerOK
<1>9. y \in Executions
  BY <1>6 DEF Executions
<1> QED BY <1>1, <1>3, <1>6, <1>7, <1>8, <1>9, BecomesStep DEF FetchRemote

\* There is nothing left to send: the execution settles its entry.
LEMMA SettlingStep ==
  ASSUME IInv, NEW w \in Workers, workers[w].phase \in {"acked", "merging"},
         NEW s, Dated(s), Done(workers[w].id.intent), Covered(workers[w].id, s.opSeq),
         Settling(w, s), UNCHANGED <<server, stray, shared, views, intents>>
  PROVE  IInv' /\ StepOK /\ StoreStep
<1>1. PICK x : x = workers[w]
  OBVIOUS
<1>2. /\ w \in Sending /\ WorkerOK(x) /\ x.id \in Ids /\ x.entry \in Entries
      /\ Planned(x.id.intent, x.entry.op, x.entry.base)
  BY <1>1, SenderFacts
<1>3. PICK y : y = [phase |-> "settling", id |-> x.id, entry |-> x.entry, snapshot |-> s]
  OBVIOUS
<1>4. y \in Executions /\ y.phase = "settling" /\ y.id = x.id /\ y.entry = x.entry
      /\ y.snapshot = s
  BY <1>2, <1>3 DEF Executions, Settlers, Dated
<1>5. Becomes(w, y)
  BY <1>1, <1>3 DEF Settling
<1>6. x.id \in DOMAIN store => x.entry.seq = store[x.id].seq
  BY <1>1, <1>2 DEF WorkerOK
<1>7. WorkerOK(y)
  BY <1>1, <1>2, <1>4, <1>6 DEF WorkerOK
<1> QED BY <1>1, <1>2, <1>4, <1>5, <1>7, BecomesStep

\* Someone else made the same edit, after it was queued.
LEMMA AlreadyAppliedStep ==
  ASSUME IInv, NEW w \in Workers, AlreadyApplied(w)
  PROVE  IInv' /\ StepOK /\ StoreStep
<1>1. PICK x : x = workers[w]
  OBVIOUS
<1>2. x.phase = "merging" /\ workers[w].phase = "merging"
  BY <1>1 DEF AlreadyApplied
<1>3. /\ x \in Senders /\ WorkerOK(x) /\ x.entry.base \in Snapshots
      /\ Planned(x.id.intent, x.entry.op, x.entry.base)
  BY <1>1, <1>2, SenderFacts
<1>4. Dead(x.id) /\ x.opSeq \in DOMAIN history /\ x.entry.base.opSeq < x.opSeq
  BY <1>2, <1>3 DEF WorkerOK
<1>5. Dated(history[x.opSeq])
  BY <1>4, ServerFacts DEF Dated, IInv, HistoryOK
<1>6. PICK i : i = x.id.intent
  OBVIOUS
<1>7. /\ i \in DOMAIN intents /\ intents[i].at <= x.entry.base.opSeq
      /\ x.entry.op.doc = intents[i].op.doc /\ x.entry.op.field = intents[i].op.field
      /\ x.entry.op.to = intents[i].op.to
  BY <1>3, <1>6 DEF Planned, Serves
<1>8. intents[i].at \in Nat
  BY <1>7, EditFacts DEF IInv
<1>9. x.entry.base.opSeq \in Nat /\ x.opSeq \in Nat
  BY <1>3 DEF Senders, Snapshots
<1>10. x.opSeq > intents[i].at
  BY <1>4, <1>7, <1>8, <1>9
<1>11. Value(history[x.opSeq], x.entry.op) = x.entry.op.to
  BY <1>1 DEF AlreadyApplied, RemoteValue, OpOf
<1>12. Done(i)
  BY <1>4, <1>7, <1>10, <1>11 DEF Done, WasMadeElsewhere, Value
<1>13. Covered(x.id, history[x.opSeq].opSeq)
  BY <1>4 DEF Covered
<1> QED BY <1>1, <1>2, <1>5, <1>6, <1>12, <1>13, SettlingStep DEF AlreadyApplied

\* What the execution confirms: a snapshot with the revisions of a state.
LEMMA ConfirmedFacts ==
  ASSUME IInv, NEW w \in Workers, workers[w].phase = "acked"
  PROVE  /\ Dated(Confirmed(w))
         /\ \E n \in Commits(workers[w].id) : n + 1 <= Confirmed(w).opSeq
<1>1. PICK x : x = workers[w]
  OBVIOUS
<1>2. /\ x \in Senders /\ WorkerOK(x) /\ x.entry.base \in Snapshots /\ x.id \in Ids
      /\ Dated(x.entry.base) /\ RequestOf(w) \in Carried /\ x.entry.op.doc \in Docs
      /\ x.entry.op \in Ops
  BY <1>1, SenderFacts
<1>3. PICK n \in Commits(x.id) : x.opSeq = n + 1
  BY <1>1, <1>2 DEF WorkerOK
<1>4. PICK k : k = Len(history)
  OBVIOUS
<1>5. /\ k \in Nat /\ DOMAIN history = 1..k /\ DOMAIN log = 1..(k - 1)
      /\ Server = history[k] /\ \A m \in DOMAIN history : history[m] \in Snapshots
  BY <1>4, ServerFacts DEF IInv
<1>6. n \in 1..(k - 1) /\ n \in DOMAIN log /\ n + 1 \in DOMAIN history
      /\ n \in DOMAIN history /\ k \in DOMAIN history
  BY <1>3, <1>5 DEF Commits
<1>7. HistoryOK
  BY DEF IInv
<1>8. PICK b : b = x.entry.base
  OBVIOUS
<1>9. PICK op : op = x.entry.op
  OBVIOUS
<1>10. CASE x.opSeq > b.opSeq + 1
  <2>1. Confirmed(w) = Server
    BY <1>1, <1>8, <1>10 DEF Confirmed, Base
  <2>2. Server.opSeq = k /\ Dated(Server)
    BY <1>5, <1>6, <1>7 DEF Dated, HistoryOK
  <2>3. n + 1 <= k
    BY <1>5, <1>6
  <2> QED BY <1>1, <1>3, <2>1, <2>2, <2>3
<1>11. CASE ~(x.opSeq > b.opSeq + 1)
  <2>1. b.opSeq \in 1..k /\ n <= b.opSeq
    BY <1>2, <1>3, <1>5, <1>6, <1>8, <1>11 DEF Dated
  <2>2. log[n].op = op /\ history[n].docs[op.doc].rev = b.docs[op.doc].rev
    BY <1>1, <1>2, <1>3, <1>8, <1>9 DEF IInv, CarriedOK, RequestOf, Request
  <2>3. b.docs[op.doc].rev = history[b.opSeq].docs[op.doc].rev /\ op.doc \in Docs
    BY <1>2, <1>8, <1>9 DEF Dated
  <2>4. history[n + 1].docs[op.doc].rev = history[n].docs[op.doc].rev + 1
    BY <1>6, <1>7, <2>2, <2>3 DEF HistoryOK
  <2>5. history[n].docs[op.doc].rev \in Nat /\ history[n + 1].docs[op.doc].rev \in Nat
    BY <1>5, <1>6, <2>3, SnapshotFacts
  <2>6. n = b.opSeq
    <3>1. CASE n < b.opSeq
      <4>1. n + 1 <= b.opSeq /\ b.opSeq \in DOMAIN history
        BY <1>5, <1>6, <2>1, <3>1
      <4>2. history[n + 1].docs[op.doc].rev <= history[b.opSeq].docs[op.doc].rev
        BY <1>6, <1>7, <2>3, <4>1 DEF HistoryOK
      <4> QED BY <2>2, <2>3, <2>4, <2>5, <4>2
    <3> QED BY <3>1, <2>1, <1>6, <1>5
  <2>7. PICK a : a = Applied(b, op)
    OBVIOUS
  <2>8. /\ a \in Snapshots /\ \A d \in Docs : a.docs[d].rev = b.docs[d].rev
    BY <1>2, <1>8, <1>9, <2>7, AppliedFacts
  <2>9. PICK h : h = history[n + 1]
    OBVIOUS
  <2>10. PICK c : c = [a EXCEPT !.opSeq = n + 1, !.docs[op.doc] = h.docs[op.doc]]
    OBVIOUS
  <2>11. Confirmed(w) = c
    BY <1>1, <1>3, <1>8, <1>9, <1>11, <2>7, <2>9, <2>10 DEF Confirmed, Base, OpOf
  <2>12. PICK docs : docs = [a.docs EXCEPT ![op.doc] = h.docs[op.doc]]
    OBVIOUS
  <2>13. /\ docs \in [Docs -> [rev : Nat, content : [Fields -> AllVals]]]
         /\ \A d \in Docs : docs[d] = IF d = op.doc THEN h.docs[d] ELSE a.docs[d]
    <3>1. h \in Snapshots /\ a \in Snapshots /\ op.doc \in Docs
      BY <1>5, <1>6, <2>3, <2>8, <2>9
    <3>2. /\ a.docs \in [Docs -> [rev : Nat, content : [Fields -> AllVals]]]
          /\ h.docs \in [Docs -> [rev : Nat, content : [Fields -> AllVals]]]
      BY ONLY <3>1 DEF Snapshots
    <3> QED BY ONLY <3>1, <3>2, <2>12
  <2>14. c \in Snapshots /\ c.opSeq = n + 1 /\ c.docs = docs
    <3>1. PICK g : g = [a EXCEPT !.opSeq = n + 1]
      OBVIOUS
    <3>2. g \in Snapshots /\ g.opSeq = n + 1 /\ g.docs = a.docs
      <4>1. n + 1 \in Nat /\ a \in Snapshots
        BY <1>5, <1>6, <2>8
      <4> QED BY ONLY <4>1, <3>1 DEF Snapshots
    <3>3. c = [g EXCEPT !.docs = docs]
      BY <2>10, <2>12, <3>1
    <3> QED BY <2>13, <3>2, <3>3 DEF Snapshots
  <2>15. ASSUME NEW d \in Docs PROVE c.docs[d].rev = history[n + 1].docs[d].rev
    <3>1. CASE d = op.doc
      BY <2>9, <2>13, <2>14, <3>1
    <3>2. CASE d # op.doc
      <4>1. c.docs[d].rev = b.docs[d].rev
        BY <2>8, <2>13, <2>14, <3>2
      <4>2. b.docs[d].rev = history[n].docs[d].rev
        BY <1>2, <1>8, <2>6 DEF Dated
      <4>3. history[n + 1].docs[d].rev = history[n].docs[d].rev + 0
        BY <1>6, <1>7, <2>2, <3>2 DEF HistoryOK
      <4>4. history[n].docs[d].rev \in Nat
        BY <1>5, <1>6, SnapshotFacts
      <4> QED BY <4>1, <4>2, <4>3, <4>4
    <3> QED BY <3>1, <3>2
  <2>16. Dated(c)
    BY <1>6, <2>14, <2>15 DEF Dated
  <2>17. n + 1 <= c.opSeq
    BY <1>6, <2>14
  <2> QED BY <1>1, <1>3, <2>11, <2>16, <2>17
<1> QED BY <1>10, <1>11

\* The server has committed the entry.
LEMMA ConfirmStep ==
  ASSUME IInv, NEW w \in Workers, Confirm(w)
  PROVE  IInv' /\ StepOK /\ StoreStep
<1>1. workers[w].phase = "acked"
  BY DEF Confirm
<1>2. /\ Dated(Confirmed(w))
      /\ \E n \in Commits(workers[w].id) : n + 1 <= Confirmed(w).opSeq
  BY <1>1, ConfirmedFacts
<1>3. Done(workers[w].id.intent) /\ Covered(workers[w].id, Confirmed(w).opSeq)
  BY <1>2 DEF Done, IsCommitted, Commits, Covered
<1> QED BY <1>1, <1>2, <1>3, SettlingStep DEF Confirm

\* The edit keeps being overtaken, or the user has to decide.
LEMMA MergeEndsSteps ==
  ASSUME IInv, NEW w \in Workers, GiveUpRebasing(w) \/ BlockOnConflict(w)
  PROVE  IInv' /\ StepOK /\ StoreStep
<1>1. workers[w].phase = "merging"
  BY DEF GiveUpRebasing, BlockOnConflict
<1>2. w \in Sending
  BY <1>1 DEF Sending
<1>3. CASE GiveUpRebasing(w)
  BY <1>2, <1>3, LetsEntry DEF GiveUpRebasing
<1>4. CASE BlockOnConflict(w)
  <2>1. PICK x : x = workers[w]
    OBVIOUS
  <2>2. x \in Senders /\ WorkerOK(x) /\ x.entry \in Entries
    BY <1>1, <2>1, SenderFacts
  <2>3. x.opSeq \in Nat
    BY <2>2 DEF Senders
  <2>4. Dead(x.id) /\ x.opSeq \in DOMAIN history /\ x.entry.base.opSeq < x.opSeq
    BY <1>1, <2>1, <2>2 DEF WorkerOK
  <2>5. PICK f \in Entries : f = x.entry
    BY <2>2
  <2>6. PICK n \in Nat : n = x.opSeq
    BY <2>3
  <2>7. PICK e : e = Blocked(f, n)
    OBVIOUS
  <2>8. Still(f, e) /\ e.state = "conflict" /\ e.session = n
    BY <2>7, EntryTypes
  <2>9. Lets(w, e)
    BY <1>4, <2>1, <2>5, <2>6, <2>7 DEF BlockOnConflict
  <2>10. e \in Entries /\ e.op = x.entry.op /\ e.base = x.entry.base /\ e.seq = x.entry.seq
    BY <2>5, <2>8 DEF Still
  <2>11. e.session \in DOMAIN history /\ e.base.opSeq < e.session /\ Dead(workers[w].id)
    BY <2>1, <2>4, <2>6, <2>8, <2>10
  <2> QED BY <1>2, <1>4, <2>1, <2>9, <2>10, <2>11, LetsStep DEF BlockOnConflict
<1> QED BY <1>3, <1>4

\* An execution that settles its entry.
LEMMA SettlerFacts ==
  ASSUME IInv, NEW w \in Workers, workers[w].phase \in {"settling", "removing"}
  PROVE  /\ workers[w] \in Settlers /\ w \in Sending
         /\ workers[w].id \in NamedIds /\ workers[w].id \in Ids
         /\ workers[w].id.intent \in DOMAIN intents
         /\ workers[w].entry \in Entries
         /\ Done(workers[w].id.intent)
         /\ WorkerOK(workers[w])
<1>1. workers[w].phase # "idle" /\ TypeOK /\ WorkersOK
  BY DEF IInv
<1>2. /\ workers[w] \in Senders \cup Settlers
      /\ workers[w].id \in NamedIds /\ workers[w].id \in Ids
      /\ workers[w].id.intent \in DOMAIN intents
      /\ workers[w].entry \in Entries /\ WorkerOK(workers[w])
  BY <1>1, WorkerFacts
<1>3. workers[w] \in Settlers
  BY <1>2 DEF Senders
<1>4. w \in Sending
  BY DEF Sending
<1>5. Done(workers[w].id.intent)
  BY <1>2 DEF WorkerOK
<1> QED BY <1>2, <1>3, <1>4, <1>5

\* It goes on to remove the entry.
LEMMA RemovingFacts ==
  ASSUME IInv, NEW w \in Workers, workers[w].phase = "settling", Advances(w, "removing"),
         NEW y, y = [workers[w] EXCEPT !.phase = "removing"]
  PROVE  /\ Becomes(w, y) /\ y \in Executions /\ y.phase = "removing"
         /\ y.id = workers[w].id /\ y.entry = workers[w].entry
         /\ WorkerOK(y)
<1>1. PICK x : x = workers[w]
  OBVIOUS
<1>2. x \in Settlers /\ WorkerOK(x) /\ Done(x.id.intent) /\ x.phase = "settling"
  BY <1>1, SettlerFacts
<1>3. y \in Settlers /\ y.phase = "removing" /\ y.id = x.id /\ y.entry = x.entry
  BY <1>1, <1>2 DEF Settlers
<1>4. workers \in [Workers -> Executions]
  BY DEF IInv, TypeOK
<1>5. Becomes(w, y)
  BY <1>4 DEF Advances, Becomes
<1>6. Commits(x.id) # {} \/ Dead(x.id)
  BY <1>2 DEF WorkerOK, Covered
<1>7. Planned(x.id.intent, x.entry.op, x.entry.base)
      /\ (x.id \in DOMAIN store => x.entry.seq = store[x.id].seq)
  BY <1>2 DEF WorkerOK
<1>8. WorkerOK(y)
  BY <1>2, <1>3, <1>6, <1>7 DEF WorkerOK
<1> QED BY <1>1, <1>3, <1>5, <1>8 DEF Executions

\* The replica advances: it still shows the revisions of a state, and holds what
\* was acknowledged.
LEMMA WriteReplicaStep ==
  ASSUME IInv, NEW w \in Workers, WriteReplica(w)
  PROVE  IInv' /\ StepOK /\ StoreStep
<1>1. workers[w].phase = "settling" /\ Advances(w, "removing")
      /\ UNCHANGED <<history, log, stray, store, views, intents>>
  BY DEF WriteReplica, server
<1>2. PICK x : x = workers[w]
  OBVIOUS
<1>3. /\ x \in Settlers /\ w \in Sending /\ x.id \in NamedIds /\ x.id \in Ids
      /\ x.id.intent \in DOMAIN intents /\ Done(x.id.intent) /\ WorkerOK(x)
  BY <1>1, <1>2, SettlerFacts
<1>4. Dated(x.snapshot) /\ Covered(x.id, x.snapshot.opSeq)
  BY <1>1, <1>2, <1>3 DEF WorkerOK
<1>5. PICK y : y = [workers[w] EXCEPT !.phase = "removing"]
  OBVIOUS
<1>6. /\ Becomes(w, y) /\ y \in Executions /\ y.phase = "removing" /\ WorkerOK(y)
      /\ y.id = x.id /\ y.entry = x.entry
  BY <1>1, <1>2, <1>5, RemovingFacts
<1>7. TypeOK /\ Dated(replica.snapshot) /\ replica.acked \subseteq NamedIds
  BY DEF IInv, ReplicaOK, NamedIds
<1>8. PICK s : s = IF x.snapshot.opSeq >= replica.snapshot.opSeq THEN x.snapshot
                   ELSE replica.snapshot
  OBVIOUS
<1>9. replica' = [snapshot |-> s, acked |-> replica.acked \cup {x.id}]
  BY <1>2, <1>8 DEF WriteReplica, Advanced
<1>10. x.snapshot.opSeq \in Nat /\ replica.snapshot.opSeq \in Nat
  BY <1>4, <1>7, SnapshotFacts DEF Dated
<1>11. /\ Dated(s) /\ s \in Snapshots /\ s.opSeq \in Nat
       /\ x.snapshot.opSeq <= s.opSeq /\ replica.snapshot.opSeq <= s.opSeq
  BY <1>4, <1>7, <1>8, <1>10 DEF Dated
<1>12. replica' \in [snapshot : Snapshots, acked : SUBSET NamedIds]
  BY <1>3, <1>7, <1>9, <1>11
<1>13. /\ workers' \in [Workers -> Executions]
       /\ \A v \in Workers : v # w => workers'[v] = workers[v]
       /\ workers'[w] = y
  BY <1>6, <1>7 DEF Becomes, TypeOK
<1>14. TypeOK' /\ NamesOK' /\ SeqsOK' /\ StepOK /\ StoreStep
  <2>1. NoId \in Ids /\ NoId.intent \in 0..Len(intents)
    BY <1>7 DEF NoId, Ids, TypeOK
  <2>2. Serving
    BY <1>1 DEF Serving, server
  <2>3. Stores(NoId)
    BY <1>1 DEF Stores, Carried
  <2>4. stray' \subseteq Carried
    BY <1>1 DEF Carried
  <2>5. \A v \in Workers : workers'[v] = workers[v] \/ Moves(workers'[v])
    BY <1>2, <1>3, <1>6, <1>13 DEF Moves, Carried, RequestOf
  <2>6. IntentsOnward
    BY <1>1 DEF IntentsOnward
  <2> QED BY <1>1, <1>7, <1>12, <1>13, <2>1, <2>2, <2>3, <2>4, <2>5, <2>6, SystemMoves
             DEF TypeOK
<1>15. \A v \in Workers : workers'[v] = workers[v] \/ WorkerOK(workers[v])'
  <2>1. WorkerOK(y)'
    BY <1>3, <1>6, <1>14, WorkersKept
  <2> QED BY <1>13, <2>1
<1>16. ReplicaOK'
  <2>1. \A r : r = s => Dated(r)'
    BY <1>11, <1>14, Keeps
  <2>2. \A id \in replica.acked : \A k : k = s.opSeq =>
          id.intent \in DOMAIN intents' /\ Done(id.intent)' /\ Covered(id, k)'
    BY <1>11, <1>14, AckedKept
  <2>3. \A k : k = s.opSeq =>
          x.id.intent \in DOMAIN intents' /\ Done(x.id.intent)' /\ Covered(x.id, k)'
    BY <1>1, <1>3, <1>4, <1>10, <1>11, <1>14, Keeps
  <2> QED BY <1>9, <2>1, <2>2, <2>3 DEF ReplicaOK
<1>17. \A id \in DOMAIN store' :
         EntryOK(id, store'[id]) /\ (id \in NamedIds \/ store'[id].state # "conflict")
  BY <1>1 DEF IInv, StoreOK, NamedIds
<1>18. \A id \in replica'.acked \ replica.acked : Done(id.intent)
  BY <1>3, <1>9
<1> QED BY <1>1, <1>14, <1>15, <1>16, <1>17, <1>18, SystemSteps

\* The write fails.
LEMMA WriteFailsStep ==
  ASSUME IInv, NEW w \in Workers, ReplicaWriteFails(w)
  PROVE  IInv' /\ StepOK /\ StoreStep
<1>1. workers[w].phase = "settling"
  BY DEF ReplicaWriteFails
<1>2. w \in Sending
  BY <1>1, SettlerFacts
<1>3. CASE Lets(w, Waiting(workers[w].entry))
  BY <1>2, <1>3, LetsEntry DEF ReplicaWriteFails
<1>4. CASE Advances(w, "removing") /\ UNCHANGED store
  <2>1. PICK y : y = [workers[w] EXCEPT !.phase = "removing"]
    OBVIOUS
  <2>2. /\ Becomes(w, y) /\ y \in Executions /\ y.phase = "removing" /\ WorkerOK(y)
        /\ y.id = workers[w].id /\ y.entry = workers[w].entry
    BY <1>1, <1>4, <2>1, RemovingFacts
  <2> QED BY <1>2, <1>4, <2>2, BecomesStep DEF ReplicaWriteFails, shared
<1> QED BY <1>3, <1>4 DEF ReplicaWriteFails

\* The entry is removed, if the lease is still held.
LEMMA RemoveEntryStep ==
  ASSUME IInv, NEW w \in Workers, RemoveEntry(w)
  PROVE  IInv' /\ StepOK /\ StoreStep
<1>1. PICK id : id = workers[w].id
  OBVIOUS
<1>2. w \in Sending /\ Done(id.intent)
  BY <1>1, SettlerFacts DEF RemoveEntry
<1>3. TypeOK /\ \A j \in DOMAIN store : store[j] \in Entries
  BY DEF IInv, TypeOK
<1>4. UNCHANGED <<history, log, stray, replica, views, intents>>
  BY DEF RemoveEntry, server
<1>5. /\ DOMAIN store' \subseteq DOMAIN store /\ DOMAIN store \ DOMAIN store' \subseteq {id}
      /\ \A j \in DOMAIN store' : store'[j] = store[j]
      /\ store' \in [DOMAIN store' -> Entries]
  <2>1. store' = [j \in DOMAIN store \ {id} |-> store[j]] \/ store' = store
    BY <1>1 DEF RemoveEntry, Removed
  <2> QED BY <1>3, <2>1 DEF TypeOK
<1>6. /\ workers' \in [Workers -> Executions]
      /\ \A v \in Workers : v # w => workers'[v] = workers[v]
      /\ workers'[w] = Idle
  BY <1>3 DEF RemoveEntry, Becomes, TypeOK, Executions
<1>7. TypeOK' /\ NamesOK' /\ SeqsOK' /\ StepOK /\ StoreStep
  <2>1. NoId \in Ids /\ NoId.intent \in 0..Len(intents)
    BY <1>3 DEF NoId, Ids, TypeOK
  <2>2. Serving
    BY <1>4 DEF Serving, server
  <2>3. Stores(NoId)
    BY <1>5 DEF Stores, Carried
  <2>4. stray' \subseteq Carried
    BY <1>4 DEF Carried
  <2>5. \A v \in Workers : workers'[v] = workers[v] \/ Moves(workers'[v])
    BY <1>6 DEF Moves, Idle
  <2>6. replica.acked \subseteq NamedIds /\ replica \in [snapshot : Snapshots, acked : SUBSET Ids]
    BY <1>3 DEF NamedIds, TypeOK
  <2>7. replica' \in [snapshot : Snapshots, acked : SUBSET NamedIds]
    BY <1>4, <2>6
  <2>8. IntentsOnward
    BY <1>4 DEF IntentsOnward
  <2> QED BY <1>3, <1>4, <1>5, <1>6, <2>1, <2>2, <2>3, <2>4, <2>5, <2>7, <2>8, SystemMoves
             DEF TypeOK
<1>8. \A v \in Workers : workers'[v] = workers[v] \/ WorkerOK(workers[v])'
  BY <1>6 DEF WorkerOK, Idle
<1>9. \A j \in DOMAIN store' :
        EntryOK(j, store'[j]) /\ (j \in NamedIds \/ store'[j].state # "conflict")
  BY <1>5 DEF IInv, StoreOK, NamedIds
<1>10. \A j \in DOMAIN store \ DOMAIN store' : Done(j.intent)
  BY <1>2, <1>5
<1> QED BY <1>4, <1>7, <1>8, <1>9, <1>10, SystemSteps

\* An entry is changed, and an execution may turn to it.
LEMMA EntryStep ==
  ASSUME IInv, NEW id \in DOMAIN store, NEW e, Still(store[id], e),
         e.state = "conflict" =>
           store[id].state = "conflict" /\ e.session = store[id].session,
         store' = [store EXCEPT ![id] = e],
         \/ UNCHANGED workers
         \/ \E w \in Workers, y \in Senders :
              Becomes(w, y) /\ y.phase = "waiting" /\ y.id = id /\ y.entry = e,
         UNCHANGED <<server, stray, replica, views, intents>>
  PROVE  IInv' /\ StepOK /\ StoreStep
<1>1. TypeOK /\ EntryOK(id, store[id]) /\ id \in NamedIds
  BY DEF IInv, StoreOK, NamedIds
<1>2. UNCHANGED <<history, log, stray, replica, views, intents>>
  BY DEF server
<1>3. e \in Entries /\ e.op = store[id].op /\ e.base = store[id].base /\ e.seq = store[id].seq
  BY DEF Still
<1>4. /\ DOMAIN store' = DOMAIN store /\ store' \in [DOMAIN store' -> Entries]
      /\ store'[id] = e
      /\ \A j \in DOMAIN store : j # id => store'[j] = store[j]
  BY <1>1, <1>3 DEF TypeOK
<1>5. Request(id, e) \in Carried
  <2>1. Request(id, e) = Request(id, store[id])
    BY <1>3 DEF Request
  <2> QED BY <2>1 DEF Carried
<1>6. EntryOK(id, e)
  BY <1>1, <1>3 DEF EntryOK
<1>7. /\ workers' \in [Workers -> Executions]
      /\ \A v \in Workers : \/ workers'[v] = workers[v]
                            \/ /\ workers'[v] \in Executions /\ workers'[v].phase = "waiting"
                               /\ workers'[v].id = id /\ workers'[v].entry = e
  <2>1. CASE UNCHANGED workers
    BY <1>1, <2>1 DEF TypeOK
  <2>2. ASSUME NEW w \in Workers, NEW y \in Senders, Becomes(w, y), y.phase = "waiting",
               y.id = id, y.entry = e
        PROVE  /\ workers' \in [Workers -> Executions]
               /\ \A v \in Workers :
                    \/ workers'[v] = workers[v]
                    \/ /\ workers'[v] \in Executions /\ workers'[v].phase = "waiting"
                       /\ workers'[v].id = id /\ workers'[v].entry = e
    <3>1. y \in Executions
      BY DEF Executions
    <3>2. workers' = [workers EXCEPT ![w] = y] /\ workers \in [Workers -> Executions]
      BY <1>1, <2>2 DEF Becomes, TypeOK
    <3> QED BY <2>2, <3>1, <3>2
  <2> QED BY <2>1, <2>2
<1>8. TypeOK' /\ NamesOK' /\ SeqsOK' /\ StepOK /\ StoreStep
  <2>1. NoId \in Ids /\ NoId.intent \in 0..Len(intents)
    BY <1>1 DEF NoId, Ids, TypeOK
  <2>2. Serving
    BY <1>2 DEF Serving, server
  <2>3. Stores(NoId)
    <3>1. ASSUME NEW j \in DOMAIN store'
          PROVE  /\ j \in DOMAIN store
                 /\ store'[j].seq = store[j].seq
                 /\ Request(j, store'[j]) \in Carried
      <4>1. CASE j = id
        BY <4>1, <1>3, <1>4, <1>5
      <4>2. CASE j # id
        BY <4>2, <1>4 DEF Carried
      <4> QED BY <4>1, <4>2
    <3> QED BY <3>1 DEF Stores
  <2>4. stray' \subseteq Carried
    BY <1>2 DEF Carried
  <2>5. \A v \in Workers : workers'[v] = workers[v] \/ Moves(workers'[v])
    BY <1>5, <1>7 DEF Moves
  <2>6. replica.acked \subseteq NamedIds /\ replica \in [snapshot : Snapshots, acked : SUBSET Ids]
    BY <1>1 DEF NamedIds, TypeOK
  <2>7. replica' \in [snapshot : Snapshots, acked : SUBSET NamedIds]
    BY <1>2, <2>6
  <2>8. IntentsOnward
    BY <1>2 DEF IntentsOnward
  <2> QED BY <1>1, <1>2, <1>4, <1>7, <2>1, <2>2, <2>3, <2>4, <2>5, <2>7, <2>8, SystemMoves
             DEF TypeOK
<1>9. ASSUME NEW v \in Workers PROVE workers'[v] = workers[v] \/ WorkerOK(workers[v])'
  <2>1. ASSUME NEW y \in Executions, y = workers'[v], y.phase = "waiting", y.id = id,
               y.entry = e
        PROVE  WorkerOK(y)'
    <3>1. Planned(id.intent, e.op, e.base) /\ e.seq = store[id].seq
      BY <1>3, <1>6 DEF EntryOK
    <3>2. WorkerOK(y)
      BY <2>1, <3>1 DEF WorkerOK
    <3> QED BY <1>1, <1>8, <2>1, <3>2, WorkersKept
  <2> QED BY <1>7, <2>1
<1>10. \A j \in DOMAIN store' :
         EntryOK(j, store'[j]) /\ (j \in NamedIds \/ store'[j].state # "conflict")
  <2>1. \A j \in DOMAIN store : EntryOK(j, store[j]) /\ j \in NamedIds
    BY DEF IInv, StoreOK, NamedIds
  <2> QED BY <1>1, <1>4, <1>6, <2>1
<1> QED BY <1>2, <1>4, <1>8, <1>9, <1>10, SystemSteps

\* An entry is claimed, its time comes, or the user asks for another try.
LEMMA ClaimSteps ==
  ASSUME IInv,
         \/ \E w \in Workers : Claim(w) \/ ClaimReplacement(w)
         \/ \E id \in DOMAIN store : Timer(id) \/ Requeue(id)
  PROVE  IInv' /\ StepOK /\ StoreStep
<1>1. /\ store \in [DOMAIN store -> Entries] /\ \A j \in DOMAIN store : store[j] \in Entries
      /\ DOMAIN store \subseteq Ids /\ workers \in [Workers -> Executions]
  BY DEF IInv, TypeOK
<1>2. ASSUME NEW w \in Workers, NEW id \in DOMAIN store, NEW f \in Entries, f = store[id],
             NEW e, e = Claimed(f, w), store' = [store EXCEPT ![id] = e],
             NEW y \in Senders, Becomes(w, y), y.phase = "waiting", y.id = id, y.entry = e,
             UNCHANGED <<server, stray, replica, views, intents>>
      PROVE  IInv' /\ StepOK /\ StoreStep
  <2>1. Still(f, e) /\ e.state = "sending"
    BY <1>2, EntryTypes
  <2> QED BY <1>2, <2>1, EntryStep
<1>3. ASSUME NEW w \in Workers, Claim(w) PROVE IInv' /\ StepOK /\ StoreStep
  <2>1. PICK id \in DOMAIN store :
          /\ store' = [store EXCEPT ![id] = Claimed(store[id], w)]
          /\ Becomes(w, [phase |-> "waiting", id |-> id, entry |-> store'[id],
                         rebases |-> 0, opSeq |-> 0])
    BY <1>3 DEF Claim
  <2>2. PICK f \in Entries : f = store[id]
    BY <1>1
  <2>3. PICK e : e = Claimed(f, w)
    OBVIOUS
  <2>4. e \in Entries /\ store'[id] = e
    BY <1>1, <2>1, <2>2, <2>3, EntryTypes DEF Still
  <2>5. PICK y : y = [phase |-> "waiting", id |-> id, entry |-> e, rebases |-> 0, opSeq |-> 0]
    OBVIOUS
  <2>6. y \in Senders /\ y.phase = "waiting" /\ y.id = id /\ y.entry = e
    BY <1>1, <2>4, <2>5 DEF Senders
  <2> QED BY <1>2, <1>3, <2>1, <2>2, <2>3, <2>4, <2>5, <2>6 DEF Claim
<1>4. ASSUME NEW w \in Workers, ClaimReplacement(w) PROVE IInv' /\ StepOK /\ StoreStep
  <2>1. workers[w].phase = "replaced" /\ UNCHANGED <<server, stray, replica, views, intents>>
    BY <1>4 DEF ClaimReplacement
  <2>2. PICK x : x = workers[w]
    OBVIOUS
  <2>3. x \in Senders
    BY <2>1, <2>2, SenderFacts
  <2>4. CASE Becomes(w, Idle) /\ UNCHANGED store
    <3>1. Idle \in Executions /\ Idle.phase = "idle" /\ WorkerOK(Idle)
      BY DEF Executions, Idle, WorkerOK
    <3> QED BY <2>1, <2>4, <3>1, BecomesStep DEF shared
  <2>5. CASE /\ Candidate(store, x.id)
             /\ store' = [store EXCEPT ![x.id] = Claimed(store[x.id], w)]
             /\ Becomes(w, [x EXCEPT !.phase = "waiting", !.entry = store'[x.id],
                                     !.rebases = @ + 1, !.opSeq = 0])
    <3>1. PICK id \in DOMAIN store : id = x.id
      BY <2>5 DEF Candidate, IsHead
    <3>2. PICK f \in Entries : f = store[id]
      BY <1>1
    <3>3. PICK e : e = Claimed(f, w)
      OBVIOUS
    <3>4. e \in Entries /\ store'[id] = e
      BY <1>1, <2>5, <3>1, <3>2, <3>3, EntryTypes DEF Still
    <3>5. PICK r \in Nat : r = x.rebases + 1
      BY <2>3 DEF Senders
    <3>a. PICK z : z = [x EXCEPT !.phase = "waiting", !.entry = e]
      OBVIOUS
    <3>b. PICK y : y = [z EXCEPT !.rebases = r, !.opSeq = 0]
      OBVIOUS
    <3>c. z \in Senders /\ z.phase = "waiting" /\ z.id = x.id /\ z.entry = e
      BY <2>3, <3>4, <3>a DEF Senders
    <3>6. y \in Senders /\ y.phase = "waiting" /\ y.id = id /\ y.entry = e
      BY <3>1, <3>b, <3>c DEF Senders
    <3>7. Becomes(w, y)
      <4>1. y = [x EXCEPT !.phase = "waiting", !.entry = e, !.rebases = @ + 1, !.opSeq = 0]
        BY <2>3, <3>5, <3>a, <3>b DEF Senders
      <4> QED BY <2>5, <3>1, <3>4, <4>1
    <3> QED BY <1>2, <2>1, <2>5, <3>1, <3>2, <3>3, <3>6, <3>7
  <2> QED BY <1>4, <2>2, <2>4, <2>5 DEF ClaimReplacement
<1>5. ASSUME NEW id \in DOMAIN store, Timer(id) PROVE IInv' /\ StepOK /\ StoreStep
  <2>1. Overdue(id)
    BY <1>5 DEF Timer, RetryDue, LeaseExpires
  <2>2. PICK f \in Entries : f = store[id]
    BY <1>1
  <2>3. PICK e : e = [f EXCEPT !.due = TRUE]
    OBVIOUS
  <2>4. store' = [store EXCEPT ![id] = e]
    BY <1>1, <2>1, <2>2, <2>3 DEF Overdue
  <2>5. Still(f, e) /\ e.state = f.state /\ e.session = f.session
    BY <2>3, DueEntry
  <2> QED BY <2>1, <2>2, <2>4, <2>5, EntryStep DEF Overdue
<1>6. ASSUME NEW id \in DOMAIN store, Requeue(id) PROVE IInv' /\ StepOK /\ StoreStep
  <2>1. PICK f \in Entries : f = store[id]
    BY <1>1
  <2>2. PICK e : e = Requeued(f)
    OBVIOUS
  <2>3. e.state = "queued" /\ Still(f, e)
    BY <2>2, RequeuedFacts
  <2>4. store' = [store EXCEPT ![id] = e]
    <3>1. store' = [store EXCEPT ![id] = Requeued(store[id])]
      BY <1>6 DEF Requeue
    <3> QED BY <2>1, <2>2, <3>1
  <2> QED BY <1>6, <2>1, <2>3, <2>4, EntryStep DEF Requeue
<1> QED BY <1>3, <1>4, <1>5, <1>6

\* The operation that takes over edit i from op, planned on another state.
LEMMA ResolvedFacts ==
  ASSUME NEW op \in Ops, NEW s \in Snapshots
  PROVE  \E o \in Ops : /\ o.doc = op.doc /\ o.field = op.field /\ o.to = op.to
                        /\ o.from = Value(s, op) /\ Value(s, o) = o.from
                        /\ Resolved(op, s) = NewEntry(o, s)
<1>1. op.doc \in Docs /\ op.field \in Fields
  BY DEF Ops
<1>2. Value(s, op) \in AllVals
  BY <1>1 DEF Value, Snapshots
<1>3. PICK v \in AllVals : v = Value(s, op)
  BY <1>2
<1>4. PICK o : o = [op EXCEPT !.from = v]
  OBVIOUS
<1>5. o \in Ops /\ o.doc = op.doc /\ o.field = op.field /\ o.to = op.to /\ o.from = v
  BY <1>4 DEF Ops
<1>6. Value(s, o) = v
  BY <1>3, <1>5 DEF Value
<1>7. Resolved(op, s) = NewEntry(o, s)
  BY <1>3, <1>4 DEF Resolved
<1> QED BY <1>3, <1>5, <1>6, <1>7

\* A fresh operation takes the place of the entry, in the outbox and in the execution.
LEMMA RebaseStep ==
  ASSUME IInv, NEW w \in Workers, Rebase(w)
  PROVE  IInv' /\ StepOK /\ StoreStep
<1>1. PICK x : x = workers[w]
  OBVIOUS
<1>2. PICK id : id = x.id
  OBVIOUS
<1>3. PICK fresh : fresh = Fresh(id)
  OBVIOUS
<1>4. workers[w].phase = "merging" /\ x.phase = "merging"
      /\ UNCHANGED <<history, log, stray, replica, views, intents>>
  BY <1>1 DEF Rebase, server
<1>5. /\ x \in Senders /\ w \in Sending /\ WorkerOK(x) /\ id \in NamedIds /\ id \in Ids
      /\ x.entry \in Entries /\ x.entry.op \in Ops /\ x.entry.base \in Snapshots
      /\ Planned(id.intent, x.entry.op, x.entry.base)
  BY <1>1, <1>2, <1>4, SenderFacts
<1>6. CASE ~OwnsLease(store, id, w)
  <2>1. Becomes(w, Idle) /\ UNCHANGED store
    BY <1>1, <1>2, <1>6 DEF Rebase
  <2>2. Idle \in Executions /\ Idle.phase = "idle" /\ WorkerOK(Idle)
    BY DEF Executions, Idle, WorkerOK
  <2> QED BY <1>4, <2>1, <2>2, BecomesStep DEF shared, server
<1>7. CASE OwnsLease(store, id, w)
  <2>1. TypeOK /\ NamesOK /\ SeqsOK /\ HistoryOK
    BY DEF IInv
  <2>2. id \in DOMAIN store /\ \A j \in DOMAIN store : store[j] \in Entries
    BY <1>7, <2>1 DEF OwnsLease, TypeOK
  <2>3. fresh \in Ids /\ fresh.intent = id.intent /\ fresh \notin NamedIds
    BY <1>3, <1>5, <2>1, FreshFacts
  <2>4. PICK s : s = history[x.opSeq]
    OBVIOUS
  <2>5. /\ x.opSeq \in DOMAIN history /\ x.entry.base.opSeq < x.opSeq
        /\ x.opSeq \in Nat /\ x.entry.base.opSeq \in Nat
    BY <1>4, <1>5 DEF WorkerOK, Senders, Snapshots
  <2>6. s \in Snapshots /\ Dated(s) /\ s.opSeq = x.opSeq
    BY <2>1, <2>4, <2>5, ServerFacts DEF Dated, HistoryOK
  <2>7. PICK op : op = x.entry.op
    OBVIOUS
  <2>8. PICK o \in Ops : /\ o.doc = op.doc /\ o.field = op.field /\ o.to = op.to
                         /\ o.from = Value(s, op) /\ Value(s, o) = o.from
                         /\ Resolved(op, s) = NewEntry(o, s)
    BY <1>5, <2>6, <2>7, ResolvedFacts
  <2>9. Value(s, op) = op.from
    BY <1>1, <1>5, <2>4, <2>7 DEF Rebase, Rebasable, RemoteValue, OpOf, Base, Planned
  <2>10. PICK e : e = NewEntry(o, s)
    OBVIOUS
  <2>11. e \in Entries /\ e.op = o /\ e.base = s /\ e.state = "queued"
    BY <2>6, <2>10, NewEntryType
  <2>12. store' = Replaced(store, id, fresh, e)
    BY <1>1, <1>2, <1>3, <1>7, <2>4, <2>7, <2>8, <2>10 DEF Rebase, OpOf
  <2>13. PICK f : /\ Placed(e, store[id].seq, f)
                  /\ store' = InPlaceOf(id, fresh, f)
    <3>1. \E f : /\ Placed(e, store[id].seq, f)
                /\ Replaced(store, id, fresh, e) = InPlaceOf(id, fresh, f)
      <4>1. store[id] \in Entries /\ e \in Entries
        BY <2>2, <2>11
      <4> QED BY ONLY <4>1, ReplacedFacts
    <3> QED BY <2>12, <3>1
  <2>14. fresh \notin DOMAIN store
    BY <2>3 DEF NamedIds
  <2>15. /\ DOMAIN store' = (DOMAIN store \ {id}) \cup {fresh} /\ store'[fresh] = f
         /\ f \in Entries /\ f.op = o /\ f.base = s /\ f.state = "queued"
         /\ f.seq = store[id].seq
         /\ \A j \in DOMAIN store \ {id} : store'[j] = store[j]
         /\ store' \in [DOMAIN store' -> Entries]
    BY ONLY <2>2, <2>11, <2>13, <2>14 DEF Placed, InPlaceOf
  <2>16. PICK y : y = [x EXCEPT !.phase = "replaced", !.id = fresh]
    OBVIOUS
  <2>17. /\ y \in Senders /\ y.phase = "replaced" /\ y.id = fresh /\ y.entry = x.entry
    BY <1>5, <2>3, <2>16 DEF Senders
  <2>18. Becomes(w, y)
    BY <1>1, <1>2, <1>3, <1>7, <2>16 DEF Rebase
  <2>19. /\ workers' \in [Workers -> Executions]
         /\ \A v \in Workers : v # w => workers'[v] = workers[v]
         /\ workers'[w] = y
    BY <2>1, <2>17, <2>18 DEF Becomes, TypeOK, Executions
  <2>20. id.intent \in DOMAIN intents /\ DOMAIN intents = 1..Len(intents)
    BY <1>5, <2>1 DEF Planned, Serves, TypeOK
  <2>21. TypeOK' /\ NamesOK' /\ SeqsOK' /\ StepOK /\ StoreStep
    <3>1. fresh.intent \in 0..Len(intents)
      BY <2>1, <2>3, <2>20 DEF TypeOK
    <3>2. Serving
      BY <1>4 DEF Serving, server
    <3>3. Stores(fresh)
      <4>1. \A j \in DOMAIN store \ {id} : Request(j, store'[j]) \in Carried
        BY <2>15 DEF Carried
      <4>2. fresh \notin NamedIds /\ \E j \in DOMAIN store : store'[fresh].seq = store[j].seq
        BY <2>2, <2>3, <2>15
      <4> QED BY <2>15, <4>1, <4>2 DEF Stores
    <3>4. stray' \subseteq Carried
      BY <1>4 DEF Carried
    <3>5. \A v \in Workers : workers'[v] = workers[v] \/ Moves(workers'[v])
      BY <2>15, <2>17, <2>19 DEF Moves
    <3>6. replica.acked \subseteq NamedIds /\ replica \in [snapshot : Snapshots, acked : SUBSET Ids]
      BY <2>1 DEF NamedIds, TypeOK
    <3>7. replica' \in [snapshot : Snapshots, acked : SUBSET NamedIds]
      BY <1>4, <3>6
    <3>8. IntentsOnward
      BY <1>4 DEF IntentsOnward
    <3> QED BY <1>4, <2>1, <2>3, <2>15, <2>19, <3>1, <3>2, <3>3, <3>4, <3>5, <3>7, <3>8, SystemMoves
               DEF TypeOK
  <2>22. WorkerOK(y)'
    <3>1. Planned(id.intent, x.entry.op, x.entry.base)'
      BY <1>5, <2>21, Keeps
    <3> QED BY <2>3, <2>17, <3>1 DEF WorkerOK
  <2>23. \A v \in Workers : workers'[v] = workers[v] \/ WorkerOK(workers[v])'
    BY <2>19, <2>22
  <2>24. EntryOK(fresh, f)
    <3>1. Serves(id.intent, o)
      BY <1>5, <2>7, <2>8, <2>9 DEF Planned, Serves
    <3>2. intents[id.intent].at <= s.opSeq
      <4>1. intents[id.intent].at <= x.entry.base.opSeq
        BY <1>5 DEF Planned
      <4>2. intents[id.intent].at \in Nat
        BY <2>1, <2>20, EditFacts
      <4> QED BY <2>5, <2>6, <4>1, <4>2
    <3> QED BY <2>3, <2>6, <2>8, <2>15, <3>1, <3>2 DEF EntryOK, Planned
  <2>25. \A j \in DOMAIN store' :
           EntryOK(j, store'[j]) /\ (j \in NamedIds \/ store'[j].state # "conflict")
    <3>1. \A j \in DOMAIN store : EntryOK(j, store[j]) /\ j \in NamedIds
      BY DEF IInv, StoreOK, NamedIds
    <3> QED BY <2>15, <2>24, <3>1
  <2>26. \A j \in DOMAIN store \ DOMAIN store' :
           \E k \in DOMAIN store' \ DOMAIN store : k.intent = j.intent
    BY <2>3, <2>14, <2>15
  <2> QED BY <1>4, <2>21, <2>23, <2>25, <2>26, SystemSteps
<1> QED BY <1>6, <1>7
-----------------------------------------------------------------------------
(* The user *)

\* An edit, whether it can be applied or not.
LEMMA EditSteps ==
  ASSUME IInv, NEW t \in Tabs, Edit(t) \/ EditInVain(t)
  PROVE  IInv' /\ StepOK /\ StoreStep
<1>1. TypeOK /\ views \in [Tabs -> Views]
  BY DEF IInv, TypeOK
<1>2. PICK v : v = views[t]
  OBVIOUS
<1>3. v \in Views /\ v.snapshot \in Snapshots
  BY <1>1, <1>2 DEF Views
<1>4. ASSUME NEW d \in Docs, NEW f \in Fields, NEW to \in Vals, NEW op, op = EditOf(t, d, f, to)
      PROVE  op \in Ops /\ op.from = Value(v.snapshot, op)
  <2>1. v.snapshot.docs[d].content[f] \in AllVals
    BY <1>3 DEF Snapshots
  <2>2. PICK from \in AllVals : from = v.snapshot.docs[d].content[f]
    BY <2>1
  <2>3. op = [doc |-> d, field |-> f, from |-> from, to |-> to]
    BY <1>2, <1>4, <2>2 DEF EditOf
  <2> QED BY <2>2, <2>3 DEF Ops, Value, AllVals
<1>5. CASE Edit(t)
  <2>1. PICK d \in Docs, f \in Fields, to \in Vals :
          /\ Queue(t, EditOf(t, d, f, to), "open")
          /\ views' = [views EXCEPT ![t].snapshot = Applied(views[t].snapshot, EditOf(t, d, f, to))]
    BY <1>5 DEF Edit
  <2>2. PICK op \in Ops : op = EditOf(t, d, f, to) /\ op.from = Value(v.snapshot, op)
    BY <1>4
  <2>3. PICK s \in Snapshots :
          /\ s = Applied(v.snapshot, op) /\ s.opSeq = v.snapshot.opSeq
          /\ \A c \in Docs : s.docs[c].rev = v.snapshot.docs[c].rev
    BY <1>3, AppliedFacts
  <2>4. PICK x : x = [v EXCEPT !.snapshot = s]
    OBVIOUS
  <2>5. x \in Views /\ x.snapshot = s /\ x.review = v.review /\ x.doomed = v.doomed
    BY <1>3, <2>4 DEF Views
  <2>6. views' = [views EXCEPT ![t] = x]
    BY <1>1, <1>2, <2>1, <2>2, <2>3, <2>4
  <2>7. /\ views' \in [Tabs -> Views] /\ views'[t] = x
        /\ \A u \in Tabs : u # t => views'[u] = views[u]
    BY <1>1, <2>5, <2>6
  <2>8. UNCHANGED <<server, stray, replica, workers>>
    BY <1>5 DEF Edit
  <2> QED BY <1>2, <2>1, <2>2, <2>3, <2>5, <2>7, <2>8, QueueSteps
<1>6. CASE EditInVain(t)
  <2>1. PICK d \in Docs, f \in Fields, to \in Vals : Queue(t, EditOf(t, d, f, to), "doomed")
    BY <1>6 DEF EditInVain
  <2>2. PICK op \in Ops : op = EditOf(t, d, f, to) /\ op.from = Value(v.snapshot, op)
    BY <1>4
  <2>3. PICK id : id = Pending(Len(intents) + 1)
    OBVIOUS
  <2>4. id \in Ids
    BY <2>3, NewEditFacts DEF IInv
  <2>5. PICK x : x = [v EXCEPT !.doomed = id]
    OBVIOUS
  <2>6. x \in Views /\ x.snapshot = v.snapshot /\ x.review = v.review /\ x.doomed = id
    BY <1>3, <2>4, <2>5 DEF Views
  <2>7. views' = [views EXCEPT ![t] = x]
    BY <1>1, <1>2, <1>6, <2>3, <2>5 DEF EditInVain
  <2>8. /\ views' \in [Tabs -> Views] /\ views'[t] = x
        /\ \A u \in Tabs : u # t => views'[u] = views[u]
    BY <1>1, <2>6, <2>7
  <2>9. UNCHANGED <<server, stray, replica, workers>>
    BY <1>6 DEF EditInVain
  <2> QED BY <1>2, <2>1, <2>2, <2>3, <2>6, <2>8, <2>9, QueueSteps
<1> QED BY <1>5, <1>6

\* Types and names after a step of the user that makes no new edit.
LEMMA UserMoves ==
  ASSUME IInv, NEW x \in Ids, x.intent \in 0..Len(intents), Stores(x),
         UNCHANGED <<history, log, stray, workers>>,
         store' \in [DOMAIN store' -> Entries],
         replica'.acked = replica.acked, replica'.snapshot \in Snapshots,
         replica' = [snapshot |-> replica'.snapshot, acked |-> replica'.acked],
         views' \in [Tabs -> Views],
         intents' \in Seq(Edits), Len(intents') = Len(intents), IntentsOnward
  PROVE  TypeOK' /\ NamesOK' /\ SeqsOK' /\ StepOK /\ StoreStep
<1>1. TypeOK
  BY DEF IInv
<1>2. Serving
  BY DEF Serving, server
<1>3. stray' \subseteq Carried
  BY DEF Carried
<1>4. replica.acked \subseteq NamedIds
  BY DEF NamedIds
<1>5. replica' \in [snapshot : Snapshots, acked : SUBSET NamedIds]
  BY <1>4
<1>6. workers' \in [Workers -> Executions]
      /\ \A w \in Workers : workers'[w] = workers[w] \/ Moves(workers'[w])
  BY <1>1 DEF TypeOK
<1> QED BY <1>2, <1>3, <1>5, <1>6, SystemMoves

\* The invariant after such a step.
LEMMA UserSteps ==
  ASSUME IInv, TypeOK', NamesOK', SeqsOK', StepOK, StoreStep, UNCHANGED workers,
         \A id \in DOMAIN store' : \A e : e = store'[id] =>
           (id \in DOMAIN store /\ e = store[id]) \/ EntryOK(id, e)',
         \A t \in Tabs : \A v : v = views'[t] => v = views[t] \/ ViewOK(v)',
         \A i \in DOMAIN intents' : i \in DOMAIN intents,
         \A i \in DOMAIN intents : intents[i].status \in {"rejected", "discarded"} =>
                                     intents'[i].status \in {"rejected", "discarded"},
         \A id \in DOMAIN store \ DOMAIN store' :
           \/ \E j \in DOMAIN store' \ DOMAIN store : j.intent = id.intent
           \/ intents'[id.intent].status \in {"rejected", "discarded"},
         replica'.acked = replica.acked,
         \A s : s = replica'.snapshot => Dated(s)' /\ replica.snapshot.opSeq <= s.opSeq
  PROVE  IInv'
<1>1. TypeOK
  BY DEF IInv
<1>2. WorkersOK'
  <2>1. \A w \in Workers : \A y : y = workers[w] => WorkerOK(y)'
    BY <1>1, WorkersKept, WorkerFacts DEF IInv, WorkersOK, TypeOK
  <2> QED BY <2>1 DEF WorkersOK
<1>3. StoreOK'
  <2>1. \A id \in DOMAIN store : \A e : e = store[id] => EntryOK(id, e)'
    BY EntriesKept DEF IInv, StoreOK, NamedIds
  <2>2. \A id \in DOMAIN store' : \A e : e = store'[id] => EntryOK(id, e)'
    BY <2>1
  <2> QED BY <2>2 DEF StoreOK
<1>4. ViewsOK'
  <2>1. \A t \in Tabs : \A v : v = views[t] => ViewOK(v)'
    BY ViewsKept
  <2>2. \A t \in Tabs : \A v : v = views'[t] => ViewOK(v)'
    BY <2>1
  <2> QED BY <2>2 DEF ViewsOK
<1>5. ReplicaOK'
  <2>1. PICK s : s = replica'.snapshot
    OBVIOUS
  <2>2. Dated(s)' /\ replica.snapshot.opSeq <= s.opSeq
    BY <2>1
  <2>3. s.opSeq \in Nat
    BY <2>2, SnapshotFacts DEF Dated
  <2>4. \A id \in replica.acked : \A k : k = s.opSeq =>
          id.intent \in DOMAIN intents' /\ Done(id.intent)' /\ Covered(id, k)'
    BY <2>2, <2>3, AckedKept
  <2> QED BY <2>1, <2>2, <2>4 DEF ReplicaOK
<1>6. NothingForgotten'
  <2>1. ASSUME NEW id \in DOMAIN store \ replica.acked,
               ~(id \in DOMAIN store' \ replica'.acked)
        PROVE  IsPending(id.intent)' \/ intents'[id.intent].status \in {"rejected", "discarded"}
    <3>1. ASSUME NEW j \in DOMAIN store' \ DOMAIN store, j.intent = id.intent
          PROVE  IsPending(id.intent)'
      <4>1. j \notin NamedIds
        BY <3>1 DEF StoreStep
      <4>2. j \notin replica'.acked
        BY <4>1 DEF NamedIds
      <4> QED BY <3>1, <4>2 DEF IsPending
    <3> QED BY <2>1, <3>1
  <2> QED BY <2>1, ForgottenStep
<1> QED BY <1>2, <1>3, <1>4, <1>5, <1>6, Assemble

\* An edit changes: it is given up, or its author has seen more.
LEMMA IntentsStep ==
  ASSUME TypeOK, NEW i \in DOMAIN intents, NEW x \in Edits,
         x.op = intents[i].op, x.at = intents[i].at, intents[i].seen \subseteq x.seen,
         intents' = [intents EXCEPT ![i] = x]
  PROVE  /\ intents' \in Seq(Edits) /\ Len(intents') = Len(intents) /\ IntentsOnward
         /\ DOMAIN intents' = DOMAIN intents /\ intents'[i] = x
         /\ \A j \in DOMAIN intents : j # i => intents'[j] = intents[j]
<1>1. intents \in Seq(Edits)
  BY DEF TypeOK
<1>2. intents' \in Seq(Edits) /\ Len(intents') = Len(intents)
      /\ DOMAIN intents' = DOMAIN intents /\ intents'[i] = x
      /\ \A j \in DOMAIN intents : j # i => intents'[j] = intents[j]
  BY <1>1
<1> QED BY <1>2 DEF IntentsOnward

\* An entry is taken out of the outbox.
LEMMA RemovedFacts ==
  ASSUME TypeOK, NEW id, store' = Removed(store, id)
  PROVE  /\ DOMAIN store' = DOMAIN store \ {id} /\ store' \in [DOMAIN store' -> Entries]
         /\ \A j \in DOMAIN store' : store'[j] = store[j]
         /\ Stores(NoId)
<1>1. DOMAIN store' = DOMAIN store \ {id} /\ store' \in [DOMAIN store' -> Entries]
      /\ \A j \in DOMAIN store' : store'[j] = store[j]
  BY DEF TypeOK, Removed
<1> QED BY <1>1 DEF Stores, Carried

\* The tab t shows something else.
LEMMA ViewStep ==
  ASSUME TypeOK, NEW t \in Tabs, NEW x \in Views, views' = [views EXCEPT ![t] = x]
  PROVE  /\ views' \in [Tabs -> Views]
         /\ \A u \in Tabs : views'[u] = views[u] \/ views'[u] = x
BY DEF TypeOK

\* An edit that failed is taken back.
LEMMA RejectEditStep ==
  ASSUME IInv, NEW t \in Tabs, RejectEdit(t)
  PROVE  IInv' /\ StepOK /\ StoreStep
<1>1. TypeOK /\ UNCHANGED <<history, log, stray, replica, workers>>
  BY DEF IInv, RejectEdit, server
<1>2. PICK v : v = views[t]
  OBVIOUS
<1>3. PICK id : id = v.doomed
  OBVIOUS
<1>4. v \in Views /\ ViewOK(v) /\ id # NoId /\ id \in Ids
  BY <1>1, <1>2, <1>3 DEF IInv, ViewsOK, RejectEdit, TypeOK, Views
<1>5. PICK i \in DOMAIN intents : i = id.intent
  BY <1>3, <1>4 DEF ViewOK
<1>6. PICK x : x = [intents[i] EXCEPT !.status = "rejected"]
  OBVIOUS
<1>7. x \in Edits /\ x.op = intents[i].op /\ x.at = intents[i].at /\ x.seen = intents[i].seen
      /\ x.status = "rejected"
  BY <1>1, <1>6, EditFacts DEF Edits
<1>8. intents' = [intents EXCEPT ![i] = x]
  BY <1>1, <1>2, <1>3, <1>5, <1>6 DEF RejectEdit, TypeOK
<1>9. /\ intents' \in Seq(Edits) /\ Len(intents') = Len(intents) /\ IntentsOnward
      /\ DOMAIN intents' = DOMAIN intents /\ intents'[i] = x
      /\ \A j \in DOMAIN intents : j # i => intents'[j] = intents[j]
  BY <1>1, <1>7, <1>8, IntentsStep
<1>10. store' = Removed(store, id)
  BY <1>2, <1>3 DEF RejectEdit
<1>11. /\ DOMAIN store' = DOMAIN store \ {id} /\ store' \in [DOMAIN store' -> Entries]
       /\ \A j \in DOMAIN store' : store'[j] = store[j]
       /\ Stores(NoId)
  BY <1>1, <1>10, RemovedFacts
<1>12. PICK y : y = [v EXCEPT !.doomed = NoId]
  OBVIOUS
<1>13. NoId \in Ids /\ NoId.intent \in 0..Len(intents)
  BY <1>1 DEF NoId, Ids, TypeOK
<1>14. y \in Views /\ y.snapshot = v.snapshot /\ y.review = v.review /\ y.doomed = NoId
  BY <1>4, <1>12, <1>13 DEF Views
<1>15. views' = [views EXCEPT ![t] = y]
  BY <1>1, <1>2, <1>12 DEF RejectEdit, TypeOK
<1>16. views' \in [Tabs -> Views] /\ \A u \in Tabs : views'[u] = views[u] \/ views'[u] = y
  BY <1>1, <1>14, <1>15, ViewStep
<1>17. /\ replica \in [snapshot : Snapshots, acked : SUBSET Ids]
       /\ Dated(replica.snapshot) /\ replica.snapshot.opSeq \in Nat
  BY <1>1, SnapshotFacts DEF TypeOK, IInv, ReplicaOK, Dated
<1>18. TypeOK' /\ NamesOK' /\ SeqsOK' /\ StepOK /\ StoreStep
  <2>1. replica' = [snapshot |-> replica'.snapshot, acked |-> replica'.acked]
        /\ replica'.snapshot \in Snapshots /\ replica'.acked = replica.acked
    BY <1>1, <1>17
  <2> QED BY <1>1, <1>9, <1>11, <1>13, <1>16, <2>1, UserMoves
<1>19. ViewOK(y)'
  <2>1. ViewOK(v)'
    BY <1>2, <1>18, ViewsKept
  <2> QED BY <2>1, <1>14 DEF ViewOK
<1>20. \A s : s = replica'.snapshot => Dated(s)' /\ replica.snapshot.opSeq <= s.opSeq
  BY <1>1, <1>17, <1>18, Keeps
<1>21. \A j \in DOMAIN store' : \A e : e = store'[j] => j \in DOMAIN store /\ e = store[j]
  BY <1>11
<1>22. \A u \in Tabs : \A z : z = views'[u] => z = views[u] \/ ViewOK(z)'
  BY <1>16, <1>19
<1>23. \A j \in DOMAIN store \ DOMAIN store' :
         intents'[j.intent].status \in {"rejected", "discarded"}
  BY <1>5, <1>7, <1>9, <1>11
<1>24. \A j \in DOMAIN intents : intents[j].status \in {"rejected", "discarded"} =>
                                   intents'[j].status \in {"rejected", "discarded"}
  BY <1>7, <1>9
<1> QED BY <1>1, <1>9, <1>18, <1>20, <1>21, <1>22, <1>23, <1>24, UserSteps

\* Nothing but what one tab shows changes, and what it shows is right.
LEMMA ShowsStep ==
  ASSUME IInv, NEW t \in Tabs, NEW y \in Views, ViewOK(y), views' = [views EXCEPT ![t] = y],
         UNCHANGED <<history, log, stray, store, replica, workers, intents>>
  PROVE  IInv' /\ StepOK /\ StoreStep
<1>1. TypeOK
  BY DEF IInv
<1>2. views' \in [Tabs -> Views] /\ \A u \in Tabs : views'[u] = views[u] \/ views'[u] = y
  BY <1>1, ViewStep
<1>3. /\ replica \in [snapshot : Snapshots, acked : SUBSET Ids]
      /\ Dated(replica.snapshot) /\ replica.snapshot.opSeq \in Nat
  BY <1>1, SnapshotFacts DEF TypeOK, IInv, ReplicaOK, Dated
<1>4. TypeOK' /\ NamesOK' /\ SeqsOK' /\ StepOK /\ StoreStep
  <2>1. replica' = [snapshot |-> replica'.snapshot, acked |-> replica'.acked]
        /\ replica'.snapshot \in Snapshots /\ replica'.acked = replica.acked
    BY <1>3
  <2>2. NoId \in Ids /\ NoId.intent \in 0..Len(intents)
    BY <1>1 DEF NoId, Ids, TypeOK
  <2>3. IntentsOnward /\ Stores(NoId)
    BY DEF IntentsOnward, Stores, Carried
  <2>4. store' \in [DOMAIN store' -> Entries] /\ intents' \in Seq(Edits)
        /\ Len(intents') = Len(intents)
    BY <1>1 DEF TypeOK
  <2> QED BY <1>2, <2>1, <2>2, <2>3, <2>4, UserMoves
<1>5. ViewOK(y)'
  <2>1. Serves(y.review.id.intent, y.review.op) =>
          /\ Serves(y.review.id.intent, y.review.op)'
          /\ intents'[y.review.id.intent].at = intents[y.review.id.intent].at
    BY <1>4, Keeps
  <2>2. Dated(y.snapshot)'
    BY <1>4, Keeps DEF ViewOK
  <2> QED BY <2>1, <2>2 DEF ViewOK
<1>6. \A s : s = replica'.snapshot => Dated(s)' /\ replica.snapshot.opSeq <= s.opSeq
  BY <1>3, <1>4, Keeps
<1>7. \A j \in DOMAIN store' : \A e : e = store'[j] => j \in DOMAIN store /\ e = store[j]
  OBVIOUS
<1>8. \A u \in Tabs : \A z : z = views'[u] => z = views[u] \/ ViewOK(z)'
  BY <1>2, <1>5
<1> QED BY <1>4, <1>6, <1>7, <1>8, UserSteps

\* A tab opens the conflict at the head.
LEMMA OpenReviewStep ==
  ASSUME IInv, NEW t \in Tabs, OpenReview(t)
  PROVE  IInv' /\ StepOK /\ StoreStep
<1>1. TypeOK /\ UNCHANGED <<history, log, stray, store, replica, workers, intents>>
  BY DEF IInv, OpenReview, server, shared
<1>2. PICK id \in DOMAIN store :
        /\ IsBlocked(id)
        /\ views' = [views EXCEPT ![t].review =
             [id |-> id, op |-> store[id].op, session |-> store[id].session]]
  BY DEF OpenReview
<1>3. PICK v : v = views[t]
  OBVIOUS
<1>4. v \in Views /\ ViewOK(v)
  BY <1>1, <1>3 DEF IInv, ViewsOK, TypeOK
<1>5. PICK e \in Entries : e = store[id]
  BY <1>1 DEF TypeOK
<1>6. EntryOK(id, e) /\ e.state = "conflict" /\ id \in Ids
  BY <1>1, <1>2, <1>5 DEF IInv, StoreOK, IsBlocked, TypeOK
<1>7. PICK r : r = [id |-> id, op |-> e.op, session |-> e.session]
  OBVIOUS
<1>8. /\ r \in Reviews /\ r.id = id /\ r.op = e.op /\ r.session = e.session
  BY <1>5, <1>6, <1>7 DEF Reviews, Entries
<1>9. PICK y : y = [v EXCEPT !.review = r]
  OBVIOUS
<1>10. y \in Views /\ y.snapshot = v.snapshot /\ y.doomed = v.doomed /\ y.review = r
  BY <1>4, <1>8, <1>9 DEF Views
<1>11. /\ Serves(id.intent, e.op) /\ e.session \in DOMAIN history
       /\ intents[id.intent].at <= e.session
  <2>1. /\ Serves(id.intent, e.op) /\ e.session \in DOMAIN history
        /\ intents[id.intent].at <= e.base.opSeq /\ e.base.opSeq < e.session
    BY <1>6 DEF EntryOK, Planned
  <2>2. intents[id.intent].at \in Nat /\ e.base.opSeq \in Nat /\ e.session \in Nat
    BY <1>1, <1>5, <2>1, EditFacts, SnapshotFacts DEF Serves, Entries
  <2> QED BY <2>1, <2>2
<1>12. ViewOK(y)
  BY <1>4, <1>8, <1>10, <1>11 DEF ViewOK
<1>13. views' = [views EXCEPT ![t] = y]
  BY <1>1, <1>2, <1>3, <1>5, <1>7, <1>9 DEF TypeOK
<1> QED BY <1>1, <1>10, <1>12, <1>13, ShowsStep

\* What a tab shows when it has closed its review.
LEMMA CloseReviewFacts ==
  ASSUME TypeOK, NEW t \in Tabs, ViewOK(views[t]), CloseReview(t)
  PROVE  \E y \in Views : /\ y.snapshot = views[t].snapshot /\ y.doomed = views[t].doomed
                          /\ y.review = NoReview /\ ViewOK(y)
                          /\ views' = [views EXCEPT ![t] = y]
<1>1. PICK v \in Views : v = views[t]
  BY DEF TypeOK
<1>2. PICK y : y = [v EXCEPT !.review = NoReview]
  OBVIOUS
<1>3. y \in Views /\ y.snapshot = v.snapshot /\ y.doomed = v.doomed /\ y.review = NoReview
  BY <1>2 DEF Views, Reviews
<1>4. views' = [views EXCEPT ![t] = y]
  BY <1>1, <1>2 DEF CloseReview, TypeOK
<1>5. ViewOK(y)
  BY <1>1, <1>3 DEF ViewOK
<1> QED BY <1>1, <1>3, <1>4, <1>5

\* The remote value is kept.
LEMMA KeepRemoteStep ==
  ASSUME IInv, NEW t \in Tabs, KeepRemote(t)
  PROVE  IInv' /\ StepOK /\ StoreStep
<1>1. TypeOK /\ CloseReview(t) /\ UNCHANGED <<history, log, stray, replica, workers>>
  BY DEF IInv, KeepRemote, server
<1>2. PICK v : v = views[t]
  OBVIOUS
<1>3. v \in Views /\ ViewOK(v)
  BY <1>1, <1>2 DEF IInv, ViewsOK, TypeOK
<1>4. PICK y \in Views : /\ y.snapshot = v.snapshot /\ y.doomed = v.doomed
                         /\ y.review = NoReview /\ ViewOK(y)
                         /\ views' = [views EXCEPT ![t] = y]
  BY <1>1, <1>2, <1>3, CloseReviewFacts
<1>5. CASE UNCHANGED <<store, intents>>
  BY <1>1, <1>4, <1>5, ShowsStep
<1>6. PICK id : id = v.review.id
  OBVIOUS
<1>7. CASE /\ IsBlocked(id) /\ store' = Removed(store, id)
           /\ intents' = [intents EXCEPT ![id.intent].status =
                            IF @ = "rejected" THEN @ ELSE "discarded"]
  <2>1. PICK i \in DOMAIN intents : i = id.intent
    BY <1>7 DEF IsBlocked, IInv, StoreOK, EntryOK, Planned, Serves
  <2>a. PICK st \in {"rejected", "discarded"} :
          st = IF intents[i].status = "rejected" THEN intents[i].status ELSE "discarded"
    OBVIOUS
  <2>2. PICK x : x = [intents[i] EXCEPT !.status = st]
    OBVIOUS
  <2>3. x \in Edits /\ x.op = intents[i].op /\ x.at = intents[i].at /\ x.seen = intents[i].seen
        /\ x.status \in {"rejected", "discarded"}
    BY <1>1, <2>2, EditFacts DEF Edits
  <2>4. intents' = [intents EXCEPT ![i] = x]
    BY <1>1, <1>7, <2>1, <2>2, <2>a DEF TypeOK
  <2>5. /\ intents' \in Seq(Edits) /\ Len(intents') = Len(intents) /\ IntentsOnward
        /\ DOMAIN intents' = DOMAIN intents /\ intents'[i] = x
        /\ \A j \in DOMAIN intents : j # i => intents'[j] = intents[j]
    BY <1>1, <2>3, <2>4, IntentsStep
  <2>6. /\ DOMAIN store' = DOMAIN store \ {id} /\ store' \in [DOMAIN store' -> Entries]
        /\ \A j \in DOMAIN store' : store'[j] = store[j]
        /\ Stores(NoId)
    BY <1>1, <1>7, RemovedFacts
  <2>7. views' \in [Tabs -> Views] /\ \A u \in Tabs : views'[u] = views[u] \/ views'[u] = y
    BY <1>1, <1>4, ViewStep
  <2>8. /\ replica \in [snapshot : Snapshots, acked : SUBSET Ids]
        /\ Dated(replica.snapshot) /\ replica.snapshot.opSeq \in Nat
    BY <1>1, SnapshotFacts DEF TypeOK, IInv, ReplicaOK, Dated
  <2>9. TypeOK' /\ NamesOK' /\ SeqsOK' /\ StepOK /\ StoreStep
    <3>1. replica' = [snapshot |-> replica'.snapshot, acked |-> replica'.acked]
          /\ replica'.snapshot \in Snapshots /\ replica'.acked = replica.acked
      BY <1>1, <2>8
    <3>2. NoId \in Ids /\ NoId.intent \in 0..Len(intents)
      BY <1>1 DEF NoId, Ids, TypeOK
    <3> QED BY <1>1, <2>5, <2>6, <2>7, <3>1, <3>2, UserMoves
  <2>10. ViewOK(y)'
    <3>1. ViewOK(v)'
      BY <1>2, <2>9, ViewsKept
    <3> QED BY <3>1, <1>4 DEF ViewOK
  <2>11. \A s : s = replica'.snapshot => Dated(s)' /\ replica.snapshot.opSeq <= s.opSeq
    BY <1>1, <2>8, <2>9, Keeps
  <2>12. \A j \in DOMAIN store' : \A e : e = store'[j] => j \in DOMAIN store /\ e = store[j]
    BY <2>6
  <2>13. \A u \in Tabs : \A z : z = views'[u] => z = views[u] \/ ViewOK(z)'
    BY <2>7, <2>10
  <2>14. \A j \in DOMAIN store \ DOMAIN store' :
           intents'[j.intent].status \in {"rejected", "discarded"}
    BY <2>1, <2>3, <2>5, <2>6
  <2>15. \A j \in DOMAIN intents : intents[j].status \in {"rejected", "discarded"} =>
                                     intents'[j].status \in {"rejected", "discarded"}
    BY <2>3, <2>5
  <2> QED BY <1>1, <2>5, <2>9, <2>11, <2>12, <2>13, <2>14, <2>15, UserSteps
<1> QED BY <1>2, <1>5, <1>6, <1>7 DEF KeepRemote

\* The outbox when the local value is kept.
LEMMA KeptFacts ==
  ASSUME IInv, NEW id \in Ids, NEW fresh, fresh \notin NamedIds, NEW e \in Entries,
         store' = IF IsBlocked(id) THEN Replaced(store, id, fresh, e)
                  ELSE Enqueued(store, fresh, e)
  PROVE  \E f : /\ f \in Entries /\ f.op = e.op /\ f.base = e.base /\ f.state = e.state
                /\ fresh \in DOMAIN store' /\ store'[fresh] = f
                /\ \/ \E j \in DOMAIN store : f.seq = store[j].seq
                   \/ f.seq = LastSeq(store) + 1
                /\ \A j \in DOMAIN store' \ {fresh} :
                     j \in DOMAIN store /\ store'[j] = store[j]
                /\ DOMAIN store \ DOMAIN store' \subseteq {id}
                /\ store' \in [DOMAIN store' -> Entries]
<1>1. SeqsOK /\ \A j \in DOMAIN store : store[j] \in Entries
  BY DEF IInv, TypeOK
<1>2. fresh \notin DOMAIN store
  BY DEF NamedIds
<1>3. CASE IsBlocked(id)
  <2>1. store[id] \in Entries /\ id \in DOMAIN store /\ store' = Replaced(store, id, fresh, e)
    BY <1>1, <1>3 DEF IsBlocked
  <2>2. \E f : /\ Placed(e, store[id].seq, f)
               /\ Replaced(store, id, fresh, e) = InPlaceOf(id, fresh, f)
    BY ONLY <2>1, e \in Entries, ReplacedFacts
  <2>3. PICK f : Placed(e, store[id].seq, f) /\ store' = InPlaceOf(id, fresh, f)
    BY <2>1, <2>2
  <2>4. /\ DOMAIN store' = (DOMAIN store \ {id}) \cup {fresh} /\ store'[fresh] = f
        /\ \A j \in DOMAIN store \ {id} : store'[j] = store[j]
        /\ f \in Entries
        /\ store' \in [DOMAIN store' -> Entries]
    BY ONLY <1>1, <1>2, <2>3 DEF Placed, InPlaceOf
  <2>5. f.op = e.op /\ f.base = e.base /\ f.state = e.state /\ f.seq = store[id].seq
    BY <2>3 DEF Placed
  <2> QED BY ONLY <2>1, <2>4, <2>5
<1>4. CASE ~IsBlocked(id)
  <2>1. store' = Enqueued(store, fresh, e)
    BY <1>4
  <2>2. \E f : /\ Placed(e, LastSeq(store) + 1, f)
               /\ Enqueued(store, fresh, e) =
                    [i \in DOMAIN store \cup {fresh} |-> IF i = fresh THEN f ELSE store[i]]
    BY ONLY <1>1, e \in Entries, EnqueuedFacts
  <2>3. PICK f : /\ Placed(e, LastSeq(store) + 1, f)
                 /\ store' = [i \in DOMAIN store \cup {fresh} |-> IF i = fresh THEN f ELSE store[i]]
    BY <2>1, <2>2
  <2>4. /\ DOMAIN store' = DOMAIN store \cup {fresh} /\ store'[fresh] = f
        /\ \A j \in DOMAIN store : store'[j] = store[j]
        /\ f \in Entries
        /\ store' \in [DOMAIN store' -> Entries]
    BY ONLY <1>1, <1>2, <2>3 DEF Placed
  <2>5. f.op = e.op /\ f.base = e.base /\ f.state = e.state /\ f.seq = LastSeq(store) + 1
    BY <2>3 DEF Placed
  <2> QED BY ONLY <2>4, <2>5
<1> QED BY <1>3, <1>4

\* The local value is kept: what replaces the edit is planned on what was reviewed,
\* and its author has now seen what it overwrites.
LEMMA KeepLocalStep ==
  ASSUME IInv, NEW t \in Tabs, KeepLocal(t)
  PROVE  IInv' /\ StepOK /\ StoreStep
<1>1. TypeOK /\ NamesOK /\ CloseReview(t) /\ UNCHANGED <<history, log, stray, replica, workers>>
  BY DEF IInv, KeepLocal, server
<1>2. PICK v : v = views[t]
  OBVIOUS
<1>3. v \in Views /\ ViewOK(v) /\ v.review # NoReview
  BY <1>1, <1>2 DEF IInv, ViewsOK, TypeOK, KeepLocal, InReview
<1>4. PICK r : r = v.review
  OBVIOUS
<1>5. r \in [id : Ids, op : Ops, session : Nat]
  BY <1>3, <1>4 DEF Views, Reviews
<1>6. PICK id \in Ids : id = r.id
  BY <1>5
<1>7. /\ Serves(id.intent, r.op) /\ r.session \in DOMAIN history
      /\ intents[id.intent].at <= r.session /\ r.op \in Ops
  BY <1>3, <1>4, <1>5, <1>6 DEF ViewOK
<1>8. PICK s : s = history[r.session]
  OBVIOUS
<1>9. s \in Snapshots /\ Dated(s) /\ s.opSeq = r.session
  BY <1>1, <1>7, <1>8, ServerFacts DEF Dated, HistoryOK, IInv
<1>10. PICK op : op = r.op
  OBVIOUS
<1>11. PICK o \in Ops : /\ o.doc = op.doc /\ o.field = op.field /\ o.to = op.to
                        /\ o.from = Value(s, op) /\ Value(s, o) = o.from
                        /\ Resolved(op, s) = NewEntry(o, s)
  BY <1>7, <1>9, <1>10, ResolvedFacts
<1>12. PICK e : e = NewEntry(o, s)
  OBVIOUS
<1>13. e \in Entries /\ e.op = o /\ e.base = s /\ e.state = "queued"
  BY <1>9, <1>12, NewEntryType
<1>14. PICK fresh : fresh = Fresh(id)
  OBVIOUS
<1>15. fresh \in Ids /\ fresh.intent = id.intent /\ fresh \notin NamedIds
  BY <1>1, <1>14, FreshFacts
<1>16. PICK i \in DOMAIN intents : i = id.intent
  BY <1>7 DEF Serves
<1>17. store' = IF IsBlocked(id) THEN Replaced(store, id, fresh, e) ELSE Enqueued(store, fresh, e)
  BY <1>2, <1>4, <1>6, <1>8, <1>10, <1>11, <1>12, <1>14 DEF KeepLocal, ReviewedSnapshot
<1>18. PICK f : /\ f \in Entries /\ f.op = e.op /\ f.base = e.base /\ f.state = e.state
                /\ fresh \in DOMAIN store' /\ store'[fresh] = f
                /\ \/ \E j \in DOMAIN store : f.seq = store[j].seq
                   \/ f.seq = LastSeq(store) + 1
                /\ \A j \in DOMAIN store' \ {fresh} :
                     j \in DOMAIN store /\ store'[j] = store[j]
                /\ DOMAIN store \ DOMAIN store' \subseteq {id}
                /\ store' \in [DOMAIN store' -> Entries]
  BY <1>13, <1>15, <1>17, KeptFacts
<1>19. PICK x : x = [intents[i] EXCEPT !.seen = intents[i].seen \cup {o.from}]
  OBVIOUS
<1>20. x \in Edits /\ x.op = intents[i].op /\ x.at = intents[i].at
       /\ x.status = intents[i].status /\ x.seen = intents[i].seen \cup {o.from}
  BY <1>1, <1>19, EditFacts DEF Edits, Ops
<1>21. intents' = [intents EXCEPT ![i] = x]
  <2>1. intents' = [intents EXCEPT ![i].seen = intents[i].seen \cup {o.from}]
    BY <1>1, <1>2, <1>4, <1>6, <1>8, <1>10, <1>11, <1>16 DEF KeepLocal, TypeOK
  <2> QED BY <1>1, <1>19, <2>1 DEF TypeOK
<1>22. /\ intents' \in Seq(Edits) /\ Len(intents') = Len(intents) /\ IntentsOnward
       /\ DOMAIN intents' = DOMAIN intents /\ intents'[i] = x
       /\ \A j \in DOMAIN intents : j # i => intents'[j] = intents[j]
  BY <1>1, <1>20, <1>21, IntentsStep
<1>23. PICK y \in Views : /\ y.snapshot = v.snapshot /\ y.doomed = v.doomed
                          /\ y.review = NoReview /\ ViewOK(y)
                          /\ views' = [views EXCEPT ![t] = y]
  BY <1>1, <1>2, <1>3, CloseReviewFacts
<1>24. views' \in [Tabs -> Views] /\ \A u \in Tabs : views'[u] = views[u] \/ views'[u] = y
  BY <1>1, <1>23, ViewStep
<1>25. /\ replica \in [snapshot : Snapshots, acked : SUBSET Ids]
       /\ Dated(replica.snapshot) /\ replica.snapshot.opSeq \in Nat
  BY <1>1, SnapshotFacts DEF TypeOK, IInv, ReplicaOK, Dated
<1>26. TypeOK' /\ NamesOK' /\ SeqsOK' /\ StepOK /\ StoreStep
  <2>1. replica' = [snapshot |-> replica'.snapshot, acked |-> replica'.acked]
        /\ replica'.snapshot \in Snapshots /\ replica'.acked = replica.acked
    BY <1>1, <1>25
  <2>2. fresh.intent \in 0..Len(intents)
    BY <1>1, <1>15, <1>16 DEF TypeOK
  <2>3. Stores(fresh)
    <3>1. \A j \in DOMAIN store' \ {fresh} : Request(j, store'[j]) \in Carried
      BY <1>18 DEF Carried
    <3> QED BY <1>15, <1>18, <3>1 DEF Stores
  <2> QED BY <1>1, <1>15, <1>18, <1>22, <1>24, <2>1, <2>2, <2>3, UserMoves
<1>27. EntryOK(fresh, f)'
  <2>1. Serves(i, o)'
    BY <1>7, <1>10, <1>11, <1>16, <1>20, <1>22 DEF Serves
  <2>2. Dated(s)'
    BY <1>9, <1>26, Keeps
  <2>3. intents'[i].at <= s.opSeq
    BY <1>7, <1>9, <1>16, <1>20, <1>22
  <2> QED BY <1>11, <1>13, <1>15, <1>16, <1>18, <2>1, <2>2, <2>3 DEF EntryOK, Planned
<1>28. ViewOK(y)'
  <2>1. ViewOK(v)'
    BY <1>2, <1>26, ViewsKept
  <2> QED BY <2>1, <1>23 DEF ViewOK
<1>29. \A z : z = replica'.snapshot => Dated(z)' /\ replica.snapshot.opSeq <= z.opSeq
  BY <1>1, <1>25, <1>26, Keeps
<1>30. \A j \in DOMAIN store' : \A g : g = store'[j] =>
         (j \in DOMAIN store /\ g = store[j]) \/ EntryOK(j, g)'
  BY <1>18, <1>27
<1>31. \A u \in Tabs : \A z : z = views'[u] => z = views[u] \/ ViewOK(z)'
  BY <1>24, <1>28
<1>32. \A j \in DOMAIN store \ DOMAIN store' :
         \E k \in DOMAIN store' \ DOMAIN store : k.intent = j.intent
  <2>1. fresh \notin DOMAIN store
    BY <1>15 DEF NamedIds
  <2> QED BY <2>1, <1>15, <1>18
<1>33. \A j \in DOMAIN intents : intents[j].status \in {"rejected", "discarded"} =>
                                   intents'[j].status \in {"rejected", "discarded"}
  BY <1>20, <1>22
<1> QED BY <1>1, <1>22, <1>26, <1>29, <1>30, <1>31, <1>32, <1>33, UserSteps

\* An operation applied to a snapshot leaves its revisions alone.
LEMMA AppliedDated ==
  ASSUME NEW s, Dated(s), NEW op \in Ops
  PROVE  Dated(Applied(s, op))
<1>1. s \in Snapshots
  BY DEF Dated
<1> QED BY <1>1, AppliedFacts DEF Dated

\* What a tab may show of the replica: nothing, or the revisions of a state.
Shown(s) == s = Unreadable \/ Dated(s)

\* One entry replayed.
LEMMA ReplayFacts ==
  ASSUME NEW s, Shown(s), NEW e \in Entries, Dated(e.base)
  PROVE  Shown(Replay(s, e))
<1>1. e.op \in Ops
  BY DEF Entries
<1>2. CASE s = Unreadable
  BY <1>2 DEF Replay, Shown
<1>3. CASE s # Unreadable
  <2>1. PICK onto : onto = IF e.base.opSeq > s.opSeq THEN e.base ELSE s
    OBVIOUS
  <2>2. Dated(onto)
    BY <2>1, <1>3 DEF Shown
  <2>3. Dated(Applied(onto, e.op)) /\ Dated(Applied(e.base, e.op))
    BY <1>1, <2>2, AppliedDated
  <2>4. \/ Replay(s, e) = Unreadable
        \/ Replay(s, e) = Applied(onto, e.op)
        \/ Replay(s, e) = Applied(e.base, e.op)
    BY <2>1, <1>3 DEF Replay
  <2> QED BY <2>3, <2>4 DEF Shown
<1> QED BY <1>2, <1>3

\* The n-th entry replayed, if there is one that is not acknowledged.
ShowsNext(rep, n, s) ==
  LET at == {id \in DOMAIN store \ rep.acked : store[id].seq = n}
  IN IF at = {} THEN s ELSE Replay(s, store[CHOOSE id \in at : TRUE])

\* What is shown after each of the first k entries.
Shows(g, rep, k) ==
  g = [n \in 0..k |-> IF n = 0 THEN rep.snapshot ELSE ShowsNext(rep, n, g[n - 1])]

\* One entry more.
LEMMA ShowsMore ==
  ASSUME NEW rep, NEW k \in Nat \ {0}, NEW g, Shows(g, rep, k - 1)
  PROVE  \E f : Shows(f, rep, k)
<1> DEFINE f == [n \in 0..k |-> IF n = k THEN ShowsNext(rep, k, g[k - 1]) ELSE g[n]]
<1>1. \A n \in 0..k : f[n] = IF n = 0 THEN rep.snapshot ELSE ShowsNext(rep, n, f[n - 1])
  <2> TAKE n \in 0..k
  <2>1. CASE n = k
    BY <2>1
  <2>2. CASE n # k
    <3>1. n \in 0..(k - 1) /\ f[n] = g[n] /\ (n # 0 => f[n - 1] = g[n - 1])
      BY <2>2
    <3>2. g[n] = IF n = 0 THEN rep.snapshot ELSE ShowsNext(rep, n, g[n - 1])
      BY <3>1 DEF Shows
    <3> QED BY <3>1, <3>2
  <2> QED BY <2>1, <2>2
<1>2. f = [n \in 0..k |-> f[n]]
  OBVIOUS
<1> HIDE DEF f
<1>3. Shows(f, rep, k)
  BY <1>1, <1>2 DEF Shows
<1> QED BY <1>3

\* What a tab shows of the replica is what is shown after the last entry.
LEMMA MaterializedShows ==
  ASSUME IInv, NEW rep
  PROVE  \E m \in Nat : \E g : /\ Shows(g, rep, m) /\ Materialized(rep, store) = g[m]
                             /\ \A n \in 0..m : g[n] = IF n = 0 THEN rep.snapshot
                                                      ELSE ShowsNext(rep, n, g[n - 1])
<1>1. PICK m \in Nat : m = LastSeq(store)
  BY LastSeqFacts DEF IInv
<1>2. \E g : Shows(g, rep, m)
  <2> DEFINE T == {k \in Nat : ~\E g : Shows(g, rep, k)}
  <2>1. T \subseteq Nat /\ \A k \in Nat : k \in T <=> ~\E g : Shows(g, rep, k)
    OBVIOUS
  <2> HIDE DEF T
  <2>2. ASSUME T # {} PROVE FALSE
    <3>1. PICK k \in T : \A j \in T : k <= j
      BY <2>1, <2>2, LeastNumber
    <3>2. \E g : Shows(g, rep, 0)
      <4> DEFINE g == [n \in 0..0 |-> rep.snapshot]
      <4>1. \A n \in 0..0 : n = 0
        OBVIOUS
      <4>2. g = [n \in 0..0 |-> IF n = 0 THEN rep.snapshot ELSE ShowsNext(rep, n, g[n - 1])]
        BY <4>1
      <4> QED BY <4>2 DEF Shows
    <3>3. k # 0 /\ k \in Nat
      BY <2>1, <3>1, <3>2
    <3>4. k - 1 \notin T /\ k - 1 \in Nat
      BY <2>1, <3>1, <3>3
    <3> QED BY <2>1, <3>1, <3>3, <3>4, ShowsMore
  <2> QED BY <2>1, <2>2, <1>1
<1>3. Materialized(rep, store) = (CHOOSE g : Shows(g, rep, m))[m]
  BY <1>1 DEF Materialized, Shows, ShowsNext
<1>4. PICK g : Shows(g, rep, m) /\ Materialized(rep, store) = g[m]
  BY <1>2, <1>3
<1>5. \A n \in 0..m : g[n] = IF n = 0 THEN rep.snapshot ELSE ShowsNext(rep, n, g[n - 1])
  BY <1>4 DEF Shows
<1> QED BY <1>4, <1>5

\* It is right, because it is after every entry.
LEMMA MaterializedFacts ==
  ASSUME IInv, NEW rep, Dated(rep.snapshot)
  PROVE  Shown(Materialized(rep, store))
<1>1. PICK m \in Nat : \E g : /\ Shows(g, rep, m) /\ Materialized(rep, store) = g[m]
                            /\ \A n \in 0..m : g[n] = IF n = 0 THEN rep.snapshot
                                                     ELSE ShowsNext(rep, n, g[n - 1])
  BY MaterializedShows
<1>4. PICK g : /\ Shows(g, rep, m) /\ Materialized(rep, store) = g[m]
               /\ \A n \in 0..m : g[n] = IF n = 0 THEN rep.snapshot
                                        ELSE ShowsNext(rep, n, g[n - 1])
  BY <1>1
<1>5. \A n \in 0..m : g[n] = IF n = 0 THEN rep.snapshot ELSE ShowsNext(rep, n, g[n - 1])
  BY <1>4
<1> DEFINE T == {n \in 0..m : ~Shown(g[n])}
<1>6. T \subseteq Nat /\ \A n \in 0..m : n \in T <=> ~Shown(g[n])
  OBVIOUS
<1>7. T \subseteq 0..m
  OBVIOUS
<1> HIDE DEF T
<1>8. ASSUME T # {} PROVE FALSE
  <2>1. PICK k \in T : \A j \in T : k <= j
    BY <1>6, <1>8, LeastNumber
  <2>2. k \in 0..m /\ ~Shown(g[k])
    BY <1>6, <1>7, <2>1
  <2>3. k # 0
    BY <1>5, <2>2 DEF Shown
  <2>4. k - 1 \in 0..m /\ ~(k <= k - 1)
    BY <2>2, <2>3
  <2>5. Shown(g[k - 1])
    BY <1>6, <2>1, <2>4
  <2>6. g[k] = ShowsNext(rep, k, g[k - 1])
    BY <1>5, <2>2, <2>3
  <2>7. \A id \in DOMAIN store : store[id] \in Entries /\ Dated(store[id].base)
    BY DEF IInv, TypeOK, StoreOK, EntryOK, Planned
  <2>8. g[k] = g[k - 1] \/ \E id \in DOMAIN store : g[k] = Replay(g[k - 1], store[id])
    BY <2>6 DEF ShowsNext
  <2> QED BY <2>2, <2>5, <2>7, <2>8, ReplayFacts
<1>9. Shown(g[m])
  BY <1>1, <1>6, <1>8
<1> QED BY <1>4, <1>9

\* A tab loads the workspace: the replica advances to a state of the server, and
\* the tab shows that state, or the replica with what is pending.
LEMMA OpenWorkspaceStep ==
  ASSUME IInv, NEW t \in Tabs, OpenWorkspace(t)
  PROVE  IInv' /\ StepOK /\ StoreStep
<1>1. TypeOK /\ UNCHANGED <<history, log, stray, store, workers>>
  BY DEF IInv, OpenWorkspace, server
<1>2. PICK n \in DOMAIN history :
        /\ replica' = Advanced(replica, history[n], {})
        /\ views' = [views EXCEPT ![t] =
             [snapshot |-> IF Materialized(replica', store) = Unreadable THEN history[n]
                           ELSE Materialized(replica', store),
              doomed |-> NoId, review |-> NoReview]]
  BY DEF OpenWorkspace
<1>3. PICK h : h = history[n]
  OBVIOUS
<1>4. h \in Snapshots /\ Dated(h) /\ h.opSeq = n /\ n \in Nat
  BY <1>1, <1>2, <1>3, ServerFacts DEF Dated, HistoryOK, IInv
<1>5. /\ replica \in [snapshot : Snapshots, acked : SUBSET Ids]
      /\ Dated(replica.snapshot) /\ replica.snapshot.opSeq \in Nat
  BY <1>1, SnapshotFacts DEF TypeOK, IInv, ReplicaOK, Dated
<1>6. PICK s : s = IF h.opSeq >= replica.snapshot.opSeq THEN h ELSE replica.snapshot
  OBVIOUS
<1>7. Dated(s) /\ s \in Snapshots /\ replica.snapshot.opSeq <= s.opSeq
  BY <1>4, <1>5, <1>6 DEF Dated
<1>8. PICK rep : rep = [snapshot |-> s, acked |-> replica.acked]
  OBVIOUS
<1>9. replica' = rep /\ rep.snapshot = s /\ rep.acked = replica.acked
  BY <1>2, <1>3, <1>6, <1>8 DEF Advanced
<1>10. PICK local : local = Materialized(rep, store)
  OBVIOUS
<1>11. Shown(local)
  BY <1>7, <1>9, <1>10, MaterializedFacts
<1>12. PICK shown : shown = IF local = Unreadable THEN h ELSE local
  OBVIOUS
<1>13. Dated(shown) /\ shown \in Snapshots
  BY <1>4, <1>11, <1>12 DEF Shown, Dated
<1>14. PICK y : y = [snapshot |-> shown, doomed |-> NoId, review |-> NoReview]
  OBVIOUS
<1>15. NoId \in Ids /\ NoId.intent \in 0..Len(intents)
  BY <1>1 DEF NoId, Ids, TypeOK
<1>16. y \in Views /\ y.snapshot = shown /\ y.doomed = NoId /\ y.review = NoReview
  BY <1>13, <1>14, <1>15 DEF Views, Reviews
<1>17. ViewOK(y)
  BY <1>13, <1>16 DEF ViewOK
<1>18. views' = [views EXCEPT ![t] = y]
  BY <1>2, <1>3, <1>9, <1>10, <1>12, <1>14
<1>19. views' \in [Tabs -> Views] /\ \A u \in Tabs : views'[u] = views[u] \/ views'[u] = y
  BY <1>1, <1>16, <1>18, ViewStep
<1>20. /\ DOMAIN intents' = DOMAIN intents
       /\ \A i \in DOMAIN intents :
            \/ intents'[i] = intents[i]
            \/ /\ intents[i].status = "doomed"
               /\ intents'[i] = [intents[i] EXCEPT !.status = "open"]
  BY DEF OpenWorkspace
<1>21. \A i \in DOMAIN intents :
         /\ intents'[i] \in Edits /\ intents'[i].op = intents[i].op
         /\ intents'[i].at = intents[i].at /\ intents'[i].seen = intents[i].seen
         /\ intents[i].status # "doomed" => intents'[i].status = intents[i].status
  <2> TAKE i \in DOMAIN intents
  <2>1. intents[i] \in Edits
    BY <1>1, EditFacts
  <2>2. PICK e \in Edits : e = intents[i]
    BY <2>1
  <2>3. PICK f : f = [e EXCEPT !.status = "open"]
    OBVIOUS
  <2>4. f \in Edits /\ f.op = e.op /\ f.at = e.at /\ f.seen = e.seen
    BY <2>3 DEF Edits
  <2> QED BY <1>20, <2>2, <2>3, <2>4
<1>22. intents' \in Seq(Edits) /\ Len(intents') = Len(intents) /\ IntentsOnward
  <2>1. intents' = [i \in DOMAIN intents |-> intents'[i]]
    BY DEF OpenWorkspace
  <2>2. DOMAIN intents = 1..Len(intents) /\ Len(intents) \in Nat
    BY <1>1 DEF TypeOK
  <2>3. intents' \in [1..Len(intents) -> Edits]
    BY <1>21, <2>1, <2>2
  <2>4. intents' \in Seq(Edits) /\ Len(intents') = Len(intents)
    BY <2>2, <2>3
  <2> QED BY <1>20, <1>21, <2>4 DEF IntentsOnward
<1>23. TypeOK' /\ NamesOK' /\ SeqsOK' /\ StepOK /\ StoreStep
  <2>1. replica' = [snapshot |-> replica'.snapshot, acked |-> replica'.acked]
        /\ replica'.snapshot \in Snapshots /\ replica'.acked = replica.acked
    BY <1>7, <1>8, <1>9
  <2>2. Stores(NoId)
    BY <1>1 DEF Stores, Carried
  <2>3. store' \in [DOMAIN store' -> Entries]
    BY <1>1 DEF TypeOK
  <2> QED BY <1>1, <1>15, <1>19, <1>22, <2>1, <2>2, <2>3, UserMoves
<1>24. ViewOK(y)'
  <2>1. Dated(shown)'
    BY <1>13, <1>23, Keeps
  <2> QED BY <2>1, <1>16 DEF ViewOK
<1>25. \A z : z = replica'.snapshot => Dated(z)' /\ replica.snapshot.opSeq <= z.opSeq
  BY <1>7, <1>9, <1>23, Keeps
<1>26. \A u \in Tabs : \A z : z = views'[u] => z = views[u] \/ ViewOK(z)'
  BY <1>19, <1>24
<1>27. \A j \in DOMAIN store' : \A e : e = store'[j] => j \in DOMAIN store /\ e = store[j]
  BY <1>1
<1>28. \A i \in DOMAIN intents : intents[i].status \in {"rejected", "discarded"} =>
                                   intents'[i].status \in {"rejected", "discarded"}
  BY <1>21
<1> QED BY <1>1, <1>9, <1>20, <1>23, <1>25, <1>26, <1>27, <1>28, UserSteps
-----------------------------------------------------------------------------
(* The invariant *)

\* Every step keeps the invariant.
LEMMA NextStep ==
  ASSUME IInv, Next
  PROVE  IInv' /\ StepOK /\ StoreStep
<1>1. CASE RemoteWrite \/ ServeStray
  BY <1>1, CommitSteps
<1>2. ASSUME NEW t \in Tabs,
             Edit(t) \/ EditInVain(t) \/ RejectEdit(t) \/ OpenWorkspace(t)
               \/ OpenReview(t) \/ Answer(t)
      PROVE  IInv' /\ StepOK /\ StoreStep
  BY <1>2, EditSteps, RejectEditStep, OpenWorkspaceStep, OpenReviewStep, KeepLocalStep,
     KeepRemoteStep DEF Answer
<1>3. ASSUME NEW w \in Workers, Claim(w) PROVE IInv' /\ StepOK /\ StoreStep
  BY <1>3, ClaimSteps
<1>4. ASSUME NEW w \in Workers, Executes(w) PROVE IInv' /\ StepOK /\ StoreStep
  <2>1. CASE ServeRequest(w)
    BY <2>1, ServeRequestStep
  <2>2. CASE FailEntry(w)
    BY <2>2, MishapSteps
  <2>3. CASE Confirm(w)
    BY <2>3, ConfirmStep
  <2>4. CASE FetchRemote(w)
    BY <2>4, FetchStep
  <2>5. CASE AlreadyApplied(w)
    BY <2>5, AlreadyAppliedStep
  <2>6. CASE Rebase(w)
    BY <2>6, RebaseStep
  <2>7. CASE GiveUpRebasing(w) \/ BlockOnConflict(w)
    BY <2>7, MergeEndsSteps
  <2>8. CASE ClaimReplacement(w)
    BY <2>8, ClaimSteps
  <2>9. CASE WriteReplica(w)
    BY <2>9, WriteReplicaStep
  <2>10. CASE RemoveEntry(w)
    BY <2>10, RemoveEntryStep
  <2> QED BY <1>4, <2>1, <2>2, <2>3, <2>4, <2>5, <2>6, <2>7, <2>8, <2>9, <2>10 DEF Executes
<1>5. ASSUME NEW w \in Workers, Mishap(w) PROVE IInv' /\ StepOK /\ StoreStep
  BY <1>5, MishapSteps, WriteFailsStep DEF Mishap
<1>6. ASSUME NEW id \in DOMAIN store, Timer(id) \/ Requeue(id)
      PROVE  IInv' /\ StepOK /\ StoreStep
  BY <1>6, ClaimSteps
<1> QED BY <1>1, <1>2, <1>3, <1>4, <1>5, <1>6 DEF Next

\* It holds when nothing happens.
LEMMA StutterStep ==
  ASSUME IInv, UNCHANGED vars
  PROVE  IInv'
<1>1. UNCHANGED <<history, log, stray, store, replica, workers, intents, views>>
  BY DEF vars
<1>2. TypeOK'
  BY <1>1 DEF IInv, TypeOK
<1>3. NamedIds' = NamedIds
  BY <1>1 DEF NamedIds
<1>4. NamesOK' /\ SeqsOK' /\ HistoryOK'
  BY <1>1, <1>3 DEF IInv, NamesOK, SeqsOK, HistoryOK
<1>5. StepOK /\ StoreStep
  <2>1. CarriedStep
    BY <1>1, CarriedByStore
  <2>2. IntentsOnward /\ ServerStep /\ StoreStep
    BY <1>1 DEF IntentsOnward, ServerStep, StoreStep, server
  <2> QED BY <2>1, <2>2 DEF StepOK
<1>6. \A id \in DOMAIN store' : \A e : e = store'[id] => id \in DOMAIN store /\ e = store[id]
  BY <1>1
<1>7. \A s : s = replica'.snapshot => Dated(s)' /\ replica.snapshot.opSeq <= s.opSeq
  <2>1. Dated(replica.snapshot) /\ replica.snapshot.opSeq \in Nat
    BY SnapshotFacts DEF IInv, ReplicaOK, Dated
  <2> QED BY <1>1, <1>5, <2>1, Keeps
<1> QED BY <1>1, <1>2, <1>4, <1>5, <1>6, <1>7, UserSteps

\* It holds at the start.
LEMMA InitStep ==
  ASSUME Init
  PROVE  IInv
<1>1. PICK start : start = [opSeq |-> 1,
                docs |-> [d \in Docs |-> [rev |-> 1, content |-> [f \in Fields |-> Initial]]]]
  OBVIOUS
<1>2. Initial \in AllVals
  BY ValuesAssumption DEF AllVals
<1>3. start \in Snapshots /\ start.opSeq = 1 /\ \A d \in Docs : start.docs[d].rev = 1
  BY <1>1, <1>2 DEF Snapshots
<1>4. /\ history = <<start>> /\ log = << >> /\ stray = {} /\ store = Empty
      /\ replica = [snapshot |-> start, acked |-> {}]
      /\ workers = [w \in Workers |-> Idle]
      /\ views = [t \in Tabs |-> [snapshot |-> start, doomed |-> NoId, review |-> NoReview]]
      /\ intents = << >>
  BY <1>1 DEF Init
<1>5. DOMAIN store = {}
  BY <1>4 DEF Empty
<1>6. NoId \in Ids
  BY DEF NoId, Ids
<1>7. TypeOK
  <2>1. history \in Seq(Snapshots) /\ log \in Seq([id : Ids, op : Ops])
        /\ Len(history) = Len(log) + 1 /\ intents \in Seq(Edits)
    BY <1>3, <1>4
  <2>2. store \in [DOMAIN store -> Entries] /\ DOMAIN store \subseteq Ids
    BY <1>4, <1>5 DEF Empty
  <2>3. workers \in [Workers -> Executions]
    BY <1>4 DEF Executions
  <2>4. views \in [Tabs -> Views]
    BY <1>3, <1>4, <1>6 DEF Views, Reviews
  <2>5. replica \in [snapshot : Snapshots, acked : SUBSET Ids] /\ stray \subseteq Requests
    BY <1>3, <1>4
  <2> QED BY <2>1, <2>2, <2>3, <2>4, <2>5 DEF TypeOK
<1>8. DOMAIN history = {1} /\ history[1] = start /\ DOMAIN log = {} /\ DOMAIN intents = {}
      /\ Len(history) = 1
  BY <1>4
<1>9. \A w \in Workers : workers[w] = Idle /\ workers[w].phase = "idle"
  BY <1>4 DEF Idle
<1>10. NamedIds = {}
  BY <1>4, <1>5, <1>8, <1>9 DEF NamedIds
<1>11. Carried = {}
  BY <1>4, <1>5, <1>9 DEF Carried, Sending
<1>12. NamesOK /\ SeqsOK
  <2>1. 0 \in Nat
    OBVIOUS
  <2> QED BY <1>5, <1>10, <2>1 DEF NamesOK, SeqsOK
<1>13. HistoryOK /\ LogOK /\ CarriedOK /\ StoreOK
  BY <1>3, <1>5, <1>8, <1>11 DEF HistoryOK, LogOK, CarriedOK, StoreOK
<1>14. Dated(start)
  BY <1>3, <1>8 DEF Dated
<1>15. WorkersOK
  BY <1>9 DEF WorkersOK, WorkerOK
<1>16. ViewsOK
  BY <1>4, <1>14 DEF ViewsOK, ViewOK
<1>17. ReplicaOK
  BY <1>4, <1>14 DEF ReplicaOK
<1>18. NothingForgotten
  BY <1>8 DEF NothingForgotten
<1> QED BY <1>7, <1>12, <1>13, <1>15, <1>16, <1>17, <1>18 DEF IInv

\* The invariant holds throughout: every value that is kept has its type, every
\* request and snapshot that is kept belongs to an edit and a state of the server.
THEOREM Invariant == Spec => []IInv
<1>1. Init => IInv
  BY InitStep
<1>2. IInv /\ [Next]_vars => IInv'
  BY NextStep, StutterStep
<1> QED BY <1>1, <1>2, PTL DEF Spec

\* No commit overwrites a value that its author has not seen, when the edit was made
\* or in the review of a conflict: a rebase and a late answer never decide that.
THEOREM NothingUnseenIsOverwritten == Spec => []OverwritesOnlySeen
<1>1. IInv => OverwritesOnlySeen
  BY DEF IInv, LogOK, Serves, OverwritesOnlySeen
<1> QED BY <1>1, Invariant, PTL

\* An edit leaves the outbox only because the server has it, someone else made the
\* same edit, or the user gave it up.
THEOREM NoEditIsForgotten == Spec => []NothingForgotten
<1>1. IInv => NothingForgotten
  BY DEF IInv
<1> QED BY <1>1, Invariant, PTL

\* What was acknowledged and cached stays visible in the replica.
THEOREM AcknowledgedIsVisible == Spec => []AcknowledgedStaysVisible
<1>1. ASSUME IInv, NEW id \in replica.acked, Commits(id) # {}
      PROVE  replica.snapshot.opSeq >= OpSeqOf(id)
  <2>1. Covered(id, replica.snapshot.opSeq)
    BY <1>1 DEF IInv, ReplicaOK
  <2>2. PICK n \in Commits(id) : n + 1 <= replica.snapshot.opSeq
    BY <1>1, <2>1 DEF Covered, Dead
  <2>3. \A m \in Commits(id) : m = n
    BY <1>1 DEF IInv, LogOK, Commits
  <2>4. OpSeqOf(id) = 1 + n
    BY <2>3 DEF OpSeqOf
  <2>5. replica.snapshot.opSeq \in Nat /\ n \in Nat
    BY <1>1, SnapshotFacts, ServerFacts DEF IInv, ReplicaOK, Dated, Commits
  <2> QED BY <2>2, <2>4, <2>5
<1>2. IInv => AcknowledgedStaysVisible
  BY <1>1 DEF AcknowledgedStaysVisible
<1> QED BY <1>2, Invariant, PTL
-----------------------------------------------------------------------------
(* The lease *)

\* An entry stays, or its time comes, or its owner moves, or its edit is taken back.
LeaseKept(id) ==
  \/ /\ id \in DOMAIN store'
     /\ store'[id] \in {store[id], [store[id] EXCEPT !.due = TRUE]}
  \/ workers'[store[id].owner] # workers[store[id].owner]
  \/ intents'[id.intent].status = "rejected"

\* An execution that ends leaves the entries of others alone.
LEMMA LetsKeeps ==
  ASSUME IInv, NEW w \in Workers, workers[w].phase # "idle", NEW e, Lets(w, e),
         NEW id \in DOMAIN store
  PROVE  LeaseKept(id)
<1>1. workers'[w] = Idle /\ Idle # workers[w]
  BY DEF IInv, TypeOK, Lets, Becomes, Idle
<1>2. CASE store' = store
  BY <1>2 DEF LeaseKept
<1>3. CASE /\ OwnsLease(store, workers[w].id, w)
           /\ store' = [store EXCEPT ![workers[w].id] = e]
  <2>1. CASE id = workers[w].id
    BY <2>1, <1>1, <1>3 DEF OwnsLease, LeaseKept
  <2>2. CASE id # workers[w].id
    BY <2>2, <1>3 DEF LeaseKept
  <2> QED BY <2>1, <2>2
<1> QED BY <1>2, <1>3 DEF Lets

\* A claim takes an entry that nobody holds any more.
LEMMA ClaimKeeps ==
  ASSUME NEW id \in DOMAIN store, store[id].state = "sending", ~store[id].due,
         NEW j, Candidate(store, j), NEW e, store' = [store EXCEPT ![j] = e]
  PROVE  LeaseKept(id)
<1>1. j # id
  BY DEF Candidate, Claimable
<1>2. id \in DOMAIN store' /\ store'[id] = store[id]
  BY <1>1
<1> QED BY <1>2 DEF LeaseKept

\* What the user does to the outbox leaves an entry that is sent alone.
LEMMA UserKeeps ==
  ASSUME IInv, NEW t \in Tabs, NEW id \in DOMAIN store, store[id].state = "sending",
         Edit(t) \/ EditInVain(t) \/ RejectEdit(t) \/ KeepLocal(t) \/ KeepRemote(t)
  PROVE  LeaseKept(id)
<1>1. TypeOK /\ NamesOK /\ views[t] \in Views /\ ViewOK(views[t])
  BY DEF IInv, TypeOK, ViewsOK
<1>2. id \in NamedIds
  BY DEF NamedIds
<1>3. ASSUME NEW new, new \notin NamedIds, NEW e, store' = Enqueued(store, new, e)
      PROVE  LeaseKept(id)
  <2>1. id \in DOMAIN store' /\ store'[id] = store[id]
    BY <1>2, <1>3 DEF Enqueued
  <2> QED BY <2>1 DEF LeaseKept
<1>4. CASE Edit(t) \/ EditInVain(t)
  <2>1. \E op, status : Queue(t, op, status)
    BY <1>4 DEF Edit, EditInVain
  <2>2. PICK new, e : new = Pending(Len(intents) + 1) /\ store' = Enqueued(store, new, e)
    BY <2>1 DEF Queue
  <2> QED BY <1>1, <1>3, <2>2, NewEditFacts
<1>5. CASE RejectEdit(t)
  <2>1. PICK j : j = views[t].doomed
    OBVIOUS
  <2>2. j.intent \in DOMAIN intents
    BY <1>1, <1>5, <2>1 DEF RejectEdit, ViewOK
  <2>3. intents' = [intents EXCEPT ![j.intent].status = "rejected"]
        /\ store' = Removed(store, j)
    BY <1>5, <2>1 DEF RejectEdit
  <2>4. CASE id = j
    <3>1. intents[id.intent] \in Edits
      BY <1>1, <2>2, <2>4, EditFacts
    <3>2. intents'[id.intent].status = "rejected"
      BY <2>2, <2>3, <2>4, <3>1 DEF Edits
    <3> QED BY <3>2 DEF LeaseKept
  <2>5. CASE id # j
    BY <2>3, <2>5 DEF Removed, LeaseKept
  <2> QED BY <2>4, <2>5
<1>6. CASE KeepLocal(t)
  <2>1. PICK r : r = views[t].review.id
    OBVIOUS
  <2>2. PICK new : new = Fresh(r)
    OBVIOUS
  <2>3. PICK e : store' = IF IsBlocked(r) THEN Replaced(store, r, new, e)
                          ELSE Enqueued(store, new, e)
    BY <1>6, <2>1, <2>2 DEF KeepLocal
  <2>4. r \in Ids
    BY <1>1, <1>6, <2>1 DEF KeepLocal, InReview, Views, Reviews
  <2>5. new \notin NamedIds
    BY <1>1, <2>2, <2>4, FreshFacts
  <2>6. CASE IsBlocked(r)
    <3>1. id # r /\ id # new
      BY <1>2, <2>5, <2>6 DEF IsBlocked
    <3>2. id \in DOMAIN store' /\ store'[id] = store[id]
      BY <2>3, <2>6, <3>1 DEF Replaced
    <3> QED BY <3>2 DEF LeaseKept
  <2>7. CASE ~IsBlocked(r)
    BY <1>3, <2>3, <2>5, <2>7
  <2> QED BY <2>6, <2>7
<1>7. CASE KeepRemote(t)
  <2>1. \/ store' = store
        \/ \E j : j # id /\ store' = Removed(store, j)
    BY <1>7 DEF KeepRemote, IsBlocked
  <2> QED BY <2>1 DEF Removed, LeaseKept
<1> QED BY <1>4, <1>5, <1>6, <1>7

\* No step but one of its owner changes an entry under a live lease.
LEMMA LeaseStep ==
  ASSUME IInv, Next, NEW id \in DOMAIN store, store[id].state = "sending", ~store[id].due
  PROVE  LeaseKept(id)
<1>1. CASE store' = store
  BY <1>1 DEF LeaseKept
<1>2. ASSUME NEW t \in Tabs,
             Edit(t) \/ EditInVain(t) \/ RejectEdit(t) \/ OpenWorkspace(t)
               \/ OpenReview(t) \/ Answer(t)
      PROVE  LeaseKept(id)
  <2>1. CASE OpenWorkspace(t) \/ OpenReview(t)
    BY <2>1, <1>1 DEF OpenWorkspace, OpenReview, shared
  <2> QED BY <1>2, <2>1, UserKeeps DEF Answer
<1>3. ASSUME NEW w \in Workers, Claim(w) PROVE LeaseKept(id)
  BY <1>3, ClaimKeeps DEF Claim
<1>4. ASSUME NEW w \in Workers, Executes(w) PROVE LeaseKept(id)
  <2>1. CASE ServeRequest(w) \/ Confirm(w) \/ FetchRemote(w) \/ AlreadyApplied(w) \/ WriteReplica(w)
    BY <2>1, <1>1 DEF ServeRequest, Confirm, FetchRemote, AlreadyApplied, WriteReplica, shared
  <2>2. CASE FailEntry(w)
    BY <2>2, LetsKeeps DEF FailEntry
  <2>3. CASE GiveUpRebasing(w)
    BY <2>3, LetsKeeps DEF GiveUpRebasing
  <2>4. CASE BlockOnConflict(w)
    BY <2>4, LetsKeeps DEF BlockOnConflict
  <2>5. CASE ClaimReplacement(w)
    BY <2>5, <1>1, ClaimKeeps DEF ClaimReplacement
  <2>6. CASE RemoveEntry(w)
    <3>1. workers'[w] = Idle /\ Idle # workers[w]
      BY <2>6 DEF IInv, TypeOK, RemoveEntry, Becomes, Idle
    <3>2. CASE store' = Removed(store, workers[w].id) /\ OwnsLease(store, workers[w].id, w)
      BY <3>1, <3>2 DEF Removed, OwnsLease, LeaseKept
    <3> QED BY <2>6, <1>1, <3>2 DEF RemoveEntry
  <2>7. CASE Rebase(w)
    <3>1. PICK x : x = workers[w]
      OBVIOUS
    <3>2. PICK fresh : fresh = Fresh(x.id)
      OBVIOUS
    <3>3. x.phase = "merging" /\ workers \in [Workers -> Executions] /\ NamesOK
      BY <2>7, <3>1 DEF Rebase, IInv, TypeOK
    <3>4. x.id \in Ids /\ x \in Senders
      BY <3>1, <3>3, SenderFacts
    <3>5. fresh \notin NamedIds
      BY <3>2, <3>3, <3>4, FreshFacts
    <3>6. CASE ~OwnsLease(store, x.id, w)
      BY <2>7, <3>1, <3>6, <1>1 DEF Rebase
    <3>7. CASE OwnsLease(store, x.id, w)
      <4>1. /\ \E e : store' = Replaced(store, x.id, fresh, e)
            /\ Becomes(w, [x EXCEPT !.phase = "replaced", !.id = fresh])
        BY <2>7, <3>1, <3>2, <3>7 DEF Rebase
      <4>2. workers'[w] # x
        <5>1. PICK y : y = [x EXCEPT !.phase = "replaced", !.id = fresh]
          OBVIOUS
        <5>2. y.phase = "replaced"
          BY <3>4, <5>1 DEF Senders
        <5> QED BY <3>3, <4>1, <5>1, <5>2 DEF Becomes
      <4>3. CASE id = x.id
        BY <3>1, <3>7, <4>2, <4>3 DEF OwnsLease, LeaseKept
      <4>4. CASE id # x.id
        <5>1. id # fresh
          BY <3>5 DEF NamedIds
        <5>2. id \in DOMAIN store' /\ store'[id] = store[id]
          BY <4>1, <4>4, <5>1 DEF Replaced
        <5> QED BY <5>2 DEF LeaseKept
      <4> QED BY <4>3, <4>4
    <3> QED BY <3>6, <3>7
  <2> QED BY <1>4, <2>1, <2>2, <2>3, <2>4, <2>5, <2>6, <2>7 DEF Executes
<1>5. ASSUME NEW w \in Workers, Mishap(w) PROVE LeaseKept(id)
  <2>1. CASE NetworkFails(w)
    BY <2>1, LetsKeeps DEF NetworkFails
  <2>2. CASE CrashWorker(w) \/ RefusedInPassing(w)
    BY <2>2, <1>1 DEF CrashWorker, RefusedInPassing, shared
  <2>3. CASE ReplicaWriteFails(w)
    BY <2>3, <1>1, LetsKeeps DEF ReplicaWriteFails
  <2> QED BY <1>5, <2>1, <2>2, <2>3 DEF Mishap
<1>6. ASSUME NEW j \in DOMAIN store, Timer(j) PROVE LeaseKept(id)
  <2>1. store' = [store EXCEPT ![j].due = TRUE]
    BY <1>6 DEF Timer, RetryDue, LeaseExpires, Overdue
  <2> QED BY <2>1 DEF LeaseKept
<1>7. ASSUME NEW j \in DOMAIN store, Requeue(j) PROVE LeaseKept(id)
  <2>1. j # id /\ \E e : store' = [store EXCEPT ![j] = e]
    BY <1>7 DEF Requeue
  <2> QED BY <2>1 DEF LeaseKept
<1>8. CASE RemoteWrite \/ ServeStray
  BY <1>8, <1>1 DEF RemoteWrite, ServeStray, shared
<1> QED BY <1>2, <1>3, <1>4, <1>5, <1>6, <1>7, <1>8 DEF Next

\* An entry under a live lease is changed only by the execution that holds it.
THEOREM LeaseProtects == Spec => LeaseHolderOnly
<1>1. ASSUME IInv, [Next]_vars, NEW id \in DOMAIN store, store[id].state = "sending",
             ~store[id].due
      PROVE  LeaseKept(id)
  <2>1. CASE UNCHANGED vars
    BY <2>1 DEF vars, LeaseKept
  <2> QED BY <1>1, <2>1, LeaseStep
<1>2. IInv /\ [Next]_vars =>
        [\A id \in DOMAIN store :
           store[id].state = "sending" /\ ~store[id].due =>
             \/ /\ id \in DOMAIN store'
                /\ store'[id] \in {store[id], [store[id] EXCEPT !.due = TRUE]}
             \/ workers'[store[id].owner] # workers[store[id].owner]
             \/ intents'[id.intent].status = "rejected"]_vars
  BY <1>1 DEF LeaseKept
<1> QED BY <1>2, Invariant, PTL DEF Spec, LeaseHolderOnly
-----------------------------------------------------------------------------
(* The order of commits, with one tab *)

SingleTab == \A t, u \in Tabs : t = u

\* An edit that was not taken back.
Kept(i) == intents[i].status # "rejected"

\* The requests that may arrive.
Sent == stray \cup {RequestOf(w) : w \in Sending}

\* What may come of this id has come.
Over(id) == Commits(id) # {} \/ Dead(id)

\* No kept entry is before this one.
First(id) ==
  /\ id \in DOMAIN store
  /\ \A j \in DOMAIN store : Kept(j.intent) => store[id].seq <= store[j].seq

\* The entries are in the order of their edits, one for each.
EntriesInOrder ==
  \A id, j \in DOMAIN store : Kept(id.intent) /\ Kept(j.intent) =>
    /\ id.intent < j.intent => store[id].seq < store[j].seq
    /\ id.intent = j.intent => id = j

\* They come after what has committed.
EntriesAfterLog ==
  \A n \in OwnCommits : \A id \in DOMAIN store : Kept(id.intent) =>
    log[n].id.intent < id.intent \/ log[n].id = id

\* Only the first may still commit.
SentFirst == \A r \in Sent : Kept(r.id.intent) => Over(r.id) \/ First(r.id)

\* What is reviewed is still blocked, because no other tab can answer.
ReviewedIsBlocked ==
  \A t \in Tabs :
    InReview(t) /\ Kept(views[t].review.id.intent) => IsBlocked(views[t].review.id)

Order ==
  EntriesInOrder /\ EntriesAfterLog /\ SentFirst /\ ReviewedIsBlocked /\ CommittedOnceInOrder

\* What a step may do to the order.  Entry x is the only one that may be new: it
\* takes the place of one of the same edit, or it is that of the newest edit.
KeepsOrder(x) ==
  /\ \A i \in DOMAIN intents : Kept(i)' => Kept(i)
  /\ \A id \in DOMAIN store' \ DOMAIN store : Kept(id.intent)' =>
       /\ id = x
       /\ \/ \E old \in DOMAIN store \ DOMAIN store' :
               /\ old.intent = id.intent /\ Commits(old) = {}
               /\ store'[id].seq = store[old].seq
          \/ id.intent = Len(intents) + 1 /\ store'[id].seq = LastSeq(store) + 1
  /\ \A id \in DOMAIN store \ DOMAIN store' : Kept(id.intent)' => Over(id)
  /\ \A r \in Sent' : r \in Sent \/ (IsHead(store, r.id) /\ r.id \in DOMAIN store')
  /\ \/ UNCHANGED server
     \/ /\ UNCHANGED <<store, intents>>
        /\ \/ \E id \in Ids, op \in Ops : Append1(id, op) /\ id.intent = 0
           \/ \E r \in Sent : Commit(r)
  /\ ReviewedIsBlocked'

\* What is over stays over.
LEMMA OverStays ==
  ASSUME IInv, StepOK, NEW id \in NamedIds \cap Ids, id.intent \in DOMAIN intents, Over(id)
  PROVE  Over(id)'
BY Keeps DEF Over

\* A request that may arrive has an id of an edit.
LEMMA SentFacts ==
  ASSUME IInv, NEW r \in Sent
  PROVE  r \in Carried /\ r.id \in NamedIds \cap Ids /\ r.id.intent \in DOMAIN intents
<1>1. r \in Carried
  BY DEF Sent, Carried
<1> QED BY <1>1, CarriedNamed, CarriedIntent DEF IInv

\* An entry of the outbox belongs to an edit.
LEMMA StoreFacts ==
  ASSUME IInv, NEW id \in DOMAIN store
  PROVE  /\ id \in NamedIds \cap Ids /\ id.intent \in DOMAIN intents /\ id.intent \in Nat
         /\ store[id].seq \in Nat
<1>1. id \in Ids /\ id \in NamedIds /\ store[id] \in Entries
  BY DEF IInv, TypeOK, NamedIds
<1>2. id.intent \in DOMAIN intents
  BY DEF IInv, StoreOK, EntryOK, Planned, Serves
<1> QED BY <1>1, <1>2 DEF Ids, Entries

\* The first entry stays first.
LEMMA FirstStays ==
  ASSUME IInv, StoreStep, NEW x, KeepsOrder(x), NEW id, First(id), id \in DOMAIN store'
  PROVE  First(id)'
<1>1. id \in DOMAIN store /\ \A j \in DOMAIN store : Kept(j.intent) => store[id].seq <= store[j].seq
  BY DEF First
<1>2. \A j \in DOMAIN store : j \in DOMAIN store' => store'[j].seq = store[j].seq
  BY StoreFacts DEF StoreStep
<1>3. \A j \in DOMAIN store : Kept(j.intent)' => Kept(j.intent)
  BY StoreFacts DEF KeepsOrder
<1>4. LastSeq(store) \in Nat /\ store[id].seq <= LastSeq(store) /\ store[id].seq \in Nat
  BY <1>1, LastSeqFacts, StoreFacts DEF IInv
<1>5. ASSUME NEW j \in DOMAIN store', Kept(j.intent)'
      PROVE  store'[id].seq <= store'[j].seq
  <2>1. CASE j \in DOMAIN store
    BY <2>1, <1>1, <1>2, <1>3, <1>5
  <2>2. CASE j \notin DOMAIN store
    <3>1. \/ \E old \in DOMAIN store : old.intent = j.intent /\ store'[j].seq = store[old].seq
          \/ store'[j].seq = LastSeq(store) + 1
      BY <2>2, <1>5 DEF KeepsOrder
    <3> QED BY <3>1, <1>1, <1>2, <1>3, <1>4, <1>5
  <2> QED BY <2>1, <2>2
<1> QED BY <1>5 DEF First

\* Only the first entry is sent, after such a step too.
LEMMA SentStep ==
  ASSUME IInv, StepOK, StoreStep, Order, NEW x, KeepsOrder(x)
  PROVE  SentFirst'
<1> SUFFICES ASSUME NEW r \in Sent', Kept(r.id.intent)'
             PROVE  Over(r.id)' \/ First(r.id)'
  BY DEF SentFirst
<1>1. CASE r \in Sent
  <2>1. r.id \in NamedIds \cap Ids /\ r.id.intent \in DOMAIN intents
    BY <1>1, SentFacts
  <2>2. Over(r.id) \/ First(r.id)
    BY <1>1, <2>1 DEF Order, SentFirst, KeepsOrder
  <2>3. CASE Over(r.id)
    BY <2>1, <2>3, OverStays
  <2>4. CASE First(r.id) /\ r.id \in DOMAIN store'
    BY <2>4, FirstStays
  <2>5. CASE First(r.id) /\ r.id \notin DOMAIN store'
    <3>1. Over(r.id)
      BY <2>5 DEF First, KeepsOrder
    <3> QED BY <2>1, <3>1, OverStays
  <2> QED BY <2>2, <2>3, <2>4, <2>5
<1>2. CASE IsHead(store, r.id) /\ r.id \in DOMAIN store'
  <2>1. First(r.id)
    BY <1>2 DEF IsHead, First
  <2> QED BY <1>2, <2>1, FirstStays
<1> QED BY <1>1, <1>2 DEF KeepsOrder

\* What stays in the outbox keeps its place, and was kept before.
LEMMA StayFacts ==
  ASSUME IInv, StoreStep, NEW x, KeepsOrder(x), NEW id \in DOMAIN store, id \in DOMAIN store'
  PROVE  store'[id].seq = store[id].seq /\ (Kept(id.intent)' => Kept(id.intent))
BY StoreFacts DEF StoreStep, KeepsOrder

\* The entries stay in order.
LEMMA EntriesStep ==
  ASSUME IInv, StoreStep, Order, NEW x, KeepsOrder(x)
  PROVE  EntriesInOrder'
<1> SUFFICES ASSUME NEW id \in DOMAIN store', NEW j \in DOMAIN store',
                    Kept(id.intent)', Kept(j.intent)'
             PROVE  /\ id.intent < j.intent => store'[id].seq < store'[j].seq
                    /\ id.intent = j.intent => id = j
  BY DEF EntriesInOrder
<1>1. \A i \in DOMAIN store : i \in DOMAIN store' =>
        store'[i].seq = store[i].seq /\ (Kept(i.intent)' => Kept(i.intent))
  BY StayFacts
<1>2. \A i \in DOMAIN store : \A k \in DOMAIN store : Kept(i.intent) /\ Kept(k.intent) =>
        /\ i.intent < k.intent => store[i].seq < store[k].seq
        /\ i.intent = k.intent => i = k
  BY DEF Order, EntriesInOrder
<1>3. PICK n \in Nat : n = Len(intents)
  BY DEF IInv, TypeOK
<1>4. \A i \in DOMAIN store : i.intent \in 1..n /\ store[i].seq \in Nat
  BY <1>3, StoreFacts DEF IInv, TypeOK
<1>5. PICK m \in Nat : m = LastSeq(store)
  BY LastSeqFacts DEF IInv
<1>6. \A i \in DOMAIN store : store[i].seq <= m
  BY <1>5, LastSeqFacts DEF IInv
<1>7. \A i \in DOMAIN store : Kept(i.intent)' => Kept(i.intent)
  BY StoreFacts DEF KeepsOrder
<1>8. \A i \in DOMAIN store' \ DOMAIN store : Kept(i.intent)' =>
        /\ i = x
        /\ \/ \E old \in DOMAIN store \ DOMAIN store' :
                old.intent = i.intent /\ store'[i].seq = store[old].seq
           \/ i.intent = n + 1 /\ store'[i].seq = m + 1
  BY <1>3, <1>5 DEF KeepsOrder
<1>9. CASE id \in DOMAIN store /\ j \in DOMAIN store
  BY <1>1, <1>2, <1>9
<1>10. CASE id \notin DOMAIN store /\ j \notin DOMAIN store
  <2>1. id = j
    BY <1>8, <1>10
  <2>2. id.intent \in Int
    <3>1. id.intent = n + 1 \/ \E old \in DOMAIN store : old.intent = id.intent
      BY <1>8, <1>10
    <3> QED BY <3>1, <1>4
  <2> QED BY <2>1, <2>2
<1>11. CASE id \in DOMAIN store /\ j \notin DOMAIN store
  <2>1. CASE j.intent = n + 1 /\ store'[j].seq = m + 1
    BY <1>1, <1>4, <1>6, <1>11, <2>1
  <2>2. ASSUME NEW old \in DOMAIN store \ DOMAIN store', old.intent = j.intent,
               store'[j].seq = store[old].seq
        PROVE  /\ id.intent < j.intent => store'[id].seq < store'[j].seq
               /\ id.intent = j.intent => id = j
    BY <1>1, <1>2, <1>7, <1>11, <2>2
  <2> QED BY <1>8, <1>11, <2>1, <2>2
<1>12. CASE id \notin DOMAIN store /\ j \in DOMAIN store
  <2>1. CASE id.intent = n + 1
    BY <1>4, <1>12, <2>1
  <2>2. ASSUME NEW old \in DOMAIN store \ DOMAIN store', old.intent = id.intent,
               store'[id].seq = store[old].seq
        PROVE  /\ id.intent < j.intent => store'[id].seq < store'[j].seq
               /\ id.intent = j.intent => id = j
    BY <1>1, <1>2, <1>7, <1>12, <2>2
  <2> QED BY <1>8, <1>12, <2>1, <2>2
<1> QED BY <1>9, <1>10, <1>11, <1>12

\* A commit of an edit has the id of an edit.
LEMMA OwnFacts ==
  ASSUME IInv, NEW n \in DOMAIN log, log[n].id.intent # 0
  PROVE  log[n].id.intent \in DOMAIN intents
BY DEF IInv, LogOK, Serves

\* The outbox stays behind the log, when nothing commits.
LEMMA AfterLogStep ==
  ASSUME IInv, StoreStep, Order, NEW x, KeepsOrder(x), UNCHANGED server
  PROVE  EntriesAfterLog' /\ CommittedOnceInOrder'
<1>1. log' = log
  BY DEF server
<1>2. \A n \in OwnCommits' : n \in OwnCommits
  BY <1>1, OwnFacts DEF OwnCommits, KeepsOrder, Kept
<1>3. CommittedOnceInOrder'
  BY <1>1, <1>2 DEF CommittedOnceInOrder, Order
<1>4. ASSUME NEW n \in OwnCommits, NEW id \in DOMAIN store', Kept(id.intent)'
      PROVE  log[n].id.intent < id.intent \/ log[n].id = id
  <2>1. CASE id \in DOMAIN store
    <3>1. Kept(id.intent)
      BY <2>1, <1>4, StayFacts
    <3> QED BY <2>1, <3>1 DEF Order, EntriesAfterLog
  <2>2. CASE id.intent = Len(intents) + 1
    <3>1. log[n].id.intent \in DOMAIN intents
      BY OwnFacts DEF OwnCommits
    <3>2. Len(intents) \in Nat /\ DOMAIN intents = 1..Len(intents)
      BY DEF IInv, TypeOK
    <3> QED BY <2>2, <3>1, <3>2
  <2>3. ASSUME NEW old \in DOMAIN store, old.intent = id.intent, Commits(old) = {}
        PROVE  log[n].id.intent < id.intent \/ log[n].id = id
    <3>1. Kept(old.intent)
      BY <2>3, <1>4, StoreFacts DEF KeepsOrder
    <3>2. log[n].id # old
      BY <2>3 DEF Commits, OwnCommits
    <3> QED BY <2>3, <3>1, <3>2 DEF Order, EntriesAfterLog
  <2> QED BY <2>1, <2>2, <2>3, <1>4 DEF KeepsOrder
<1> QED BY <1>1, <1>2, <1>3, <1>4 DEF EntriesAfterLog

\* A commit is that of the first entry, and comes after those before it.
LEMMA CommitInOrder ==
  ASSUME IInv, Order, UNCHANGED <<store, intents>>, NEW id \in Ids, NEW op \in Ops,
         Append1(id, op), id.intent = 0 \/ \E r \in Sent : r.id = id /\ Commit(r)
  PROVE  EntriesAfterLog' /\ CommittedOnceInOrder'
<1>1. PICK n \in Nat : /\ n = Len(log) + 1 /\ DOMAIN log = 1..(n - 1) /\ DOMAIN log' = 1..n
                       /\ \A m \in DOMAIN log : log'[m] = log[m]
                       /\ log'[n].id = id
  <2>1. PICK e : e = [id |-> id, op |-> op]
    OBVIOUS
  <2>2. log \in Seq([id : Ids, op : Ops]) /\ e \in [id : Ids, op : Ops]
    BY <2>1 DEF IInv, TypeOK
  <2>3. log' = Append(log, e)
    BY <2>1 DEF Append1
  <2>4. /\ Len(log) \in Nat /\ DOMAIN log = 1..Len(log) /\ DOMAIN log' = 1..(Len(log) + 1)
        /\ \A m \in DOMAIN log : log'[m] = log[m]
        /\ log'[Len(log) + 1] = e
    BY <2>2, <2>3
  <2>5. e.id = id
    BY <2>1
  <2>6. PICK k \in Nat : k = Len(log)
    BY <2>4
  <2>7. k = (k + 1) - 1 /\ k + 1 \in Nat
    OBVIOUS
  <2> QED BY <2>4, <2>5, <2>6, <2>7
<1>2. \A m \in DOMAIN log' : m \in DOMAIN log \/ m = n
  BY <1>1
<1>3. \A m \in OwnCommits' : m \in OwnCommits \/ (m = n /\ id.intent # 0 /\ Kept(id.intent))
  BY <1>1, <1>2 DEF OwnCommits, Kept
<1>4. CASE id.intent = 0 \/ ~Kept(id.intent)
  <2>1. \A m \in OwnCommits' : m \in OwnCommits /\ log'[m] = log[m]
    BY <1>1, <1>3, <1>4 DEF OwnCommits
  <2> QED BY <2>1 DEF Order, EntriesAfterLog, CommittedOnceInOrder, Kept
<1>5. ASSUME NEW r \in Sent, r.id = id, Commit(r), Kept(id.intent)
      PROVE  EntriesAfterLog' /\ CommittedOnceInOrder'
  <2>1. Commits(id) = {} /\ ~Stale(r)
    BY <1>5 DEF Commit
  <2>2. ~Dead(id)
    <3>1. r \in Carried /\ r.rev \in Nat
      BY SentFacts, CarriedNamed DEF IInv
    <3>2. Server.docs[r.op.doc].rev = r.rev
      BY <2>1 DEF Stale
    <3>3. ~Behind(r)
      BY <3>1, <3>2 DEF Behind
    <3> QED BY <1>5, <3>1, <3>3 DEF Dead
  <2>3. First(id)
    BY <1>5, <2>1, <2>2 DEF Order, SentFirst, Over
  <2>4. \A m \in OwnCommits : log[m].id.intent < id.intent
    <3>1. \A m \in OwnCommits : log[m].id # id
      BY <2>1 DEF Commits, OwnCommits
    <3> QED BY <1>5, <2>3, <3>1 DEF Order, EntriesAfterLog, First
  <2>5. \A j \in DOMAIN store : Kept(j.intent) => id.intent < j.intent \/ id = j
    <3> TAKE j \in DOMAIN store
    <3> HAVE Kept(j.intent)
    <3>1. id \in DOMAIN store /\ store[id].seq <= store[j].seq
      BY <2>3 DEF First
    <3>2. /\ j.intent < id.intent => store[j].seq < store[id].seq
          /\ id.intent = j.intent => id = j
      BY <1>5, <3>1 DEF Order, EntriesInOrder
    <3>3. id.intent \in Nat /\ j.intent \in Nat /\ store[id].seq \in Nat /\ store[j].seq \in Nat
      BY <3>1, StoreFacts
    <3> QED BY <3>1, <3>2, <3>3
  <2>6. \A m \in OwnCommits : m \in DOMAIN log /\ log'[m] = log[m] /\ m < n
    BY <1>1 DEF OwnCommits
  <2>7. EntriesAfterLog'
    <3>1. ASSUME NEW m \in OwnCommits', NEW j \in DOMAIN store, Kept(j.intent)
          PROVE  log'[m].id.intent < j.intent \/ log'[m].id = j
      <4>1. CASE m \in OwnCommits
        BY <4>1, <2>6, <3>1 DEF Order, EntriesAfterLog
      <4>2. CASE m = n
        BY <4>2, <1>1, <2>5, <3>1
      <4> QED BY <4>1, <4>2, <1>3
    <3> QED BY <3>1 DEF EntriesAfterLog, Kept
  <2>8. CommittedOnceInOrder'
    <3>1. ASSUME NEW l \in OwnCommits', NEW m \in OwnCommits', l < m
          PROVE  log'[l].id.intent < log'[m].id.intent
      <4>1. CASE l \in OwnCommits /\ m \in OwnCommits
        BY <4>1, <2>6, <3>1 DEF Order, CommittedOnceInOrder
      <4>2. CASE l \in OwnCommits /\ m = n
        BY <4>2, <1>1, <2>4, <2>6
      <4>3. CASE l = n
        <5>1. m <= n /\ m \in Nat
          BY <1>1, <1>3, <2>6
        <5> QED BY <4>3, <5>1, <3>1
      <4> QED BY <4>1, <4>2, <4>3, <1>3
    <3> QED BY <3>1 DEF CommittedOnceInOrder
  <2> QED BY <2>7, <2>8
<1> QED BY <1>4, <1>5

\* Such a step keeps the order.
LEMMA OrderStep ==
  ASSUME IInv, StepOK, StoreStep, Order, NEW x, KeepsOrder(x)
  PROVE  Order'
<1>1. EntriesInOrder' /\ SentFirst' /\ ReviewedIsBlocked'
  <2>1. EntriesInOrder'
    BY EntriesStep
  <2>2. SentFirst'
    BY SentStep
  <2>3. ReviewedIsBlocked'
    BY DEF KeepsOrder
  <2> QED BY <2>1, <2>2, <2>3
<1>2. EntriesAfterLog' /\ CommittedOnceInOrder'
  <2>1. CASE UNCHANGED server
    BY <2>1, AfterLogStep
  <2>2. ASSUME NEW id \in Ids, NEW op \in Ops, Append1(id, op), id.intent = 0,
               UNCHANGED <<store, intents>>
        PROVE  EntriesAfterLog' /\ CommittedOnceInOrder'
    BY <2>2, CommitInOrder
  <2>3. ASSUME NEW r \in Sent, Commit(r), UNCHANGED <<store, intents>>
        PROVE  EntriesAfterLog' /\ CommittedOnceInOrder'
    <3>1. r.id \in Ids /\ r.op \in Ops /\ Append1(r.id, r.op)
      BY <2>3, SentFacts, CarriedNamed DEF IInv, Commit
    <3> QED BY <2>3, <3>1, CommitInOrder
  <2> QED BY <2>1, <2>2, <2>3 DEF KeepsOrder
<1> QED BY <1>1, <1>2 DEF Order

\* What an execution turns into when it sends nothing, what it sent, or the first entry.
Sends(y) ==
  \/ y.phase \in {"idle", "replaced"}
  \/ Request(y.id, y.entry) \in Sent
  \/ IsHead(store, y.id) /\ y.id \in DOMAIN store'

\* Nothing is sent but what was sent before, and the first entry.
LEMMA SentMore ==
  ASSUME stray' \subseteq Sent, \A w \in Workers : workers'[w] = workers[w] \/ Sends(workers'[w])
  PROVE  \A r \in Sent' : r \in Sent \/ (IsHead(store, r.id) /\ r.id \in DOMAIN store')
<1> SUFFICES ASSUME NEW r \in Sent', r \notin stray'
             PROVE  r \in Sent \/ (IsHead(store, r.id) /\ r.id \in DOMAIN store')
  OBVIOUS
<1>1. PICK w \in Workers : /\ r = Request(workers'[w].id, workers'[w].entry)
                           /\ workers'[w].phase \notin {"idle", "replaced"}
  BY DEF Sent, Sending, RequestOf
<1>2. r.id = workers'[w].id
  BY <1>1 DEF Request
<1>3. CASE workers'[w] = workers[w]
  BY <1>1, <1>3 DEF Sent, Sending, RequestOf
<1>4. CASE Sends(workers'[w])
  BY <1>1, <1>2, <1>4 DEF Sends
<1> QED BY <1>3, <1>4

\* An execution that moves alone, and sends what Sends allows.
LEMMA MoverSends ==
  ASSUME IInv, NEW w \in Workers, NEW y, Becomes(w, y), Sends(y), stray' \subseteq Sent
  PROVE  \A r \in Sent' : r \in Sent \/ (IsHead(store, r.id) /\ r.id \in DOMAIN store')
<1>1. workers \in [Workers -> Executions]
  BY DEF IInv, TypeOK
<1>2. \A v \in Workers : workers'[v] = IF v = w THEN y ELSE workers[v]
  BY <1>1 DEF Becomes
<1>3. \A v \in Workers : workers'[v] = workers[v] \/ Sends(workers'[v])
  BY <1>2
<1> QED BY <1>3, SentMore

\* The server stays as it is, or another device or a request that was sent commits.
Answers ==
  \/ UNCHANGED server
  \/ /\ UNCHANGED <<store, intents>>
     /\ \/ \E id \in Ids, op \in Ops : Append1(id, op) /\ id.intent = 0
        \/ \E r \in Sent : Commit(r)

\* A step that no tab takes part in, and after which every entry is still there
\* and blocked if it was.
LEMMA QuietOrder ==
  ASSUME Order, UNCHANGED <<views, intents>>, DOMAIN store' = DOMAIN store, Answers,
         \A id \in DOMAIN store : store[id].state = "conflict" => store'[id].state = "conflict",
         \A r \in Sent' : r \in Sent \/ (IsHead(store, r.id) /\ r.id \in DOMAIN store')
  PROVE  KeepsOrder(NoId)
<1>1. \A i : Kept(i)' <=> Kept(i)
  BY DEF Kept
<1>2. ReviewedIsBlocked'
  <2>1. \A id : IsBlocked(id) => IsBlocked(id)'
    BY DEF IsBlocked
  <2> QED BY <1>1, <2>1 DEF ReviewedIsBlocked, Order, InReview
<1> QED BY <1>1, <1>2 DEF KeepsOrder, Answers

\* What commits without an execution keeps the order.
LEMMA CommitKeeps ==
  ASSUME IInv, Order, RemoteWrite \/ ServeStray
  PROVE  KeepsOrder(NoId)
<1>1. UNCHANGED <<stray, store, workers, views, intents>>
  BY DEF RemoteWrite, ServeStray, shared
<1>2. Sent' = Sent
  BY <1>1 DEF Sent, Sending, RequestOf, Request
<1>3. Answers
  <2>1. CASE RemoteWrite
    <3>1. PICK d \in Docs, f \in Fields, v \in RemoteVals :
            LET op == [doc |-> d, field |-> f, from |-> Server.docs[d].content[f], to |-> v]
            IN Append1([intent |-> 0, try |-> Len(log)], op)
      BY <2>1 DEF RemoteWrite
    <3> DEFINE op == [doc |-> d, field |-> f, from |-> Server.docs[d].content[f], to |-> v]
               id == [intent |-> 0, try |-> Len(log)]
    <3>2. Server.docs[d].content[f] \in AllVals
      BY ServerFacts, SnapshotFacts DEF IInv
    <3>3. op \in Ops
      BY <3>2 DEF Ops, AllVals
    <3>4. id \in Ids /\ id.intent = 0
      BY ServerFacts DEF Ids, IInv
    <3>5. Append1(id, op)
      BY <3>1
    <3> QED BY <1>1, <3>3, <3>4, <3>5 DEF Answers
  <2>2. CASE ServeStray
    BY <1>1, <2>2 DEF ServeStray, Answers, Sent
  <2> QED BY <2>1, <2>2
<1> QED BY <1>1, <1>2, <1>3, QuietOrder

\* An execution that ends, with its entry put into another state, keeps the order.
LEMMA LetsOrder ==
  ASSUME IInv, Order, NEW w \in Workers, workers[w].phase # "idle", NEW e, Lets(w, e),
         stray' \subseteq Sent, UNCHANGED <<server, views, intents>>
  PROVE  KeepsOrder(NoId)
<1>1. DOMAIN store' = DOMAIN store
  BY DEF Lets
<1>2. \A id \in DOMAIN store : store[id].state = "conflict" => store'[id].state = "conflict"
  BY DEF Lets, OwnsLease
<1>3. Sends(Idle)
  BY DEF Sends, Idle
<1>4. \A r \in Sent' : r \in Sent \/ (IsHead(store, r.id) /\ r.id \in DOMAIN store')
  BY <1>3, MoverSends DEF Lets
<1> QED BY <1>1, <1>2, <1>4, QuietOrder DEF Answers

\* So does one that goes on with the same entry.
LEMMA GoesOnOrder ==
  ASSUME IInv, Order, NEW w \in Sending, NEW y, Becomes(w, y),
         y.id = workers[w].id, y.entry = workers[w].entry, Answers,
         UNCHANGED <<stray, store, views, intents>>
  PROVE  KeepsOrder(NoId)
<1>1. Sends(y) /\ stray' \subseteq Sent
  BY DEF Sends, Sent, RequestOf
<1>2. \A r \in Sent' : r \in Sent \/ (IsHead(store, r.id) /\ r.id \in DOMAIN store')
  BY <1>1, MoverSends DEF Sending
<1> QED BY <1>2, QuietOrder

\* The steps of an execution from sending to settling.
LEMMA ExecutionOrder ==
  ASSUME IInv, Order, NEW w \in Workers,
         ServeRequest(w) \/ Confirm(w) \/ FetchRemote(w) \/ AlreadyApplied(w)
           \/ WriteReplica(w) \/ RefusedInPassing(w)
  PROVE  KeepsOrder(NoId)
<1>1. PICK x : x = workers[w]
  OBVIOUS
<1>2. /\ x.phase \in {"waiting", "acked", "stale", "merging", "settling"} /\ w \in Sending
      /\ UNCHANGED <<stray, store, views, intents>>
  BY <1>1 DEF ServeRequest, Confirm, FetchRemote, AlreadyApplied, WriteReplica,
              RefusedInPassing, shared, Sending
<1>3. x \in Senders \cup Settlers
  BY <1>1, <1>2, WorkerFacts DEF IInv
<1>4. Answers
  <2>1. UNCHANGED server \/ Commit(RequestOf(w))
    BY DEF ServeRequest, Confirm, FetchRemote, AlreadyApplied, WriteReplica, RefusedInPassing
  <2> QED BY <1>2, <2>1 DEF Answers, Sent
<1>5. \E y : Becomes(w, y) /\ y.id = x.id /\ y.entry = x.entry
  <2>1. \A p, y : y = [x EXCEPT !.phase = p] => y.id = x.id /\ y.entry = x.entry
    BY <1>3 DEF Senders, Settlers
  <2>2. \A p, n, y : y = [x EXCEPT !.phase = p, !.opSeq = n] => y.id = x.id /\ y.entry = x.entry
    BY <1>3 DEF Senders, Settlers
  <2>3. workers \in [Workers -> Executions]
    BY DEF IInv, TypeOK
  <2>4. \A p : Advances(w, p) => workers' = [workers EXCEPT ![w] = [x EXCEPT !.phase = p]]
    BY <1>1, <2>3 DEF Advances
  <2>5. CASE \E p : Advances(w, p)
    BY <2>1, <2>4, <2>5 DEF Becomes
  <2>6. CASE \E p, n : workers' = [workers EXCEPT ![w] = [x EXCEPT !.phase = p, !.opSeq = n]]
    <3>1. PICK p, n : workers' = [workers EXCEPT ![w] = [x EXCEPT !.phase = p, !.opSeq = n]]
      BY <2>6
    <3>2. PICK y : y = [x EXCEPT !.phase = p, !.opSeq = n]
      OBVIOUS
    <3>3. Becomes(w, y)
      BY <3>1, <3>2 DEF Becomes
    <3> QED BY <2>2, <3>2, <3>3
  <2>7. CASE \E s : workers' = [workers EXCEPT ![w] = [phase |-> "settling", id |-> x.id,
                                                     entry |-> x.entry, snapshot |-> s]]
    <3>1. PICK n : workers' = [workers EXCEPT ![w] = [phase |-> "settling", id |-> x.id,
                                                      entry |-> x.entry, snapshot |-> n]]
      BY <2>7
    <3>2. PICK y : y = [phase |-> "settling", id |-> x.id, entry |-> x.entry, snapshot |-> n]
      OBVIOUS
    <3>3. Becomes(w, y)
      BY <3>1, <3>2 DEF Becomes
    <3>4. y.id = x.id /\ y.entry = x.entry
      BY <3>2
    <3> QED BY <3>3, <3>4
  <2>8. CASE ServeRequest(w) \/ FetchRemote(w)
    <3>1. \/ \E p : Advances(w, p)
          \/ \E p, n : workers' = [workers EXCEPT ![w] = [x EXCEPT !.phase = p, !.opSeq = n]]
      BY <1>1, <2>8 DEF ServeRequest, FetchRemote, Becomes
    <3> QED BY <2>5, <2>6, <3>1
  <2>9. CASE Confirm(w) \/ AlreadyApplied(w)
    BY <1>1, <2>7, <2>9 DEF Confirm, AlreadyApplied, Settling, Becomes
  <2>10. CASE WriteReplica(w) \/ RefusedInPassing(w)
    BY <2>5, <2>10 DEF WriteReplica, RefusedInPassing
  <2> QED BY <2>8, <2>9, <2>10
<1> QED BY <1>1, <1>2, <1>4, <1>5, GoesOnOrder

\* The steps with which an execution gives up, and its crash.
LEMMA EndingOrder ==
  ASSUME IInv, Order, NEW w \in Workers,
         FailEntry(w) \/ GiveUpRebasing(w) \/ BlockOnConflict(w)
           \/ NetworkFails(w) \/ CrashWorker(w) \/ ReplicaWriteFails(w)
  PROVE  KeepsOrder(NoId)
<1>1. workers[w].phase # "idle" /\ UNCHANGED <<server, views, intents>>
  BY DEF FailEntry, GiveUpRebasing, BlockOnConflict, NetworkFails, CrashWorker, ReplicaWriteFails
<1>2. stray' \subseteq Sent
  <2>1. Strays(w) => stray' \subseteq Sent
    BY DEF Strays, Sent, Sending
  <2>2. stray' = stray \/ Strays(w)
    BY DEF FailEntry, GiveUpRebasing, BlockOnConflict, NetworkFails, CrashWorker, ReplicaWriteFails
  <2> QED BY <2>1, <2>2 DEF Sent
<1>3. CASE \E e : Lets(w, e)
  BY <1>1, <1>2, <1>3, LetsOrder
<1>4. CASE CrashWorker(w)
  <2>1. UNCHANGED store
    BY <1>4 DEF CrashWorker, shared
  <2>2. Sends(Idle) /\ Becomes(w, Idle)
    BY <1>4 DEF CrashWorker, Sends, Idle
  <2>3. \A r \in Sent' : r \in Sent \/ (IsHead(store, r.id) /\ r.id \in DOMAIN store')
    BY <1>2, <2>2, MoverSends
  <2> QED BY <1>1, <2>1, <2>3, QuietOrder DEF Answers
<1>5. CASE ReplicaWriteFails(w) /\ Advances(w, "removing") /\ UNCHANGED store
  <2>1. PICK x : x = workers[w]
    OBVIOUS
  <2>2. x.phase = "settling" /\ w \in Sending
    BY <1>5, <2>1 DEF ReplicaWriteFails, Sending
  <2>3. PICK y : y = [x EXCEPT !.phase = "removing"]
    OBVIOUS
  <2>4. Becomes(w, y) /\ y.id = x.id /\ y.entry = x.entry
    BY <1>5, <2>1, <2>2, <2>3, RemovingFacts
  <2>5. Answers /\ UNCHANGED <<stray, store, views, intents>>
    BY <1>1, <1>5 DEF Answers, ReplicaWriteFails
  <2> QED BY <2>1, <2>2, <2>4, <2>5, GoesOnOrder
<1>6. \/ \E e : Lets(w, e)
      \/ CrashWorker(w)
      \/ ReplicaWriteFails(w) /\ Advances(w, "removing") /\ UNCHANGED store
  BY DEF FailEntry, GiveUpRebasing, BlockOnConflict, NetworkFails, ReplicaWriteFails
<1> QED BY <1>3, <1>4, <1>5, <1>6

\* Claims, timers and requeues.
LEMMA ClaimOrder ==
  ASSUME IInv, Order,
         \/ \E w \in Workers : Claim(w) \/ ClaimReplacement(w)
         \/ \E id \in DOMAIN store : Timer(id) \/ Requeue(id)
  PROVE  KeepsOrder(NoId)
<1>1. UNCHANGED <<server, stray, views, intents>> /\ stray' \subseteq Sent
  BY DEF Claim, ClaimReplacement, Timer, RetryDue, LeaseExpires, Overdue, Requeue, Sent
<1>2. store \in [DOMAIN store -> Entries] /\ workers \in [Workers -> Executions]
  BY DEF IInv, TypeOK
<1>3. ASSUME NEW w \in Workers, NEW id \in DOMAIN store, Candidate(store, id), NEW e,
             store' = [store EXCEPT ![id] = e], NEW y, y.id = id, Becomes(w, y)
      PROVE  KeepsOrder(NoId)
  <2>1. DOMAIN store' = DOMAIN store /\ Sends(y)
    BY <1>3 DEF Candidate, Sends
  <2>2. \A j \in DOMAIN store : store[j].state = "conflict" => store'[j].state = "conflict"
    BY <1>3 DEF Candidate, Claimable
  <2>3. \A r \in Sent' : r \in Sent \/ (IsHead(store, r.id) /\ r.id \in DOMAIN store')
    BY <1>1, <1>3, <2>1, MoverSends
  <2> QED BY <1>1, <2>1, <2>2, <2>3, QuietOrder DEF Answers
<1>4. ASSUME NEW w \in Workers, Claim(w) PROVE KeepsOrder(NoId)
  <2>1. PICK id \in DOMAIN store :
          /\ Candidate(store, id)
          /\ store' = [store EXCEPT ![id] = Claimed(@, w)]
          /\ Becomes(w, [phase |-> "waiting", id |-> id, entry |-> store'[id],
                         rebases |-> 0, opSeq |-> 0])
    BY <1>4 DEF Claim
  <2> QED BY <2>1, <1>3
<1>5. ASSUME NEW w \in Workers, ClaimReplacement(w) PROVE KeepsOrder(NoId)
  <2>1. PICK x : x = workers[w]
    OBVIOUS
  <2>2. x \in Senders
    BY <1>5, <2>1, SenderFacts DEF ClaimReplacement
  <2>3. CASE /\ Candidate(store, x.id)
             /\ store' = [store EXCEPT ![x.id] = Claimed(@, w)]
             /\ Becomes(w, [x EXCEPT !.phase = "waiting", !.entry = store'[x.id],
                                     !.rebases = @ + 1, !.opSeq = 0])
    <3>1. PICK y : y = [x EXCEPT !.phase = "waiting", !.entry = store'[x.id],
                                 !.rebases = @ + 1, !.opSeq = 0]
      OBVIOUS
    <3>2. y.id = x.id
      BY <2>2, <3>1 DEF Senders
    <3>3. x.id \in DOMAIN store
      BY <2>3 DEF Candidate, IsHead
    <3> QED BY <2>3, <3>1, <3>2, <3>3, <1>3
  <2>4. CASE Becomes(w, Idle) /\ UNCHANGED store
    <3>1. Sends(Idle)
      BY DEF Sends, Idle
    <3>2. \A r \in Sent' : r \in Sent \/ (IsHead(store, r.id) /\ r.id \in DOMAIN store')
      BY <1>1, <2>4, <3>1, MoverSends
    <3> QED BY <1>1, <2>4, <3>2, QuietOrder DEF Answers
  <2> QED BY <1>5, <2>1, <2>3, <2>4 DEF ClaimReplacement
<1>6. ASSUME NEW id \in DOMAIN store, Timer(id) \/ Requeue(id) PROVE KeepsOrder(NoId)
  <2>1. workers' = workers
    BY <1>6 DEF Timer, RetryDue, LeaseExpires, Overdue, Requeue
  <2>2. Sent' = Sent
    BY <1>1, <2>1 DEF Sent, Sending, RequestOf, Request
  <2>3. \A j \in DOMAIN store : store[j].state = "conflict" => store'[j].state = "conflict"
    <3>1. CASE Timer(id)
      <4>1. store' = [store EXCEPT ![id].due = TRUE]
        BY <3>1 DEF Timer, RetryDue, LeaseExpires, Overdue
      <4>2. store[id] \in Entries
        BY <1>2
      <4>3. [store[id] EXCEPT !.due = TRUE].state = store[id].state
        BY <4>2 DEF Entries
      <4> QED BY <4>1, <4>3
    <3>2. CASE Requeue(id)
      BY <3>2 DEF Requeue
    <3> QED BY <1>6, <3>1, <3>2
  <2>4. DOMAIN store' = DOMAIN store
    BY <1>6 DEF Timer, RetryDue, LeaseExpires, Overdue, Requeue
  <2> QED BY <1>1, <2>2, <2>3, <2>4, QuietOrder DEF Answers
<1> QED BY <1>4, <1>5, <1>6

\* A replacement has the place of the entry it replaces, whatever it is.
LEMMA ReplacedSeq ==
  ASSUME NEW id, NEW fresh, NEW op \in Ops, NEW s \in Snapshots,
         store' = Replaced(store, id, fresh, Resolved(op, s))
  PROVE  store'[fresh].seq = store[id].seq
<1>1. PICK e : e = Resolved(op, s)
  OBVIOUS
<1>2. PICK f : f = [e EXCEPT !.seq = store[id].seq, !.attempts = store[id].attempts]
  OBVIOUS
<1>3. e \in Entries
  BY <1>1, ResolvedFacts, NewEntryType
<1>4. f.seq = store[id].seq
  BY <1>2, <1>3 DEF Entries
<1>5. store'[fresh] = f
  BY <1>1, <1>2 DEF Replaced
<1> QED BY <1>4, <1>5

\* An execution removes the entry it has settled, or replaces the one it has merged.
LEMMA RemoveOrder ==
  ASSUME IInv, Order, NEW w \in Workers, RemoveEntry(w)
  PROVE  KeepsOrder(NoId)
<1>1. PICK id : id = workers[w].id
  OBVIOUS
<1>2. UNCHANGED <<server, stray, views, intents>> /\ Becomes(w, Idle)
      /\ workers[w].phase = "removing"
  BY DEF RemoveEntry
<1>3. Over(id)
  BY <1>1, <1>2, SettlerFacts DEF WorkerOK, Over
<1>4. CASE UNCHANGED store
  <2>1. Sends(Idle)
    BY DEF Sends, Idle
  <2>2. \A r \in Sent' : r \in Sent \/ (IsHead(store, r.id) /\ r.id \in DOMAIN store')
    BY <1>2, <2>1, MoverSends DEF Sent
  <2> QED BY <1>2, <1>4, <2>2, QuietOrder DEF Answers
<1>5. CASE OwnsLease(store, id, w) /\ store' = Removed(store, id)
  <2>1. DOMAIN store' = DOMAIN store \ {id} /\ \A j \in DOMAIN store' : store'[j] = store[j]
    BY <1>5 DEF Removed
  <2>2. Sends(Idle)
    BY DEF Sends, Idle
  <2>3. \A r \in Sent' : r \in Sent \/ (IsHead(store, r.id) /\ r.id \in DOMAIN store')
    BY <1>2, <2>2, MoverSends DEF Sent
  <2>4. \A i : Kept(i)' <=> Kept(i)
    BY <1>2 DEF Kept
  <2>5. ReviewedIsBlocked'
    <3>1. \A j : IsBlocked(j) => IsBlocked(j)'
      BY <1>5, <2>1 DEF IsBlocked, OwnsLease
    <3> QED BY <1>2, <2>4, <3>1 DEF ReviewedIsBlocked, Order, InReview
  <2>6. \A j \in DOMAIN store \ DOMAIN store' : Over(j)
    BY <1>3, <2>1
  <2> QED BY <1>2, <2>1, <2>3, <2>4, <2>5, <2>6 DEF KeepsOrder
<1> QED BY <1>1, <1>4, <1>5 DEF RemoveEntry

\* A rebased entry takes the place of one that is dead.
LEMMA RebaseOrder ==
  ASSUME IInv, Order, NEW w \in Workers, Rebase(w)
  PROVE  \E x : KeepsOrder(x)
<1>1. PICK x : x = workers[w]
  OBVIOUS
<1>2. PICK id : id = x.id
  OBVIOUS
<1>3. PICK fresh : fresh = Fresh(id)
  OBVIOUS
<1>4. workers[w].phase = "merging" /\ UNCHANGED <<server, stray, views, intents>>
      /\ stray' \subseteq Sent
  BY <1>1 DEF Rebase, Sent
<1>5. x \in Senders /\ Dead(id) /\ id \in Ids
  BY <1>1, <1>2, <1>4, SenderFacts DEF WorkerOK
<1>6. CASE Becomes(w, Idle) /\ UNCHANGED store
  <2>1. Sends(Idle)
    BY DEF Sends, Idle
  <2>2. \A r \in Sent' : r \in Sent \/ (IsHead(store, r.id) /\ r.id \in DOMAIN store')
    BY <1>4, <1>6, <2>1, MoverSends
  <2> QED BY <1>4, <1>6, <2>2, QuietOrder DEF Answers
<1>7. CASE /\ OwnsLease(store, id, w)
           /\ store' = Replaced(store, id, fresh, Resolved(x.entry.op, history[x.opSeq]))
           /\ Becomes(w, [x EXCEPT !.phase = "replaced", !.id = fresh])
  <2>1. fresh.intent = id.intent /\ fresh \notin NamedIds
    BY <1>3, <1>5, FreshFacts DEF IInv
  <2>2. id \in DOMAIN store /\ fresh \notin DOMAIN store
    BY <1>7, <2>1 DEF OwnsLease, NamedIds
  <2>3. /\ DOMAIN store' = (DOMAIN store \ {id}) \cup {fresh}
        /\ \A j \in DOMAIN store \ {id} : store'[j] = store[j]
    BY <1>7, <2>2 DEF Replaced
  <2>4. store'[fresh].seq = store[id].seq
    <3>1. x.entry.op \in Ops /\ x.opSeq \in DOMAIN history
      BY <1>1, <1>4, SenderFacts DEF WorkerOK
    <3>2. history[x.opSeq] \in Snapshots
      BY <3>1, ServerFacts DEF IInv
    <3> QED BY <1>7, <3>1, <3>2, ReplacedSeq
  <2>5. PICK y : y = [x EXCEPT !.phase = "replaced", !.id = fresh]
    OBVIOUS
  <2>6. Becomes(w, y) /\ Sends(y)
    BY <1>5, <1>7, <2>5 DEF Senders, Sends
  <2>7. \A r \in Sent' : r \in Sent \/ (IsHead(store, r.id) /\ r.id \in DOMAIN store')
    BY <1>4, <2>6, MoverSends
  <2>8. \A i : Kept(i)' <=> Kept(i)
    BY <1>4 DEF Kept
  <2>9. ReviewedIsBlocked'
    <3>1. \A j : IsBlocked(j) => IsBlocked(j)'
      BY <1>7, <2>3 DEF IsBlocked, OwnsLease
    <3> QED BY <1>4, <2>8, <3>1 DEF ReviewedIsBlocked, Order, InReview
  <2>10. id \in DOMAIN store \ DOMAIN store' /\ Commits(id) = {} /\ Over(id)
    BY <1>5, <2>2, <2>3 DEF Dead, Over
  <2>11. \A j \in DOMAIN store' \ DOMAIN store : j = fresh
    BY <2>3
  <2>12. \A j \in DOMAIN store \ DOMAIN store' : j = id
    BY <2>3
  <2>13. KeepsOrder(fresh)
    BY <1>4, <2>1, <2>4, <2>7, <2>8, <2>9, <2>10, <2>11, <2>12 DEF KeepsOrder
  <2> QED BY <2>13
<1> QED BY <1>1, <1>2, <1>3, <1>6, <1>7 DEF Rebase, OpOf

\* A step of a tab sends nothing.
LEMMA SentStays ==
  ASSUME UNCHANGED <<stray, workers>>
  PROVE  \A r \in Sent' : r \in Sent
BY DEF Sent, Sending, RequestOf, Request

\* The reviews are closed, or still of a blocked entry.
LEMMA ReviewStep ==
  ASSUME Order,
         \A u \in Tabs : \/ views'[u].review = NoReview
                         \/ \E id : id = views'[u].review.id /\ IsBlocked(id)'
                         \/ /\ views'[u].review = views[u].review
                            /\ Kept(views[u].review.id.intent)' => Kept(views[u].review.id.intent),
         \A id : IsBlocked(id) /\ Kept(id.intent)' => IsBlocked(id)'
  PROVE  ReviewedIsBlocked'
BY DEF ReviewedIsBlocked, Order, InReview

\* The place of an entry that is put at the end.
LEMMA EnqueuedSeq ==
  ASSUME NEW new, NEW op, NEW s, store' = Enqueued(store, new, NewEntry(op, s))
  PROVE  /\ DOMAIN store' = DOMAIN store \cup {new}
         /\ store'[new].seq = LastSeq(store) + 1
         /\ \A j \in DOMAIN store \ {new} : store'[j] = store[j]
<1>1. PICK f : f = [NewEntry(op, s) EXCEPT !.seq = LastSeq(store) + 1]
  OBVIOUS
<1>2. f.seq = LastSeq(store) + 1
  BY <1>1 DEF NewEntry
<1>3. store' = [i \in DOMAIN store \cup {new} |-> IF i = new THEN f ELSE store[i]]
  BY <1>1 DEF Enqueued
<1> QED BY <1>2, <1>3

\* A new edit comes last.
LEMMA EditOrder ==
  ASSUME IInv, IInv', Order, NEW t \in Tabs, Edit(t) \/ EditInVain(t)
  PROVE  \E x : KeepsOrder(x)
<1>1. TypeOK /\ NamesOK /\ TypeOK' /\ UNCHANGED <<server, stray, workers>>
  BY DEF IInv, Edit, EditInVain
<1>2. PICK op, st : Queue(t, op, st)
  BY DEF Edit, EditInVain
<1>3. PICK x : x = Pending(Len(intents) + 1)
  OBVIOUS
<1>4. /\ x \notin NamedIds /\ x.intent = Len(intents) + 1
      /\ Len(intents) \in Nat /\ DOMAIN intents = 1..Len(intents)
  BY <1>1, <1>3, NewEditFacts
<1>5. /\ DOMAIN store' = DOMAIN store \cup {x}
      /\ store'[x].seq = LastSeq(store) + 1
      /\ \A j \in DOMAIN store : store'[j] = store[j]
  <2>1. PICK s : store' = Enqueued(store, x, NewEntry(op, s))
    BY <1>2, <1>3 DEF Queue
  <2>2. x \notin DOMAIN store
    BY <1>4 DEF NamedIds
  <2> QED BY <2>1, <2>2, EnqueuedSeq
<1>6. \A i \in DOMAIN intents : intents'[i] = intents[i]
  <2>1. PICK e : intents' = Append(intents, e)
    BY <1>2 DEF Queue
  <2>2. PICK S : S = Edits \cup {e}
    OBVIOUS
  <2>3. intents \in Seq(S) /\ e \in S
    BY <1>1, <2>2 DEF TypeOK
  <2> QED BY <2>1, <2>3, <1>4
<1>7. \A i \in DOMAIN intents : Kept(i)' <=> Kept(i)
  BY <1>6 DEF Kept
<1>8. ReviewedIsBlocked'
  <2>1. \A u \in Tabs : views'[u].review = views[u].review
    <3>1. PICK v \in Views : v = views[t]
      BY <1>1 DEF TypeOK
    <3>2. PICK y : /\ y.review = v.review
                   /\ views' = [views EXCEPT ![t] = y]
      <4>1. CASE Edit(t)
        <5>1. PICK s : views' = [views EXCEPT ![t].snapshot = s]
          BY <4>1 DEF Edit
        <5>2. PICK y : y = [v EXCEPT !.snapshot = s]
          OBVIOUS
        <5>3. y.review = v.review /\ views' = [views EXCEPT ![t] = y]
          BY <1>1, <3>1, <5>1, <5>2 DEF Views, TypeOK
        <5> QED BY <5>3
      <4>2. CASE EditInVain(t)
        <5>1. PICK d : views' = [views EXCEPT ![t].doomed = d]
          BY <4>2 DEF EditInVain
        <5>2. PICK y : y = [v EXCEPT !.doomed = d]
          OBVIOUS
        <5>3. y.review = v.review /\ views' = [views EXCEPT ![t] = y]
          BY <1>1, <3>1, <5>1, <5>2 DEF Views, TypeOK
        <5> QED BY <5>3
      <4> QED BY <4>1, <4>2
    <3>3. \A u \in Tabs : views'[u] = views[u] \/ (u = t /\ views'[u] = y)
      BY <1>1, <3>2 DEF TypeOK
    <3> QED BY <3>1, <3>2, <3>3
  <2>2. \A u \in Tabs : InReview(u) => views[u].review.id.intent \in DOMAIN intents
    BY DEF IInv, ViewsOK, ViewOK, InReview, Serves
  <2>3. \A id : IsBlocked(id) => IsBlocked(id)'
    BY <1>5 DEF IsBlocked
  <2> QED BY <1>7, <2>1, <2>2, <2>3, ReviewStep DEF InReview
<1>9. \A r \in Sent' : r \in Sent
  BY <1>1, SentStays
<1>10. KeepsOrder(x)
  BY <1>1, <1>4, <1>5, <1>7, <1>8, <1>9 DEF KeepsOrder
<1> QED BY <1>10

\* An edit that is taken back is not kept.
LEMMA RejectOrder ==
  ASSUME IInv, Order, NEW t \in Tabs, RejectEdit(t)
  PROVE  KeepsOrder(NoId)
<1>1. TypeOK /\ UNCHANGED <<server, stray, workers>>
  BY DEF IInv, RejectEdit
<1>2. PICK v \in Views : v = views[t]
  BY <1>1 DEF TypeOK
<1>3. PICK id : id = v.doomed
  OBVIOUS
<1>4. id.intent \in DOMAIN intents
  BY <1>2, <1>3 DEF RejectEdit, IInv, ViewsOK, ViewOK
<1>5. /\ store' = Removed(store, id)
      /\ intents' = [intents EXCEPT ![id.intent].status = "rejected"]
      /\ views' = [views EXCEPT ![t] = [v EXCEPT !.doomed = NoId]]
  BY <1>1, <1>2, <1>3 DEF RejectEdit, TypeOK
<1>6. ~Kept(id.intent)' /\ \A i \in DOMAIN intents : Kept(i)' => Kept(i)
  <2>1. intents[id.intent] \in Edits
    BY <1>1, <1>4, EditFacts
  <2>2. intents'[id.intent].status = "rejected"
    BY <1>4, <1>5, <2>1 DEF Edits
  <2>3. \A i \in DOMAIN intents : i # id.intent => intents'[i] = intents[i]
    BY <1>5
  <2> QED BY <2>2, <2>3 DEF Kept
<1>7. DOMAIN store' = DOMAIN store \ {id} /\ \A j \in DOMAIN store' : store'[j] = store[j]
  BY <1>5 DEF Removed
<1>8. ReviewedIsBlocked'
  <2>1. \A u \in Tabs : views'[u].review = views[u].review
    <3>1. [v EXCEPT !.doomed = NoId].review = v.review
      BY DEF Views
    <3>2. \A u \in Tabs : views'[u] = views[u] \/ (u = t /\ views'[u] = [v EXCEPT !.doomed = NoId])
      BY <1>1, <1>5 DEF TypeOK
    <3> QED BY <1>2, <3>1, <3>2
  <2>2. \A u \in Tabs : InReview(u) => views[u].review.id.intent \in DOMAIN intents
    BY DEF IInv, ViewsOK, ViewOK, InReview, Serves
  <2>3. \A j : IsBlocked(j) /\ Kept(j.intent)' => IsBlocked(j)'
    BY <1>6, <1>7 DEF IsBlocked
  <2> QED BY <1>6, <2>1, <2>2, <2>3, ReviewStep DEF InReview
<1>9. \A r \in Sent' : r \in Sent
  BY <1>1, SentStays
<1> QED BY <1>1, <1>6, <1>7, <1>8, <1>9 DEF KeepsOrder

\* Opening the workspace closes the review, opening a review finds a blocked entry.
LEMMA OpenOrder ==
  ASSUME IInv, Order, NEW t \in Tabs, OpenWorkspace(t) \/ OpenReview(t)
  PROVE  KeepsOrder(NoId)
<1>1. TypeOK /\ UNCHANGED <<server, stray, store, workers>>
  BY DEF IInv, OpenWorkspace, OpenReview, shared
<1>2. \A i \in DOMAIN intents : Kept(i)' <=> Kept(i)
  <2>1. CASE OpenWorkspace(t)
    <3>1. \A i \in DOMAIN intents :
            \/ intents'[i] = intents[i]
            \/ intents[i].status = "doomed" /\ intents'[i] = [intents[i] EXCEPT !.status = "open"]
      BY <2>1 DEF OpenWorkspace
    <3>2. \A i \in DOMAIN intents : [intents[i] EXCEPT !.status = "open"].status = "open"
      BY <1>1, EditFacts DEF Edits
    <3> QED BY <3>1, <3>2 DEF Kept
  <2>2. CASE OpenReview(t)
    BY <2>2 DEF OpenReview, Kept
  <2> QED BY <2>1, <2>2
<1>3. ReviewedIsBlocked'
  <2>1. \A id : IsBlocked(id)' <=> IsBlocked(id)
    BY <1>1 DEF IsBlocked
  <2>2. \A u \in Tabs : InReview(u) => views[u].review.id.intent \in DOMAIN intents
    BY DEF IInv, ViewsOK, ViewOK, InReview, Serves
  <2>3. \A u \in Tabs : \/ views'[u].review = NoReview
                        \/ IsBlocked(views'[u].review.id)
                        \/ views'[u].review = views[u].review
    <3>1. CASE OpenWorkspace(t)
      <4>1. PICK s : views' = [views EXCEPT ![t] = [snapshot |-> s, doomed |-> NoId,
                                                    review |-> NoReview]]
        BY <3>1 DEF OpenWorkspace
      <4>2. PICK y : y = [snapshot |-> s, doomed |-> NoId, review |-> NoReview]
        OBVIOUS
      <4>3. \A u \in Tabs : views'[u] = views[u] \/ views'[u] = y
        BY <1>1, <4>1, <4>2 DEF TypeOK
      <4> QED BY <4>2, <4>3
    <3>2. CASE OpenReview(t)
      <4>1. PICK id \in DOMAIN store :
              /\ IsBlocked(id)
              /\ views' = [views EXCEPT ![t].review =
                             [id |-> id, op |-> store[id].op, session |-> store[id].session]]
        BY <3>2 DEF OpenReview
      <4>2. PICK v \in Views : v = views[t]
        BY <1>1 DEF TypeOK
      <4>3. PICK r : r = [id |-> id, op |-> store[id].op, session |-> store[id].session]
        OBVIOUS
      <4>4. PICK y : y = [v EXCEPT !.review = r]
        OBVIOUS
      <4>5. y.review = r /\ r.id = id
        BY <4>3, <4>4 DEF Views
      <4>6. \A u \in Tabs : views'[u] = views[u] \/ views'[u] = y
        BY <1>1, <4>1, <4>2, <4>3, <4>4 DEF TypeOK
      <4> QED BY <4>1, <4>5, <4>6
    <3> QED BY <3>1, <3>2
  <2> QED BY <1>2, <2>1, <2>2, <2>3, ReviewStep DEF InReview
<1>4. \A r \in Sent' : r \in Sent
  BY <1>1, SentStays
<1> QED BY <1>1, <1>2, <1>3, <1>4 DEF KeepsOrder

\* Nothing is in review after the only tab has answered.
LEMMA AnsweredReview ==
  ASSUME SingleTab, TypeOK, NEW t \in Tabs, CloseReview(t)
  PROVE  ReviewedIsBlocked'
<1>1. PICK v \in Views : v = views[t]
  BY DEF TypeOK
<1>2. PICK y : y = [v EXCEPT !.review = NoReview]
  OBVIOUS
<1>3. y.review = NoReview
  BY <1>2 DEF Views
<1>4. views'[t] = y
  BY <1>1, <1>2 DEF CloseReview, TypeOK
<1>5. \A u \in Tabs : u = t
  BY DEF SingleTab
<1>6. \A u \in Tabs : views'[u].review = NoReview
  BY <1>3, <1>4, <1>5
<1> QED BY <1>6 DEF ReviewedIsBlocked, InReview

\* The entry that keeps the local value takes the place of the blocked one.
LEMMA KeepLocalOrder ==
  ASSUME SingleTab, IInv, Order, NEW t \in Tabs, KeepLocal(t)
  PROVE  \E x : KeepsOrder(x)
<1>1. TypeOK /\ NamesOK /\ UNCHANGED <<server, stray, workers>> /\ CloseReview(t)
  BY DEF IInv, KeepLocal
<1>2. PICK r : r = views[t].review
  OBVIOUS
<1>3. InReview(t) /\ r # NoReview /\ r \in Reviews
  BY <1>1, <1>2 DEF KeepLocal, InReview, TypeOK, Views
<1>4. PICK id \in Ids : id = r.id
  BY <1>3 DEF Reviews
<1>5. /\ r.op \in Ops /\ Serves(id.intent, r.op) /\ r.session \in DOMAIN history
  BY <1>2, <1>3, <1>4 DEF Reviews, IInv, ViewsOK, ViewOK
<1>6. PICK s \in Snapshots : s = history[r.session]
  BY <1>1, <1>5, ServerFacts
<1>7. PICK fresh : fresh = Fresh(id)
  OBVIOUS
<1>8. fresh.intent = id.intent /\ fresh \notin NamedIds /\ fresh \notin DOMAIN store
  BY <1>1, <1>7, FreshFacts DEF NamedIds
<1>9. PICK e : e = Resolved(r.op, s)
  OBVIOUS
<1>10. /\ store' = IF IsBlocked(id) THEN Replaced(store, id, fresh, e)
                   ELSE Enqueued(store, fresh, e)
       /\ \E y : intents' = [intents EXCEPT ![id.intent].seen = y]
  BY <1>2, <1>4, <1>6, <1>7, <1>9 DEF KeepLocal, ReviewedSnapshot
<1>11. \A i \in DOMAIN intents : Kept(i)' <=> Kept(i)
  <2>1. PICK y : intents' = [intents EXCEPT ![id.intent].seen = y]
    BY <1>10
  <2>2. \A i \in DOMAIN intents : [intents[i] EXCEPT !.seen = y].status = intents[i].status
    BY <1>1, EditFacts DEF Edits
  <2>3. \A i \in DOMAIN intents : \/ intents'[i] = intents[i]
                                 \/ intents'[i] = [intents[i] EXCEPT !.seen = y]
    BY <2>1
  <2> QED BY <2>2, <2>3 DEF Kept
<1>12. id.intent \in DOMAIN intents
  BY <1>5 DEF Serves
<1>13. ReviewedIsBlocked'
  BY <1>1, AnsweredReview
<1>14. \A q \in Sent' : q \in Sent
  BY <1>1, SentStays
<1>15. CASE IsBlocked(id)
  <2>1. /\ DOMAIN store' = (DOMAIN store \ {id}) \cup {fresh} /\ id \in DOMAIN store
        /\ id # fresh /\ \A j \in DOMAIN store \ {id} : store'[j] = store[j]
    BY <1>8, <1>10, <1>15 DEF Replaced, IsBlocked
  <2>2. store'[fresh].seq = store[id].seq
    BY <1>5, <1>9, <1>10, <1>15, ReplacedSeq
  <2>3. Dead(id)
    BY <1>15 DEF IsBlocked, IInv, StoreOK, EntryOK
  <2>4. id \in DOMAIN store \ DOMAIN store' /\ Commits(id) = {} /\ Over(id)
    BY <2>1, <2>3 DEF Dead, Over
  <2>5. /\ \A j \in DOMAIN store' \ DOMAIN store : j = fresh
        /\ \A j \in DOMAIN store \ DOMAIN store' : j = id
    BY <2>1
  <2>6. KeepsOrder(fresh)
    BY <1>1, <1>8, <1>11, <1>13, <1>14, <2>2, <2>4, <2>5 DEF KeepsOrder
  <2> QED BY <2>6
<1>16. CASE ~IsBlocked(id)
  <2>1. ~Kept(id.intent)
    BY <1>2, <1>3, <1>4, <1>16 DEF Order, ReviewedIsBlocked
  <2>2. DOMAIN store' = DOMAIN store \cup {fresh}
    BY <1>10, <1>16 DEF Enqueued
  <2>3. \A j \in DOMAIN store' \ DOMAIN store : ~Kept(j.intent)'
    BY <1>8, <1>11, <1>12, <2>1, <2>2
  <2>4. DOMAIN store \ DOMAIN store' = {}
    BY <2>2
  <2>5. KeepsOrder(fresh)
    BY <1>1, <1>11, <1>13, <1>14, <2>3, <2>4 DEF KeepsOrder
  <2> QED BY <2>5
<1> QED BY <1>15, <1>16

\* An edit that the user discards is dead.
LEMMA KeepRemoteOrder ==
  ASSUME SingleTab, IInv, Order, NEW t \in Tabs, KeepRemote(t)
  PROVE  KeepsOrder(NoId)
<1>1. TypeOK /\ UNCHANGED <<server, stray, workers>> /\ CloseReview(t)
  BY DEF IInv, KeepRemote
<1>2. PICK id : id = views[t].review.id
  OBVIOUS
<1>3. ReviewedIsBlocked' /\ \A r \in Sent' : r \in Sent
  BY <1>1, AnsweredReview, SentStays
<1>4. CASE UNCHANGED <<store, intents>>
  BY <1>1, <1>3, <1>4 DEF KeepsOrder, Kept
<1>5. CASE /\ IsBlocked(id) /\ store' = Removed(store, id)
           /\ intents' = [intents EXCEPT ![id.intent].status =
                            IF @ = "rejected" THEN @ ELSE "discarded"]
  <2>1. DOMAIN store' = DOMAIN store \ {id}
    BY <1>5 DEF Removed
  <2>2. Over(id)
    BY <1>5 DEF IsBlocked, IInv, StoreOK, EntryOK, Over
  <2>3. \A i \in DOMAIN intents : Kept(i)' => Kept(i)
    <3>1. PICK st : st = IF intents[id.intent].status = "rejected"
                         THEN intents[id.intent].status ELSE "discarded"
      OBVIOUS
    <3>2. \A i \in DOMAIN intents :
            intents'[i] = intents[i] \/ (i = id.intent /\ intents'[i] = [intents[i] EXCEPT !.status = st])
      BY <1>5, <3>1
    <3>3. \A i \in DOMAIN intents : [intents[i] EXCEPT !.status = st].status = st
      BY <1>1, EditFacts DEF Edits
    <3> QED BY <3>1, <3>2, <3>3 DEF Kept
  <2> QED BY <1>1, <1>3, <2>1, <2>2, <2>3 DEF KeepsOrder
<1> QED BY <1>2, <1>4, <1>5 DEF KeepRemote

\* Every step keeps the order, with one tab.
LEMMA NextOrder ==
  ASSUME SingleTab, IInv, Order, Next
  PROVE  Order'
<1>1. IInv' /\ StepOK /\ StoreStep
  BY NextStep
<1>2. CASE RemoteWrite \/ ServeStray
  BY <1>1, <1>2, CommitKeeps, OrderStep
<1>3. ASSUME NEW t \in Tabs,
             Edit(t) \/ EditInVain(t) \/ RejectEdit(t) \/ OpenWorkspace(t)
               \/ OpenReview(t) \/ Answer(t)
      PROVE  Order'
  <2>1. \E x : KeepsOrder(x)
    BY <1>1, <1>3, EditOrder, RejectOrder, OpenOrder, KeepLocalOrder, KeepRemoteOrder DEF Answer
  <2> QED BY <1>1, <2>1, OrderStep
<1>4. ASSUME NEW w \in Workers, Claim(w) PROVE Order'
  BY <1>1, <1>4, ClaimOrder, OrderStep
<1>5. ASSUME NEW w \in Workers, Executes(w) PROVE Order'
  <2>1. \E x : KeepsOrder(x)
    BY <1>5, ExecutionOrder, EndingOrder, RebaseOrder, ClaimOrder, RemoveOrder DEF Executes
  <2> QED BY <1>1, <2>1, OrderStep
<1>6. ASSUME NEW w \in Workers, Mishap(w) PROVE Order'
  <2>1. KeepsOrder(NoId)
    BY <1>6, ExecutionOrder, EndingOrder DEF Mishap
  <2> QED BY <1>1, <2>1, OrderStep
<1>7. ASSUME NEW id \in DOMAIN store, Timer(id) \/ Requeue(id) PROVE Order'
  BY <1>1, <1>7, ClaimOrder, OrderStep
<1> QED BY <1>2, <1>3, <1>4, <1>5, <1>6, <1>7 DEF Next

\* The order when nothing happens.
LEMMA OrderStutters ==
  ASSUME Order, UNCHANGED vars
  PROVE  Order'
<1>1. UNCHANGED <<history, log, stray, store, workers, views, intents>>
  BY DEF vars
<1>2. \A i : Kept(i)' <=> Kept(i)
  BY <1>1 DEF Kept
<1>3. EntriesInOrder' /\ EntriesAfterLog' /\ CommittedOnceInOrder'
  BY <1>1, <1>2 DEF Order, EntriesInOrder, EntriesAfterLog, CommittedOnceInOrder, OwnCommits
<1>4. ReviewedIsBlocked'
  BY <1>1, <1>2 DEF Order, ReviewedIsBlocked, InReview, IsBlocked
<1>5. SentFirst'
  <2>1. \A id : First(id) => First(id)'
    BY <1>1, <1>2 DEF First
  <2>2. Carried' = Carried /\ Sent' = Sent
    BY <1>1 DEF Carried, Sent, Sending, RequestOf, Request
  <2>3. \A id : Over(id) => Over(id)'
    BY <1>1, <2>2 DEF Over, Commits, Dead, Behind, Server
  <2> QED BY <1>2, <2>1, <2>2, <2>3 DEF Order, SentFirst
<1> QED BY <1>3, <1>4, <1>5 DEF Order

\* The order at the start.
LEMMA OrderStarts ==
  ASSUME Init
  PROVE  Order
<1>1. /\ DOMAIN store = {} /\ stray = {} /\ log = <<>> /\ Sending = {}
      /\ \A t \in Tabs : views[t].review = NoReview
  BY DEF Init, Empty, Sending, Idle
<1>2. OwnCommits = {} /\ Sent = {}
  BY <1>1 DEF OwnCommits, Sent
<1> QED BY <1>1, <1>2 DEF Order, EntriesInOrder, EntriesAfterLog, SentFirst, ReviewedIsBlocked,
          CommittedOnceInOrder, InReview

\* With one tab, edits commit at most once and in the order they were made.
THEOREM EditsCommitInOrder ==
  ASSUME SingleTab
  PROVE  Spec => []CommittedOnceInOrder
<1>1. Init => Order
  BY OrderStarts
<1>2. IInv /\ Order /\ [Next]_vars => Order'
  BY NextOrder, OrderStutters
<1>3. Order => CommittedOnceInOrder
  BY DEF Order
<1> QED BY <1>1, <1>2, <1>3, Invariant, PTL DEF Spec

-----------------------------------------------------------------------------
(* The replica is a state of the server *)

\* The server still holds what this operation is going to overwrite.
Open(op) == Value(Server, op) = op.from

\* The cell of this operation has held v.
Held(op, v) == \E n \in DOMAIN history : Value(history[n], op) = v

\* No other entry is before this one.
Leads(id) ==
  /\ id \in DOMAIN store
  /\ \A j \in DOMAIN store : j # id => store[id].seq < store[j].seq

\* This operation writes v to cell f of document d.
Writes(op, d, f, v) == op.doc = d /\ op.field = f /\ op.to = v

\* A cell shows what it has held, or what an entry before place B writes.
KnownCell(s, B, d, f) ==
  \/ \E n \in DOMAIN history : history[n].docs[d].content[f] = s.docs[d].content[f]
  \/ \E j \in DOMAIN store :
       store[j].seq < B /\ Writes(store[j].op, d, f, s.docs[d].content[f])

\* All cells of a snapshot are known.
Known(s, B) == \A d \in Docs, f \in Fields : KnownCell(s, B, d, f)

\* A snapshot is old, or the state of the server, or an entry before place B is
\* still to be sent.
Explained(s, B) ==
  \/ s.opSeq < Len(history)
  \/ s = Server
  \/ \E j \in DOMAIN store : store[j].seq < B /\ Open(store[j].op)

\* Where a snapshot comes from is known, and why it is not the state of the server.
Understood(s, B) == Known(s, B) /\ Explained(s, B)

\* What follows the base is not its commit, or the base is the state before it.
Confirmable(id, base) == \A n \in Commits(id) : base.opSeq < n \/ base = history[n]

\* An entry writes something new onto a base that is understood; once it is committed
\* or blocked it is the first one, and the server holds something else in its cell.
EntryFaithful(id, e) ==
  /\ e.op.from # e.op.to
  /\ Understood(e.base, e.seq)
  /\ Confirmable(id, e.base)
  /\ Commits(id) # {} => Leads(id) /\ ~Open(e.op)
  /\ e.state = "conflict" =>
       Leads(id) /\ ~Open(e.op) /\ Value(history[e.session], e.op) # e.op.to

\* The entry of an execution is the one in the outbox, as long as that is there.
SameEntry(x) ==
  x.id \in DOMAIN store => store[x.id].op = x.entry.op /\ store[x.id].base = x.entry.base

\* An execution works on the first entry, and settles what the server has held.
WorkerFaithful(x) ==
  x.phase # "idle" =>
    /\ x.id \in DOMAIN store => Leads(x.id)
    /\ x.phase # "replaced" => SameEntry(x) /\ Confirmable(x.id, x.entry.base)
    /\ x.phase = "merging" =>
         \/ Value(history[x.opSeq], x.entry.op) = x.entry.op.from
         \/ x.id \in DOMAIN store => ~Open(x.entry.op)
    /\ x.phase \in {"settling", "removing"} =>
         Held(x.entry.op, x.entry.op.to) /\ (x.id \in DOMAIN store => ~Open(x.entry.op))
    /\ x.phase = "settling" => x.snapshot \in Range(history)

\* What a tab shows is understood, and what it reviews is a conflict.
ViewFaithful(v) ==
  /\ \E B \in Nat : Understood(v.snapshot, B)
  /\ v.review # NoReview => Value(history[v.review.session], v.review.op) # v.review.op.to

\* No two entries have the same place.
PlacesDistinct ==
  \A i \in DOMAIN store, j \in DOMAIN store : store[i].seq = store[j].seq => i = j

\* A request that may arrive is that of the first entry, or will not commit.
SentLeads == \A r \in Sent : Over(r.id) \/ Leads(r.id)

\* For all entries, executions and tabs.
EntriesFaithful == \A id \in DOMAIN store : EntryFaithful(id, store[id])
WorkersFaithful == \A w \in Workers : WorkerFaithful(workers[w])
ViewsFaithful == \A t \in Tabs : ViewFaithful(views[t])

\* A commit changes its own document only, and its cell holds what it wrote.
Chained ==
  \A n \in DOMAIN log :
    /\ \A d \in Docs : d # log[n].op.doc => history[n + 1].docs[d] = history[n].docs[d]
    /\ Value(history[n + 1], log[n].op) = log[n].op.to

\* The strengthening of the invariant, as long as nothing is taken back.
Faithful ==
  /\ PlacesDistinct /\ SentLeads /\ Chained
  /\ EntriesFaithful /\ WorkersFaithful /\ ViewsFaithful
  /\ replica.snapshot \in Range(history)

-----------------------------------------------------------------------------
(* What the operators on snapshots do *)

\* An operation changes the value of its own cell.
LEMMA AppliedValue ==
  ASSUME NEW s \in Snapshots, NEW op \in Ops
  PROVE  \A d \in Docs, f \in Fields :
           Applied(s, op).docs[d].content[f] =
             IF d = op.doc /\ f = op.field THEN op.to ELSE s.docs[d].content[f]
<1>1. op.doc \in Docs /\ op.field \in Fields
  BY DEF Ops
<1> DEFINE D == [rev : Nat, content : [Fields -> AllVals]]
           c == [s.docs[op.doc].content EXCEPT ![op.field] = op.to]
           x == [s.docs[op.doc] EXCEPT !.content = c]
           docs == [s.docs EXCEPT ![op.doc] = x]
<1>2. s.docs \in [Docs -> D] /\ s.docs[op.doc] \in D
  BY <1>1 DEF Snapshots
<1>3. \A f \in Fields : c[f] = IF f = op.field THEN op.to ELSE s.docs[op.doc].content[f]
  BY <1>1, <1>2
<1> HIDE DEF c
<1>4. x.content = c
  BY <1>2
<1> HIDE DEF x
<1>5. \A d \in Docs : docs[d] = IF d = op.doc THEN x ELSE s.docs[d]
  BY <1>2
<1>6. Applied(s, op) = [s EXCEPT !.docs = docs]
  BY DEF Applied, c, x
<1> HIDE DEF docs
<1>7. Applied(s, op).docs = docs
  BY <1>6 DEF Snapshots
<1> QED BY <1>3, <1>4, <1>5, <1>7

\* The state that a commit adds: the cell of its operation changes.
LEMMA AppendedState ==
  ASSUME TypeOK, HistoryOK, NEW id \in Ids, NEW op \in Ops, Append1(id, op)
  PROVE  \E s \in Snapshots :
           /\ history' = Append(history, s) /\ log' = Append(log, [id |-> id, op |-> op])
           /\ \A d \in Docs : d # op.doc => s.docs[d] = Server.docs[d]
           /\ \A d \in Docs, f \in Fields :
                s.docs[d].content[f] =
                  IF d = op.doc /\ f = op.field THEN op.to ELSE Server.docs[d].content[f]
<1> DEFINE n == Len(history)
           a == Applied(Server, op)
           s == [a EXCEPT !.opSeq = @ + 1, !.docs[op.doc].rev = @ + 1]
           x == [a.docs[op.doc] EXCEPT !.rev = a.docs[op.doc].rev + 1]
           docs == [a.docs EXCEPT ![op.doc] = x]
<1>1. op.doc \in Docs
  BY DEF Ops
<1>2. /\ n \in Nat /\ n >= 1 /\ Server = history[n] /\ Server \in Snapshots
      /\ n \in DOMAIN history /\ DOMAIN history = 1..n /\ Len(log) = n - 1
      /\ DOMAIN log = 1..(n - 1)
  BY ServerFacts
<1>3. /\ a \in Snapshots /\ a.opSeq = n
      /\ \A d \in Docs : d # op.doc => a.docs[d] = Server.docs[d]
      /\ \A d \in Docs, f \in Fields : a.docs[d].content[f] =
           IF d = op.doc /\ f = op.field THEN op.to ELSE Server.docs[d].content[f]
  BY <1>2, AppliedFacts, AppliedValue DEF HistoryOK
<1> HIDE DEF a
<1>b. a \in Snapshots /\ a.opSeq = n
  BY <1>3
<1>4. a.docs \in [Docs -> [rev : Nat, content : [Fields -> AllVals]]]
  BY <1>b DEF Snapshots
<1>5. s = [[a EXCEPT !.opSeq = n + 1] EXCEPT !.docs = docs]
  BY <1>b DEF Snapshots
<1>6. x.content = a.docs[op.doc].content /\ x \in [rev : Nat, content : [Fields -> AllVals]]
  BY <1>1, <1>4
<1> HIDE DEF x
<1>7. \A d \in Docs : docs[d] = IF d = op.doc THEN x ELSE a.docs[d]
  BY <1>4
<1>a. docs \in [Docs -> [rev : Nat, content : [Fields -> AllVals]]]
  BY <1>4, <1>6
<1> HIDE DEF docs
<1>8. s.docs = docs /\ s \in Snapshots
  <2> DEFINE b == [a EXCEPT !.opSeq = n + 1]
  <2>1. b \in Snapshots
    <3>1. n + 1 \in Nat
      BY <1>2
    <3> QED BY <1>b, <3>1 DEF Snapshots
  <2> HIDE DEF b
  <2>2. LET c == [b EXCEPT !.docs = docs]
        IN c.docs = docs /\ c \in Snapshots
    BY <2>1, <1>a DEF Snapshots
  <2>3. s = [b EXCEPT !.docs = docs]
    BY <1>5 DEF b
  <2> HIDE DEF s
  <2> QED BY <2>2, <2>3
<1>9. history' = Append(history, s) /\ log' = Append(log, [id |-> id, op |-> op])
  BY DEF Append1, a
<1> HIDE DEF s
<1>10. \A d \in Docs : d # op.doc => s.docs[d] = Server.docs[d]
  BY <1>3, <1>7, <1>8
<1>11. \A d \in Docs, f \in Fields : s.docs[d].content[f] =
         IF d = op.doc /\ f = op.field THEN op.to ELSE Server.docs[d].content[f]
  BY <1>3, <1>6, <1>7, <1>8
<1> QED BY <1>8, <1>9, <1>10, <1>11

\* What the server shows after a commit.
LEMMA CommitValue ==
  ASSUME TypeOK, HistoryOK, NEW id \in Ids, NEW op \in Ops, Append1(id, op)
  PROVE  /\ \A d \in Docs : d # op.doc => Server'.docs[d] = Server.docs[d]
         /\ \A d \in Docs, f \in Fields :
              Server'.docs[d].content[f] =
                IF d = op.doc /\ f = op.field THEN op.to ELSE Server.docs[d].content[f]
<1>1. PICK s \in Snapshots :
        /\ history' = Append(history, s) /\ log' = Append(log, [id |-> id, op |-> op])
        /\ \A d \in Docs : d # op.doc => s.docs[d] = Server.docs[d]
        /\ \A d \in Docs, f \in Fields :
             s.docs[d].content[f] =
               IF d = op.doc /\ f = op.field THEN op.to ELSE Server.docs[d].content[f]
  BY AppendedState, ZenonT(30)
<1>2. history \in Seq(Snapshots)
  BY DEF TypeOK
<1>3. Server' = s
  <2>1. Len(history') = Len(history) + 1 /\ history'[Len(history) + 1] = s
    BY <1>1, <1>2
  <2> QED BY <2>1 DEF Server, Last
<1> QED BY <1>1, <1>3

\* What a commit adds to the history and the log.
LEMMA AppendFacts ==
  ASSUME TypeOK, HistoryOK, NEW id \in Ids, NEW op \in Ops, Append1(id, op)
  PROVE  LET n == Len(history)
         IN /\ n \in Nat /\ n \in DOMAIN history
            /\ DOMAIN history = 1..n /\ DOMAIN history' = 1..(n + 1) /\ Len(history') = n + 1
            /\ DOMAIN log = 1..(n - 1) /\ DOMAIN log' = 1..n
            /\ \A m \in DOMAIN history : history'[m] = history[m]
            /\ \A m \in DOMAIN log : log'[m] = log[m]
            /\ log'[n] = [id |-> id, op |-> op]
            /\ Server = history[n] /\ Server' = history'[n + 1]
<1>1. PICK n : n = Len(history)
  OBVIOUS
<1>2. /\ n \in Nat /\ n >= 1 /\ Server = history[n]
      /\ n \in DOMAIN history /\ DOMAIN history = 1..n /\ Len(log) = n - 1
      /\ DOMAIN log = 1..(n - 1)
  BY <1>1, ServerFacts
<1>3. PICK s \in Snapshots :
        history' = Append(history, s) /\ log' = Append(log, [id |-> id, op |-> op])
  BY AppendedState
<1>4. history \in Seq(Snapshots) /\ log \in Seq([id : Ids, op : Ops])
  BY DEF TypeOK
<1>5. /\ Len(history') = n + 1 /\ DOMAIN history' = 1..(n + 1)
      /\ \A m \in 1..n : history'[m] = history[m]
  BY <1>1, <1>2, <1>3, <1>4
<1>6. /\ DOMAIN log' = 1..n
      /\ \A m \in 1..(n - 1) : log'[m] = log[m]
      /\ log'[n] = [id |-> id, op |-> op]
  <2>1. PICK e \in [id : Ids, op : Ops] : e = [id |-> id, op |-> op]
    OBVIOUS
  <2>2. log' = Append(log, e)
    BY <1>3, <2>1
  <2>3. /\ Len(log') = Len(log) + 1 /\ DOMAIN log' = 1..(Len(log) + 1)
        /\ \A m \in 1..Len(log) : log'[m] = log[m]
        /\ log'[Len(log) + 1] = e
    BY <2>2, <1>4
  <2> QED BY <2>1, <2>3, <1>2
<1>7. Server' = history'[n + 1]
  BY <1>5 DEF Server, Last
<1> QED BY <1>1, <1>2, <1>5, <1>6, <1>7

-----------------------------------------------------------------------------
(* What a step may do *)

\* Entry k stands for entry j after the step.
Follows(j, k) ==
  /\ store'[k].seq = store[j].seq
  /\ Writes(store'[k].op, store[j].op.doc, store[j].op.field, store[j].op.to)
  /\ Open(store[j].op) => Value(Server, store'[k].op) = store'[k].op.from

\* Another device commits a value that is new in its cell, or a request commits.
CommitTurn(id, op) ==
  /\ Append1(id, op)
  /\ \/ id.intent = 0 /\ ~Held(op, op.to)
     \/ \E r \in Sent : r.id = id /\ r.op = op /\ Commit(r)

\* The server stays as it is, or commits while the outbox stays as it is.
ServerTurn ==
  \/ UNCHANGED server
  \/ UNCHANGED store /\ \E id \in Ids, op \in Ops : CommitTurn(id, op)

\* An entry that stays is blocked because it was, or because it is decided for good.
EntryTurn(id) ==
  /\ store'[id].op = store[id].op /\ store'[id].base = store[id].base
  /\ store'[id].state = "conflict" =>
       \/ store[id].state = "conflict" /\ store'[id].session = store[id].session
       \/ /\ Leads(id) /\ ~Open(store[id].op)
          /\ store'[id].session \in DOMAIN history
          /\ Value(history[store'[id].session], store[id].op) # store[id].op.to

\* A new entry takes the place of the first one, or the last place.
NewTurn(id) ==
  /\ store'[id].state # "conflict"
  /\ store'[id].op.from # store'[id].op.to
  /\ Understood(store[id].base, store[id].seq)'
  /\ \/ \E old \in DOMAIN store \ DOMAIN store' :
          Leads(old) /\ store'[id].seq = store[old].seq
     \/ store'[id].seq = LastSeq(store) + 1

\* An entry that goes is over; another one stands for it, or the server has it.
GoneTurn(id) ==
  /\ Over(id)
  /\ \/ \E k \in DOMAIN store' : Follows(id, k)
     \/ ~Open(store[id].op) /\ Held(store[id].op, store[id].op.to)

\* What a step may do to the outbox: x is the only id that may be new.
OutboxTurn(x) ==
  /\ \A id \in DOMAIN store : id \in DOMAIN store' => EntryTurn(id)
  /\ \A id \in DOMAIN store' \ DOMAIN store : id = x /\ NewTurn(id)
  /\ \A id \in DOMAIN store \ DOMAIN store' : GoneTurn(id)

\* An execution stays, ends, has replaced its entry, or goes on with what is faithful.
WorkerTurn(w) ==
  \/ workers'[w] = workers[w]
  \/ workers'[w].phase = "idle"
  \/ workers'[w].phase = "replaced" /\ Leads(workers[w].id)'
  \/ /\ workers'[w].id \in NamedIds /\ WorkerFaithful(workers'[w])
     /\ workers'[w].phase = "merging" => workers'[w].opSeq \in DOMAIN history

\* A tab shows the same or what is understood, and reviews what is blocked.
ViewTurn(t) ==
  /\ \/ views'[t].snapshot = views[t].snapshot
     \/ \E B \in Nat : Understood(views[t].snapshot, B)'
  /\ \/ views'[t].review \in {views[t].review, NoReview}
     \/ \E id \in DOMAIN store :
          /\ IsBlocked(id)
          /\ views'[t].review =
               [id |-> id, op |-> store[id].op, session |-> store[id].session]

\* What a step may do, in all.
Turn(x) ==
  /\ ServerTurn /\ OutboxTurn(x)
  /\ \A r \in Sent' : r \in Sent \/ (IsHead(store, r.id) /\ r.id \in DOMAIN store')
  /\ \A w \in Workers : WorkerTurn(w)
  /\ \A t \in Tabs : ViewTurn(t)
  /\ replica'.snapshot \in {replica.snapshot} \cup Range(history)

\* The server after a step.
LEMMA ServerTurns ==
  ASSUME IInv, ServerTurn
  PROVE  /\ \A n \in DOMAIN history : n \in DOMAIN history' /\ history'[n] = history[n]
         /\ \/ UNCHANGED <<history, log>> /\ Server' = Server
            \/ UNCHANGED store /\ \E id \in Ids, op \in Ops : CommitTurn(id, op)
<1>1. TypeOK /\ HistoryOK
  BY DEF IInv
<1>2. CASE UNCHANGED server
  BY <1>2 DEF server, Server
<1>3. CASE UNCHANGED store /\ \E id \in Ids, op \in Ops : CommitTurn(id, op)
  <2>1. PICK id \in Ids, op \in Ops : CommitTurn(id, op)
    BY <1>3
  <2>2. Append1(id, op)
    BY <2>1 DEF CommitTurn
  <2>3. PICK n : n = Len(history)
    OBVIOUS
  <2>4. /\ n \in Nat /\ DOMAIN history = 1..n /\ DOMAIN history' = 1..(n + 1)
        /\ \A m \in DOMAIN history : history'[m] = history[m]
    BY <1>1, <2>2, <2>3, AppendFacts
  <2> QED BY <1>3, <2>4
<1> QED BY <1>2, <1>3 DEF ServerTurn

\* What the log gains.
LEMMA CommitsTurn ==
  ASSUME IInv, NEW id \in Ids, NEW op \in Ops, CommitTurn(id, op), NEW x
  PROVE  \A n \in Commits(x)' : n \in Commits(x) \/ (x = id /\ n = Len(history))
<1>1. TypeOK /\ HistoryOK /\ Append1(id, op)
  BY DEF IInv, CommitTurn
<1>2. PICK n : n = Len(history)
  OBVIOUS
<1>3. /\ n \in Nat /\ DOMAIN log = 1..(n - 1) /\ DOMAIN log' = 1..n
      /\ \A m \in DOMAIN log : log'[m] = log[m]
      /\ log'[n] = [id |-> id, op |-> op]
  BY <1>1, <1>2, AppendFacts
<1>4. log'[n].id = id
  BY <1>3
<1>5. \A m \in DOMAIN log' : m \in DOMAIN log \/ m = n
  BY <1>3
<1> QED BY <1>2, <1>3, <1>4, <1>5 DEF Commits

\* A request that commits is that of the first entry.
LEMMA SenderLeads ==
  ASSUME IInv, Faithful, NEW r \in Sent, Commit(r)
  PROVE  Leads(r.id) /\ store[r.id].op = r.op /\ r.id.intent # 0
<1>1. Commits(r.id) = {} /\ ~Stale(r)
  BY DEF Commit
<1>2. r \in Carried /\ r.rev \in Nat /\ r.id.intent # 0
  BY SentFacts, CarriedNamed, CarriedIntent DEF IInv
<1>3. Server.docs[r.op.doc].rev = r.rev
  BY <1>1 DEF Stale
<1>4. ~Behind(r)
  BY <1>2, <1>3 DEF Behind
<1>5. ~Dead(r.id)
  BY <1>2, <1>4 DEF Dead
<1>6. Leads(r.id)
  BY <1>1, <1>5 DEF Faithful, SentLeads, Over
<1>7. r.id \in DOMAIN store
  BY <1>6 DEF Leads
<1>8. PICK q : q = Request(r.id, store[r.id])
  OBVIOUS
<1>9. q \in Carried /\ q.id = r.id /\ q.op = store[r.id].op
  BY <1>7, <1>8 DEF Carried, Request
<1>10. q = r
  BY <1>2, <1>9 DEF IInv, CarriedOK
<1> QED BY <1>2, <1>6, <1>9, <1>10

\* What the first entry overwrites was held by its cell.
LEMMA FromHeld ==
  ASSUME IInv, Faithful, NEW id, Leads(id)
  PROVE  Held(store[id].op, store[id].op.from)
<1>1. id \in DOMAIN store /\ \A j \in DOMAIN store : j # id => store[id].seq < store[j].seq
  BY DEF Leads
<1>2. PICK e \in Entries : e = store[id]
  BY <1>1 DEF IInv, TypeOK
<1>3. e.op.doc \in Docs /\ e.op.field \in Fields /\ e.seq \in Nat
  BY DEF Entries, Ops
<1>4. \A j \in DOMAIN store : store[j].seq \in Nat
  BY StoreFacts
<1>5. Known(e.base, e.seq) /\ Value(e.base, e.op) = e.op.from
  BY <1>1, <1>2 DEF Faithful, EntriesFaithful, EntryFaithful, Understood, IInv, StoreOK, EntryOK,
                    Planned
<1>6. \A j \in DOMAIN store : ~(store[j].seq < e.seq)
  BY <1>1, <1>2, <1>3, <1>4
<1>7. KnownCell(e.base, e.seq, e.op.doc, e.op.field)
  BY <1>3, <1>5 DEF Known
<1>8. \E n \in DOMAIN history :
        history[n].docs[e.op.doc].content[e.op.field] = e.base.docs[e.op.doc].content[e.op.field]
  BY <1>6, <1>7 DEF KnownCell
<1> QED BY <1>2, <1>5, <1>8 DEF Held, Value

\* The base of the first entry is the state of the server, unless that has moved on.
LEMMA FirstBase ==
  ASSUME IInv, Faithful, NEW id, Leads(id)
  PROVE  store[id].base.opSeq < Len(history) \/ store[id].base = Server
<1>1. id \in DOMAIN store /\ \A j \in DOMAIN store : j # id => store[id].seq < store[j].seq
  BY DEF Leads
<1>2. \A j \in DOMAIN store : store[j].seq \in Nat
  BY StoreFacts
<1>3. \A j \in DOMAIN store : ~(store[j].seq < store[id].seq)
  BY <1>1, <1>2
<1>4. Explained(store[id].base, store[id].seq)
  BY <1>1 DEF Faithful, EntriesFaithful, EntryFaithful, Understood
<1> QED BY <1>3, <1>4 DEF Explained

\* What no longer fits does not fit again.
LEMMA ClosedStays ==
  ASSUME IInv, Faithful, ServerTurn, NEW id, Leads(id), ~Open(store[id].op)
  PROVE  \A op : op = store[id].op => ~Open(op)'
<1>1. PICK e \in Entries : e = store[id]
  BY DEF Leads, IInv, TypeOK
<1>2. CASE Server' = Server
  BY <1>2 DEF Open
<1>3. ASSUME NEW x \in Ids, NEW op \in Ops, CommitTurn(x, op)
      PROVE  \A o : o = e.op => ~Open(o)'
  <2>1. TypeOK /\ HistoryOK /\ Append1(x, op)
    BY <1>3 DEF IInv, CommitTurn
  <2>2. \A d \in Docs, f \in Fields :
          Server'.docs[d].content[f] =
            IF d = op.doc /\ f = op.field THEN op.to ELSE Server.docs[d].content[f]
    BY <2>1, CommitValue
  <2>3. e.op.doc \in Docs /\ e.op.field \in Fields
    BY DEF Entries, Ops
  <2>4. Value(Server', e.op) =
          IF e.op.doc = op.doc /\ e.op.field = op.field THEN op.to ELSE Value(Server, e.op)
    BY <2>2, <2>3 DEF Value
  <2>5. Value(Server, e.op) # e.op.from
    BY <1>1 DEF Open
  <2>6. CASE x.intent = 0 /\ ~Held(op, op.to)
    <3>1. Held(e.op, e.op.from)
      BY <1>1, FromHeld
    <3>2. e.op.doc = op.doc /\ e.op.field = op.field => op.to # e.op.from
      BY <2>6, <3>1 DEF Held, Value
    <3> QED BY <2>4, <2>5, <3>2 DEF Open
  <2>7. ASSUME NEW r \in Sent, r.id = x, r.op = op, Commit(r)
        PROVE  \A o : o = e.op => ~Open(o)'
    <3>1. Leads(x) /\ store[x].op = op
      BY <2>7, SenderLeads
    <3>2. x = id
      <4>1. x \in DOMAIN store /\ id \in DOMAIN store /\ store[x].seq \in Nat /\ store[id].seq \in Nat
        BY <3>1, StoreFacts DEF Leads
      <4> QED BY <3>1, <4>1 DEF Leads
    <3>3. e.op.from # e.op.to
      BY <1>1 DEF Leads, Faithful, EntriesFaithful, EntryFaithful
    <3> QED BY <1>1, <2>4, <3>1, <3>2, <3>3 DEF Open
  <2> QED BY <1>3, <2>6, <2>7 DEF CommitTurn
<1> QED BY <1>1, <1>2, <1>3, ServerTurns

\* An entry that is there before and after keeps its place.
LEMMA SamePlace ==
  ASSUME IInv, StoreStep, NEW id \in DOMAIN store, id \in DOMAIN store'
  PROVE  store'[id].seq = store[id].seq
BY StoreFacts DEF StoreStep

\* What a cell shows stays known.
LEMMA KnownStays ==
  ASSUME IInv, StoreStep, ServerTurn, NEW x, OutboxTurn(x), NEW s, NEW B \in Nat, Known(s, B)
  PROVE  Known(s, B)'
<1> SUFFICES ASSUME NEW d \in Docs, NEW f \in Fields
             PROVE  KnownCell(s, B, d, f)'
  BY DEF Known
<1>1. \A n \in DOMAIN history : n \in DOMAIN history' /\ history'[n] = history[n]
  BY ServerTurns
<1>2. ASSUME NEW n \in DOMAIN history,
             history[n].docs[d].content[f] = s.docs[d].content[f]
      PROVE  KnownCell(s, B, d, f)'
  BY <1>1, <1>2 DEF KnownCell
<1>3. ASSUME NEW j \in DOMAIN store, store[j].seq < B,
             Writes(store[j].op, d, f, s.docs[d].content[f])
      PROVE  KnownCell(s, B, d, f)'
  <2>1. CASE j \in DOMAIN store'
    <3>1. store'[j].seq = store[j].seq /\ store'[j].op = store[j].op
      BY <2>1, SamePlace DEF OutboxTurn, EntryTurn
    <3> QED BY <1>3, <2>1, <3>1 DEF KnownCell, Writes
  <2>2. ASSUME NEW k \in DOMAIN store', Follows(j, k)
        PROVE  KnownCell(s, B, d, f)'
    BY <1>3, <2>2 DEF Follows, KnownCell, Writes
  <2>3. CASE Held(store[j].op, store[j].op.to)
    <3>1. PICK n \in DOMAIN history : Value(history[n], store[j].op) = store[j].op.to
      BY <2>3 DEF Held
    <3>2. history[n].docs[d].content[f] = s.docs[d].content[f]
      BY <1>3, <3>1 DEF Value, Writes
    <3> QED BY <1>2, <3>2
  <2> QED BY <2>1, <2>2, <2>3 DEF OutboxTurn, GoneTurn
<1> QED BY <1>2, <1>3 DEF Known, KnownCell

\* What explains a snapshot goes on doing so.
LEMMA ExplainedStays ==
  ASSUME IInv, StoreStep, ServerTurn, NEW x, OutboxTurn(x), NEW s, s.opSeq \in DOMAIN history,
         NEW B \in Nat, Explained(s, B)
  PROVE  Explained(s, B)'
<1>1. CASE UNCHANGED <<history, log>> /\ Server' = Server
  <2>1. ASSUME NEW j \in DOMAIN store, store[j].seq < B, Open(store[j].op)
        PROVE  Explained(s, B)'
    <3>1. CASE j \in DOMAIN store'
      <4>1. store'[j].seq = store[j].seq /\ store'[j].op = store[j].op
        BY <3>1, SamePlace DEF OutboxTurn, EntryTurn
      <4> QED BY <1>1, <2>1, <3>1, <4>1 DEF Explained, Open
    <3>2. ASSUME NEW k \in DOMAIN store', Follows(j, k)
          PROVE  Explained(s, B)'
      BY <1>1, <2>1, <3>2 DEF Follows, Explained, Open
    <3> QED BY <2>1, <3>1, <3>2 DEF OutboxTurn, GoneTurn
  <2> QED BY <1>1, <2>1 DEF Explained
<1>2. ASSUME NEW id \in Ids, NEW op \in Ops, CommitTurn(id, op)
      PROVE  Explained(s, B)'
  <2>1. TypeOK /\ HistoryOK /\ Append1(id, op)
    BY <1>2 DEF IInv, CommitTurn
  <2>2. PICK n : n = Len(history)
    OBVIOUS
  <2>3. n \in Nat /\ DOMAIN history = 1..n /\ Len(history') = n + 1
    BY <2>1, <2>2, AppendFacts
  <2>4. s.opSeq < Len(history')
    BY <2>3
  <2> QED BY <2>4 DEF Explained
<1> QED BY <1>1, <1>2, ServerTurns

\* So what is understood stays understood.
LEMMA UnderstoodStays ==
  ASSUME IInv, StoreStep, ServerTurn, NEW x, OutboxTurn(x), NEW s, s.opSeq \in DOMAIN history,
         NEW B \in Nat, Understood(s, B)
  PROVE  Understood(s, B)'
BY KnownStays, ExplainedStays DEF Understood

\* Entries before a later place explain no less.
LEMMA UnderstoodMore ==
  ASSUME IInv, NEW s, NEW B \in Nat, NEW C \in Nat, B <= C, Understood(s, B)
  PROVE  Understood(s, C)
<1>1. \A j \in DOMAIN store : store[j].seq < B => store[j].seq < C
  BY StoreFacts
<1> QED BY <1>1 DEF Understood, Known, KnownCell, Explained

\* A state of the server is understood by itself.
LEMMA CleanUnderstood ==
  ASSUME IInv, NEW s \in Range(history), NEW B \in Nat
  PROVE  Understood(s, B)
<1>1. PICK n \in DOMAIN history : s = history[n]
  BY DEF Range
<1>2. Known(s, B)
  BY <1>1 DEF Known, KnownCell
<1>3. PICK m : m = Len(history)
  OBVIOUS
<1>4. m \in Nat /\ DOMAIN history = 1..m /\ Server = history[m] /\ s.opSeq = n
  BY <1>1, <1>3, ServerFacts DEF IInv, HistoryOK
<1>5. Explained(s, B)
  BY <1>1, <1>3, <1>4 DEF Explained
<1> QED BY <1>2, <1>5 DEF Understood

-----------------------------------------------------------------------------
(* What a turn keeps *)

\* The first entry stays the first.
LEMMA LeadsStays ==
  ASSUME IInv, StoreStep, NEW x, OutboxTurn(x), NEW id, Leads(id), id \in DOMAIN store'
  PROVE  Leads(id)'
<1>1. id \in DOMAIN store /\ \A j \in DOMAIN store : j # id => store[id].seq < store[j].seq
  BY DEF Leads
<1>2. store'[id].seq = store[id].seq
  BY <1>1, SamePlace
<1>3. LastSeq(store) \in Nat /\ store[id].seq <= LastSeq(store) /\ store[id].seq \in Nat
  BY <1>1, LastSeqFacts, StoreFacts DEF IInv
<1>4. ASSUME NEW j \in DOMAIN store', j # id
      PROVE  store'[id].seq < store'[j].seq
  <2>1. CASE j \in DOMAIN store
    BY <1>1, <1>2, <1>4, <2>1, SamePlace
  <2>2. ASSUME j \notin DOMAIN store, NEW old \in DOMAIN store \ DOMAIN store',
               store'[j].seq = store[old].seq
        PROVE  store'[id].seq < store'[j].seq
    BY <1>1, <1>2, <2>2
  <2>3. CASE j \notin DOMAIN store /\ store'[j].seq = LastSeq(store) + 1
    BY <1>2, <1>3, <2>3
  <2>4. j \notin DOMAIN store => NewTurn(j)
    BY DEF OutboxTurn
  <2> QED BY <2>1, <2>2, <2>3, <2>4 DEF NewTurn
<1> QED BY <1>4 DEF Leads

\* No two entries get the same place.
LEMMA PlacesStay ==
  ASSUME IInv, StoreStep, NEW x, OutboxTurn(x), PlacesDistinct
  PROVE  PlacesDistinct'
<1>1. LastSeq(store) \in Nat /\ \A j \in DOMAIN store : store[j].seq <= LastSeq(store)
                                                        /\ store[j].seq \in Nat
  BY LastSeqFacts, StoreFacts DEF IInv
<1>2. ASSUME NEW i \in DOMAIN store, i \in DOMAIN store',
             NEW j \in DOMAIN store' \ DOMAIN store
      PROVE  store'[i].seq # store'[j].seq
  <2>1. NewTurn(j) /\ store'[i].seq = store[i].seq
    BY <1>2, SamePlace DEF OutboxTurn
  <2>2. ASSUME NEW old \in DOMAIN store \ DOMAIN store', store'[j].seq = store[old].seq
        PROVE  store'[i].seq # store'[j].seq
    BY <1>2, <2>1, <2>2 DEF PlacesDistinct
  <2>3. CASE store'[j].seq = LastSeq(store) + 1
    BY <1>1, <2>1, <2>3
  <2> QED BY <2>1, <2>2, <2>3 DEF NewTurn
<1>3. ASSUME NEW i \in DOMAIN store', NEW j \in DOMAIN store', store'[i].seq = store'[j].seq
      PROVE  i = j
  <2>1. CASE i \in DOMAIN store /\ j \in DOMAIN store
    BY <1>3, <2>1, SamePlace DEF PlacesDistinct
  <2>2. CASE i \notin DOMAIN store /\ j \notin DOMAIN store
    BY <2>2 DEF OutboxTurn
  <2> QED BY <1>2, <1>3, <2>1, <2>2
<1> QED BY <1>3 DEF PlacesDistinct

\* The first of the entries, whose places differ, leads.
LEMMA HeadLeads ==
  ASSUME IInv, PlacesDistinct, NEW id, IsHead(store, id)
  PROVE  Leads(id)
<1>1. id \in DOMAIN store /\ \A j \in DOMAIN store : store[id].seq <= store[j].seq
  BY DEF IsHead
<1>2. \A j \in DOMAIN store : store[j].seq \in Nat
  BY StoreFacts
<1> QED BY <1>1, <1>2 DEF PlacesDistinct, Leads

\* A request that may arrive is still that of the first entry, or will not commit.
LEMMA SentLeadsStays ==
  ASSUME IInv, StepOK, StoreStep, Faithful, NEW x, Turn(x)
  PROVE  SentLeads'
<1> SUFFICES ASSUME NEW r \in Sent'
             PROVE  Over(r.id)' \/ Leads(r.id)'
  BY DEF SentLeads
<1>1. OutboxTurn(x) /\ PlacesDistinct
  BY DEF Turn, Faithful
<1>2. PICK id : id = r.id
  OBVIOUS
<1>3. CASE r \in Sent
  <2>1. id \in NamedIds \cap Ids /\ id.intent \in DOMAIN intents
    BY <1>2, <1>3, SentFacts
  <2>2. Over(id) => Over(id)'
    BY <2>1, OverStays
  <2>3. CASE Leads(id) /\ id \in DOMAIN store'
    <3>1. Leads(id)'
      BY <1>1, <2>3, LeadsStays
    <3> QED BY <1>2, <3>1
  <2>4. CASE Leads(id) /\ id \notin DOMAIN store'
    <3>1. Over(id)
      BY <1>1, <2>4 DEF Leads, OutboxTurn, GoneTurn
    <3> QED BY <1>2, <2>2, <3>1
  <2>5. Over(id) \/ Leads(id)
    BY <1>2, <1>3 DEF Faithful, SentLeads
  <2> QED BY <1>2, <2>2, <2>3, <2>4, <2>5
<1>4. CASE IsHead(store, id) /\ id \in DOMAIN store'
  <2>1. Leads(id)'
    BY <1>1, <1>4, HeadLeads, LeadsStays
  <2> QED BY <1>2, <2>1
<1> QED BY <1>2, <1>3, <1>4 DEF Turn

\* What follows a base is still its commit, or the base the state before it.
LEMMA ConfirmableStays ==
  ASSUME IInv, Faithful, ServerTurn, NEW id, id.intent # 0, NEW base,
         id \in DOMAIN store => base = store[id].base, Confirmable(id, base)
  PROVE  Confirmable(id, base)'
<1>1. CASE UNCHANGED <<history, log>>
  BY <1>1 DEF Confirmable, Commits
<1>2. ASSUME NEW x \in Ids, NEW op \in Ops, CommitTurn(x, op)
      PROVE  Confirmable(id, base)'
  <2> SUFFICES ASSUME NEW n \in Commits(id)'
               PROVE  base.opSeq < n \/ base = history'[n]
    BY DEF Confirmable
  <2>1. \A m \in DOMAIN history : history'[m] = history[m]
    BY ServerTurns
  <2>2. CASE n \in Commits(id)
    <3>1. n \in DOMAIN history
      BY <2>2, ServerFacts DEF IInv, Commits
    <3> QED BY <2>1, <2>2, <3>1 DEF Confirmable
  <2>3. CASE id = x /\ n = Len(history)
    <3>1. PICK r \in Sent : r.id = id /\ Commit(r)
      BY <1>2, <2>3 DEF CommitTurn
    <3>2. Leads(id)
      BY <3>1, SenderLeads
    <3>3. base.opSeq < n \/ base = Server
      BY <2>3, <3>2, FirstBase DEF Leads
    <3>4. Server = history[n] /\ n \in DOMAIN history
      BY <2>3, ServerFacts DEF IInv
    <3> QED BY <2>1, <3>3, <3>4
  <2> QED BY <1>2, <2>2, <2>3, CommitsTurn
<1> QED BY <1>1, <1>2, ServerTurns

\* An edit belongs to a number.
LEMMA EditNumber ==
  ASSUME TypeOK, NEW i \in DOMAIN intents
  PROVE  i # 0
<1>1. DOMAIN intents = 1..Len(intents)
  BY DEF TypeOK
<1> QED BY <1>1

\* An operation that has committed does not fit any more.
LEMMA CommittedIsClosed ==
  ASSUME IInv, Faithful, ServerTurn, NEW id, id.intent # 0,
         Commits(id) # {} => Leads(id) /\ ~Open(store[id].op), Commits(id)' # {}
  PROVE  Leads(id) /\ \A op : op = store[id].op => ~Open(op)'
<1>1. CASE Commits(id) # {}
  BY <1>1, ClosedStays
<1>2. CASE Commits(id) = {} /\ UNCHANGED <<history, log>>
  BY <1>2 DEF Commits
<1>3. ASSUME Commits(id) = {}, NEW x \in Ids, NEW o \in Ops, CommitTurn(x, o)
      PROVE  Leads(id) /\ \A op : op = store[id].op => ~Open(op)'
  <2>1. id = x
    BY <1>3, CommitsTurn
  <2>2. PICK r \in Sent : r.id = id /\ r.op = o /\ Commit(r)
    BY <1>3, <2>1 DEF CommitTurn
  <2>3. Leads(id) /\ store[id].op = o
    BY <2>2, SenderLeads
  <2>4. o.from # o.to
    BY <2>3 DEF Leads, Faithful, EntriesFaithful, EntryFaithful
  <2>5. o.doc \in Docs /\ o.field \in Fields
    BY DEF Ops
  <2>a. TypeOK /\ HistoryOK /\ Append1(x, o)
    BY <1>3 DEF IInv, CommitTurn
  <2>b. \A d \in Docs, f \in Fields :
          Server'.docs[d].content[f] =
            IF d = o.doc /\ f = o.field THEN o.to ELSE Server.docs[d].content[f]
    BY <2>a, CommitValue
  <2>6. Value(Server', o) = o.to
    BY <2>5, <2>b DEF Value
  <2> QED BY <2>3, <2>4, <2>6 DEF Open
<1> QED BY <1>1, <1>2, <1>3, ServerTurns

\* What holds of an entry that stays.
LEMMA EntryStays ==
  ASSUME IInv, StoreStep, Faithful, NEW x, Turn(x), NEW id \in DOMAIN store, id \in DOMAIN store'
  PROVE  EntryFaithful(id, store[id])'
<1>1. PICK e \in Entries : e = store[id]
  BY DEF IInv, TypeOK
<1>2. PICK y : y = store'[id]
  OBVIOUS
<1>3. /\ y.op = e.op /\ y.base = e.base /\ y.seq = e.seq /\ e.seq \in Nat
      /\ EntryTurn(id) /\ OutboxTurn(x) /\ ServerTurn
  BY <1>1, <1>2, SamePlace, StoreFacts DEF Turn, OutboxTurn, EntryTurn
<1>4. EntryFaithful(id, e)
  BY <1>1 DEF Faithful, EntriesFaithful
<1>5. EntryOK(id, e) /\ e.base.opSeq \in DOMAIN history /\ id.intent # 0
  BY <1>1, EditNumber, StoreFacts DEF IInv, StoreOK, EntryOK, Planned, Dated
<1>6. Leads(id) => Leads(id)'
  BY <1>3, LeadsStays
<1>7. \A n \in DOMAIN history : n \in DOMAIN history' /\ history'[n] = history[n]
  BY <1>3, ServerTurns
<1>8. Understood(y.base, y.seq)'
  <2>a. PICK s : s = e.base
    OBVIOUS
  <2>1. PICK B \in Nat : B = e.seq
    BY <1>3
  <2>2. Understood(s, B)'
    BY <1>3, <1>4, <1>5, <2>a, <2>1, UnderstoodStays DEF EntryFaithful
  <2>3. y.base = s /\ y.seq = B
    BY <1>3, <2>a, <2>1
  <2> QED BY <2>2, <2>3
<1>9. Confirmable(id, y.base)'
  <2>1. PICK s : s = e.base
    OBVIOUS
  <2>2. Confirmable(id, s)'
    BY <1>1, <1>3, <1>4, <1>5, <2>1, ConfirmableStays DEF EntryFaithful
  <2> QED BY <1>3, <2>1, <2>2
<1>10. Leads(id) /\ ~Open(e.op) => ~Open(y.op)'
  <2>1. PICK o : o = e.op
    OBVIOUS
  <2>2. Leads(id) /\ ~Open(e.op) => ~Open(o)'
    BY <1>1, <1>3, <2>1, ClosedStays
  <2> QED BY <1>3, <2>1, <2>2
<1>11. ASSUME Commits(id)' # {}
       PROVE  Leads(id)' /\ ~Open(y.op)'
  <2>1. PICK o : o = e.op
    OBVIOUS
  <2>2. Leads(id) /\ ~Open(o)'
    BY <1>1, <1>3, <1>4, <1>5, <1>11, <2>1, CommittedIsClosed DEF EntryFaithful
  <2> QED BY <1>3, <1>6, <2>1, <2>2
<1>12. ASSUME y.state = "conflict"
       PROVE  Leads(id)' /\ ~Open(y.op)' /\ Value(history'[y.session], y.op) # y.op.to
  <2>1. CASE e.state = "conflict" /\ y.session = e.session
    <3>1. Leads(id) /\ ~Open(e.op) /\ Value(history[e.session], e.op) # e.op.to
      BY <1>4, <2>1 DEF EntryFaithful
    <3>2. e.session \in DOMAIN history
      BY <1>5, <2>1 DEF EntryOK
    <3> QED BY <1>3, <1>6, <1>7, <1>10, <2>1, <3>1, <3>2
  <2>2. CASE /\ Leads(id) /\ ~Open(e.op) /\ y.session \in DOMAIN history
             /\ Value(history[y.session], e.op) # e.op.to
    BY <1>3, <1>6, <1>7, <1>10, <2>2
  <2> QED BY <1>1, <1>2, <1>3, <1>12, <2>1, <2>2 DEF EntryTurn
<1>13. y.op.from # y.op.to
  BY <1>3, <1>4 DEF EntryFaithful
<1> QED BY <1>2, <1>8, <1>9, <1>11, <1>12, <1>13 DEF EntryFaithful

\* What holds of an entry that is new.
LEMMA EntryStarts ==
  ASSUME IInv, IInv', StepOK, StoreStep, NEW x, Turn(x), NEW id \in DOMAIN store' \ DOMAIN store
  PROVE  EntryFaithful(id, store[id])'
<1>1. id \notin NamedIds
  BY DEF StoreStep
<1>2. id.intent # 0
  <2>1. id.intent \in DOMAIN intents'
    BY DEF IInv, StoreOK, EntryOK, Planned, Serves
  <2>2. DOMAIN intents' = 1..Len(intents')
    BY DEF IInv, TypeOK
  <2> QED BY <2>1, <2>2
<1>3. Commits(id)' = {}
  <2>1. \A n \in DOMAIN log' : log'[n].id # id
    BY <1>1, <1>2, NamedInLog DEF IInv, StepOK
  <2> QED BY <2>1 DEF Commits
<1>4. NewTurn(id)
  BY DEF Turn, OutboxTurn
<1> QED BY <1>3, <1>4 DEF NewTurn, EntryFaithful, Confirmable

\* What holds of an execution, as long as it works on the same entry.
LEMMA WorkerStays ==
  ASSUME IInv, StoreStep, Faithful, NEW x, Turn(x), NEW y, y.id \in NamedIds, y.id.intent # 0,
         WorkerFaithful(y), y.phase = "merging" => y.opSeq \in DOMAIN history, y.phase # "idle"
  PROVE  WorkerFaithful(y)'
<1>1. OutboxTurn(x) /\ ServerTurn
  BY DEF Turn
<1>2. y.id \in DOMAIN store' => y.id \in DOMAIN store
  BY DEF StoreStep
<1>3. y.id \in DOMAIN store' => Leads(y.id) /\ Leads(y.id)'
  <2>1. PICK id : id = y.id
    OBVIOUS
  <2>2. id \in DOMAIN store' => Leads(id) /\ Leads(id)'
    BY <1>1, <1>2, <2>1, LeadsStays DEF WorkerFaithful
  <2> QED BY <2>1, <2>2
<1>4. \A n \in DOMAIN history : n \in DOMAIN history' /\ history'[n] = history[n]
  BY <1>1, ServerTurns
<1>5. ASSUME y.phase # "replaced"
      PROVE  SameEntry(y)' /\ Confirmable(y.id, y.entry.base)'
  <2>1. SameEntry(y) /\ Confirmable(y.id, y.entry.base)
    BY <1>5 DEF WorkerFaithful
  <2>2. PICK id, s : id = y.id /\ s = y.entry.base
    OBVIOUS
  <2>3. Confirmable(id, s)'
    BY <1>1, <2>1, <2>2, ConfirmableStays DEF SameEntry
  <2>4. y.id \in DOMAIN store' =>
          store'[y.id].op = store[y.id].op /\ store'[y.id].base = store[y.id].base
    BY <1>1, <1>2 DEF OutboxTurn, EntryTurn
  <2> QED BY <1>2, <2>1, <2>2, <2>3, <2>4 DEF SameEntry
<1>6. ASSUME y.phase # "replaced", y.id \in DOMAIN store', ~Open(y.entry.op)
      PROVE  ~Open(y.entry.op)'
  <2>1. store[y.id].op = y.entry.op /\ Leads(y.id)
    BY <1>2, <1>3, <1>6 DEF WorkerFaithful, SameEntry
  <2> QED BY <1>1, <1>6, <2>1, ClosedStays
<1>7. Held(y.entry.op, y.entry.op.to) => Held(y.entry.op, y.entry.op.to)'
  BY <1>4 DEF Held
<1>8. y.phase = "settling" => y.snapshot \in Range(history')
  BY <1>4 DEF Range, WorkerFaithful
<1>9. y.phase = "merging" =>
        \/ Value(history'[y.opSeq], y.entry.op) = y.entry.op.from
        \/ y.id \in DOMAIN store' => ~Open(y.entry.op)'
  BY <1>2, <1>4, <1>6 DEF WorkerFaithful
<1>10. y.phase \in {"settling", "removing"} =>
         Held(y.entry.op, y.entry.op.to)' /\ (y.id \in DOMAIN store' => ~Open(y.entry.op)')
  BY <1>2, <1>6, <1>7 DEF WorkerFaithful
<1> QED BY <1>3, <1>5, <1>8, <1>9, <1>10 DEF WorkerFaithful

\* So what holds of all executions holds after a turn.
LEMMA WorkersStay ==
  ASSUME IInv, IInv', StoreStep, Faithful, NEW x, Turn(x)
  PROVE  WorkersFaithful'
<1> SUFFICES ASSUME NEW w \in Workers, workers'[w].phase # "idle"
             PROVE  WorkerFaithful(workers[w])'
  BY DEF WorkersFaithful, WorkerFaithful
<1>1. PICK y : y = workers'[w]
  OBVIOUS
<1>2. y.id.intent # 0
  <2>1. y.id.intent \in DOMAIN intents'
    BY <1>1 DEF IInv, WorkersOK, WorkerOK, Planned, Serves
  <2>2. DOMAIN intents' = 1..Len(intents')
    BY DEF IInv, TypeOK
  <2> QED BY <2>1, <2>2
<1>3. CASE y = workers[w]
  <2>1. y.id \in NamedIds /\ WorkerFaithful(y)
    BY <1>1, <1>3 DEF NamedIds, Faithful, WorkersFaithful
  <2>2. y.phase = "merging" => y.opSeq \in DOMAIN history
    BY <1>3 DEF IInv, WorkersOK, WorkerOK
  <2>3. WorkerFaithful(y)'
    BY <1>1, <1>2, <2>1, <2>2, WorkerStays
  <2> QED BY <1>1, <2>3
<1>4. CASE y.phase = "replaced" /\ Leads(workers[w].id)'
  BY <1>1, <1>4 DEF WorkerFaithful
<1>5. CASE /\ y.id \in NamedIds /\ WorkerFaithful(y)
           /\ y.phase = "merging" => y.opSeq \in DOMAIN history
  <2>1. WorkerFaithful(y)'
    BY <1>1, <1>2, <1>5, WorkerStays
  <2> QED BY <1>1, <2>1
<1> QED BY <1>1, <1>3, <1>4, <1>5 DEF Turn, WorkerTurn

\* What holds of a tab.
LEMMA ViewStays ==
  ASSUME IInv, StoreStep, Faithful, NEW x, Turn(x), NEW t \in Tabs
  PROVE  ViewFaithful(views[t])'
<1>1. PICK v, y : v = views[t] /\ y = views'[t]
  OBVIOUS
<1>2. ViewFaithful(v) /\ ViewOK(v) /\ ViewTurn(t) /\ OutboxTurn(x) /\ ServerTurn
  BY <1>1 DEF Faithful, ViewsFaithful, IInv, ViewsOK, Turn
<1>3. \A n \in DOMAIN history : n \in DOMAIN history' /\ history'[n] = history[n]
  BY <1>2, ServerTurns
<1>4. \E B \in Nat : Understood(y.snapshot, B)'
  <2>1. CASE y.snapshot = v.snapshot
    <3>1. PICK s : s = v.snapshot
      OBVIOUS
    <3>2. PICK B \in Nat : Understood(s, B)
      BY <1>2, <3>1 DEF ViewFaithful
    <3>3. s.opSeq \in DOMAIN history
      BY <1>2, <3>1 DEF ViewOK, Dated
    <3>4. Understood(s, B)'
      BY <1>2, <3>2, <3>3, UnderstoodStays
    <3> QED BY <2>1, <3>1, <3>4
  <2> QED BY <1>1, <1>2, <2>1 DEF ViewTurn
<1>5. y.review # NoReview => Value(history'[y.review.session], y.review.op) # y.review.op.to
  <2>1. CASE y.review = v.review
    BY <1>2, <1>3, <2>1 DEF ViewFaithful, ViewOK
  <2>2. ASSUME NEW id \in DOMAIN store, IsBlocked(id),
               y.review = [id |-> id, op |-> store[id].op, session |-> store[id].session]
        PROVE  Value(history'[y.review.session], y.review.op) # y.review.op.to
    <3>1. Value(history[store[id].session], store[id].op) # store[id].op.to
      BY <2>2 DEF Faithful, EntriesFaithful, EntryFaithful, IsBlocked
    <3>2. store[id].session \in DOMAIN history
      BY <2>2 DEF IInv, StoreOK, EntryOK, IsBlocked
    <3> QED BY <1>3, <2>2, <3>1, <3>2
  <2> QED BY <1>1, <1>2, <2>1, <2>2 DEF ViewTurn
<1> QED BY <1>1, <1>4, <1>5 DEF ViewFaithful

\* A commit still shows in the state that follows it, and there only in its document.
LEMMA ChainedStays ==
  ASSUME IInv, Chained, ServerTurn
  PROVE  Chained'
<1>1. CASE UNCHANGED <<history, log>>
  BY <1>1 DEF Chained, Value
<1>2. ASSUME NEW id \in Ids, NEW op \in Ops, CommitTurn(id, op)
      PROVE  Chained'
  <2>1. TypeOK /\ HistoryOK /\ Append1(id, op)
    BY <1>2 DEF IInv, CommitTurn
  <2>2. PICK n : n = Len(history)
    OBVIOUS
  <2>3. /\ n \in Nat /\ DOMAIN history = 1..n /\ DOMAIN log = 1..(n - 1) /\ DOMAIN log' = 1..n
        /\ \A m \in DOMAIN history : history'[m] = history[m]
        /\ \A m \in DOMAIN log : log'[m] = log[m]
        /\ log'[n] = [id |-> id, op |-> op]
        /\ Server = history[n] /\ Server' = history'[n + 1]
        /\ \A d \in Docs : d # op.doc => Server'.docs[d] = Server.docs[d]
        /\ \A d \in Docs, f \in Fields :
             Server'.docs[d].content[f] =
               IF d = op.doc /\ f = op.field THEN op.to ELSE Server.docs[d].content[f]
    BY <2>1, <2>2, AppendFacts, CommitValue
  <2>4. log'[n].op = op /\ op.doc \in Docs /\ op.field \in Fields /\ n \in DOMAIN history
    BY <2>3, <2>1, <2>2, ServerFacts DEF Ops
  <2>5. /\ \A d \in Docs : d # log'[n].op.doc => history'[n + 1].docs[d] = history'[n].docs[d]
        /\ Value(history'[n + 1], log'[n].op) = log'[n].op.to
    BY <2>3, <2>4 DEF Value
  <2>6. ASSUME NEW m \in DOMAIN log', m # n
        PROVE  /\ \A d \in Docs : d # log'[m].op.doc => history'[m + 1].docs[d] = history'[m].docs[d]
               /\ Value(history'[m + 1], log'[m].op) = log'[m].op.to
    <3>1. m \in DOMAIN log /\ m \in DOMAIN history /\ m + 1 \in DOMAIN history
      BY <2>3, <2>6
    <3>2. log'[m] = log[m] /\ history'[m] = history[m] /\ history'[m + 1] = history[m + 1]
      BY <2>3, <3>1
    <3> QED BY <3>1, <3>2 DEF Chained
  <2> QED BY <2>5, <2>6 DEF Chained
<1> QED BY <1>1, <1>2, ServerTurns

\* Such a step keeps everything faithful.
LEMMA FaithfulStep ==
  ASSUME IInv, IInv', StepOK, StoreStep, Faithful, NEW x, Turn(x)
  PROVE  Faithful'
<1>1. OutboxTurn(x) /\ ServerTurn
  BY DEF Turn
<1>2. PlacesDistinct' /\ SentLeads' /\ Chained'
  BY <1>1, PlacesStay, SentLeadsStays, ChainedStays DEF Faithful
<1>3. EntriesFaithful'
  BY EntryStays, EntryStarts DEF EntriesFaithful
<1>4. WorkersFaithful' /\ ViewsFaithful'
  BY WorkersStay, ViewStays DEF ViewsFaithful
<1>5. replica'.snapshot \in Range(history')
  <2>1. \A n \in DOMAIN history : n \in DOMAIN history' /\ history'[n] = history[n]
    BY <1>1, ServerTurns
  <2>2. \A s \in Range(history) : s \in Range(history')
    BY <2>1 DEF Range
  <2>3. replica'.snapshot \in Range(history)
    BY DEF Turn, Faithful
  <2> QED BY <2>2, <2>3
<1> QED BY <1>2, <1>3, <1>4, <1>5 DEF Faithful

-----------------------------------------------------------------------------
(* What is taken back stays taken back *)

\* A rejected or discarded edit stays so.
GivenUp(i) == intents[i].status \in {"rejected", "discarded"}

\* No step gives an edit back that was given up.
LEMMA GivenUpStays ==
  ASSUME IInv, Next, NEW i \in DOMAIN intents, GivenUp(i)
  PROVE  GivenUp(i)'
<1>1. TypeOK
  BY DEF IInv
<1>2. \A st, e : e = [intents[i] EXCEPT !.status = st] => e.status = st
  BY <1>1, EditFacts DEF Edits
<1>3. \A y, e : e = [intents[i] EXCEPT !.seen = y] => e.status = intents[i].status
  BY <1>1, EditFacts DEF Edits
<1>4. CASE UNCHANGED intents
  BY <1>4 DEF GivenUp
<1>5. ASSUME NEW e, intents' = Append(intents, e)
      PROVE  GivenUp(i)'
  <2>1. PICK S : S = Edits \cup {e}
    OBVIOUS
  <2>2. intents \in Seq(S) /\ e \in S
    BY <1>1, <2>1 DEF TypeOK
  <2>3. intents'[i] = intents[i]
    BY <1>5, <2>2
  <2> QED BY <2>3 DEF GivenUp
<1>6. ASSUME NEW j, intents' = [intents EXCEPT ![j].status = "rejected"]
      PROVE  GivenUp(i)'
  <2>1. intents'[i] = intents[i] \/ intents'[i] = [intents[i] EXCEPT !.status = "rejected"]
    BY <1>6
  <2> QED BY <1>2, <2>1 DEF GivenUp
<1>7. ASSUME NEW j, intents' = [intents EXCEPT ![j].status =
                                  IF @ = "rejected" THEN @ ELSE "discarded"]
      PROVE  GivenUp(i)'
  <2>1. PICK st : st = IF intents[j].status = "rejected" THEN intents[j].status ELSE "discarded"
    OBVIOUS
  <2>2. intents'[i] = intents[i] \/ intents'[i] = [intents[i] EXCEPT !.status = st]
    BY <1>7, <2>1
  <2>3. intents'[i].status = intents[i].status \/ intents'[i].status = st
    BY <1>2, <2>2
  <2> QED BY <2>1, <2>3 DEF GivenUp
<1>8. ASSUME NEW t \in Tabs, KeepLocal(t)
      PROVE  GivenUp(i)'
  <2>1. PICK j, y : intents' = [intents EXCEPT ![j].seen = y]
    BY <1>8 DEF KeepLocal
  <2>2. intents'[i] = intents[i] \/ intents'[i] = [intents[i] EXCEPT !.seen = y]
    BY <2>1
  <2> QED BY <1>3, <2>2 DEF GivenUp
<1>9. ASSUME NEW t \in Tabs, OpenWorkspace(t)
      PROVE  GivenUp(i)'
  <2>1. intents'[i] = intents[i] \/ intents[i].status = "doomed"
    BY <1>9 DEF OpenWorkspace
  <2> QED BY <2>1 DEF GivenUp
<1>10. ASSUME NEW t \in Tabs,
              Edit(t) \/ EditInVain(t) \/ RejectEdit(t) \/ OpenReview(t) \/ KeepRemote(t)
       PROVE  GivenUp(i)'
  <2>1. Edit(t) \/ EditInVain(t) => \E e : intents' = Append(intents, e)
    BY DEF Edit, EditInVain, Queue
  <2>2. RejectEdit(t) => \E j : intents' = [intents EXCEPT ![j].status = "rejected"]
    BY DEF RejectEdit
  <2>3. KeepRemote(t) =>
          \/ UNCHANGED intents
          \/ \E j : intents' = [intents EXCEPT ![j].status =
                                  IF @ = "rejected" THEN @ ELSE "discarded"]
    BY DEF KeepRemote
  <2>4. OpenReview(t) => UNCHANGED intents
    BY DEF OpenReview
  <2> QED BY <1>4, <1>5, <1>6, <1>7, <1>10, <2>1, <2>2, <2>3, <2>4
<1>11. ASSUME NEW w \in Workers, Claim(w) \/ Executes(w) \/ Mishap(w)
       PROVE  UNCHANGED intents
  <2>1. CASE Executes(w)
    BY <2>1 DEF Executes, ServeRequest, FailEntry, Confirm, FetchRemote, AlreadyApplied, Rebase,
                GiveUpRebasing, ClaimReplacement, BlockOnConflict, WriteReplica, RemoveEntry
  <2> QED BY <1>11, <2>1 DEF Claim, Mishap, NetworkFails, CrashWorker, RefusedInPassing,
                             ReplicaWriteFails
<1>12. ASSUME NEW id \in DOMAIN store, Timer(id) \/ Requeue(id)
       PROVE  UNCHANGED intents
  BY <1>12 DEF Timer, RetryDue, LeaseExpires, Overdue, Requeue
<1>13. RemoteWrite \/ ServeStray => UNCHANGED intents
  BY DEF RemoteWrite, ServeStray
<1> QED BY <1>4, <1>8, <1>9, <1>10, <1>11, <1>12, <1>13 DEF Next, Answer

\* What was taken back before a step is taken back after it.
LEMMA TakenBackStays ==
  ASSUME IInv, Next, NothingTakenBack'
  PROVE  NothingTakenBack
<1>1. StepOK /\ TypeOK /\ HistoryOK
  BY NextStep DEF IInv
<1>2. ServerOnward
  BY <1>1, HistoryStep DEF StepOK
<1>3. \A i \in DOMAIN intents : ~GivenUp(i)
  <2>1. \A i \in DOMAIN intents : i \in DOMAIN intents'
    BY <1>1 DEF StepOK, IntentsOnward
  <2> QED BY <2>1, GivenUpStays DEF NothingTakenBack, GivenUp
<1>4. ASSUME NEW n \in RemoteCommits, Reverted(n)
      PROVE  FALSE
  <2>1. n \in DOMAIN log /\ log[n].id.intent = 0
    BY <1>4 DEF RemoteCommits
  <2>2. PICK m \in 1..n : Value(history[m], log[n].op) = log[n].op.to
    BY <1>4 DEF Reverted
  <2>3. m \in DOMAIN history
    BY <1>1, <2>1, ServerFacts
  <2>4. n \in DOMAIN log' /\ log'[n] = log[n] /\ history'[m] = history[m]
    BY <1>2, <2>1, <2>3 DEF ServerOnward
  <2>5. n \in RemoteCommits' /\ Reverted(n)'
    BY <2>1, <2>2, <2>4 DEF RemoteCommits, Reverted
  <2> QED BY <2>5 DEF NothingTakenBack
<1> QED BY <1>3, <1>4 DEF NothingTakenBack, GivenUp

-----------------------------------------------------------------------------
(* The steps are such turns *)

\* The outbox stays as it is.
LEMMA SameOutbox ==
  ASSUME UNCHANGED store
  PROVE  OutboxTurn(NoId)
BY DEF OutboxTurn, EntryTurn

\* An execution that moves alone.
LEMMA MoverTurn ==
  ASSUME IInv, NEW w \in Workers, NEW y, Becomes(w, y), Sends(y), stray' \subseteq Sent,
         y = workers'[w] => WorkerTurn(w), ServerTurn, NEW x, OutboxTurn(x),
         UNCHANGED views, replica'.snapshot \in {replica.snapshot} \cup Range(history)
  PROVE  Turn(x)
<1>1. workers \in [Workers -> Executions]
  BY DEF IInv, TypeOK
<1>2. \A v \in Workers : workers'[v] = IF v = w THEN y ELSE workers[v]
  BY <1>1 DEF Becomes
<1>3. \A v \in Workers : WorkerTurn(v)
  <2>1. \A v \in Workers : v # w => workers'[v] = workers[v]
    BY <1>2
  <2>2. workers'[w] = y
    BY <1>2
  <2> QED BY <2>1, <2>2 DEF WorkerTurn
<1>4. \A t \in Tabs : ViewTurn(t)
  BY DEF ViewTurn
<1>5. \A r \in Sent' : r \in Sent \/ (IsHead(store, r.id) /\ r.id \in DOMAIN store')
  BY MoverSends
<1> QED BY <1>3, <1>4, <1>5 DEF Turn

\* A step of a tab.
LEMMA TabTurn ==
  ASSUME UNCHANGED <<history, log, stray, workers>>, NEW x, OutboxTurn(x),
         \A t \in Tabs : ViewTurn(t), replica'.snapshot \in {replica.snapshot} \cup Range(history)
  PROVE  Turn(x)
<1>1. \A r \in Sent' : r \in Sent
  BY SentStays DEF server
<1>2. ServerTurn
  BY DEF ServerTurn, server
<1> QED BY <1>1, <1>2 DEF Turn, WorkerTurn

\* What commits without an execution.
LEMMA CommitTurns ==
  ASSUME IInv, NothingTakenBack', RemoteWrite \/ ServeStray
  PROVE  Turn(NoId)
<1>1. UNCHANGED <<stray, store, replica, workers, views, intents>> /\ TypeOK /\ HistoryOK
  BY DEF RemoteWrite, ServeStray, shared, IInv
<1>2. Sent' = Sent
  BY <1>1 DEF Sent, Sending, RequestOf, Request
<1>3. \E id \in Ids, op \in Ops : CommitTurn(id, op)
  <2>1. CASE RemoteWrite
    <3>1. PICK d \in Docs, f \in Fields, v \in RemoteVals :
            LET op == [doc |-> d, field |-> f, from |-> Server.docs[d].content[f], to |-> v]
            IN Append1([intent |-> 0, try |-> Len(log)], op)
      BY <2>1 DEF RemoteWrite
    <3> DEFINE o == [doc |-> d, field |-> f, from |-> Server.docs[d].content[f], to |-> v]
               j == [intent |-> 0, try |-> Len(log)]
    <3>2. Server.docs[d].content[f] \in AllVals
      BY <1>1, ServerFacts, SnapshotFacts
    <3>3. PICK op \in Ops : op = o
      BY <3>2 DEF Ops, AllVals
    <3>4. PICK id \in Ids : id = j
      BY <1>1, ServerFacts DEF Ids
    <3>5. Append1(id, op) /\ id.intent = 0
      BY <3>1, <3>3, <3>4
    <3>6. PICK n : n = Len(history)
      OBVIOUS
    <3>7. /\ n \in Nat /\ DOMAIN history = 1..n /\ DOMAIN log' = 1..n
          /\ \A m \in DOMAIN history : history'[m] = history[m]
          /\ log'[n] = [id |-> id, op |-> op]
      BY <1>1, <3>5, <3>6, AppendFacts
    <3>8. n >= 1
      BY <1>1, <3>6, ServerFacts
    <3>9. n \in RemoteCommits' /\ log'[n].op = op
      BY <3>5, <3>7, <3>8 DEF RemoteCommits
    <3>10. ~Held(op, op.to)
      <4>1. ~Reverted(n)'
        BY <3>9 DEF NothingTakenBack
      <4> QED BY <3>7, <3>9, <4>1 DEF Reverted, Held
    <3> QED BY <3>5, <3>10 DEF CommitTurn
  <2>2. CASE ServeStray
    <3>1. PICK r \in stray : Commit(r)
      BY <2>2 DEF ServeStray
    <3>2. r.id \in Ids /\ r.op \in Ops /\ r \in Sent
      BY <1>1, CarriedNamed DEF Carried, Sent
    <3> QED BY <3>1, <3>2 DEF CommitTurn, Commit
  <2> QED BY <2>1, <2>2
<1>4. ServerTurn
  BY <1>1, <1>3 DEF ServerTurn
<1>5. OutboxTurn(NoId)
  BY <1>1, SameOutbox
<1> QED BY <1>1, <1>2, <1>4, <1>5 DEF Turn, WorkerTurn, ViewTurn

\* An execution that goes on with the same entry.
LEMMA GoesOnTurn ==
  ASSUME IInv, NEW w \in Sending, NEW y, Becomes(w, y), y.id = workers[w].id,
         y.entry = workers[w].entry, WorkerFaithful(y),
         y.phase = "merging" => y.opSeq \in DOMAIN history,
         ServerTurn, UNCHANGED <<stray, store, views>>,
         replica'.snapshot \in {replica.snapshot} \cup Range(history)
  PROVE  Turn(NoId)
<1>1. Sends(y) /\ stray' \subseteq Sent
  BY DEF Sends, Sent, RequestOf
<1>2. y.id \in NamedIds /\ w \in Workers
  BY DEF Sending, NamedIds
<1>3. y = workers'[w] => WorkerTurn(w)
  BY <1>2 DEF WorkerTurn
<1>4. OutboxTurn(NoId)
  BY SameOutbox
<1> QED BY <1>1, <1>2, <1>3, <1>4, MoverTurn

\* An execution in another phase that says nothing new.
LEMMA OtherPhase ==
  ASSUME NEW x, WorkerFaithful(x), x.phase \notin {"idle", "replaced"}, NEW y,
         y.id = x.id, y.entry = x.entry, y.phase \in {"waiting", "acked", "stale", "refused"}
  PROVE  WorkerFaithful(y)
BY DEF WorkerFaithful, SameEntry

\* The request that an execution sends is one that may arrive.
LEMMA AnswerTurns ==
  ASSUME IInv, Faithful, NEW w \in Workers, ServeRequest(w) \/ RefusedInPassing(w)
  PROVE  Turn(NoId)
<1>1. PICK x : x = workers[w]
  OBVIOUS
<1>2. /\ x.phase = "waiting" /\ w \in Sending /\ UNCHANGED <<stray, store, replica, views>>
      /\ WorkerFaithful(x)
  BY <1>1 DEF ServeRequest, RefusedInPassing, shared, Sending, Faithful, WorkersFaithful
<1>3. x \in Senders
  BY <1>1, <1>2, SenderFacts
<1>4. workers \in [Workers -> Executions]
  BY DEF IInv, TypeOK
<1>5. \E y : /\ Becomes(w, y) /\ y.id = x.id /\ y.entry = x.entry
             /\ y.phase \in {"acked", "stale", "refused"}
  <2>1. \A p, y : p \in {"acked", "stale", "refused"} /\ y = [x EXCEPT !.phase = p] =>
                    y.id = x.id /\ y.entry = x.entry /\ y.phase = p
    BY <1>3 DEF Senders
  <2>2. \A n, y : y = [x EXCEPT !.phase = "acked", !.opSeq = n] =>
                    y.id = x.id /\ y.entry = x.entry /\ y.phase = "acked"
    BY <1>3 DEF Senders
  <2>3. CASE \E p \in {"stale", "refused"} : Advances(w, p)
    <3>1. PICK p \in {"stale", "refused"} : Advances(w, p)
      BY <2>3
    <3>2. PICK y : y = [x EXCEPT !.phase = p]
      OBVIOUS
    <3>3. Becomes(w, y)
      BY <1>1, <1>4, <3>1, <3>2 DEF Advances, Becomes
    <3> QED BY <2>1, <3>2, <3>3
  <2>4. CASE \E n : Becomes(w, [x EXCEPT !.phase = "acked", !.opSeq = n])
    <3>1. PICK n : Becomes(w, [x EXCEPT !.phase = "acked", !.opSeq = n])
      BY <2>4
    <3>2. PICK y : y = [x EXCEPT !.phase = "acked", !.opSeq = n]
      OBVIOUS
    <3> QED BY <2>2, <3>1, <3>2
  <2> QED BY <1>1, <2>3, <2>4 DEF ServeRequest, RefusedInPassing
<1>6. PICK y : /\ Becomes(w, y) /\ y.id = x.id /\ y.entry = x.entry
               /\ y.phase \in {"acked", "stale", "refused"}
  BY <1>5
<1>7. WorkerFaithful(y)
  BY <1>2, <1>6, OtherPhase
<1>8. ServerTurn
  <2>1. CASE Commit(RequestOf(w))
    <3>1. PICK r \in Sent : r = RequestOf(w)
      BY <1>2 DEF Sent
    <3>2. r.id \in Ids /\ r.op \in Ops
      BY <3>1, SentFacts, CarriedNamed DEF IInv
    <3> QED BY <1>2, <2>1, <3>1, <3>2 DEF ServerTurn, CommitTurn, Commit
  <2>2. Commit(RequestOf(w)) \/ UNCHANGED server
    BY DEF ServeRequest, RefusedInPassing
  <2> QED BY <2>1, <2>2 DEF ServerTurn
<1>9. y.phase # "merging"
  BY <1>6
<1> QED BY <1>1, <1>2, <1>6, <1>7, <1>8, <1>9, GoesOnTurn

\* The latest remote state is fetched: the operation fits it, or not any more.
LEMMA FetchTurn ==
  ASSUME IInv, Faithful, NEW w \in Workers, FetchRemote(w)
  PROVE  Turn(NoId)
<1>1. PICK x : x = workers[w]
  OBVIOUS
<1>2. /\ x.phase = "stale" /\ w \in Sending /\ WorkerFaithful(x)
      /\ UNCHANGED <<history, log, stray, store, replica, views>>
  BY <1>1 DEF FetchRemote, server, shared, Sending, Faithful, WorkersFaithful
<1>3. x \in Senders /\ TypeOK
  BY <1>1, <1>2, SenderFacts DEF IInv
<1>4. PICK n : n = Len(history)
  OBVIOUS
<1>5. PICK y : y = [x EXCEPT !.phase = "merging", !.opSeq = n]
  OBVIOUS
<1>6. y.id = x.id /\ y.entry = x.entry /\ y.phase = "merging" /\ y.opSeq = n
  BY <1>3, <1>5 DEF Senders
<1>7. Becomes(w, y)
  BY <1>1, <1>4, <1>5 DEF FetchRemote
<1>8. n \in DOMAIN history /\ Server = history[n]
  BY <1>3, <1>4, ServerFacts
<1>9. WorkerFaithful(y)
  BY <1>2, <1>6, <1>8 DEF WorkerFaithful, SameEntry, Open
<1>10. ServerTurn
  BY <1>2 DEF ServerTurn, server
<1> QED BY <1>1, <1>2, <1>6, <1>7, <1>8, <1>9, <1>10, GoesOnTurn

\* An execution that settles on a state of the server which has what it sent.
LEMMA SettlingTurn ==
  ASSUME IInv, Faithful, NEW w \in Workers, workers[w].phase \in {"acked", "merging"},
         NEW s \in Range(history), Settling(w, s), NEW op, op = workers[w].entry.op,
         Held(op, op.to), workers[w].id \in DOMAIN store => ~Open(op),
         UNCHANGED <<server, stray, store, replica, views>>
  PROVE  Turn(NoId)
<1>1. PICK x : x = workers[w]
  OBVIOUS
<1>2. w \in Sending /\ WorkerFaithful(x)
  BY <1>1 DEF Sending, Faithful, WorkersFaithful
<1>3. PICK y : y = [phase |-> "settling", id |-> x.id, entry |-> x.entry, snapshot |-> s]
  OBVIOUS
<1>4. y.id = x.id /\ y.entry = x.entry /\ y.phase = "settling" /\ y.snapshot = s
  BY <1>3
<1>5. Becomes(w, y)
  BY <1>1, <1>3 DEF Settling
<1>6. WorkerFaithful(y)
  BY <1>1, <1>2, <1>4 DEF WorkerFaithful, SameEntry
<1> QED BY <1>1, <1>2, <1>4, <1>5, <1>6, GoesOnTurn DEF ServerTurn

\* The remote side made the same edit.
LEMMA AlreadyAppliedTurn ==
  ASSUME IInv, Faithful, NEW w \in Workers, AlreadyApplied(w)
  PROVE  Turn(NoId)
<1>1. PICK x : x = workers[w]
  OBVIOUS
<1>2. PICK op : op = x.entry.op
  OBVIOUS
<1>3. PICK s : s = history[x.opSeq]
  OBVIOUS
<1>4. /\ x.phase = "merging" /\ WorkerFaithful(x) /\ Value(s, op) = op.to /\ Settling(w, s)
      /\ UNCHANGED <<server, stray, store, replica, views>>
  BY <1>1, <1>2, <1>3 DEF AlreadyApplied, RemoteValue, OpOf, shared, Faithful, WorkersFaithful
<1>5. x.opSeq \in DOMAIN history
  BY <1>1, <1>4, SenderFacts DEF WorkerOK
<1>6. s \in Range(history) /\ Held(op, op.to)
  BY <1>3, <1>4, <1>5 DEF Range, Held
<1>7. x.id \in DOMAIN store => ~Open(op)
  <2>1. x.id \in DOMAIN store => op.from # op.to
    BY <1>2, <1>4 DEF WorkerFaithful, SameEntry, Faithful, EntriesFaithful, EntryFaithful
  <2> QED BY <1>2, <1>3, <1>4, <2>1 DEF WorkerFaithful
<1> QED BY <1>1, <1>2, <1>4, <1>6, <1>7, SettlingTurn

\* Snapshots are equal if what they hold is.
LEMMA SameSnapshot ==
  ASSUME NEW s \in Snapshots, NEW u \in Snapshots, s.opSeq = u.opSeq,
         \A d \in Docs : s.docs[d] = u.docs[d]
  PROVE  s = u
<1>1. s.docs = u.docs
  BY DEF Snapshots
<1> QED BY <1>1 DEF Snapshots

\* What an execution confirms is a state the server was in.
LEMMA ConfirmedIsState ==
  ASSUME IInv, Faithful, NEW w \in Workers, workers[w].phase = "acked"
  PROVE  /\ Confirmed(w) \in Range(history)
         /\ \A op : op = workers[w].entry.op =>
              Held(op, op.to) /\ (workers[w].id \in DOMAIN store => ~Open(op))
<1>1. PICK x : x = workers[w]
  OBVIOUS
<1>2. /\ x \in Senders /\ WorkerOK(x) /\ x.entry.base \in Snapshots
      /\ RequestOf(w) \in Carried /\ x.entry.op \in Ops
  BY <1>1, SenderFacts
<1>3. PICK n \in Commits(x.id) : x.opSeq = n + 1
  BY <1>1, <1>2 DEF WorkerOK
<1>4. PICK k : k = Len(history)
  OBVIOUS
<1>5. /\ k \in Nat /\ DOMAIN history = 1..k /\ DOMAIN log = 1..(k - 1)
      /\ Server = history[k] /\ \A m \in DOMAIN history : history[m] \in Snapshots
  BY <1>4, ServerFacts DEF IInv
<1>6. n \in 1..(k - 1) /\ n \in DOMAIN log /\ n + 1 \in DOMAIN history
      /\ n \in DOMAIN history /\ k \in DOMAIN history
  BY <1>3, <1>5 DEF Commits
<1>7. PICK b \in Snapshots, op \in Ops : b = x.entry.base /\ op = x.entry.op
  BY <1>2
<1>8. log[n].op = op
  BY <1>1, <1>2, <1>3, <1>7 DEF IInv, CarriedOK, RequestOf, Request
<1>9. WorkerFaithful(x)
  BY <1>1 DEF Faithful, WorkersFaithful
<1>10. Held(op, op.to)
  <2>1. Value(history[n + 1], op) = op.to
    BY <1>6, <1>8 DEF Faithful, Chained
  <2> QED BY <1>6, <2>1 DEF Held
<1>11. x.id \in DOMAIN store => ~Open(op)
  BY <1>1, <1>3, <1>7, <1>9 DEF WorkerFaithful, SameEntry, Faithful, EntriesFaithful, EntryFaithful
<1>12. CASE x.opSeq > b.opSeq + 1
  <2>1. Confirmed(w) = Server
    BY <1>1, <1>7, <1>12 DEF Confirmed, Base
  <2> QED BY <1>1, <1>5, <1>6, <1>7, <1>10, <1>11, <2>1 DEF Range
<1>13. CASE ~(x.opSeq > b.opSeq + 1)
  <2>1. b.opSeq \in Nat
    BY SnapshotFacts
  <2>2. ~(b.opSeq < n)
    BY <1>3, <1>5, <1>6, <1>13, <2>1
  <2>3. Confirmable(x.id, b)
    BY <1>1, <1>7, <1>9 DEF WorkerFaithful
  <2>4. b = history[n]
    BY <1>3, <2>2, <2>3 DEF Confirmable
  <2>5. PICK a : a = Applied(b, op)
    OBVIOUS
  <2>6. a \in Snapshots /\ \A d \in Docs : d # op.doc => a.docs[d] = b.docs[d]
    BY <2>5, AppliedFacts
  <2>7. PICK h \in Snapshots : h = history[n + 1]
    BY <1>5, <1>6
  <2>8. h.opSeq = n + 1 /\ n + 1 \in Nat
    BY <1>5, <1>6, <2>7 DEF IInv, HistoryOK
  <2>9. PICK c : c = [a EXCEPT !.opSeq = n + 1, !.docs[op.doc] = h.docs[op.doc]]
    OBVIOUS
  <2>10. Confirmed(w) = c
    BY <1>1, <1>3, <1>7, <1>13, <2>5, <2>7, <2>9 DEF Confirmed, Base, OpOf
  <2>11. PICK docs : docs = [a.docs EXCEPT ![op.doc] = h.docs[op.doc]]
    OBVIOUS
  <2>12. /\ docs \in [Docs -> [rev : Nat, content : [Fields -> AllVals]]]
         /\ \A d \in Docs : docs[d] = IF d = op.doc THEN h.docs[d] ELSE a.docs[d]
    <3>1. h \in Snapshots /\ a \in Snapshots /\ op.doc \in Docs
      BY <2>6 DEF Ops
    <3>2. /\ a.docs \in [Docs -> [rev : Nat, content : [Fields -> AllVals]]]
          /\ h.docs \in [Docs -> [rev : Nat, content : [Fields -> AllVals]]]
      BY ONLY <3>1 DEF Snapshots
    <3> QED BY ONLY <3>1, <3>2, <2>11
  <2>13. c \in Snapshots /\ c.opSeq = n + 1 /\ c.docs = docs
    <3>1. PICK g : g = [a EXCEPT !.opSeq = n + 1]
      OBVIOUS
    <3>2. g \in Snapshots /\ g.opSeq = n + 1 /\ g.docs = a.docs
      BY ONLY <2>6, <2>8, <3>1 DEF Snapshots
    <3>3. c = [g EXCEPT !.docs = docs]
      BY <2>9, <2>11, <3>1
    <3> QED BY <2>12, <3>2, <3>3 DEF Snapshots
  <2>14. \A d \in Docs : d # op.doc => h.docs[d] = b.docs[d]
    BY <1>6, <1>8, <2>4, <2>7 DEF Faithful, Chained
  <2>15. \A d \in Docs : c.docs[d] = h.docs[d]
    BY <2>6, <2>12, <2>13, <2>14
  <2>16. c = h
    BY <2>8, <2>13, <2>15, SameSnapshot
  <2> QED BY <1>1, <1>6, <1>7, <1>10, <1>11, <2>7, <2>10, <2>16 DEF Range
<1> QED BY <1>12, <1>13

\* The confirmed snapshot is settled on.
LEMMA ConfirmTurn ==
  ASSUME IInv, Faithful, NEW w \in Workers, Confirm(w)
  PROVE  Turn(NoId)
<1>1. /\ workers[w].phase = "acked" /\ Settling(w, Confirmed(w))
      /\ UNCHANGED <<server, stray, store, replica, views>>
  BY DEF Confirm, shared
<1>2. PICK s, op : s = Confirmed(w) /\ op = workers[w].entry.op
  OBVIOUS
<1>3. s \in Range(history) /\ Held(op, op.to) /\ (workers[w].id \in DOMAIN store => ~Open(op))
  BY <1>1, <1>2, ConfirmedIsState
<1> QED BY <1>1, <1>2, <1>3, SettlingTurn

\* An execution that ends.
LEMMA IdleTurn ==
  ASSUME IInv, NEW w \in Workers, Becomes(w, Idle), stray' \subseteq Sent, NEW x, OutboxTurn(x),
         UNCHANGED <<server, replica, views>>
  PROVE  Turn(x)
<1>1. Sends(Idle)
  BY DEF Sends, Idle
<1>2. Idle = workers'[w] => WorkerTurn(w)
  BY DEF WorkerTurn, Idle
<1> QED BY <1>1, <1>2, MoverTurn DEF ServerTurn

\* One entry is changed, and still sends the same.
LEMMA ChangedEntry ==
  ASSUME IInv, NEW id \in DOMAIN store, NEW e, store' = [store EXCEPT ![id] = e],
         e.op = store[id].op, e.base = store[id].base,
         e.state = "conflict" =>
           \/ store[id].state = "conflict" /\ e.session = store[id].session
           \/ /\ Leads(id) /\ ~Open(store[id].op) /\ e.session \in DOMAIN history
              /\ Value(history[e.session], store[id].op) # store[id].op.to
  PROVE  OutboxTurn(NoId)
<1>1. store \in [DOMAIN store -> Entries]
  BY DEF IInv, TypeOK
<1>2. DOMAIN store' = DOMAIN store
      /\ \A j \in DOMAIN store : store'[j] = IF j = id THEN e ELSE store[j]
  BY <1>1
<1>3. \A j \in DOMAIN store : EntryTurn(j)
  BY <1>2 DEF EntryTurn
<1> QED BY <1>2, <1>3 DEF OutboxTurn

\* An execution that ends, with its entry put into another state.
LEMMA LetsTurn ==
  ASSUME IInv, Faithful, NEW w \in Sending, NEW e, Lets(w, e), stray' \subseteq Sent,
         NEW op, op = workers[w].entry.op, e.op = op, e.base = workers[w].entry.base,
         e.state = "conflict" /\ workers[w].id \in DOMAIN store =>
           /\ ~Open(op) /\ e.session \in DOMAIN history
           /\ Value(history[e.session], op) # op.to,
         UNCHANGED <<server, replica, views>>
  PROVE  Turn(NoId)
<1>1. PICK x : x = workers[w]
  OBVIOUS
<1>2. WorkerFaithful(x) /\ x.phase \notin {"idle", "replaced"} /\ w \in Workers
  BY <1>1 DEF Sending, Faithful, WorkersFaithful
<1>3. CASE UNCHANGED store
  BY <1>2, <1>3, SameOutbox, IdleTurn DEF Lets
<1>4. CASE OwnsLease(store, x.id, w) /\ store' = [store EXCEPT ![x.id] = e]
  <2>1. x.id \in DOMAIN store
    BY <1>4 DEF OwnsLease
  <2>2. Leads(x.id) /\ store[x.id].op = op /\ store[x.id].base = x.entry.base
    BY <1>1, <1>2, <2>1 DEF WorkerFaithful, SameEntry
  <2>3. OutboxTurn(NoId)
    BY <1>1, <1>4, <2>1, <2>2, ChangedEntry
  <2> QED BY <1>2, <2>3, IdleTurn DEF Lets
<1> QED BY <1>1, <1>3, <1>4 DEF Lets

\* It waits, or has failed.
LEMMA LetsPlainTurn ==
  ASSUME IInv, Faithful, NEW w \in Sending,
         NEW e \in {Waiting(workers[w].entry), Failed(workers[w].entry)},
         Lets(w, e), stray' \subseteq Sent, UNCHANGED <<server, replica, views>>
  PROVE  Turn(NoId)
<1>1. workers[w].entry \in Entries /\ w \in Workers
  BY WorkerFacts DEF IInv, Sending
<1>2. PICK f \in Entries : f = workers[w].entry
  BY <1>1
<1>3. Still(f, Waiting(f)) /\ Still(f, Failed(f))
  BY <1>1, EntryTypes
<1>4. Waiting(f).state = "retry-wait" /\ Failed(f).state = "failed"
  BY <1>1, EntryTypes
<1>5. e \in {Waiting(f), Failed(f)}
  BY <1>2
<1>6. e.op = f.op /\ e.base = f.base /\ e.state # "conflict"
  BY <1>3, <1>4, <1>5 DEF Still
<1>7. e.op = workers[w].entry.op /\ e.base = workers[w].entry.base
  BY <1>2, <1>6
<1> QED BY <1>6, <1>7, LetsTurn

\* Both sides changed the cell: what the user wrote does not fit any more.
LEMMA BlockTurn ==
  ASSUME IInv, Faithful, NEW w \in Workers, BlockOnConflict(w)
  PROVE  Turn(NoId)
<1>1. PICK x : x = workers[w]
  OBVIOUS
<1>2. x.phase = "merging" /\ w \in Sending /\ WorkerFaithful(x)
  BY <1>1 DEF BlockOnConflict, Sending, Faithful, WorkersFaithful
<1>3. /\ x.entry \in Entries /\ x.opSeq \in DOMAIN history
      /\ Value(x.entry.base, x.entry.op) = x.entry.op.from
  BY <1>1, <1>2, SenderFacts DEF WorkerOK, Planned
<1>4. PICK f \in Entries : f = x.entry
  BY <1>3
<1>5. PICK n \in Nat : n = x.opSeq
  <2>1. DOMAIN history = 1..Len(history) /\ Len(history) \in Nat
    BY ServerFacts DEF IInv
  <2> QED BY <1>3, <2>1
<1>6. PICK e : e = Blocked(f, n)
  OBVIOUS
<1>7. Still(f, e) /\ e.session = n
  BY <1>6, EntryTypes
<1>8. e.op = f.op /\ e.base = f.base
  BY <1>7 DEF Still
<1>9. Lets(w, e) /\ UNCHANGED <<server, stray, replica, views>>
  BY <1>1, <1>4, <1>5, <1>6 DEF BlockOnConflict
<1>10. Value(history[n], f.op) # f.op.to /\ Value(history[n], f.op) # f.op.from
  BY <1>1, <1>3, <1>4, <1>5 DEF BlockOnConflict, Rebasable, RemoteValue, OpOf, Base
<1>11. x.id \in DOMAIN store => ~Open(f.op)
  BY <1>2, <1>4, <1>5, <1>10 DEF WorkerFaithful
<1>12. stray' \subseteq Sent
  BY <1>9 DEF Sent
<1>13. /\ f.op = workers[w].entry.op /\ f.base = workers[w].entry.base
       /\ e.session \in DOMAIN history
  BY <1>1, <1>3, <1>4, <1>5, <1>7
<1>14. PICK op : op = f.op
  OBVIOUS
<1> QED BY <1>1, <1>2, <1>5, <1>7, <1>8, <1>9, <1>10, <1>11, <1>12, <1>13, <1>14, LetsTurn

\* The replica advances to the snapshot that is settled on.
LEMMA SettleTurns ==
  ASSUME IInv, Faithful, NEW w \in Workers, WriteReplica(w) \/ ReplicaWriteFails(w)
  PROVE  Turn(NoId)
<1>1. PICK x : x = workers[w]
  OBVIOUS
<1>2. /\ x.phase = "settling" /\ w \in Sending /\ WorkerFaithful(x)
      /\ UNCHANGED <<server, stray, views>> /\ stray' \subseteq Sent
  BY <1>1 DEF WriteReplica, ReplicaWriteFails, Sending, Faithful, WorkersFaithful, Sent
<1>3. ASSUME Advances(w, "removing"), UNCHANGED store,
             replica'.snapshot \in {replica.snapshot} \cup Range(history)
      PROVE  Turn(NoId)
  <2>1. PICK y : y = [x EXCEPT !.phase = "removing"]
    OBVIOUS
  <2>2. Becomes(w, y) /\ y.phase = "removing" /\ y.id = x.id /\ y.entry = x.entry
    BY <1>1, <1>2, <1>3, <2>1, RemovingFacts
  <2>3. WorkerFaithful(y)
    BY <1>2, <2>2 DEF WorkerFaithful, SameEntry
  <2> QED BY <1>1, <1>2, <1>3, <2>2, <2>3, GoesOnTurn DEF ServerTurn
<1>4. CASE WriteReplica(w)
  <2>1. replica' = Advanced(replica, x.snapshot, {x.id})
    BY <1>1, <1>4 DEF WriteReplica
  <2>2. replica'.snapshot \in {replica.snapshot, x.snapshot}
    BY <2>1 DEF Advanced
  <2>3. x.snapshot \in Range(history)
    BY <1>2 DEF WorkerFaithful
  <2> QED BY <1>3, <1>4, <2>2, <2>3 DEF WriteReplica
<1>5. CASE ReplicaWriteFails(w)
  <2>1. UNCHANGED replica
    BY <1>5 DEF ReplicaWriteFails
  <2>2. CASE Lets(w, Waiting(workers[w].entry))
    BY <1>2, <2>1, <2>2, LetsPlainTurn
  <2>3. CASE Advances(w, "removing") /\ UNCHANGED store
    BY <1>3, <2>1, <2>3
  <2> QED BY <1>5, <2>2, <2>3 DEF ReplicaWriteFails
<1> QED BY <1>4, <1>5

\* Failures, lost requests, retries that are left to the timer, and crashes.
LEMMA EndingTurns ==
  ASSUME IInv, Faithful, NEW w \in Workers,
         FailEntry(w) \/ GiveUpRebasing(w) \/ NetworkFails(w) \/ CrashWorker(w)
  PROVE  Turn(NoId)
<1>1. workers[w].phase # "idle" /\ UNCHANGED <<server, replica, views>>
  BY DEF FailEntry, GiveUpRebasing, NetworkFails, CrashWorker, shared
<1>2. stray' \subseteq Sent
  <2>1. Strays(w) => stray' \subseteq Sent
    BY DEF Strays, Sent, Sending
  <2>2. stray' = stray \/ Strays(w)
    BY DEF FailEntry, GiveUpRebasing, NetworkFails, CrashWorker
  <2> QED BY <2>1, <2>2 DEF Sent
<1>3. CASE FailEntry(w) \/ GiveUpRebasing(w) \/ NetworkFails(w)
  <2>1. w \in Sending
    BY <1>3 DEF FailEntry, GiveUpRebasing, NetworkFails, Sending
  <2>2. PICK e \in {Waiting(workers[w].entry), Failed(workers[w].entry)} : Lets(w, e)
    BY <1>3 DEF FailEntry, GiveUpRebasing, NetworkFails
  <2> QED BY <1>1, <1>2, <2>1, <2>2, LetsPlainTurn
<1>4. CASE CrashWorker(w)
  <2>1. Becomes(w, Idle) /\ UNCHANGED store
    BY <1>4 DEF CrashWorker, shared
  <2>2. OutboxTurn(NoId)
    BY <2>1, SameOutbox
  <2> QED BY <1>1, <1>2, <2>1, <2>2, IdleTurn
<1> QED BY <1>3, <1>4

\* The first entry is claimed, its time comes, or the user asks for another try.
LEMMA ClaimTurns ==
  ASSUME IInv, Faithful,
         \/ \E w \in Workers : Claim(w) \/ ClaimReplacement(w)
         \/ \E id \in DOMAIN store : Timer(id) \/ Requeue(id)
  PROVE  Turn(NoId)
<1>1. UNCHANGED <<server, stray, replica, views>> /\ stray' \subseteq Sent
  BY DEF Claim, ClaimReplacement, Timer, RetryDue, LeaseExpires, Overdue, Requeue, Sent
<1>2. /\ store \in [DOMAIN store -> Entries] /\ \A j \in DOMAIN store : store[j] \in Entries
      /\ workers \in [Workers -> Executions]
  BY DEF IInv, TypeOK
<1>3. ASSUME NEW w \in Workers, NEW id, Candidate(store, id), NEW e,
             e = Claimed(store[id], w), store' = [store EXCEPT ![id] = e],
             NEW y, y.id = id, y.phase = "waiting", y.entry = e, Becomes(w, y)
      PROVE  Turn(NoId)
  <2>1. id \in DOMAIN store /\ IsHead(store, id) /\ DOMAIN store' = DOMAIN store
    BY <1>3 DEF Candidate, IsHead
  <2>2. PICK f \in Entries : f = store[id]
    BY <1>2, <2>1
  <2>3. Still(f, e) /\ e.state = "sending"
    BY <1>3, <2>2, EntryTypes
  <2>4. e.op = f.op /\ e.base = f.base
    BY <2>3 DEF Still
  <2>5. OutboxTurn(NoId)
    BY <1>3, <2>1, <2>2, <2>3, <2>4, ChangedEntry
  <2>6. Leads(id) /\ Confirmable(id, f.base)
    BY <2>1, <2>2, HeadLeads DEF Faithful, EntriesFaithful, EntryFaithful
  <2>7. WorkerFaithful(y)
    BY <1>3, <2>2, <2>4, <2>6 DEF WorkerFaithful, SameEntry
  <2>8. y = workers'[w] => WorkerTurn(w)
    BY <1>3, <2>1, <2>7 DEF WorkerTurn, NamedIds
  <2>9. Sends(y)
    BY <1>3, <2>1 DEF Sends
  <2> QED BY <1>1, <1>3, <2>5, <2>8, <2>9, MoverTurn DEF ServerTurn
<1>4. ASSUME NEW w \in Workers, Claim(w) PROVE Turn(NoId)
  <2>1. PICK id \in DOMAIN store :
          /\ Candidate(store, id)
          /\ store' = [store EXCEPT ![id] = Claimed(@, w)]
          /\ Becomes(w, [phase |-> "waiting", id |-> id, entry |-> store'[id],
                         rebases |-> 0, opSeq |-> 0])
    BY <1>4 DEF Claim
  <2>2. PICK e : e = Claimed(store[id], w)
    OBVIOUS
  <2>3. store' = [store EXCEPT ![id] = e] /\ store'[id] = e
    BY <1>2, <2>1, <2>2
  <2>4. PICK y : y = [phase |-> "waiting", id |-> id, entry |-> e, rebases |-> 0, opSeq |-> 0]
    OBVIOUS
  <2>5. y.id = id /\ y.phase = "waiting" /\ y.entry = e /\ Becomes(w, y)
    BY <2>1, <2>3, <2>4
  <2> QED BY <2>1, <2>2, <2>3, <2>5, <1>3
<1>5. ASSUME NEW w \in Workers, ClaimReplacement(w) PROVE Turn(NoId)
  <2>1. PICK x : x = workers[w]
    OBVIOUS
  <2>2. x \in Senders
    BY <1>5, <2>1, SenderFacts DEF ClaimReplacement
  <2>3. CASE /\ Candidate(store, x.id)
             /\ store' = [store EXCEPT ![x.id] = Claimed(@, w)]
             /\ Becomes(w, [x EXCEPT !.phase = "waiting", !.entry = store'[x.id],
                                     !.rebases = @ + 1, !.opSeq = 0])
    <3>1. PICK e : e = Claimed(store[x.id], w)
      OBVIOUS
    <3>2. x.id \in DOMAIN store
      BY <2>3 DEF Candidate, IsHead
    <3>3. store' = [store EXCEPT ![x.id] = e] /\ store'[x.id] = e
      BY <1>2, <2>3, <3>1, <3>2
    <3>4. PICK y : y = [x EXCEPT !.phase = "waiting", !.entry = e, !.rebases = @ + 1, !.opSeq = 0]
      OBVIOUS
    <3>5. y.id = x.id /\ y.phase = "waiting" /\ y.entry = e
      BY <2>2, <3>4 DEF Senders
    <3>6. Becomes(w, y)
      BY <2>3, <3>3, <3>4
    <3> QED BY <2>3, <3>1, <3>3, <3>5, <3>6, <1>3
  <2>4. CASE Becomes(w, Idle) /\ UNCHANGED store
    <3>1. OutboxTurn(NoId)
      BY <2>4, SameOutbox
    <3> QED BY <1>1, <2>4, <3>1, IdleTurn
  <2> QED BY <1>5, <2>1, <2>3, <2>4 DEF ClaimReplacement
<1>6. ASSUME NEW id \in DOMAIN store, Timer(id) \/ Requeue(id) PROVE Turn(NoId)
  <2>1. workers' = workers
    BY <1>6 DEF Timer, RetryDue, LeaseExpires, Overdue, Requeue
  <2>2. PICK f \in Entries : f = store[id]
    BY <1>2, <1>6
  <2>3. \E e : /\ store' = [store EXCEPT ![id] = e] /\ Still(f, e)
               /\ e.state = "conflict" => f.state = "conflict" /\ e.session = f.session
    <3>1. CASE Timer(id)
      <4>1. PICK e : e = [f EXCEPT !.due = TRUE]
        OBVIOUS
      <4>2. store' = [store EXCEPT ![id] = e]
        BY <2>2, <3>1, <4>1 DEF Timer, RetryDue, LeaseExpires, Overdue
      <4>3. Still(f, e) /\ e.state = f.state /\ e.session = f.session
        BY <4>1, DueEntry
      <4> QED BY <4>2, <4>3
    <3>2. CASE Requeue(id)
      <4>1. PICK e : e = Requeued(f)
        OBVIOUS
      <4>2. store' = [store EXCEPT ![id] = e]
        BY <2>2, <3>2, <4>1 DEF Requeue
      <4>3. Still(f, e) /\ e.state = "queued"
        BY <4>1, RequeuedFacts
      <4> QED BY <4>2, <4>3
    <3> QED BY <1>6, <3>1, <3>2
  <2>4. PICK e : /\ store' = [store EXCEPT ![id] = e] /\ Still(f, e)
                 /\ e.state = "conflict" => f.state = "conflict" /\ e.session = f.session
    BY <2>3
  <2>5. e.op = f.op /\ e.base = f.base
    BY <2>4 DEF Still
  <2>6. OutboxTurn(NoId)
    BY <1>6, <2>2, <2>4, <2>5, ChangedEntry
  <2> QED BY <1>1, <2>1, <2>6, TabTurn DEF ViewTurn, server
<1> QED BY <1>4, <1>5, <1>6

\* The server has what the removed entry wrote.
LEMMA RemoveTurn ==
  ASSUME IInv, Faithful, NEW w \in Workers, RemoveEntry(w)
  PROVE  Turn(NoId)
<1>1. PICK x : x = workers[w]
  OBVIOUS
<1>2. /\ x.phase = "removing" /\ WorkerFaithful(x) /\ Becomes(w, Idle)
      /\ UNCHANGED <<server, stray, replica, views>> /\ stray' \subseteq Sent
  BY <1>1 DEF RemoveEntry, Faithful, WorkersFaithful, Sent
<1>3. Over(x.id)
  BY <1>1, <1>2, SettlerFacts DEF WorkerOK, Over
<1>4. CASE UNCHANGED store
  BY <1>2, <1>4, SameOutbox, IdleTurn
<1>5. CASE OwnsLease(store, x.id, w) /\ store' = Removed(store, x.id)
  <2>1. DOMAIN store' = DOMAIN store \ {x.id} /\ \A j \in DOMAIN store' : store'[j] = store[j]
    BY <1>5 DEF Removed
  <2>2. x.id \in DOMAIN store
    BY <1>5 DEF OwnsLease
  <2>3. ~Open(store[x.id].op) /\ Held(store[x.id].op, store[x.id].op.to)
    BY <1>2, <2>2 DEF WorkerFaithful, SameEntry
  <2>4. GoneTurn(x.id)
    BY <1>3, <2>3 DEF GoneTurn
  <2>5. \A j \in DOMAIN store : j \in DOMAIN store' => EntryTurn(j)
    BY <2>1 DEF EntryTurn
  <2>6. \A j \in DOMAIN store \ DOMAIN store' : j = x.id
    BY <2>1
  <2>7. OutboxTurn(NoId)
    BY <2>1, <2>4, <2>5, <2>6 DEF OutboxTurn
  <2> QED BY <1>2, <2>7, IdleTurn
<1> QED BY <1>1, <1>4, <1>5 DEF RemoveEntry

\* A state of the server is understood after a step that leaves the server alone.
LEMMA CleanLater ==
  ASSUME IInv, UNCHANGED <<history, log>>, NEW s \in Range(history), NEW B
  PROVE  Understood(s, B)'
<1>1. PICK n \in DOMAIN history : s = history[n]
  BY DEF Range
<1>2. Known(s, B)'
  BY <1>1 DEF Known, KnownCell
<1>3. PICK m : m = Len(history)
  OBVIOUS
<1>4. m \in Nat /\ DOMAIN history = 1..m /\ Server = history[m] /\ s.opSeq = n
  BY <1>1, <1>3, ServerFacts DEF IInv, HistoryOK
<1>5. Server' = Server /\ Len(history') = m
  BY <1>3 DEF Server
<1>6. Explained(s, B)'
  BY <1>1, <1>4, <1>5 DEF Explained
<1> QED BY <1>2, <1>6 DEF Understood

\* A fresh entry, on a state of the server, takes the place of the first one.
LEMMA ReplaceTurn ==
  ASSUME IInv, UNCHANGED <<history, log>>, NEW id, Leads(id), Dead(id),
         NEW fresh, fresh \notin NamedIds, NEW op \in Ops, NEW n \in DOMAIN history,
         store' = Replaced(store, id, fresh, Resolved(op, history[n])),
         op.doc = store[id].op.doc, op.field = store[id].op.field, op.to = store[id].op.to,
         Value(history[n], op) # op.to,
         Open(store[id].op) => Value(history[n], op) = store[id].op.from
  PROVE  /\ OutboxTurn(fresh)
         /\ Leads(fresh)'
<1>1. /\ id \in DOMAIN store /\ fresh \notin DOMAIN store /\ id # fresh
      /\ \A j \in DOMAIN store : j # id => store[id].seq < store[j].seq
  BY DEF NamedIds, Leads
<1>2. PICK s \in Snapshots : s = history[n]
  BY ServerFacts DEF IInv
<1>3. PICK o \in Ops : /\ o.doc = op.doc /\ o.field = op.field /\ o.to = op.to
                       /\ o.from = Value(s, op) /\ Value(s, o) = o.from
                       /\ Resolved(op, s) = NewEntry(o, s)
  BY ResolvedFacts
<1>4. PICK e \in Entries : /\ e = NewEntry(o, s) /\ e.op = o /\ e.base = s /\ e.state = "queued"
  BY NewEntryType
<1>5. store[id] \in Entries
  BY <1>1 DEF IInv, TypeOK
<1>6. PICK f : Placed(e, store[id].seq, f) /\ Replaced(store, id, fresh, e) = InPlaceOf(id, fresh, f)
  BY <1>5, ReplacedFacts
<1>7. /\ DOMAIN store' = (DOMAIN store \ {id}) \cup {fresh} /\ store'[fresh] = f
      /\ \A j \in DOMAIN store \ {id} : store'[j] = store[j]
  BY <1>1, <1>2, <1>3, <1>4, <1>6 DEF InPlaceOf
<1>8. f.op = o /\ f.base = s /\ f.state = "queued" /\ f.seq = store[id].seq
  BY <1>4, <1>6 DEF Placed
<1>9. NewTurn(fresh)
  <2>1. PICK B : B = f.seq
    OBVIOUS
  <2>2. s \in Range(history)
    BY <1>2 DEF Range
  <2>3. Understood(s, B)'
    BY <2>2, CleanLater
  <2>4. id \in DOMAIN store \ DOMAIN store'
    BY <1>1, <1>7
  <2>5. o.from # o.to
    BY <1>2, <1>3
  <2> QED BY <1>7, <1>8, <2>1, <2>3, <2>4, <2>5 DEF NewTurn
<1>10. GoneTurn(id)
  <2>1. Follows(id, fresh)
    <3>1. Value(Server, o) = Value(Server, store[id].op)
      BY <1>3 DEF Value
    <3>2. Open(store[id].op) => Value(Server, o) = o.from
      BY <1>2, <1>3, <3>1 DEF Open
    <3> QED BY <1>3, <1>7, <1>8, <3>2 DEF Follows, Writes
  <2>2. fresh \in DOMAIN store'
    BY <1>7
  <2> QED BY <2>1, <2>2 DEF GoneTurn, Over
<1>11. OutboxTurn(fresh)
  <2>1. \A j \in DOMAIN store : j \in DOMAIN store' => EntryTurn(j)
    BY <1>1, <1>7 DEF EntryTurn
  <2>2. \A j \in DOMAIN store' \ DOMAIN store : j = fresh
    BY <1>7
  <2>3. \A j \in DOMAIN store \ DOMAIN store' : j = id
    BY <1>7
  <2> QED BY <1>9, <1>10, <2>1, <2>2, <2>3 DEF OutboxTurn
<1>12. Leads(fresh)'
  BY <1>1, <1>7, <1>8 DEF Leads
<1> QED BY <1>11, <1>12

\* A rebased entry stands for the one it replaces.
LEMMA RebaseTurn ==
  ASSUME IInv, Faithful, NEW w \in Workers, Rebase(w)
  PROVE  \E x : Turn(x)
<1>1. PICK x : x = workers[w]
  OBVIOUS
<1>2. PICK id, fresh : id = x.id /\ fresh = Fresh(id)
  OBVIOUS
<1>3. /\ x.phase = "merging" /\ UNCHANGED <<server, stray, replica, views>>
      /\ stray' \subseteq Sent /\ WorkerFaithful(x)
  BY <1>1 DEF Rebase, Sent, Faithful, WorkersFaithful
<1>4. /\ x \in Senders /\ Dead(id) /\ id \in Ids /\ x.entry.op \in Ops
      /\ x.opSeq \in DOMAIN history
      /\ Value(x.entry.base, x.entry.op) = x.entry.op.from
  BY <1>1, <1>2, <1>3, SenderFacts DEF WorkerOK, Planned
<1>5. CASE Becomes(w, Idle) /\ UNCHANGED store
  BY <1>3, <1>5, SameOutbox, IdleTurn
<1>6. CASE /\ OwnsLease(store, id, w)
           /\ store' = Replaced(store, id, fresh, Resolved(x.entry.op, history[x.opSeq]))
           /\ Becomes(w, [x EXCEPT !.phase = "replaced", !.id = fresh])
  <2>1. fresh \notin NamedIds
    BY <1>2, <1>4, FreshFacts DEF IInv
  <2>2. Leads(id) /\ store[id].op = x.entry.op
    BY <1>2, <1>3, <1>6 DEF OwnsLease, WorkerFaithful, SameEntry
  <2>3. /\ Value(history[x.opSeq], x.entry.op) # x.entry.op.to
        /\ Value(history[x.opSeq], x.entry.op) = x.entry.op.from
    BY <1>1, <1>4 DEF Rebase, Rebasable, RemoteValue, OpOf, Base
  <2>4. PICK op \in Ops, n \in DOMAIN history : op = x.entry.op /\ n = x.opSeq
    BY <1>4
  <2>5. OutboxTurn(fresh) /\ Leads(fresh)'
    BY <1>3, <1>4, <1>6, <2>1, <2>2, <2>3, <2>4, ReplaceTurn DEF server
  <2>6. PICK y : y = [x EXCEPT !.phase = "replaced", !.id = fresh]
    OBVIOUS
  <2>7. Becomes(w, y) /\ Sends(y) /\ y.phase = "replaced" /\ y.id = fresh
    BY <1>4, <1>6, <2>6 DEF Senders, Sends
  <2>8. y = workers'[w] => WorkerTurn(w)
    BY <2>5, <2>7 DEF WorkerTurn, Leads
  <2>9. Turn(fresh)
    BY <1>3, <2>5, <2>7, <2>8, MoverTurn DEF ServerTurn
  <2> QED BY <2>9
<1> QED BY <1>1, <1>2, <1>5, <1>6 DEF Rebase, OpOf

\* What is understood stays so while entries are only added.
LEMMA KeptUnderstood ==
  ASSUME IInv, UNCHANGED <<history, log>>,
         \A j \in DOMAIN store : j \in DOMAIN store' /\ store'[j] = store[j],
         NEW s, NEW B \in Nat, Understood(s, B), NEW C \in Nat, LastSeq(store) < C
  PROVE  Understood(s, C)'
<1>1. \A j \in DOMAIN store : j \in DOMAIN store' /\ store'[j] = store[j] /\ store[j].seq < C
  BY LastSeqFacts, StoreFacts DEF IInv
<1>2. Server' = Server
  BY DEF Server
<1>3. Known(s, C)'
  BY <1>1 DEF Understood, Known, KnownCell
<1>4. Explained(s, C)'
  BY <1>1, <1>2 DEF Understood, Explained, Open
<1> QED BY <1>3, <1>4 DEF Understood

\* A snapshot stays understood when an edit that is now queued is applied to it.
LEMMA EditedUnderstood ==
  ASSUME NEW s \in Snapshots, NEW op \in Ops, Value(s, op) = op.from,
         NEW x, x \in DOMAIN store', store'[x].op = op,
         NEW B \in Nat, Understood(s, B)', store'[x].seq < B
  PROVE  Understood(Applied(s, op), B)'
<1>1. PICK r : r = Applied(s, op)
  OBVIOUS
<1>2. /\ r.opSeq = s.opSeq
      /\ \A d \in Docs, f \in Fields :
           r.docs[d].content[f] =
             IF d = op.doc /\ f = op.field THEN op.to ELSE s.docs[d].content[f]
  BY <1>1, AppliedFacts, AppliedValue
<1>3. Known(r, B)'
  <2>1. ASSUME NEW d \in Docs, NEW f \in Fields
        PROVE  KnownCell(r, B, d, f)'
    <3>1. CASE d = op.doc /\ f = op.field
      <4>1. r.docs[d].content[f] = op.to
        BY <1>2, <3>1
      <4> QED BY <3>1, <4>1 DEF KnownCell, Writes
    <3>2. CASE ~(d = op.doc /\ f = op.field)
      <4>1. r.docs[d].content[f] = s.docs[d].content[f]
        BY <1>2, <3>2
      <4>2. KnownCell(s, B, d, f)'
        BY DEF Understood, Known
      <4> QED BY <4>1, <4>2 DEF KnownCell
    <3> QED BY <3>1, <3>2
  <2> QED BY <2>1 DEF Known
<1>4. Explained(r, B)'
  <2>1. CASE s = Server'
    <3>1. Open(op)'
      BY <2>1 DEF Open
    <3> QED BY <3>1 DEF Explained, Open
  <2>2. CASE s # Server'
    BY <1>2, <2>2 DEF Understood, Explained
  <2> QED BY <2>1, <2>2
<1>5. Understood(r, B)'
  BY <1>3, <1>4 DEF Understood
<1> QED BY <1>1, <1>5

\* An edit is queued behind what it was made on.
LEMMA QueueTurn ==
  ASSUME IInv, Faithful, UNCHANGED <<history, log>>, NEW t \in Tabs, NEW op \in Ops, NEW st,
         op.from = Value(views[t].snapshot, op), op.from # op.to, Queue(t, op, st)
  PROVE  /\ \E x : OutboxTurn(x)
         /\ \E B \in Nat : \A r : r = Applied(views[t].snapshot, op) => Understood(r, B)'
<1>1. PICK x : x = Pending(Len(intents) + 1)
  OBVIOUS
<1>2. x \notin DOMAIN store
  BY <1>1, NewEditFacts DEF IInv, NamedIds
<1>3. PICK s \in Snapshots : s = views[t].snapshot
  BY DEF IInv, TypeOK, Views
<1>4. PICK e \in Entries : e = NewEntry(op, s) /\ e.op = op /\ e.base = s /\ e.state = "queued"
  BY NewEntryType
<1>5. PICK L \in Nat : L = LastSeq(store)
  BY LastSeqFacts DEF IInv
<1>6. store' = Enqueued(store, x, e)
  BY <1>1, <1>3, <1>4 DEF Queue
<1>7. PICK f : /\ Placed(e, L + 1, f)
               /\ store' = [i \in DOMAIN store \cup {x} |-> IF i = x THEN f ELSE store[i]]
  <2>1. SeqsOK
    BY DEF IInv
  <2>2. \E f : /\ Placed(e, LastSeq(store) + 1, f)
               /\ Enqueued(store, x, e) =
                    [i \in DOMAIN store \cup {x} |-> IF i = x THEN f ELSE store[i]]
    BY ONLY <2>1, e \in Entries, EnqueuedFacts
  <2> QED BY <1>5, <1>6, <2>2
<1>8. /\ DOMAIN store' = DOMAIN store \cup {x} /\ store'[x] = f
      /\ \A j \in DOMAIN store : store'[j] = store[j]
  BY <1>2, <1>7
<1>9. f.op = op /\ f.base = s /\ f.state = "queued" /\ f.seq = L + 1
  BY <1>4, <1>7 DEF Placed
<1>10. PICK B \in Nat : Understood(s, B)
  BY <1>3 DEF Faithful, ViewsFaithful, ViewFaithful
<1>11. PICK C \in Nat : C = L + 1
  BY <1>5
<1>12. Understood(s, C)'
  BY <1>5, <1>8, <1>10, <1>11, KeptUnderstood
<1>13. NewTurn(x)
  BY <1>5, <1>8, <1>9, <1>11, <1>12 DEF NewTurn
<1>14. OutboxTurn(x)
  <2>1. \A j \in DOMAIN store : j \in DOMAIN store' /\ EntryTurn(j)
    BY <1>8 DEF EntryTurn
  <2>2. \A j \in DOMAIN store' \ DOMAIN store : j = x
    BY <1>8
  <2> QED BY <1>13, <2>1, <2>2 DEF OutboxTurn
<1>15. PICK D \in Nat : D = L + 2
  BY <1>5
<1>16. Understood(s, D)'
  BY <1>5, <1>8, <1>10, <1>15, KeptUnderstood
<1>17. x \in DOMAIN store' /\ store'[x].op = op /\ store'[x].seq < D
  BY <1>5, <1>8, <1>9, <1>15
<1>18. Value(s, op) = op.from
  BY <1>3
<1>19. PICK r : r = Applied(s, op)
  OBVIOUS
<1>20. Understood(r, D)'
  BY <1>16, <1>17, <1>18, <1>19, EditedUnderstood
<1> QED BY <1>3, <1>14, <1>19, <1>20

\* An edit, whether it can be applied or not.
LEMMA EditTurn ==
  ASSUME IInv, Faithful, NEW t \in Tabs, Edit(t) \/ EditInVain(t)
  PROVE  \E x : Turn(x)
<1>1. UNCHANGED <<history, log, stray, workers, replica>> /\ views \in [Tabs -> Views]
  BY DEF Edit, EditInVain, server, IInv, TypeOK
<1>2. PICK v \in Views : v = views[t]
  BY <1>1
<1>3. PICK d \in Docs, f \in Fields, to \in Vals, st \in {"open", "doomed"} :
        LET op == EditOf(t, d, f, to)
        IN /\ op.from # to
           /\ Queue(t, op, st)
           /\ \/ views' = [views EXCEPT ![t].snapshot = Applied(views[t].snapshot, op)]
              \/ views' = [views EXCEPT ![t].doomed = Pending(Len(intents) + 1)]
  BY DEF Edit, EditInVain
<1>4. PICK op : op = EditOf(t, d, f, to)
  OBVIOUS
<1>5. PICK from \in AllVals : from = v.snapshot.docs[d].content[f]
  BY DEF Views, Snapshots
<1>6. op = [doc |-> d, field |-> f, from |-> from, to |-> to]
  BY <1>2, <1>4, <1>5 DEF EditOf
<1>7. op \in Ops /\ op.from = Value(views[t].snapshot, op) /\ op.from # op.to
  <2>1. op.doc = d /\ op.field = f /\ op.from = from /\ op.to = to
    BY <1>6
  <2>2. op \in Ops
    BY <1>6 DEF Ops, AllVals
  <2>3. op.from = Value(views[t].snapshot, op)
    BY <1>2, <1>5, <2>1 DEF Value
  <2>4. op.from # op.to
    BY <1>3, <1>4, <2>1
  <2> QED BY <2>2, <2>3, <2>4
<1>8. PICK r : r = Applied(v.snapshot, op)
  OBVIOUS
<1>9. (\E x : OutboxTurn(x)) /\ \E B \in Nat : Understood(r, B)'
  BY <1>1, <1>2, <1>3, <1>4, <1>7, <1>8, QueueTurn
<1>10. \A u \in Tabs : ViewTurn(u)
  <2>1. PICK y : /\ y.review = v.review
                 /\ y.snapshot = v.snapshot \/ y.snapshot = r
                 /\ views' = [views EXCEPT ![t] = y]
    <3>1. PICK z : z = Pending(Len(intents) + 1)
      OBVIOUS
    <3>2. PICK a, b : a = [v EXCEPT !.snapshot = r] /\ b = [v EXCEPT !.doomed = z]
      OBVIOUS
    <3>3. /\ a.review = v.review /\ a.snapshot = r
          /\ b.review = v.review /\ b.snapshot = v.snapshot
      BY <3>2 DEF Views
    <3>4. views' = [views EXCEPT ![t] = a] \/ views' = [views EXCEPT ![t] = b]
      BY <1>1, <1>2, <1>3, <1>4, <1>8, <3>1, <3>2
    <3> QED BY <3>3, <3>4
  <2>2. \A u \in Tabs : views'[u] = views[u] \/ (u = t /\ views'[u] = y)
    BY <1>1, <2>1
  <2>3. \A u \in Tabs : views'[u].review = views[u].review
    BY <1>2, <2>1, <2>2
  <2>4. \A u \in Tabs : views'[u].snapshot = views[u].snapshot \/ views'[u].snapshot = r
    BY <1>2, <2>1, <2>2
  <2>5. \E C \in Nat : Understood(r, C)'
    BY <1>9
  <2> QED BY <2>3, <2>4, <2>5 DEF ViewTurn
<1> QED BY <1>1, <1>9, <1>10, TabTurn

\* A snapshot stays understood when an entry is replayed onto it.
LEMMA AppliedUnderstood ==
  ASSUME NEW s \in Snapshots, NEW op \in Ops, Value(s, op) = op.from,
         NEW id \in DOMAIN store, store[id].op = op,
         NEW B \in Nat, Understood(s, B), store[id].seq < B
  PROVE  Understood(Applied(s, op), B)
<1>1. PICK r : r = Applied(s, op)
  OBVIOUS
<1>2. /\ r.opSeq = s.opSeq
      /\ \A d \in Docs, f \in Fields :
           r.docs[d].content[f] =
             IF d = op.doc /\ f = op.field THEN op.to ELSE s.docs[d].content[f]
  BY <1>1, AppliedFacts, AppliedValue
<1>3. Known(r, B)
  <2>1. ASSUME NEW d \in Docs, NEW f \in Fields
        PROVE  KnownCell(r, B, d, f)
    <3>1. CASE d = op.doc /\ f = op.field
      <4>1. r.docs[d].content[f] = op.to
        BY <1>2, <3>1
      <4> QED BY <3>1, <4>1 DEF KnownCell, Writes
    <3>2. CASE ~(d = op.doc /\ f = op.field)
      <4>1. r.docs[d].content[f] = s.docs[d].content[f]
        BY <1>2, <3>2
      <4>2. KnownCell(s, B, d, f)
        BY DEF Understood, Known
      <4> QED BY <4>1, <4>2 DEF KnownCell
    <3> QED BY <3>1, <3>2
  <2> QED BY <2>1 DEF Known
<1>4. Explained(r, B)
  <2>1. CASE s = Server
    <3>1. Open(op)
      BY <2>1 DEF Open
    <3> QED BY <3>1 DEF Explained
  <2>2. CASE s # Server
    BY <1>2, <2>2 DEF Understood, Explained
  <2> QED BY <2>1, <2>2
<1> QED BY <1>1, <1>3, <1>4 DEF Understood

\* What is shown after the first n places: nothing, or what is understood.
ShownAt(s, n) == s = Unreadable \/ (Dated(s) /\ Understood(s, n + 1))

\* One entry replayed.
LEMMA ReplayUnderstood ==
  ASSUME IInv, Faithful, NEW s, NEW n \in Nat, Shown(s), s = Unreadable \/ Understood(s, n),
         NEW id \in DOMAIN store, store[id].seq = n
  PROVE  \A r : r = Replay(s, store[id]) => ShownAt(r, n)
<1>1. PICK e \in Entries : e = store[id]
  BY DEF IInv, TypeOK
<1>2. /\ e.op \in Ops /\ Dated(e.base) /\ Value(e.base, e.op) = e.op.from
      /\ Understood(e.base, n)
  BY <1>1 DEF Entries, IInv, StoreOK, EntryOK, Planned, Faithful, EntriesFaithful, EntryFaithful
<1>3. PICK C \in Nat : C = n + 1 /\ n <= C /\ n < C
  OBVIOUS
<1>4. ASSUME NEW o, Dated(o), Understood(o, n), Value(o, e.op) = e.op.from
      PROVE  \A r : r = Applied(o, e.op) => ShownAt(r, n)
  <2>1. o \in Snapshots
    BY <1>4 DEF Dated
  <2>2. Understood(o, C)
    BY <1>3, <1>4, UnderstoodMore
  <2>3. Understood(Applied(o, e.op), C)
    BY <1>1, <1>2, <1>3, <1>4, <2>1, <2>2, AppliedUnderstood
  <2>4. Dated(Applied(o, e.op))
    BY <1>2, <1>4, AppliedDated
  <2> QED BY <1>3, <2>3, <2>4 DEF ShownAt
<1>5. CASE s = Unreadable
  BY <1>5 DEF Replay, ShownAt
<1>6. CASE s # Unreadable
  <2>1. Dated(s) /\ Understood(s, n)
    BY <1>6 DEF Shown
  <2>2. PICK onto : onto = IF e.base.opSeq > s.opSeq THEN e.base ELSE s
    OBVIOUS
  <2>3. Dated(onto) /\ Understood(onto, n)
    BY <1>2, <2>1, <2>2
  <2>4. PICK r : r = Replay(s, e)
    OBVIOUS
  <2>5. \/ r = Unreadable
        \/ r = Applied(e.base, e.op)
        \/ r = Applied(onto, e.op) /\ Value(onto, e.op) = e.op.from
    BY <1>6, <2>2, <2>4 DEF Replay
  <2>6. ShownAt(r, n)
    BY <1>2, <1>4, <2>3, <2>5 DEF ShownAt
  <2> QED BY <1>1, <2>4, <2>6
<1> QED BY <1>5, <1>6

\* What is shown of the replica with what is pending is understood.
LEMMA MaterializedUnderstood ==
  ASSUME IInv, Faithful, NEW rep, Dated(rep.snapshot), rep.snapshot \in Range(history)
  PROVE  \E m \in Nat : ShownAt(Materialized(rep, store), m)
<1>1. PICK m \in Nat : \E g : /\ Shows(g, rep, m) /\ Materialized(rep, store) = g[m]
                            /\ \A n \in 0..m : g[n] = IF n = 0 THEN rep.snapshot
                                                     ELSE ShowsNext(rep, n, g[n - 1])
  BY MaterializedShows
<1>2. PICK g : /\ Materialized(rep, store) = g[m]
               /\ \A n \in 0..m : g[n] = IF n = 0 THEN rep.snapshot
                                        ELSE ShowsNext(rep, n, g[n - 1])
  BY <1>1
<1> DEFINE T == {n \in 0..m : ~ShownAt(g[n], n)}
<1>3. T \subseteq Nat /\ T \subseteq 0..m /\ \A n \in 0..m : n \in T <=> ~ShownAt(g[n], n)
  OBVIOUS
<1> HIDE DEF T
<1>4. ASSUME T # {} PROVE FALSE
  <2>1. PICK k \in T : \A j \in T : k <= j
    BY <1>3, <1>4, LeastNumber
  <2>2. k \in 0..m /\ k \in Nat /\ ~ShownAt(g[k], k)
    BY <1>3, <2>1
  <2>3. k # 0
    <3>1. Understood(rep.snapshot, 1)
      BY CleanUnderstood
    <3>2. ShownAt(rep.snapshot, 0)
      BY <3>1 DEF ShownAt
    <3>3. ASSUME k = 0 PROVE FALSE
      BY <1>2, <2>2, <3>2, <3>3
    <3> QED BY <3>3
  <2>4. PICK j \in 0..m : j = k - 1 /\ j + 1 = k /\ ~(k <= j)
    BY <2>2, <2>3
  <2>5. PICK s : s = g[j]
    OBVIOUS
  <2>6. s = Unreadable \/ (Dated(s) /\ Understood(s, k))
    BY <1>3, <2>1, <2>4, <2>5 DEF ShownAt
  <2>7. g[k] = ShowsNext(rep, k, s)
    BY <1>2, <2>2, <2>3, <2>4, <2>5
  <2>8. Shown(s)
    BY <2>6 DEF Shown
  <2>9. CASE g[k] = s
    <3>1. PICK C \in Nat : C = k + 1 /\ k <= C
      BY <2>2
    <3>2. s = Unreadable \/ (Dated(s) /\ Understood(s, C))
      BY <2>2, <2>6, <3>1, UnderstoodMore
    <3> QED BY <2>2, <2>9, <3>1, <3>2 DEF ShownAt
  <2>10. ASSUME NEW id \in DOMAIN store, store[id].seq = k, g[k] = Replay(s, store[id])
         PROVE  FALSE
    BY <2>2, <2>6, <2>8, <2>10, ReplayUnderstood
  <2>11. g[k] = s \/ \E id \in DOMAIN store : store[id].seq = k /\ g[k] = Replay(s, store[id])
    BY <2>7 DEF ShowsNext
  <2> QED BY <2>9, <2>10, <2>11
<1>5. ShownAt(g[m], m)
  BY <1>3, <1>4
<1> QED BY <1>2, <1>5

\* A tab loads the workspace: it shows a state of the server, or the replica with
\* what is pending.
LEMMA OpenWorkspaceTurn ==
  ASSUME IInv, Faithful, NEW t \in Tabs, OpenWorkspace(t)
  PROVE  Turn(NoId)
<1>1. /\ UNCHANGED <<history, log, stray, store, workers>> /\ views \in [Tabs -> Views]
      /\ replica.snapshot \in Range(history) /\ Dated(replica.snapshot)
  BY DEF IInv, TypeOK, ReplicaOK, Faithful, OpenWorkspace, server
<1>2. PICK n \in DOMAIN history :
        /\ replica' = Advanced(replica, history[n], {})
        /\ views' = [views EXCEPT ![t] =
             [snapshot |-> IF Materialized(replica', store) = Unreadable THEN history[n]
                           ELSE Materialized(replica', store),
              doomed |-> NoId, review |-> NoReview]]
  BY DEF OpenWorkspace
<1>3. PICK h : h = history[n]
  OBVIOUS
<1>4. h \in Range(history) /\ Dated(h)
  BY <1>2, <1>3, ServerFacts DEF Dated, HistoryOK, IInv, Range
<1>5. PICK s : s = IF h.opSeq >= replica.snapshot.opSeq THEN h ELSE replica.snapshot
  OBVIOUS
<1>6. s \in Range(history) /\ Dated(s)
  BY <1>1, <1>4, <1>5
<1>7. PICK rep : rep = [snapshot |-> s, acked |-> replica.acked]
  OBVIOUS
<1>8. replica' = rep /\ rep.snapshot = s
  BY <1>2, <1>3, <1>5, <1>7 DEF Advanced
<1>9. PICK local : local = Materialized(rep, store)
  OBVIOUS
<1>10. PICK m \in Nat : ShownAt(local, m)
  BY <1>6, <1>8, <1>9, MaterializedUnderstood
<1>11. PICK shown : shown = IF local = Unreadable THEN h ELSE local
  OBVIOUS
<1>12. PICK C \in Nat : C = m + 1
  OBVIOUS
<1>13. Understood(shown, C)
  BY <1>4, <1>10, <1>11, <1>12, CleanUnderstood DEF ShownAt
<1>14. Understood(shown, C)'
  BY <1>1, <1>13 DEF Understood, Known, KnownCell, Explained, Open, Server
<1>15. PICK y : y = [snapshot |-> shown, doomed |-> NoId, review |-> NoReview]
  OBVIOUS
<1>16. views' = [views EXCEPT ![t] = y] /\ y.snapshot = shown /\ y.review = NoReview
  BY <1>2, <1>3, <1>8, <1>9, <1>11, <1>15
<1>17. \A u \in Tabs : views'[u] = views[u] \/ views'[u] = y
  BY <1>1, <1>16
<1>18. \A u \in Tabs : ViewTurn(u)
  <2> TAKE u \in Tabs
  <2>1. CASE views'[u] = views[u]
    BY <2>1 DEF ViewTurn
  <2>2. CASE views'[u] = y
    <3>1. views'[u].review = NoReview /\ views'[u].snapshot = shown
      BY <1>16, <2>2
    <3>2. (\E B \in Nat : Understood(views[u].snapshot, B))'
      BY <1>14, <3>1
    <3> QED BY <3>1, <3>2 DEF ViewTurn
  <2> QED BY <1>17, <2>1, <2>2
<1>19. OutboxTurn(NoId)
  BY <1>1, SameOutbox
<1>20. replica'.snapshot \in Range(history)
  BY <1>6, <1>8
<1> QED BY <1>1, <1>18, <1>19, <1>20, TabTurn

\* A tab opens the conflict at the head.
LEMMA OpenReviewTurn ==
  ASSUME IInv, NEW t \in Tabs, OpenReview(t)
  PROVE  Turn(NoId)
<1>1. /\ UNCHANGED <<history, log, stray, store, replica, workers>>
      /\ views \in [Tabs -> Views]
  BY DEF IInv, TypeOK, OpenReview, server, shared
<1>2. PICK id \in DOMAIN store :
        /\ IsBlocked(id)
        /\ views' = [views EXCEPT ![t].review =
             [id |-> id, op |-> store[id].op, session |-> store[id].session]]
  BY DEF OpenReview
<1>3. PICK v \in Views : v = views[t]
  BY <1>1
<1>4. PICK r : r = [id |-> id, op |-> store[id].op, session |-> store[id].session]
  OBVIOUS
<1>5. PICK y : y = [v EXCEPT !.review = r]
  OBVIOUS
<1>6. y.review = r /\ y.snapshot = v.snapshot
  BY <1>5 DEF Views
<1>7. \A u \in Tabs : views'[u] = views[u] \/ (u = t /\ views'[u] = y)
  BY <1>1, <1>2, <1>3, <1>4, <1>5
<1>8. \A u \in Tabs : ViewTurn(u)
  <2> TAKE u \in Tabs
  <2>1. CASE views'[u] = views[u]
    BY <2>1 DEF ViewTurn
  <2>2. CASE u = t /\ views'[u] = y
    BY <1>2, <1>3, <1>4, <1>6, <2>2 DEF ViewTurn
  <2> QED BY <1>7, <2>1, <2>2
<1> QED BY <1>1, <1>8, SameOutbox, TabTurn

\* A review is closed.
LEMMA ClosedView ==
  ASSUME IInv, NEW t \in Tabs, CloseReview(t), NEW u \in Tabs
  PROVE  ViewTurn(u)
<1>1. TypeOK /\ ViewOK(views[t])
  BY DEF IInv, ViewsOK
<1>2. PICK y \in Views : /\ y.snapshot = views[t].snapshot /\ y.review = NoReview
                         /\ views' = [views EXCEPT ![t] = y]
  BY <1>1, CloseReviewFacts
<1>3. views'[u] = views[u] \/ (u = t /\ views'[u] = y)
  BY <1>1, <1>2 DEF TypeOK
<1> QED BY <1>2, <1>3 DEF ViewTurn

\* An entry on a state of the server is put at the end.
LEMMA EnqueueTurn ==
  ASSUME IInv, UNCHANGED <<history, log>>, NEW fresh, fresh \notin NamedIds,
         NEW op \in Ops, NEW n \in DOMAIN history,
         store' = Enqueued(store, fresh, Resolved(op, history[n])), Value(history[n], op) # op.to
  PROVE  OutboxTurn(fresh)
<1>1. fresh \notin DOMAIN store
  BY DEF NamedIds
<1>2. PICK s \in Snapshots : s = history[n]
  BY ServerFacts DEF IInv
<1>3. PICK o \in Ops : /\ o.to = op.to /\ o.from = Value(s, op)
                       /\ Resolved(op, s) = NewEntry(o, s)
  BY ResolvedFacts
<1>4. PICK e \in Entries : e = NewEntry(o, s) /\ e.op = o /\ e.base = s /\ e.state = "queued"
  BY NewEntryType
<1>5. PICK f : /\ Placed(e, LastSeq(store) + 1, f)
               /\ store' = [i \in DOMAIN store \cup {fresh} |-> IF i = fresh THEN f ELSE store[i]]
  <2>1. SeqsOK /\ store' = Enqueued(store, fresh, e)
    BY <1>2, <1>3, <1>4 DEF IInv
  <2>2. \E f : /\ Placed(e, LastSeq(store) + 1, f)
               /\ Enqueued(store, fresh, e) =
                    [i \in DOMAIN store \cup {fresh} |-> IF i = fresh THEN f ELSE store[i]]
    BY ONLY <2>1, e \in Entries, EnqueuedFacts
  <2> QED BY <2>1, <2>2
<1>6. /\ DOMAIN store' = DOMAIN store \cup {fresh} /\ store'[fresh] = f
      /\ \A j \in DOMAIN store : store'[j] = store[j]
  BY <1>1, <1>5
<1>7. f.op = o /\ f.base = s /\ f.state = "queued" /\ f.seq = LastSeq(store) + 1
  BY <1>4, <1>5 DEF Placed
<1>8. NewTurn(fresh)
  <2>1. PICK B : B = f.seq
    OBVIOUS
  <2>2. s \in Range(history)
    BY <1>2 DEF Range
  <2>3. Understood(s, B)'
    BY <2>2, CleanLater
  <2>4. o.from # o.to
    BY <1>2, <1>3
  <2> QED BY <1>6, <1>7, <2>1, <2>3, <2>4 DEF NewTurn
<1>9. \A j \in DOMAIN store : j \in DOMAIN store' /\ EntryTurn(j)
  BY <1>6 DEF EntryTurn
<1>10. \A j \in DOMAIN store' \ DOMAIN store : j = fresh
  BY <1>6
<1> QED BY <1>8, <1>9, <1>10 DEF OutboxTurn

\* The local value is kept: it stands for the edit on the reviewed state.
LEMMA KeepLocalTurn ==
  ASSUME IInv, Faithful, NEW t \in Tabs, KeepLocal(t)
  PROVE  \E x : Turn(x)
<1>1. /\ TypeOK /\ NamesOK /\ CloseReview(t)
      /\ UNCHANGED <<history, log, stray, workers, replica>>
  BY DEF IInv, KeepLocal, server
<1>2. PICK r : r = views[t].review
  OBVIOUS
<1>3. r # NoReview /\ r \in Reviews
  BY <1>1, <1>2 DEF KeepLocal, InReview, TypeOK, Views
<1>4. PICK id \in Ids : id = r.id
  BY <1>3 DEF Reviews
<1>5. PICK op \in Ops : op = r.op
  BY <1>3 DEF Reviews
<1>6. PICK n \in DOMAIN history : n = r.session
  BY <1>2, <1>3 DEF IInv, ViewsOK, ViewOK
<1>7. Serves(id.intent, op) /\ Value(history[n], op) # op.to
  BY <1>2, <1>3, <1>4, <1>5, <1>6
     DEF IInv, ViewsOK, ViewOK, Faithful, ViewsFaithful, ViewFaithful
<1>8. PICK fresh : fresh = Fresh(id)
  OBVIOUS
<1>9. fresh \notin NamedIds
  BY <1>1, <1>8, FreshFacts
<1>10. store' = IF IsBlocked(id) THEN Replaced(store, id, fresh, Resolved(op, history[n]))
                ELSE Enqueued(store, fresh, Resolved(op, history[n]))
  BY <1>2, <1>4, <1>5, <1>6, <1>8 DEF KeepLocal, ReviewedSnapshot
<1>11. OutboxTurn(fresh)
  <2>1. CASE IsBlocked(id)
    <3>1. PICK e : e = store[id]
      OBVIOUS
    <3>2. id \in DOMAIN store /\ EntryOK(id, e) /\ EntryFaithful(id, e) /\ e.state = "conflict"
      BY <2>1, <3>1 DEF IsBlocked, IInv, StoreOK, Faithful, EntriesFaithful
    <3>3. Dead(id) /\ Serves(id.intent, e.op) /\ Leads(id) /\ ~Open(e.op)
      BY <3>2 DEF EntryOK, Planned, EntryFaithful
    <3>4. op.doc = e.op.doc /\ op.field = e.op.field /\ op.to = e.op.to
      BY <1>7, <3>3 DEF Serves
    <3>5. store' = Replaced(store, id, fresh, Resolved(op, history[n]))
      BY <1>10, <2>1
    <3> QED BY <1>1, <1>7, <1>9, <3>1, <3>3, <3>4, <3>5, ReplaceTurn
  <2>2. CASE ~IsBlocked(id)
    BY <1>1, <1>7, <1>9, <1>10, <2>2, EnqueueTurn
  <2> QED BY <2>1, <2>2
<1>12. \A u \in Tabs : ViewTurn(u)
  BY <1>1, ClosedView
<1> QED BY <1>1, <1>11, <1>12, TabTurn

\* The remote value is kept without an entry to give up: the review is closed.
LEMMA KeepRemoteTurn ==
  ASSUME IInv, NEW t \in Tabs, KeepRemote(t), NothingTakenBack'
  PROVE  Turn(NoId)
<1>1. CloseReview(t) /\ UNCHANGED <<history, log, stray, workers, replica>> /\ InReview(t)
  BY DEF KeepRemote, server
<1>2. PICK id : id = views[t].review.id
  OBVIOUS
<1>3. CASE UNCHANGED store
  BY <1>1, <1>3, ClosedView, SameOutbox, TabTurn
<1>4. ASSUME intents' = [intents EXCEPT ![id.intent].status =
                           IF @ = "rejected" THEN @ ELSE "discarded"]
      PROVE  FALSE
  <2>1. id.intent \in DOMAIN intents
    BY <1>1, <1>2 DEF InReview, IInv, ViewsOK, ViewOK, Serves
  <2>2. PICK i \in DOMAIN intents : i = id.intent
    BY <2>1
  <2>3. PICK e \in Edits : e = intents[i]
    BY EditFacts DEF IInv
  <2>4. PICK st \in {"rejected", "discarded"} :
          st = IF e.status = "rejected" THEN e.status ELSE "discarded"
    OBVIOUS
  <2>5. PICK f : f = [e EXCEPT !.status = st]
    OBVIOUS
  <2>6. f.status = st
    BY <2>5 DEF Edits
  <2>7. i \in DOMAIN intents' /\ intents'[i] = f
    BY <1>4, <2>2, <2>3, <2>4, <2>5
  <2> QED BY <2>4, <2>6, <2>7 DEF NothingTakenBack
<1> QED BY <1>2, <1>3, <1>4 DEF KeepRemote

\* An edit is not taken back.
LEMMA NotRejected ==
  ASSUME IInv, NEW t \in Tabs, RejectEdit(t), NothingTakenBack'
  PROVE  FALSE
<1>1. PICK i : i = views[t].doomed.intent
  OBVIOUS
<1>2. i \in DOMAIN intents
  BY <1>1 DEF RejectEdit, IInv, ViewsOK, ViewOK
<1>3. PICK e \in Edits : e = intents[i]
  BY <1>2, EditFacts DEF IInv
<1>4. PICK f : f = [e EXCEPT !.status = "rejected"]
  OBVIOUS
<1>5. f.status = "rejected"
  BY <1>4 DEF Edits
<1>6. i \in DOMAIN intents' /\ intents'[i] = f
  BY <1>1, <1>2, <1>3, <1>4 DEF RejectEdit
<1> QED BY <1>5, <1>6 DEF NothingTakenBack

-----------------------------------------------------------------------------
(* The theorem *)

\* Every step that takes nothing back keeps everything faithful.
LEMMA NextTurn ==
  ASSUME IInv, Faithful, Next, NothingTakenBack'
  PROVE  Faithful'
<1>1. IInv' /\ StepOK /\ StoreStep
  BY NextStep
<1>2. CASE RemoteWrite \/ ServeStray
  BY <1>1, <1>2, CommitTurns, FaithfulStep
<1>3. ASSUME NEW t \in Tabs,
             Edit(t) \/ EditInVain(t) \/ RejectEdit(t) \/ OpenWorkspace(t)
               \/ OpenReview(t) \/ Answer(t)
      PROVE  Faithful'
  <2>1. \E x : Turn(x)
    BY <1>3, EditTurn, NotRejected, OpenWorkspaceTurn, OpenReviewTurn, KeepLocalTurn,
       KeepRemoteTurn DEF Answer
  <2> QED BY <1>1, <2>1, FaithfulStep
<1>4. ASSUME NEW w \in Workers, Claim(w) PROVE Faithful'
  BY <1>1, <1>4, ClaimTurns, FaithfulStep
<1>5. ASSUME NEW w \in Workers, Executes(w) PROVE Faithful'
  <2>1. \E x : Turn(x)
    BY <1>5, AnswerTurns, EndingTurns, ConfirmTurn, FetchTurn, AlreadyAppliedTurn, RebaseTurn,
       ClaimTurns, BlockTurn, SettleTurns, RemoveTurn DEF Executes
  <2> QED BY <1>1, <2>1, FaithfulStep
<1>6. ASSUME NEW w \in Workers, Mishap(w) PROVE Faithful'
  <2>1. Turn(NoId)
    BY <1>6, EndingTurns, AnswerTurns, SettleTurns DEF Mishap
  <2> QED BY <1>1, <2>1, FaithfulStep
<1>7. ASSUME NEW id \in DOMAIN store, Timer(id) \/ Requeue(id) PROVE Faithful'
  BY <1>1, <1>7, ClaimTurns, FaithfulStep
<1> QED BY <1>2, <1>3, <1>4, <1>5, <1>6, <1>7 DEF Next

\* What is faithful when nothing happens.
LEMMA FaithfulStutters ==
  ASSUME Faithful, UNCHANGED vars
  PROVE  Faithful'
<1>1. UNCHANGED <<history, log, stray, store, replica, workers, views>>
  BY DEF vars
<1>2. \A id : Leads(id) => Leads(id)'
  BY <1>1 DEF Leads
<1>3. Carried' = Carried /\ Sent' = Sent /\ Server' = Server /\ \A id : Commits(id)' = Commits(id)
  BY <1>1 DEF Carried, Sent, Sending, RequestOf, Request, Server, Commits
<1>4. \A id : Over(id) => Over(id)'
  BY <1>1, <1>3 DEF Over, Dead, Behind
<1>5. SentLeads' /\ PlacesDistinct' /\ Chained'
  BY <1>1, <1>2, <1>3, <1>4 DEF Faithful, SentLeads, PlacesDistinct, Chained
<1>6. \A s, B : Understood(s, B) => Understood(s, B)'
  BY <1>1, <1>3 DEF Understood, Known, KnownCell, Explained, Open
<1>7. EntriesFaithful'
  BY <1>1, <1>2, <1>3, <1>6 DEF Faithful, EntriesFaithful, EntryFaithful, Confirmable, Open
<1>8. WorkersFaithful'
  BY <1>1, <1>2, <1>3
     DEF Faithful, WorkersFaithful, WorkerFaithful, SameEntry, Confirmable, Open, Held
<1>9. ViewsFaithful'
  BY <1>1, <1>6 DEF Faithful, ViewsFaithful, ViewFaithful
<1> QED BY <1>1, <1>5, <1>7, <1>8, <1>9 DEF Faithful

\* What is faithful at the start.
LEMMA FaithfulStarts ==
  ASSUME Init
  PROVE  Faithful
<1>1. /\ DOMAIN store = {} /\ stray = {} /\ log = <<>> /\ Sending = {}
      /\ \A w \in Workers : workers[w].phase = "idle"
      /\ \A t \in Tabs : views[t].review = NoReview
  BY DEF Init, Empty, Sending, Idle
<1>2. PICK start : /\ history = <<start>> /\ replica.snapshot = start
                   /\ \A t \in Tabs : views[t].snapshot = start
  BY DEF Init
<1>3. start \in Range(history)
  BY <1>2 DEF Range
<1>4. Understood(start, 0)
  BY <1>3, InitStep, CleanUnderstood
<1>5. PlacesDistinct /\ SentLeads /\ Chained /\ EntriesFaithful /\ WorkersFaithful
  BY <1>1 DEF PlacesDistinct, SentLeads, Chained, EntriesFaithful, WorkersFaithful,
              WorkerFaithful, Sent
<1>6. ViewsFaithful
  BY <1>1, <1>2, <1>4 DEF ViewsFaithful, ViewFaithful
<1> QED BY <1>2, <1>3, <1>5, <1>6 DEF Faithful

\* As long as no edit is taken back, given up or undone by another device, the
\* replica is a state of the server, for any number of tabs and executions: what an
\* execution puts together from its base and the acknowledged document is one.
THEOREM ReplicaIsConfirmed == Spec => []ReplicaIsCommittedUnlessTakenBack
<1> DEFINE Kind == NothingTakenBack => Faithful
<1>1. Init => Kind
  BY FaithfulStarts
<1>2. IInv /\ Kind /\ [Next]_vars => Kind'
  <2> SUFFICES ASSUME IInv, Kind, [Next]_vars, NothingTakenBack'
               PROVE  Faithful'
    OBVIOUS
  <2>1. CASE Next
    BY <2>1, TakenBackStays, NextTurn
  <2>2. CASE UNCHANGED vars
    <3>1. NothingTakenBack
      BY <2>2 DEF vars, NothingTakenBack, RemoteCommits, Reverted
    <3> QED BY <2>2, <3>1, FaithfulStutters
  <2> QED BY <2>1, <2>2
<1>3. Kind => ReplicaIsCommittedUnlessTakenBack
  BY DEF Faithful, ReplicaIsCommittedUnlessTakenBack
<1> QED BY <1>1, <1>2, <1>3, Invariant, PTL DEF Spec
=============================================================================
