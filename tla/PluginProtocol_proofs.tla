------------------------ MODULE PluginProtocol_proofs ------------------------
(***************************************************************************)
(* Theorems about PluginProtocol for any number of requests, messages,      *)
(* faults and remembered requests.                                          *)
(***************************************************************************)
EXTENDS PluginProtocol, FiniteSetTheorems, SequenceTheorems, TLAPS

-----------------------------------------------------------------------------
(* Types *)

Maps(S) == UNION {[D -> S] : D \in SUBSET Nat}

Hows == [reason : {"none", "canceled", "timed-out", "closed"}]
        \cup [reason : {"completed"}, answers : Nat]

Sessions == [why : {"open", "transport", "sequence", "budget", "handler", "closed"}]
            \cup [why : {"correlation"}, replyTo : Nat]

Memories == [id : Nat, reason : {"canceled", "timed-out", "completed"}]

Questions == [asks : Nat, aborted : BOOLEAN]

States == [out : Nat, in : Nat, pending : Maps(Nat), remembered : Seq(Memories),
           inbound : Maps(Questions), session : Sessions]

Messages == [seq : Nat, kind : {"request"}, asks : Nat]
            \cup [seq : Nat, kind : {"cancel"}, of : Nat]
            \cup [seq : Nat, kind : {"response"}, replyTo : Nat, answers : Nat]

TypeOK ==
  /\ ends \in [Ends -> States]
  /\ wire \in [Ends -> Seq(Messages)]
  /\ results \in Seq([from : Ends, how : Hows])
  /\ closings \in [Ends -> Seq(Nat)]

-----------------------------------------------------------------------------
(* The inductive invariant *)

\* Messages arrive in the order of their numbers, with no gap for an open endpoint.
WireOK(e) ==
  /\ ends[e].in <= ends[Peer(e)].out
  /\ \A i \in DOMAIN wire[e] : wire[e][i].seq > ends[e].in
  /\ IsOpen(e) => /\ Len(wire[e]) = ends[Peer(e)].out - ends[e].in
                  /\ \A i \in DOMAIN wire[e] : wire[e][i].seq = ends[e].in + i

\* A request n of endpoint e is on its way, is worked on or is answered, under id.
Sent(e, id, n) ==
  \E i \in DOMAIN wire[Peer(e)] :
    LET m == wire[Peer(e)][i] IN m.kind = "request" /\ m.seq = id /\ m.asks = n

WorkedOn(e, id, n) ==
  id \in DOMAIN ends[Peer(e)].inbound /\ ends[Peer(e)].inbound[id].asks = n

AnsweredBy(e, id, n) ==
  \E i \in DOMAIN wire[e] :
    LET m == wire[e][i] IN m.kind = "response" /\ m.replyTo = id /\ m.answers = n

Alive(e, id, n) == Sent(e, id, n) \/ WorkedOn(e, id, n) \/ AnsweredBy(e, id, n)

Withdrawn(n) == results[n].how.reason \in WithdrawnReasons \cup {"closed"}

\* It is the request e has pending under this id, or e has withdrawn it.
AliveOK(e, id, n) ==
  /\ n \in DOMAIN results /\ id <= ends[e].out
  /\ IF id \in DOMAIN ends[e].pending THEN ends[e].pending[id] = n
     ELSE Withdrawn(n) /\ (IsOpen(e) => id \in Range(closings[e]))
  /\ \A c \in Range(ends[e].remembered) : c.id = id => c.reason # "completed"

AliveSide(e) == \A id, n \in Nat : Alive(e, id, n) => AliveOK(e, id, n)

PendingOK(e) ==
  /\ \A id \in DOMAIN ends[e].pending :
       LET n == ends[e].pending[id] IN
       /\ id <= ends[e].out
       /\ n \in DOMAIN results /\ results[n].from = e /\ results[n].how.reason = "none"
  /\ IsInjective(ends[e].pending)

\* A request is answered once, when its handler is done.
OnceOK(e) ==
  /\ \A id \in DOMAIN ends[Peer(e)].inbound : id <= ends[Peer(e)].in
  /\ \A i \in DOMAIN wire[e] : wire[e][i].kind = "response" =>
       /\ wire[e][i].replyTo <= ends[Peer(e)].in
       /\ wire[e][i].replyTo \notin DOMAIN ends[Peer(e)].inbound
       /\ \A j \in DOMAIN wire[e] : wire[e][j].kind = "response" /\ j # i =>
            wire[e][j].replyTo # wire[e][i].replyTo

\* What is cancelled is not pending, and never will be.
CancelOK(e) ==
  /\ \A i \in DOMAIN wire[Peer(e)] : wire[Peer(e)][i].kind = "cancel" =>
       wire[Peer(e)][i].of <= ends[e].out /\ wire[Peer(e)][i].of \notin DOMAIN ends[e].pending
  /\ \A id \in DOMAIN ends[Peer(e)].inbound :
       ends[Peer(e)].inbound[id].aborted => id \notin DOMAIN ends[e].pending

\* Position k is the last at which id was closed.
LastAt(seq, k, id) == k \in DOMAIN seq /\ seq[k] = id /\ \A j \in DOMAIN seq : j > k => seq[j] # id

\* The memory is in the order of the last closings, and what was forgotten is older.
InOrder(memory, seq) ==
  /\ Len(memory) <= MaxClosed
  /\ \A id \in Range(seq) : \E k \in DOMAIN seq : LastAt(seq, k, id)
  /\ \A i \in DOMAIN memory : \E k \in DOMAIN seq : LastAt(seq, k, memory[i].id)
  /\ \A i, j \in DOMAIN memory, k, l \in DOMAIN seq :
       i < j /\ LastAt(seq, k, memory[i].id) /\ LastAt(seq, l, memory[j].id) => k < l
  /\ \A id \in Range(seq), k \in DOMAIN seq :
       LastAt(seq, k, id) /\ (\A i \in DOMAIN memory : memory[i].id # id) =>
         /\ Len(memory) = MaxClosed
         /\ \A i \in DOMAIN memory, l \in DOMAIN seq : LastAt(seq, l, memory[i].id) => k < l

\* What is remembered as completed was sent.
CompletedOK(e) ==
  \A c \in Range(ends[e].remembered) : c.reason = "completed" => c.id <= ends[e].out

\* A forgotten request: MaxClosed younger ones were closed since.
ForgottenOK(e) ==
  ends[e].session.why = "correlation" =>
    LET id == ends[e].session.replyTo IN
    /\ id \in Range(closings[e])
    /\ \A i \in DOMAIN ends[e].remembered : ends[e].remembered[i].id # id

ClosedOK(e) ==
  /\ ends[e].session.why # "sequence"
  /\ ~IsOpen(e) => DOMAIN ends[e].pending = {} /\ DOMAIN ends[e].inbound = {}
  /\ ForgottenOK(e)

ResultsOK ==
  \A n \in DOMAIN results : results[n].how.reason = "completed" => results[n].how.answers = n

Side(e) ==
  /\ WireOK(e)
  /\ AliveSide(e) /\ PendingOK(e) /\ OnceOK(e) /\ CancelOK(e)
  /\ InOrder(ends[e].remembered, closings[e]) /\ CompletedOK(e)
  /\ ClosedOK(e)

IInv == TypeOK /\ ResultsOK /\ \A e \in Ends : Side(e)

-----------------------------------------------------------------------------
(* The memory of closed requests *)

\* Sequence F is what is left of R without id: g says where its elements were.
LeftOf(F, R, id, g) ==
  /\ g \in [1..Len(F) -> 1..Len(R)]
  /\ \A i, j \in 1..Len(F) : i < j => g[i] < g[j]
  /\ \A i \in 1..Len(F) : F[i] = R[g[i]] /\ F[i].id # id
  /\ \A k \in 1..Len(R) : R[k].id # id => \E i \in 1..Len(F) : g[i] = k

\* A sequence without its element at x.
LEMMA RemoveAtFacts ==
  ASSUME NEW S, NEW R \in Seq(S), NEW x \in 1..Len(R)
  PROVE  /\ RemoveAt(R, x) \in Seq(S)
         /\ Len(RemoveAt(R, x)) = Len(R) - 1
         /\ \A i \in 1..(Len(R) - 1) :
              RemoveAt(R, x)[i] = IF i < x THEN R[i] ELSE R[i + 1]
<1>1. PICK n \in Nat : n = Len(R)
  OBVIOUS
<1>2. x \in 1..n /\ x \in Nat
  BY <1>1
<1>3. PICK A \in Seq(S) : A = SubSeq(R, 1, x - 1) /\ Len(A) = x - 1
                          /\ \A i \in 1..(x-1) : A[i] = R[i]
  <2>1. /\ SubSeq(R, 1, x - 1) \in Seq(S) /\ Len(SubSeq(R, 1, x - 1)) = x - 1
        /\ \A i \in 1..(x-1) : SubSeq(R, 1, x - 1)[i] = R[i]
    BY <1>1, <1>2
  <2> QED BY <2>1
<1>4. PICK B \in Seq(S) : B = SubSeq(R, x + 1, n) /\ Len(B) = n - x
                          /\ \A i \in 1..(n-x) : B[i] = R[x + i]
  <2>1. /\ SubSeq(R, x + 1, n) \in Seq(S) /\ Len(SubSeq(R, x + 1, n)) = n - x
        /\ \A i \in 1..(n-x) : SubSeq(R, x + 1, n)[i] = R[x + i]
    BY <1>1, <1>2
  <2> QED BY <2>1
<1>5. RemoveAt(R, x) = A \o B
  BY <1>1, <1>3, <1>4 DEF RemoveAt
<1>6. /\ A \o B \in Seq(S) /\ Len(A \o B) = n - 1
      /\ \A i \in 1..(n-1) : (A \o B)[i] = IF i <= x - 1 THEN A[i] ELSE B[i - (x - 1)]
  <2>1. /\ A \o B \in Seq(S) /\ Len(A \o B) = Len(A) + Len(B)
        /\ \A i \in 1..(Len(A) + Len(B)) :
             (A \o B)[i] = IF i <= Len(A) THEN A[i] ELSE B[i - Len(A)]
    OBVIOUS
  <2>2. Len(A) + Len(B) = n - 1
    BY <1>2, <1>3, <1>4
  <2> QED BY <1>3, <2>1, <2>2
<1>7. \A i \in 1..(n-1) : (A \o B)[i] = IF i < x THEN R[i] ELSE R[i + 1]
  <2> SUFFICES ASSUME NEW i \in 1..(n-1)
               PROVE  (A \o B)[i] = IF i < x THEN R[i] ELSE R[i + 1]
    OBVIOUS
  <2>1. CASE i < x
    BY <1>2, <1>3, <1>6, <2>1
  <2>2. CASE i >= x
    <3>1. i - (x - 1) \in 1..(n-x) /\ x + (i - (x - 1)) = i + 1
      BY <1>2, <2>2
    <3> QED BY <1>2, <1>4, <1>6, <2>2, <3>1
  <2>3. i < x \/ i >= x
    BY <1>2
  <2> QED BY <2>1, <2>2, <2>3
<1> QED BY <1>1, <1>5, <1>6, <1>7

\* Leaving out an id keeps the others in their order.
LEMMA WithoutFacts ==
  ASSUME NEW R \in Seq(Memories), NEW id,
         \A i, j \in DOMAIN R : i # j => R[i].id # R[j].id
  PROVE  LET F == Without(R, id) IN
         /\ F \in Seq(Memories) /\ Len(F) <= Len(R) /\ Len(R) <= Len(F) + 1
         /\ (\A k \in DOMAIN R : R[k].id # id) => Len(F) = Len(R)
         /\ \E g : LeftOf(F, R, id, g)
<1> DEFINE F == Without(R, id)
<1>1. CASE ~ \E k \in DOMAIN R : R[k].id = id
  <2> DEFINE g == [i \in 1..Len(F) |-> i]
  <2>1. F = R
    BY <1>1 DEF Without
  <2>2. LeftOf(F, R, id, g)
    BY <1>1, <2>1 DEF LeftOf
  <2> HIDE DEF g
  <2>3. \E h : LeftOf(F, R, id, h)
    BY <2>2
  <2>4. Len(R) \in Nat
    OBVIOUS
  <2> QED BY <2>1, <2>3, <2>4
<1>2. CASE \E k \in DOMAIN R : R[k].id = id
  <2>0. DOMAIN R = 1..Len(R) /\ Len(R) \in Nat
    OBVIOUS
  <2>1. PICK x \in DOMAIN R : x = (CHOOSE k \in DOMAIN R : R[k].id = id) /\ R[x].id = id
    BY <1>2
  <2>2. PICK n \in Nat : n = Len(R)
    BY <2>0
  <2>3. x \in 1..n /\ DOMAIN R = 1..n
    BY <2>0, <2>1, <2>2
  <2>4. /\ F \in Seq(Memories) /\ Len(F) = n - 1
        /\ \A i \in 1..(n-1) : F[i] = IF i < x THEN R[i] ELSE R[i + 1]
    <3>1. F = RemoveAt(R, x)
      BY <1>2, <2>1 DEF Without
    <3>2. PICK y \in 1..Len(R) : y = x
      BY <2>2, <2>3
    <3>3. /\ RemoveAt(R, y) \in Seq(Memories)
          /\ Len(RemoveAt(R, y)) = Len(R) - 1
          /\ \A i \in 1..(Len(R) - 1) :
               RemoveAt(R, y)[i] = IF i < y THEN R[i] ELSE R[i + 1]
      BY RemoveAtFacts, Zenon
    <3> QED BY <2>2, <3>1, <3>2, <3>3, Zenon
  <2> DEFINE g == [i \in 1..(n-1) |-> IF i < x THEN i ELSE i + 1]
  <2>5. g \in [1..(n-1) -> 1..n]
    BY <2>3
  <2>6. \A i, j \in 1..(n-1) : i < j => g[i] < g[j]
    BY <2>3
  <2>7. \A i \in 1..(n-1) : F[i] = R[g[i]] /\ g[i] # x
    BY <2>3, <2>4
  <2>8. \A k \in 1..n : k # x => \E i \in 1..(n-1) : g[i] = k
    <3> SUFFICES ASSUME NEW k \in 1..n, k # x
                 PROVE  \E i \in 1..(n-1) : g[i] = k
      OBVIOUS
    <3>1. CASE k < x
      <4>1. k \in 1..(n-1) /\ g[k] = k
        BY <2>3, <3>1
      <4> QED BY <4>1
    <3>2. CASE k > x
      <4>1. k - 1 \in 1..(n-1) /\ g[k - 1] = k
        BY <2>3, <3>2
      <4> QED BY <4>1
    <3> QED BY <2>3, <3>1, <3>2
  <2> HIDE DEF g
  <2>9. \A i \in 1..(n-1) : F[i].id # id
    BY <2>1, <2>3, <2>5, <2>7
  <2>10. LeftOf(F, R, id, g)
    BY <2>1, <2>2, <2>4, <2>5, <2>6, <2>7, <2>8, <2>9 DEF LeftOf
  <2>11. \E h : LeftOf(F, R, id, h)
    BY <2>10
  <2> QED BY <1>2, <2>2, <2>4, <2>11
<1> QED BY <1>1, <1>2

\* Only the newest are kept, and something is dropped only if there are too many.
LEMMA NewestFacts ==
  ASSUME NEW S, NEW A \in Seq(S)
  PROVE  LET N == NewestOf(A) IN
         /\ N \in Seq(S) /\ Len(N) <= MaxClosed
         /\ \E d \in Nat :
              /\ Len(A) = Len(N) + d
              /\ \A i \in 1..Len(N) : N[i] = A[i + d]
              /\ d > 0 => Len(N) = MaxClosed
<1>1. PICK c \in Nat : c = MaxClosed /\ c > 0
  BY LimitsAssumption
<1>2. PICK m \in Nat : m = Len(A)
  OBVIOUS
<1>3. CASE m <= c
  <2>1. NewestOf(A) = A
    BY <1>1, <1>2, <1>3 DEF NewestOf
  <2>2. /\ m = m + 0
        /\ \A i \in 1..m : A[i] = A[i + 0]
    BY <1>2
  <2> QED BY <1>1, <1>2, <1>3, <2>1, <2>2
<1>4. CASE m > c
  <2>1. m - c \in Nat
    BY <1>1, <1>4
  <2>2. PICK d \in Nat : d = m - c
    BY <2>1
  <2>3. NewestOf(A) = SubSeq(A, d + 1, m)
    BY <1>1, <1>2, <1>4, <2>2 DEF NewestOf
  <2>4. /\ SubSeq(A, d + 1, m) \in Seq(S) /\ Len(SubSeq(A, d + 1, m)) = c
        /\ \A i \in 1..c : SubSeq(A, d + 1, m)[i] = A[i + d]
    BY <1>1, <1>2, <1>4, <2>2
  <2>5. PICK N \in Seq(S) : N = NewestOf(A) /\ Len(N) = c /\ \A i \in 1..c : N[i] = A[i + d]
    BY <2>3, <2>4
  <2>6. m = c + d
    BY <1>1, <2>2
  <2>7. /\ Len(A) = Len(N) + d
        /\ \A i \in 1..Len(N) : N[i] = A[i + d]
        /\ d > 0 => Len(N) = MaxClosed
    BY <1>1, <1>2, <2>5, <2>6
  <2> QED BY <1>1, <2>5, <2>7
<1>5. m <= c \/ m > c
  OBVIOUS
<1> QED BY <1>3, <1>4, <1>5

\* Closing an id makes its last position the newest, and moves no other.
LEMMA LastAppended ==
  ASSUME NEW C \in Seq(Nat), NEW id \in Nat, NEW k, NEW x
  PROVE  LastAt(Append(C, id), k, x) <=> IF x = id THEN k = Len(C) + 1 ELSE LastAt(C, k, x)
<1>1. /\ DOMAIN Append(C, id) = 1..(Len(C) + 1) /\ DOMAIN C = 1..Len(C) /\ Len(C) \in Nat
      /\ Append(C, id)[Len(C) + 1] = id
      /\ \A i \in 1..Len(C) : Append(C, id)[i] = C[i]
  OBVIOUS
<1> QED BY <1>1 DEF LastAt

\* The ids of a memory in order are distinct, and were closed.
LEMMA DistinctMemory ==
  ASSUME NEW R \in Seq(Memories), NEW C \in Seq(Nat), InOrder(R, C)
  PROVE  \A i, j \in DOMAIN R : i # j => R[i].id # R[j].id
<1> SUFFICES ASSUME NEW i \in DOMAIN R, NEW j \in DOMAIN R, i < j, R[i].id = R[j].id
             PROVE  FALSE
  <2>1. \A i \in DOMAIN R : i \in Nat
    OBVIOUS
  <2> QED BY <2>1
<1>1. PICK k \in DOMAIN C : LastAt(C, k, R[i].id)
  BY DEF InOrder
<1>2. k < k /\ k \in Nat
  BY <1>1 DEF InOrder
<1> QED BY <1>2

\* What closing id for a reason does to the memory R and to the closings C.
LEMMA RememberedInOrder ==
  ASSUME NEW R \in Seq(Memories), NEW C \in Seq(Nat), InOrder(R, C),
         NEW id \in Nat, NEW reason \in {"canceled", "timed-out", "completed"}
  PROVE  LET N == NewestOf(Append(Without(R, id), [id |-> id, reason |-> reason])) IN
         /\ N \in Seq(Memories)
         /\ InOrder(N, Append(C, id))
         /\ \A c \in Range(N) : c = [id |-> id, reason |-> reason] \/ (c \in Range(R) /\ c.id # id)
<1> DEFINE F == Without(R, id)
           new == [id |-> id, reason |-> reason]
           A == Append(F, new)
           N == NewestOf(A)
           D == Append(C, id)
<1>0. new \in Memories /\ new.id = id
  BY DEF Memories
<1>1. /\ F \in Seq(Memories) /\ Len(F) <= Len(R) /\ Len(R) <= Len(F) + 1
      /\ (\A k \in DOMAIN R : R[k].id # id) => Len(F) = Len(R)
      /\ \E g : LeftOf(F, R, id, g)
  BY DistinctMemory, WithoutFacts
<1>2. PICK g : LeftOf(F, R, id, g)
  BY <1>1
<1> HIDE DEF F, new
<1>3. /\ A \in Seq(Memories) /\ Len(A) = Len(F) + 1 /\ A[Len(F) + 1] = new
      /\ \A i \in 1..Len(F) : A[i] = F[i]
  BY <1>0, <1>1
<1>4. /\ N \in Seq(Memories) /\ Len(N) <= MaxClosed
      /\ \E d \in Nat :
           /\ Len(A) = Len(N) + d
           /\ \A i \in 1..Len(N) : N[i] = A[i + d]
           /\ d > 0 => Len(N) = MaxClosed
  BY <1>3, NewestFacts
<1> HIDE DEF A
<1>5. PICK d \in Nat :
        /\ Len(A) = Len(N) + d
        /\ \A i \in 1..Len(N) : N[i] = A[i + d]
        /\ d > 0 => Len(N) = MaxClosed
  BY <1>4
<1> HIDE DEF N
<1>6. PICK r \in Nat, f \in Nat, n \in Nat, m \in Nat :
        /\ r = Len(R) /\ f = Len(F) /\ n = Len(N) /\ m = MaxClosed /\ m > 0
        /\ DOMAIN R = 1..r /\ DOMAIN F = 1..f /\ DOMAIN N = 1..n
        /\ f + 1 = n + d /\ f <= r /\ r <= f + 1 /\ n <= m /\ r <= m
  <2>1. MaxClosed \in Nat /\ MaxClosed > 0 /\ Len(R) <= MaxClosed
    BY LimitsAssumption DEF InOrder
  <2>2. Len(R) \in Nat /\ Len(F) \in Nat /\ Len(N) \in Nat
        /\ DOMAIN R = 1..Len(R) /\ DOMAIN F = 1..Len(F) /\ DOMAIN N = 1..Len(N)
    BY <1>1, <1>4
  <2> QED BY <1>1, <1>3, <1>4, <1>5, <2>1, <2>2
<1>7. n > 0 /\ N[n] = new
  <2>1. n > 0
    <3>1. d > 0 => n = m
      BY <1>5, <1>6
    <3> QED BY <1>6, <3>1
  <2> QED BY <1>3, <1>5, <1>6, <2>1
\* The older entries of N come from R, in their order.
<1>8. \A i \in 1..(n-1) :
        /\ i + d \in 1..f /\ g[i + d] \in 1..r
        /\ N[i] = R[g[i + d]] /\ N[i].id # id
  <2> SUFFICES ASSUME NEW i \in 1..(n-1)
               PROVE  /\ i + d \in 1..f /\ g[i + d] \in 1..r
                      /\ N[i] = R[g[i + d]] /\ N[i].id # id
    OBVIOUS
  <2>1. PICK j \in 1..f : j = i + d
    <3>1. i + d \in 1..f
      BY <1>6
    <3> QED BY <3>1
  <2>2. N[i] = A[j] /\ A[j] = F[j]
    <3>1. i \in 1..n
      BY <1>6
    <3>2. N[i] = A[i + d]
      BY <1>5, <1>6, <3>1, Zenon
    <3>3. A[j] = F[j]
      BY <1>3, <1>6, Zenon
    <3> QED BY <2>1, <3>2, <3>3, Zenon
  <2>3. F[j] = R[g[j]] /\ F[j].id # id /\ g[j] \in 1..r
    BY <1>2, <1>6 DEF LeftOf
  <2> QED BY <2>1, <2>2, <2>3
<1>9. \A i, j \in 1..(n-1) : i < j => g[i + d] < g[j + d]
  BY <1>2, <1>6, <1>8 DEF LeftOf
<1>10. \A c \in Range(N) : c = new \/ (c \in Range(R) /\ c.id # id)
  <2> SUFFICES ASSUME NEW i \in 1..n
               PROVE  N[i] = new \/ (N[i] \in Range(R) /\ N[i].id # id)
    BY <1>6 DEF Range
  <2>1. i = n \/ i \in 1..(n-1)
    BY <1>6
  <2> QED BY <1>6, <1>7, <1>8, <2>1 DEF Range
<1>11. DOMAIN D = 1..(Len(C) + 1) /\ DOMAIN C = 1..Len(C) /\ Len(C) \in Nat /\ D \in Seq(Nat)
  OBVIOUS
<1>12. \A k, x : LastAt(D, k, x) <=> IF x = id THEN k = Len(C) + 1 ELSE LastAt(C, k, x)
  BY LastAppended
<1> HIDE DEF D
<1>13. \A k, x : LastAt(C, k, x) => k \in DOMAIN C /\ k \in DOMAIN D /\ k < Len(C) + 1
  BY <1>11 DEF LastAt
\* Whatever N remembers was closed.
<1>14. \A i \in 1..n : \E k \in DOMAIN D : LastAt(D, k, N[i].id)
  <2> SUFFICES ASSUME NEW i \in 1..n
               PROVE  \E k \in DOMAIN D : LastAt(D, k, N[i].id)
    OBVIOUS
  <2>1. CASE i = n
    <3>1. N[i].id = id /\ Len(C) + 1 \in DOMAIN D
      BY <1>0, <1>7, <1>11, <2>1
    <3> QED BY <1>12, <3>1
  <2>2. CASE i \in 1..(n-1)
    <3>1. PICK j \in DOMAIN R : N[i] = R[j] /\ N[i].id # id
      BY <1>6, <1>8, <2>2
    <3>2. PICK k \in DOMAIN C : LastAt(C, k, R[j].id)
      BY DEF InOrder
    <3> QED BY <1>12, <1>13, <3>1, <3>2
  <2> QED BY <1>6, <2>1, <2>2
\* It is in the order of the last closings.
<1>15. \A i, j \in 1..n, k, l \in DOMAIN D :
         i < j /\ LastAt(D, k, N[i].id) /\ LastAt(D, l, N[j].id) => k < l
  <2> SUFFICES ASSUME NEW i \in 1..n, NEW j \in 1..n, NEW k \in DOMAIN D, NEW l \in DOMAIN D,
                      i < j, LastAt(D, k, N[i].id), LastAt(D, l, N[j].id)
               PROVE  k < l
    OBVIOUS
  <2>1. i \in 1..(n-1)
    BY <1>6
  <2>2. PICK a \in DOMAIN R : a = g[i + d] /\ N[i] = R[a] /\ N[i].id # id
    BY <1>6, <1>8, <2>1
  <2>3. LastAt(C, k, R[a].id)
    BY <1>12, <2>2
  <2>4. CASE j = n
    <3>1. l = Len(C) + 1
      BY <1>0, <1>7, <1>12, <2>4
    <3> QED BY <1>13, <2>3, <3>1
  <2>5. CASE j \in 1..(n-1)
    <3>1. PICK b \in DOMAIN R : b = g[j + d] /\ N[j] = R[b] /\ N[j].id # id
      BY <1>6, <1>8, <2>5
    <3>2. LastAt(C, l, R[b].id) /\ a < b
      BY <1>9, <1>12, <2>1, <2>2, <2>5, <3>1
    <3> QED BY <1>13, <2>3, <3>2 DEF InOrder
  <2> QED BY <1>6, <2>4, <2>5
\* An id that R has forgotten, or that is forgotten now, is older than the rest.
<1>16. \A x \in Range(D), k \in DOMAIN D :
         LastAt(D, k, x) /\ (\A i \in 1..n : N[i].id # x) =>
           /\ n = m
           /\ \A i \in 1..n, l \in DOMAIN D : LastAt(D, l, N[i].id) => k < l
  <2> SUFFICES ASSUME NEW x, NEW k \in DOMAIN D, LastAt(D, k, x),
                      \A i \in 1..n : N[i].id # x
               PROVE  /\ n = m
                      /\ \A i \in 1..n, l \in DOMAIN D : LastAt(D, l, N[i].id) => k < l
    OBVIOUS
  <2>1. x # id
    BY <1>0, <1>6, <1>7
  <2>2. LastAt(C, k, x) /\ x \in Range(C)
    <3>1. LastAt(C, k, x)
      BY <1>12, <2>1
    <3> QED BY <3>1 DEF LastAt, Range
  <2>3. CASE \A i \in DOMAIN R : R[i].id # x
    <3>1. r = m /\ \A i \in DOMAIN R, l \in DOMAIN C : LastAt(C, l, R[i].id) => k < l
      BY <1>6, <1>13, <2>2, <2>3 DEF InOrder
    <3>2. n = m
      <4>1. d > 0 => n = m
        BY <1>5, <1>6
      <4> QED BY <1>6, <3>1, <4>1
    <3>3. ASSUME NEW i \in 1..n, NEW l \in DOMAIN D, LastAt(D, l, N[i].id)
          PROVE  k < l
      <4>1. CASE i = n
        <5>1. l = Len(C) + 1
          BY <1>0, <1>7, <1>12, <3>3, <4>1
        <5> QED BY <1>13, <2>2, <5>1
      <4>2. CASE i \in 1..(n-1)
        <5>1. PICK a \in DOMAIN R : N[i] = R[a] /\ N[i].id # id
          BY <1>6, <1>8, <4>2
        <5>2. LastAt(C, l, R[a].id)
          BY <1>12, <3>3, <5>1
        <5> QED BY <1>13, <3>1, <5>2
      <4> QED BY <1>6, <4>1, <4>2
    <3> QED BY <3>2, <3>3
  <2>4. CASE \E i \in DOMAIN R : R[i].id = x
    <3>1. PICK b \in 1..r : R[b].id = x
      BY <1>6, <2>4
    <3>2. PICK j \in 1..f : g[j] = b
      BY <1>2, <1>6, <2>1, <3>1 DEF LeftOf
    <3>3. j <= d
      <4>1. ASSUME j > d
            PROVE  FALSE
        <5>1. PICK h \in 1..(n-1) : h + d = j
          <6>1. j - d \in 1..(n-1) /\ (j - d) + d = j
            BY <1>6, <4>1
          <6> QED BY <6>1
        <5>2. N[h] = R[b]
          BY <1>8, <3>2, <5>1, Zenon
        <5>3. h \in 1..n
          BY <1>6
        <5> QED BY <1>6, <3>1, <5>2, <5>3, Zenon
      <4> QED BY <4>1
    <3>4. n = m
      BY <1>5, <1>6, <3>3
    <3>5. ASSUME NEW i \in 1..n, NEW l \in DOMAIN D, LastAt(D, l, N[i].id)
          PROVE  k < l
      <4>1. CASE i = n
        <5>1. l = Len(C) + 1
          BY <1>0, <1>7, <1>12, <3>5, <4>1
        <5> QED BY <1>13, <2>2, <5>1
      <4>2. CASE i \in 1..(n-1)
        <5>1. PICK h \in 1..f : h = i + d /\ j < h
          <6>1. i + d \in 1..f /\ j < i + d
            BY <1>6, <3>3, <4>2
          <6> QED BY <6>1
        <5>2. PICK a \in DOMAIN R : a = g[h] /\ N[i] = R[a] /\ N[i].id # id
          BY <1>6, <1>8, <4>2, <5>1
        <5>3. b < a
          BY <1>2, <1>6, <3>2, <5>1, <5>2 DEF LeftOf
        <5>4. LastAt(C, l, R[a].id) /\ LastAt(C, k, R[b].id) /\ b \in DOMAIN R
          BY <1>6, <1>12, <2>2, <3>1, <3>5, <5>2
        <5> QED BY <1>13, <5>3, <5>4 DEF InOrder
      <4> QED BY <1>6, <4>1, <4>2
    <3> QED BY <3>4, <3>5
  <2> QED BY <2>3, <2>4
\* Whatever was closed has a last closing.
<1>17. \A x \in Range(D) : \E k \in DOMAIN D : LastAt(D, k, x)
  <2> SUFFICES ASSUME NEW h \in DOMAIN D, D[h] # id
               PROVE  \E k \in DOMAIN D : LastAt(D, k, D[h])
    <3>1. Len(C) + 1 \in DOMAIN D /\ LastAt(D, Len(C) + 1, id)
      BY <1>11, <1>12
    <3> QED BY <3>1 DEF Range
  <2>1. h \in DOMAIN C /\ D[h] = C[h]
    <3>1. D[Len(C) + 1] = id /\ \A j \in 1..Len(C) : D[j] = C[j]
      BY DEF D
    <3> QED BY <1>11, <3>1
  <2>2. PICK k \in DOMAIN C : LastAt(C, k, C[h])
    BY <2>1 DEF InOrder, Range
  <2> QED BY <1>12, <1>13, <2>1, <2>2
<1>18. InOrder(N, D)
  BY <1>6, <1>14, <1>15, <1>16, <1>17 DEF InOrder
<1> QED BY <1>4, <1>10, <1>18 DEF new, N, A, D, F

-----------------------------------------------------------------------------
(* The states of the endpoints *)

\* There are two endpoints.
LEMMA PeerFacts ==
  ASSUME NEW e \in Ends
  PROVE  /\ Peer(e) \in Ends /\ Peer(e) # e /\ Peer(Peer(e)) = e
         /\ \A x \in Ends : x = e \/ x = Peer(e)
<1>1. PICK a \in Ends, b \in Ends : a # b /\ Ends = {a, b}
  BY EndsAssumption
<1>2. PICK p \in Ends : p # e /\ \A x \in Ends : x # e => x = p
  BY <1>1
<1>3. Peer(e) = p
  BY <1>2 DEF Peer
<1>4. Peer(p) = e
  BY <1>2 DEF Peer
<1> QED BY <1>2, <1>3, <1>4

\* What a map is.
LEMMA MapIs ==
  ASSUME NEW S, NEW f
  PROVE  f \in Maps(S) <=> /\ f = [x \in DOMAIN f |-> f[x]]
                           /\ DOMAIN f \subseteq Nat
                           /\ \A x \in DOMAIN f : f[x] \in S
<1>1. ASSUME f \in Maps(S)
      PROVE  /\ f = [x \in DOMAIN f |-> f[x]]
             /\ DOMAIN f \subseteq Nat
             /\ \A x \in DOMAIN f : f[x] \in S
  <2>1. PICK D \in SUBSET Nat : f \in [D -> S]
    BY <1>1 DEF Maps
  <2> QED BY <2>1
<1>2. ASSUME f = [x \in DOMAIN f |-> f[x]], DOMAIN f \subseteq Nat, \A x \in DOMAIN f : f[x] \in S
      PROVE  f \in Maps(S)
  <2>1. f \in [DOMAIN f -> S]
    BY <1>2
  <2> QED BY <1>2, <2>1 DEF Maps
<1> QED BY <1>1, <1>2

\* The empty map, a map with one more entry and a map with one less.
LEMMA EmptyMap ==
  ASSUME NEW S
  PROVE  Empty \in Maps(S) /\ DOMAIN Empty = {}
<1>1. DOMAIN Empty = {} /\ Empty = [z \in DOMAIN Empty |-> Empty[z]]
  BY DEF Empty
<1> QED BY <1>1, MapIs

LEMMA MoreQuestions ==
  ASSUME NEW f \in Maps(Questions), NEW x \in Nat, NEW y \in Questions
  PROVE  /\ Put(f, x, y) \in Maps(Questions) /\ DOMAIN Put(f, x, y) = DOMAIN f \cup {x}
         /\ Put(f, x, y)[x] = y
         /\ \A z \in DOMAIN f : z # x => Put(f, x, y)[z] = f[z]
<1>1. DOMAIN f \subseteq Nat /\ \A z \in DOMAIN f : f[z] \in Questions
  BY MapIs
<1>2. /\ DOMAIN Put(f, x, y) = DOMAIN f \cup {x}
      /\ Put(f, x, y)[x] = y
      /\ \A z \in DOMAIN f : z # x => Put(f, x, y)[z] = f[z]
      /\ Put(f, x, y) = [z \in DOMAIN Put(f, x, y) |-> Put(f, x, y)[z]]
  BY DEF Put
<1>3. \A z \in DOMAIN Put(f, x, y) : Put(f, x, y)[z] \in Questions
  BY <1>1, <1>2
<1>4. Put(f, x, y) \in Maps(Questions)
  BY <1>1, <1>2, <1>3, MapIs
<1> QED BY <1>2, <1>4

LEMMA MoreNumbers ==
  ASSUME NEW f \in Maps(Nat), NEW x \in Nat, NEW y \in Nat
  PROVE  /\ Put(f, x, y) \in Maps(Nat) /\ DOMAIN Put(f, x, y) = DOMAIN f \cup {x}
         /\ Put(f, x, y)[x] = y
         /\ \A z \in DOMAIN f : z # x => Put(f, x, y)[z] = f[z]
<1>1. DOMAIN f \subseteq Nat /\ \A z \in DOMAIN f : f[z] \in Nat
  BY MapIs
<1>2. /\ DOMAIN Put(f, x, y) = DOMAIN f \cup {x}
      /\ Put(f, x, y)[x] = y
      /\ \A z \in DOMAIN f : z # x => Put(f, x, y)[z] = f[z]
      /\ Put(f, x, y) = [z \in DOMAIN Put(f, x, y) |-> Put(f, x, y)[z]]
  BY DEF Put
<1>3. \A z \in DOMAIN Put(f, x, y) : Put(f, x, y)[z] \in Nat
  BY <1>1, <1>2
<1>4. Put(f, x, y) \in Maps(Nat)
  BY <1>1, <1>2, <1>3, MapIs
<1> QED BY <1>2, <1>4

LEMMA LessMap ==
  ASSUME NEW S, NEW f \in Maps(S), NEW x \in Nat
  PROVE  LET g == Restrict(f, DOMAIN f \ {x}) IN
         /\ g \in Maps(S) /\ DOMAIN g = DOMAIN f \ {x}
         /\ \A z \in DOMAIN f : z # x => g[z] = f[z]
<1>1. DOMAIN f \subseteq Nat /\ \A z \in DOMAIN f : f[z] \in S
  BY MapIs
<1> DEFINE g == Restrict(f, DOMAIN f \ {x})
<1>2. /\ DOMAIN g = DOMAIN f \ {x}
      /\ \A z \in DOMAIN f \ {x} : g[z] = f[z]
      /\ g = [z \in DOMAIN g |-> g[z]]
  BY DEF Restrict
<1> HIDE DEF g
<1>3. g \in Maps(S)
  BY <1>1, <1>2, MapIs
<1>4. \A z \in DOMAIN f : z # x => g[z] = f[z]
  BY <1>2
<1> QED BY <1>2, <1>3, <1>4 DEF g

\* The fields of a state that change alone.
LEMMA SetOut ==
  ASSUME NEW s \in States, NEW v \in Nat
  PROVE  LET t == [s EXCEPT !.out = v] IN
         /\ t \in States /\ t.out = v
         /\ t.in = s.in /\ t.pending = s.pending
         /\ t.remembered = s.remembered /\ t.inbound = s.inbound
         /\ t.session = s.session
BY DEF States

LEMMA SetIn ==
  ASSUME NEW s \in States, NEW v \in Nat
  PROVE  \E t \in States :
           /\ t = [s EXCEPT !.in = v] /\ t.in = v
           /\ t.out = s.out /\ t.pending = s.pending /\ t.remembered = s.remembered
           /\ t.inbound = s.inbound /\ t.session = s.session
<1> DEFINE t == [s EXCEPT !.in = v]
<1>1. /\ t \in States /\ t.in = v
      /\ t.out = s.out /\ t.pending = s.pending /\ t.remembered = s.remembered
      /\ t.inbound = s.inbound /\ t.session = s.session
  BY DEF States
<1> QED BY <1>1

LEMMA SetPending ==
  ASSUME NEW s \in States, NEW v \in Maps(Nat)
  PROVE  \E t \in States :
           /\ t = [s EXCEPT !.pending = v] /\ t.pending = v
           /\ t.out = s.out /\ t.in = s.in /\ t.remembered = s.remembered
           /\ t.inbound = s.inbound /\ t.session = s.session
<1> DEFINE t == [s EXCEPT !.pending = v]
<1>1. /\ t \in States /\ t.pending = v
      /\ t.out = s.out /\ t.in = s.in /\ t.remembered = s.remembered
      /\ t.inbound = s.inbound /\ t.session = s.session
  BY DEF States
<1> QED BY <1>1

LEMMA SetRemembered ==
  ASSUME NEW s \in States, NEW v \in Seq(Memories)
  PROVE  \E t \in States :
           /\ t = [s EXCEPT !.remembered = v] /\ t.remembered = v
           /\ t.out = s.out /\ t.in = s.in /\ t.pending = s.pending
           /\ t.inbound = s.inbound /\ t.session = s.session
<1> DEFINE t == [s EXCEPT !.remembered = v]
<1>1. /\ t \in States /\ t.remembered = v
      /\ t.out = s.out /\ t.in = s.in /\ t.pending = s.pending
      /\ t.inbound = s.inbound /\ t.session = s.session
  BY DEF States
<1> QED BY <1>1

LEMMA SetInbound ==
  ASSUME NEW s \in States, NEW v \in Maps(Questions)
  PROVE  \E t \in States :
           /\ t = [s EXCEPT !.inbound = v] /\ t.inbound = v
           /\ t.out = s.out /\ t.in = s.in /\ t.pending = s.pending
           /\ t.remembered = s.remembered /\ t.session = s.session
<1> DEFINE t == [s EXCEPT !.inbound = v]
<1>1. /\ t \in States /\ t.inbound = v
      /\ t.out = s.out /\ t.in = s.in /\ t.pending = s.pending
      /\ t.remembered = s.remembered /\ t.session = s.session
  BY DEF States
<1> QED BY <1>1

LEMMA SetSession ==
  ASSUME NEW s \in States, NEW v \in Sessions
  PROVE  \E t \in States :
           /\ t = [s EXCEPT !.session = v] /\ t.session = v
           /\ t.out = s.out /\ t.in = s.in /\ t.pending = s.pending
           /\ t.remembered = s.remembered /\ t.inbound = s.inbound
<1> DEFINE t == [s EXCEPT !.session = v]
<1>1. /\ t \in States /\ t.session = v
      /\ t.out = s.out /\ t.in = s.in /\ t.pending = s.pending
      /\ t.remembered = s.remembered /\ t.inbound = s.inbound
  BY DEF States
<1> QED BY <1>1

\* A closed endpoint keeps its counters and its memory, and nothing else.
LEMMA ClosedFields ==
  ASSUME NEW s \in States, NEW session \in Sessions
  PROVE  \E t \in States :
           /\ t = Closed(s, session)
           /\ t.out = s.out /\ t.in = s.in /\ t.remembered = s.remembered
           /\ t.session = session /\ DOMAIN t.pending = {} /\ DOMAIN t.inbound = {}
<1>1. Empty \in Maps(Nat) /\ Empty \in Maps(Questions) /\ DOMAIN Empty = {}
  BY EmptyMap
<1>2. PICK v : v = Empty
  OBVIOUS
<1>3. PICK a \in States : /\ a = [s EXCEPT !.session = session]
                          /\ a.session = session /\ a.in = s.in /\ a.out = s.out
                          /\ a.remembered = s.remembered
  BY SetSession, Zenon
<1>4. PICK b \in States : /\ b = [a EXCEPT !.pending = v]
                          /\ b.pending = v /\ b.in = s.in /\ b.out = s.out
                          /\ b.remembered = s.remembered /\ b.session = session
  <2>1. v \in Maps(Nat)
    BY <1>1, <1>2
  <2>2. PICK b \in States : /\ b = [a EXCEPT !.pending = v]
                            /\ b.pending = v /\ b.in = a.in /\ b.out = a.out
                            /\ b.remembered = a.remembered /\ b.session = a.session
    BY <2>1, SetPending, Zenon
  <2> QED BY <1>3, <2>2
<1>5. PICK c \in States : /\ c = [b EXCEPT !.inbound = v]
                          /\ c.inbound = v /\ c.pending = v /\ c.in = s.in
                          /\ c.out = s.out /\ c.remembered = s.remembered
                          /\ c.session = session
  <2>1. v \in Maps(Questions)
    BY <1>1, <1>2
  <2>2. PICK c \in States : /\ c = [b EXCEPT !.inbound = v]
                            /\ c.inbound = v /\ c.pending = b.pending /\ c.in = b.in
                            /\ c.out = b.out /\ c.remembered = b.remembered
                            /\ c.session = b.session
    BY <2>1, SetInbound, Zenon
  <2> QED BY <1>4, <2>2
<1>6. Closed(s, session) = c
  <2>1. c = [[a EXCEPT !.pending = v] EXCEPT !.inbound = v]
    BY <1>4, <1>5
  <2>2. c = [s EXCEPT !.session = session, !.pending = Empty, !.inbound = Empty]
    BY <1>2, <1>3, <2>1
  <2> QED BY <2>2 DEF Closed
<1> QED BY <1>1, <1>2, <1>5, <1>6

\* A settled request is taken from the pending ones and remembered.
LEMMA SettledFields ==
  ASSUME NEW s \in States, NEW C \in Seq(Nat), InOrder(s.remembered, C),
         NEW id \in Nat, NEW reason \in {"canceled", "timed-out", "completed"}
  PROVE  \E t \in States :
           /\ t = SettledPending(s, id, reason)
           /\ t.out = s.out /\ t.in = s.in
           /\ t.inbound = s.inbound /\ t.session = s.session
           /\ DOMAIN t.pending = DOMAIN s.pending \ {id}
           /\ \A x \in DOMAIN s.pending : x # id => t.pending[x] = s.pending[x]
           /\ InOrder(t.remembered, Append(C, id))
           /\ \A c \in Range(t.remembered) :
                (c.id = id /\ c.reason = reason) \/ (c \in Range(s.remembered) /\ c.id # id)
<1>1. s.pending \in Maps(Nat) /\ s.remembered \in Seq(Memories)
  BY DEF States
<1>2. PICK f \in Maps(Nat) : /\ f = Restrict(s.pending, DOMAIN s.pending \ {id})
                             /\ DOMAIN f = DOMAIN s.pending \ {id}
                             /\ \A x \in DOMAIN s.pending : x # id => f[x] = s.pending[x]
  <2>1. PICK p \in Maps(Nat) : p = s.pending
    BY <1>1
  <2>2. PICK f \in Maps(Nat) : /\ f = Restrict(p, DOMAIN p \ {id})
                               /\ DOMAIN f = DOMAIN p \ {id}
                               /\ \A x \in DOMAIN p : x # id => f[x] = p[x]
    <3>1. LET f == Restrict(p, DOMAIN p \ {id}) IN
          /\ f \in Maps(Nat) /\ DOMAIN f = DOMAIN p \ {id}
          /\ \A x \in DOMAIN p : x # id => f[x] = p[x]
      BY LessMap, Zenon
    <3> QED BY <3>1, Zenon
  <2> QED BY <2>1, <2>2
<1>4. PICK r : r = NewestOf(Append(Without(s.remembered, id), [id |-> id, reason |-> reason]))
  OBVIOUS
<1>5. /\ r \in Seq(Memories) /\ InOrder(r, Append(C, id))
      /\ \A c \in Range(r) :
           c = [id |-> id, reason |-> reason] \/ (c \in Range(s.remembered) /\ c.id # id)
  BY <1>1, <1>4, RememberedInOrder
<1>6. PICK a \in States : /\ a = [s EXCEPT !.pending = f]
                          /\ a.pending = f /\ a.in = s.in /\ a.out = s.out
                          /\ a.remembered = s.remembered /\ a.inbound = s.inbound
                          /\ a.session = s.session
  BY SetPending, Zenon
<1>7. PICK t \in States : /\ t = [a EXCEPT !.remembered = r]
                          /\ t.remembered = r /\ t.in = a.in /\ t.out = a.out
                          /\ t.pending = a.pending /\ t.inbound = a.inbound
                          /\ t.session = a.session
  BY <1>5, SetRemembered, Zenon
<1>8. SettledPending(s, id, reason) = t
  <2>1. a = [s EXCEPT !.pending = Restrict(@, DOMAIN @ \ {id})]
    BY <1>2, <1>6
  <2>2. t = [a EXCEPT !.remembered =
               NewestOf(Append(Without(@, id), [id |-> id, reason |-> reason]))]
    BY <1>4, <1>6, <1>7
  <2> QED BY <2>1, <2>2 DEF SettledPending, Remembered
<1>9. \A c \in Range(r) :
        (c.id = id /\ c.reason = reason) \/ (c \in Range(s.remembered) /\ c.id # id)
  BY <1>5
<1>10. /\ t.out = s.out /\ t.in = s.in /\ t.inbound = s.inbound /\ t.session = s.session
       /\ t.remembered = r /\ t.pending = f
  BY <1>6, <1>7
<1>11. /\ DOMAIN t.pending = DOMAIN s.pending \ {id}
       /\ \A x \in DOMAIN s.pending : x # id => t.pending[x] = s.pending[x]
  BY <1>2, <1>10
<1>12. /\ InOrder(t.remembered, Append(C, id))
       /\ \A c \in Range(t.remembered) :
            (c.id = id /\ c.reason = reason) \/ (c \in Range(s.remembered) /\ c.id # id)
  BY <1>5, <1>9, <1>10
<1> HIDE <1>10
<1> WITNESS t \in States
<1> QED BY <1>8, <1>10, <1>11, <1>12
-----------------------------------------------------------------------------
(* What a step does to the endpoints and to the messages on their way *)

Becomes(e, t) == ends' = [ends EXCEPT ![e] = t]

Sends(e, m) == wire' = [wire EXCEPT ![Peer(e)] = Append(@, m)]

Takes(e) == wire[e] # <<>> /\ wire' = [wire EXCEPT ![e] = Tail(@)]

\* Only the endpoint that takes the step changes.
LEMMA Becoming ==
  ASSUME ends \in [Ends -> States], NEW e \in Ends, NEW t \in States, Becomes(e, t)
  PROVE  /\ ends' \in [Ends -> States] /\ ends'[e] = t
         /\ ends'[Peer(e)] = ends[Peer(e)]
BY PeerFacts DEF Becomes

\* A message is sent behind all others.
LEMMA Sending ==
  ASSUME wire \in [Ends -> Seq(Messages)], NEW e \in Ends, NEW m \in Messages, Sends(e, m)
  PROVE  /\ wire' \in [Ends -> Seq(Messages)] /\ wire'[e] = wire[e]
         /\ wire'[Peer(e)] = Append(wire[Peer(e)], m)
         /\ Len(wire[Peer(e)]) \in Nat
         /\ DOMAIN wire[Peer(e)] = 1..Len(wire[Peer(e)])
         /\ Len(wire'[Peer(e)]) = Len(wire[Peer(e)]) + 1
         /\ DOMAIN wire'[Peer(e)] = 1..(Len(wire[Peer(e)]) + 1)
         /\ \A i \in DOMAIN wire'[Peer(e)] :
              IF i \in DOMAIN wire[Peer(e)] THEN wire'[Peer(e)][i] = wire[Peer(e)][i]
              ELSE i = Len(wire[Peer(e)]) + 1 /\ wire'[Peer(e)][i] = m
<1>1. Peer(e) \in Ends /\ Peer(e) # e
  BY PeerFacts
<1>2. PICK w \in Seq(Messages) : w = wire[Peer(e)]
  BY <1>1
<1>3. PICK v \in Seq(Messages) : v = Append(w, m)
  <2>1. Append(w, m) \in Seq(Messages)
    OBVIOUS
  <2> QED BY <2>1
<1>4. /\ wire' \in [Ends -> Seq(Messages)] /\ wire'[e] = wire[e] /\ wire'[Peer(e)] = v
  BY <1>1, <1>2, <1>3 DEF Sends
<1>5. /\ Len(w) \in Nat /\ DOMAIN w = 1..Len(w)
      /\ Len(v) = Len(w) + 1 /\ DOMAIN v = 1..(Len(w) + 1)
      /\ \A i \in DOMAIN v :
           IF i \in DOMAIN w THEN v[i] = w[i] ELSE i = Len(w) + 1 /\ v[i] = m
  BY <1>3
<1> QED BY <1>2, <1>3, <1>4, <1>5

\* The oldest message is taken.
LEMMA Taking ==
  ASSUME wire \in [Ends -> Seq(Messages)], NEW e \in Ends, Takes(e)
  PROVE  /\ wire' \in [Ends -> Seq(Messages)] /\ wire'[Peer(e)] = wire[Peer(e)]
         /\ Head(wire[e]) = wire[e][1] /\ wire[e][1] \in Messages
         /\ Len(wire[e]) \in Nat /\ DOMAIN wire[e] = 1..Len(wire[e])
         /\ 1 \in DOMAIN wire[e]
         /\ Len(wire'[e]) = Len(wire[e]) - 1
         /\ DOMAIN wire'[e] = 1..(Len(wire[e]) - 1)
         /\ \A i \in DOMAIN wire'[e] :
              i \in Nat /\ i > 0 /\ i + 1 \in DOMAIN wire[e] /\ wire'[e][i] = wire[e][i + 1]
<1>1. Peer(e) \in Ends /\ Peer(e) # e
  BY PeerFacts
<1>2. PICK w \in Seq(Messages) : w = wire[e] /\ w # <<>>
  BY DEF Takes
<1>3. PICK v \in Seq(Messages) : v = Tail(w)
  <2>1. Tail(w) \in Seq(Messages)
    BY <1>2
  <2> QED BY <2>1
<1>4. wire' \in [Ends -> Seq(Messages)] /\ wire'[Peer(e)] = wire[Peer(e)] /\ wire'[e] = v
  BY <1>1, <1>2, <1>3 DEF Takes
<1>5. /\ Len(w) \in Nat /\ DOMAIN w = 1..Len(w) /\ 1 \in DOMAIN w
      /\ Head(w) = w[1] /\ w[1] \in Messages
      /\ Len(v) = Len(w) - 1 /\ DOMAIN v = 1..(Len(w) - 1)
      /\ \A i \in DOMAIN v : v[i] = w[i + 1]
  BY <1>2, <1>3
<1>6. \A i \in DOMAIN v : i \in Nat /\ i > 0 /\ i + 1 \in DOMAIN w
  BY <1>5
<1> QED BY <1>2, <1>4, <1>5, <1>6

\* Every message has a number.
LEMMA Numbered ==
  ASSUME TypeOK, NEW e \in Ends
  PROVE  /\ Len(wire[e]) \in Nat /\ DOMAIN wire[e] = 1..Len(wire[e])
         /\ \A i \in DOMAIN wire[e] :
              i \in Nat /\ i > 0 /\ wire[e][i] \in Messages /\ wire[e][i].seq \in Nat
<1>1. PICK w \in Seq(Messages) : w = wire[e]
  BY DEF TypeOK
<1>2. \A m \in Messages : m.seq \in Nat
  BY DEF Messages
<1>3. /\ Len(w) \in Nat /\ DOMAIN w = 1..Len(w)
      /\ \A i \in DOMAIN w : i \in Nat /\ i > 0 /\ w[i] \in Messages
  OBVIOUS
<1> QED BY <1>1, <1>2, <1>3

\* Numbers keep their order when nothing is sent or taken.
LEMMA WireSame ==
  ASSUME IInv, NEW e \in Ends, NEW t \in States, Becomes(e, t), wire' = wire,
         t.out = ends[e].out, t.in = ends[e].in, t.session = Open => IsOpen(e)
  PROVE  WireOK(e)' /\ WireOK(Peer(e))'
<1>1. PICK p \in Ends : p = Peer(e) /\ Peer(p) = e
  BY PeerFacts
<1>2. ends'[e] = t /\ ends'[p] = ends[p]
  BY <1>1, Becoming DEF IInv, TypeOK
<1>3. WireOK(e) /\ WireOK(p)
  BY <1>1 DEF IInv, Side
<1>4. WireOK(e)'
  BY <1>1, <1>2, <1>3 DEF WireOK, IsOpen
<1>5. WireOK(p)'
  BY <1>1, <1>2, <1>3 DEF WireOK, IsOpen
<1> QED BY <1>1, <1>4, <1>5

\* They do when a message is sent with the next number.
LEMMA WireSent ==
  ASSUME IInv, NEW e \in Ends, NEW t \in States, Becomes(e, t), NEW m \in Messages,
         Sends(e, m), m.seq = t.out, t.out = ends[e].out + 1, t.in = ends[e].in,
         t.session = Open => IsOpen(e)
  PROVE  WireOK(e)' /\ WireOK(Peer(e))'
<1>1. PICK p \in Ends : p = Peer(e) /\ Peer(p) = e
  BY PeerFacts
<1>2. ends'[e] = t /\ ends'[p] = ends[p]
  BY <1>1, Becoming DEF IInv, TypeOK
<1>3. WireOK(e) /\ WireOK(p)
  BY <1>1 DEF IInv, Side
<1>4. /\ wire'[e] = wire[e]
      /\ Len(wire[p]) \in Nat /\ DOMAIN wire[p] = 1..Len(wire[p])
      /\ Len(wire'[p]) = Len(wire[p]) + 1
      /\ \A i \in DOMAIN wire'[p] :
           IF i \in DOMAIN wire[p] THEN wire'[p][i] = wire[p][i]
           ELSE i = Len(wire[p]) + 1 /\ wire'[p][i] = m
  BY <1>1, Sending DEF IInv, TypeOK
<1>5. /\ ends[p].in \in Nat /\ ends[e].out \in Nat
      /\ \A i \in DOMAIN wire[p] : i \in Nat /\ wire[p][i].seq \in Nat
  BY Numbered DEF IInv, TypeOK, States
<1>6. WireOK(e)'
  BY <1>1, <1>2, <1>3, <1>4 DEF WireOK, IsOpen
<1>7. WireOK(p)'
  <2>1. ends'[p].in <= ends'[e].out
    BY <1>1, <1>2, <1>3, <1>5 DEF WireOK
  <2>2. ends'[p].in = ends[p].in /\ ends'[e].out = ends[e].out + 1 /\ ends[p].in <= ends[e].out
        /\ m.seq = ends[e].out + 1
    BY <1>1, <1>2, <1>3 DEF WireOK
  <2>3. \A i \in DOMAIN wire'[p] : wire'[p][i].seq > ends[p].in
    <3> SUFFICES ASSUME NEW i \in DOMAIN wire'[p]
                 PROVE  wire'[p][i].seq > ends[p].in
      OBVIOUS
    <3>1. CASE i \in DOMAIN wire[p]
      <4>1. wire[p][i].seq > ends[p].in
        BY <1>3, <3>1 DEF WireOK
      <4> QED BY <1>4, <3>1, <4>1
    <3>2. CASE i \notin DOMAIN wire[p]
      <4>1. PICK k \in Nat : k = ends[e].out + 1 /\ k > ends[p].in
        BY <1>5, <2>2
      <4>2. wire'[p][i].seq = k
        BY <1>4, <2>2, <3>2, <4>1
      <4> QED BY <4>1, <4>2
    <3> QED BY <3>1, <3>2
  <2>4. ASSUME ends[p].session = Open
        PROVE  /\ Len(wire'[p]) = ends'[e].out - ends'[p].in
               /\ \A i \in DOMAIN wire'[p] : wire'[p][i].seq = ends'[p].in + i
    <3>1. /\ Len(wire[p]) = ends[e].out - ends[p].in
          /\ \A i \in DOMAIN wire[p] : wire[p][i].seq = ends[p].in + i
      BY <1>1, <1>3, <2>4 DEF WireOK, IsOpen
    <3>2. Len(wire'[p]) = ends'[e].out - ends'[p].in
      BY <1>4, <1>5, <2>2, <3>1
    <3>3. ASSUME NEW i \in DOMAIN wire'[p], i \notin DOMAIN wire[p]
          PROVE  wire'[p][i].seq = ends[p].in + i
      <4>1. i = Len(wire[p]) + 1 /\ wire'[p][i].seq = ends[e].out + 1
        BY <1>4, <2>2, <3>3
      <4>2. ends[p].in + (Len(wire[p]) + 1) = ends[e].out + 1
        BY <1>4, <1>5, <3>1
      <4> QED BY <4>1, <4>2
    <3>4. ASSUME NEW i \in DOMAIN wire'[p], i \in DOMAIN wire[p]
          PROVE  wire'[p][i].seq = ends[p].in + i
      BY <1>4, <3>1, <3>4
    <3> QED BY <2>2, <3>2, <3>3, <3>4
  <2> QED BY <1>1, <1>2, <2>1, <2>2, <2>3, <2>4 DEF WireOK, IsOpen
<1> QED BY <1>1, <1>6, <1>7

\* They do when the oldest message is taken, and counted unless the endpoint closes.
LEMMA WireTaken ==
  ASSUME IInv, NEW e \in Ends, NEW t \in States, Becomes(e, t), Takes(e), IsOpen(e),
         t.out = ends[e].out, t.in \in {ends[e].in, ends[e].in + 1},
         t.session = Open => t.in = ends[e].in + 1
  PROVE  WireOK(e)' /\ WireOK(Peer(e))'
<1>1. PICK p \in Ends : p = Peer(e) /\ Peer(p) = e
  BY PeerFacts
<1>2. ends'[e] = t /\ ends'[p] = ends[p]
  BY <1>1, Becoming DEF IInv, TypeOK
<1>3. WireOK(e) /\ WireOK(p)
  BY <1>1 DEF IInv, Side
<1>4. /\ wire'[p] = wire[p]
      /\ Len(wire[e]) \in Nat /\ DOMAIN wire[e] = 1..Len(wire[e]) /\ 1 \in DOMAIN wire[e]
      /\ Len(wire'[e]) = Len(wire[e]) - 1
      /\ \A i \in DOMAIN wire'[e] :
           i \in Nat /\ i > 0 /\ i + 1 \in DOMAIN wire[e] /\ wire'[e][i] = wire[e][i + 1]
  BY <1>1, Taking DEF IInv, TypeOK
<1>5. ends[e].in \in Nat /\ ends[p].out \in Nat
  BY DEF IInv, TypeOK, States
<1>6. /\ Len(wire[e]) = ends[p].out - ends[e].in
      /\ \A i \in DOMAIN wire[e] : wire[e][i].seq = ends[e].in + i
  BY <1>1, <1>3 DEF WireOK
<1>7. WireOK(e)'
  <2>1. ends'[e].in <= ends'[p].out
    BY <1>2, <1>4, <1>5, <1>6
  <2>2. \A i \in DOMAIN wire'[e] : wire'[e][i].seq > ends'[e].in
    <3> SUFFICES ASSUME NEW i \in DOMAIN wire'[e]
                 PROVE  wire'[e][i].seq > ends'[e].in
      OBVIOUS
    <3>1. i \in Nat /\ i > 0
      BY <1>4
    <3>2. wire'[e][i].seq = ends[e].in + (i + 1)
      BY <1>4, <1>6
    <3>3. ends'[e].in <= ends[e].in + 1 /\ ends'[e].in \in Nat
      BY <1>2, <1>5
    <3> QED BY <1>5, <3>1, <3>2, <3>3
  <2>3. ASSUME t.session = Open
        PROVE  /\ Len(wire'[e]) = ends'[p].out - ends'[e].in
               /\ \A i \in DOMAIN wire'[e] : wire'[e][i].seq = ends'[e].in + i
    <3>1. ends'[e].in = ends[e].in + 1 /\ ends'[p].out = ends[p].out
      BY <1>2, <2>3
    <3>2. Len(wire'[e]) = ends'[p].out - ends'[e].in
      BY <1>4, <1>5, <1>6, <3>1
    <3>3. ASSUME NEW i \in DOMAIN wire'[e]
          PROVE  wire'[e][i].seq = ends'[e].in + i
      <4>1. i \in Nat /\ wire'[e][i].seq = ends[e].in + (i + 1)
        BY <1>4, <1>6
      <4> QED BY <1>5, <3>1, <4>1
    <3> QED BY <3>2, <3>3
  <2> QED BY <1>1, <1>2, <2>1, <2>2, <2>3 DEF WireOK, IsOpen
<1>8. WireOK(p)'
  BY <1>1, <1>2, <1>3, <1>4 DEF WireOK, IsOpen
<1> QED BY <1>1, <1>7, <1>8

\* The number of the oldest message is the one that is expected.
LEMMA Expected ==
  ASSUME IInv, NEW e \in Ends, IsOpen(e), wire[e] # <<>>
  PROVE  /\ Head(wire[e]) = wire[e][1] /\ 1 \in DOMAIN wire[e]
         /\ wire[e][1] \in Messages
         /\ wire[e][1].seq = ends[e].in + 1 /\ ends[e].in + 1 \in Nat
         /\ ends[e].in + 1 <= ends[Peer(e)].out
<1>1. PICK w \in Seq(Messages) : w = wire[e] /\ w # <<>>
  BY DEF IInv, TypeOK
<1>2. /\ Head(w) = w[1] /\ 1 \in DOMAIN w /\ w[1] \in Messages /\ Len(w) \in Nat /\ Len(w) > 0
  BY <1>1
<1>3. /\ ends[e].in \in Nat /\ ends[Peer(e)].out \in Nat
  BY PeerFacts DEF IInv, TypeOK, States
<1>4. /\ Len(w) = ends[Peer(e)].out - ends[e].in
      /\ w[1].seq = ends[e].in + 1
  BY <1>1, <1>2 DEF IInv, Side, WireOK
<1> QED BY <1>1, <1>2, <1>3, <1>4

-----------------------------------------------------------------------------
(* What a step of one endpoint leaves to the other *)

Kinds == [from : Ends, how : Hows]

\* The results that endpoint e depends on do not change under it.
ResultsKept(e) ==
  /\ DOMAIN results \subseteq DOMAIN results'
  /\ \A n \in DOMAIN results :
       /\ Withdrawn(n) => Withdrawn(n)'
       /\ results[n].from = e /\ results[n].how.reason = "none" => results'[n] = results[n]

\* An endpoint that takes no step keeps what depends on itself.
LEMMA PeerKept ==
  ASSUME IInv, NEW p \in Ends, ends'[p] = ends[p], closings'[p] = closings[p],
         ResultsKept(p), \A id, n \in Nat : Alive(p, id, n)' => Alive(p, id, n)
  PROVE  /\ AliveSide(p)' /\ PendingOK(p)'
         /\ InOrder(ends[p].remembered, closings[p])' /\ CompletedOK(p)' /\ ClosedOK(p)'
<1>1. Side(p)
  BY DEF IInv
<1>2. ASSUME NEW id \in Nat, NEW n \in Nat, Alive(p, id, n)'
      PROVE  AliveOK(p, id, n)'
  <2>1. AliveOK(p, id, n)
    BY <1>1, <1>2 DEF Side, AliveSide
  <2> QED BY <2>1 DEF AliveOK, ResultsKept, IsOpen
<1>3. PendingOK(p)'
  <2>1. PendingOK(p)
    BY <1>1 DEF Side
  <2>2. ASSUME NEW id \in DOMAIN ends[p].pending
        PROVE  LET n == ends[p].pending[id] IN
               /\ id <= ends[p].out
               /\ n \in DOMAIN results' /\ results'[n].from = p /\ results'[n].how.reason = "none"
    BY <2>1, <2>2 DEF PendingOK, ResultsKept
  <2> QED BY <2>1, <2>2 DEF PendingOK
<1>4. InOrder(ends'[p].remembered, closings'[p])
  BY <1>1 DEF Side
<1>5. CompletedOK(p)'
  BY <1>1 DEF Side, CompletedOK
<1>6. ClosedOK(p)'
  BY <1>1 DEF Side, ClosedOK, ForgottenOK, IsOpen
<1>7. AliveSide(p)'
  BY <1>2 DEF AliveSide
<1> QED BY <1>3, <1>4, <1>5, <1>6, <1>7

\* Whatever is still on its way was on its way.
LEMMA Shrunk ==
  ASSUME TypeOK, NEW e \in Ends, wire' = wire \/ Takes(e)
  PROVE  /\ wire' \in [Ends -> Seq(Messages)]
         /\ wire'[Peer(e)] = wire[Peer(e)]
         /\ \A i \in DOMAIN wire'[e] : \E j \in DOMAIN wire[e] : wire'[e][i] = wire[e][j]
         /\ \A i, j \in DOMAIN wire'[e] : i # j =>
              \E k, l \in DOMAIN wire[e] :
                k # l /\ wire'[e][i] = wire[e][k] /\ wire'[e][j] = wire[e][l]
<1>1. CASE wire' = wire
  BY <1>1 DEF TypeOK
<1>2. CASE Takes(e)
  <2>1. /\ wire' \in [Ends -> Seq(Messages)] /\ wire'[Peer(e)] = wire[Peer(e)]
        /\ \A i \in DOMAIN wire'[e] :
             i \in Nat /\ i > 0 /\ i + 1 \in DOMAIN wire[e] /\ wire'[e][i] = wire[e][i + 1]
    BY <1>2, Taking DEF TypeOK
  <2>2. ASSUME NEW i \in DOMAIN wire'[e], NEW j \in DOMAIN wire'[e], i # j
        PROVE  \E k, l \in DOMAIN wire[e] :
                 k # l /\ wire'[e][i] = wire[e][k] /\ wire'[e][j] = wire[e][l]
    <3>1. i + 1 # j + 1
      BY <2>1, <2>2
    <3> QED BY <2>1, <3>1
  <2> QED BY <2>1, <2>2
<1> QED BY <1>1, <1>2

\* Then no answer and no request is new.
LEMMA ShrunkAlive ==
  ASSUME TypeOK, NEW e \in Ends, wire' = wire \/ Takes(e)
  PROVE  /\ \A id, n \in Nat : AnsweredBy(e, id, n)' => AnsweredBy(e, id, n)
         /\ \A id, n \in Nat : Sent(Peer(e), id, n)' => Sent(Peer(e), id, n)
         /\ \A id, n \in Nat : AnsweredBy(Peer(e), id, n)' => AnsweredBy(Peer(e), id, n)
         /\ \A id, n \in Nat : Sent(e, id, n)' => Sent(e, id, n)
<1>1. PICK p \in Ends : p = Peer(e) /\ Peer(p) = e
  BY PeerFacts
<1>2. /\ wire'[p] = wire[p]
      /\ \A i \in DOMAIN wire'[e] : \E j \in DOMAIN wire[e] : wire'[e][i] = wire[e][j]
  BY <1>1, Shrunk
<1>3. \A id, n \in Nat : AnsweredBy(e, id, n)' => AnsweredBy(e, id, n)
  BY <1>2 DEF AnsweredBy
<1>4. \A id, n \in Nat : Sent(p, id, n)' => Sent(p, id, n)
  BY <1>1, <1>2 DEF Sent
<1>5. \A id, n \in Nat : AnsweredBy(p, id, n)' => AnsweredBy(p, id, n)
  BY <1>2 DEF AnsweredBy
<1>6. \A id, n \in Nat : Sent(e, id, n)' => Sent(e, id, n)
  BY <1>1, <1>2 DEF Sent
<1> QED BY <1>1, <1>3, <1>4, <1>5, <1>6

\* The answers on their way to an endpoint stay apart while nothing is sent to it.
LEMMA ShrunkOnce ==
  ASSUME IInv, NEW e \in Ends, NEW t \in States, Becomes(e, t), wire' = wire \/ Takes(e)
  PROVE  OnceOK(e)'
<1>1. PICK p \in Ends : p = Peer(e) /\ Peer(p) = e /\ p # e
  BY PeerFacts
<1>2. ends'[e] = t /\ ends'[p] = ends[p]
  BY <1>1, Becoming DEF IInv, TypeOK
<1>3. /\ \A i \in DOMAIN wire'[e] : \E j \in DOMAIN wire[e] : wire'[e][i] = wire[e][j]
      /\ \A i, j \in DOMAIN wire'[e] : i # j =>
           \E k, l \in DOMAIN wire[e] :
             k # l /\ wire'[e][i] = wire[e][k] /\ wire'[e][j] = wire[e][l]
  BY <1>1, Shrunk DEF IInv
<1>4. OnceOK(e)
  BY <1>1 DEF IInv, Side
<1>5. \A id \in DOMAIN ends'[p].inbound : id <= ends'[p].in
  BY <1>1, <1>2, <1>4 DEF OnceOK
<1>6. ASSUME NEW i \in DOMAIN wire'[e], wire'[e][i].kind = "response"
      PROVE  /\ wire'[e][i].replyTo <= ends'[p].in
             /\ wire'[e][i].replyTo \notin DOMAIN ends'[p].inbound
  BY <1>1, <1>2, <1>3, <1>4, <1>6 DEF OnceOK
<1>7. ASSUME NEW i \in DOMAIN wire'[e], wire'[e][i].kind = "response",
             NEW j \in DOMAIN wire'[e], wire'[e][j].kind = "response", j # i
      PROVE  wire'[e][j].replyTo # wire'[e][i].replyTo
  <2>1. PICK k, l \in DOMAIN wire[e] :
          k # l /\ wire'[e][i] = wire[e][k] /\ wire'[e][j] = wire[e][l]
    BY <1>3, <1>7
  <2>2. wire[e][l].kind = "response" /\ wire[e][k].kind = "response"
    BY <1>7, <2>1
  <2>3. wire[e][l].replyTo # wire[e][k].replyTo
    BY <1>4, <2>1, <2>2 DEF OnceOK
  <2> QED BY <2>1, <2>3
<1> QED BY <1>1, <1>5, <1>6, <1>7 DEF OnceOK

\* Those an endpoint has sent stay apart if every new question has a new number.
LEMMA WorkedOnOnce ==
  ASSUME IInv, NEW e \in Ends, NEW t \in States, Becomes(e, t),
         wire'[Peer(e)] = wire[Peer(e)], t.in >= ends[e].in,
         \A id \in DOMAIN t.inbound :
           id \in DOMAIN ends[e].inbound \/ (id = t.in /\ id > ends[e].in)
  PROVE  OnceOK(Peer(e))'
<1>1. PICK p \in Ends : p = Peer(e) /\ Peer(p) = e /\ p # e
  BY PeerFacts
<1>2. ends'[e] = t /\ ends'[p] = ends[p]
  BY <1>1, Becoming DEF IInv, TypeOK
<1>3. OnceOK(p)
  BY <1>1 DEF IInv, Side
<1>4. PICK a \in Nat, b \in Nat : a = ends[e].in /\ b = t.in /\ a <= b
  BY DEF IInv, TypeOK, States
<1>5. \A i \in DOMAIN ends[e].inbound : i \in Nat
  <2>1. ends[e].inbound \in Maps(Questions)
    BY DEF IInv, TypeOK, States
  <2> QED BY <2>1, MapIs
<1>6. ASSUME NEW id \in DOMAIN t.inbound
      PROVE  id <= b
  <2>1. CASE id \in DOMAIN ends[e].inbound
    <3>1. id \in Nat /\ id <= a
      BY <1>1, <1>3, <1>4, <1>5, <2>1 DEF OnceOK
    <3> QED BY <1>4, <3>1
  <2>2. CASE id = t.in
    BY <1>4, <2>2
  <2> QED BY <1>6, <2>1, <2>2
<1>7. ASSUME NEW i \in DOMAIN wire[p], wire[p][i].kind = "response"
      PROVE  /\ wire[p][i].replyTo <= b
             /\ wire[p][i].replyTo \notin DOMAIN t.inbound
  <2>1. PICK r \in Nat : r = wire[p][i].replyTo
    <3>1. wire[p][i] \in Messages
      BY <1>7, Numbered DEF IInv
    <3> QED BY <1>7, <3>1 DEF Messages
  <2>2. r <= a /\ r \notin DOMAIN ends[e].inbound
    BY <1>1, <1>3, <1>4, <1>7, <2>1 DEF OnceOK
  <2>3. r <= b /\ ~ (r > a)
    BY <1>4, <2>2
  <2> QED BY <1>4, <2>1, <2>2, <2>3
<1>8. ASSUME NEW i \in DOMAIN wire[p], wire[p][i].kind = "response",
             NEW j \in DOMAIN wire[p], wire[p][j].kind = "response", j # i
      PROVE  wire[p][j].replyTo # wire[p][i].replyTo
  BY <1>3, <1>8 DEF OnceOK
<1>9. wire'[p] = wire[p]
  BY <1>1
<1> QED BY <1>1, <1>2, <1>4, <1>6, <1>7, <1>8, <1>9 DEF OnceOK

\* What an endpoint that stays open, or closes, says about itself.
LEMMA ShrunkCancel ==
  ASSUME IInv, NEW e \in Ends, NEW t \in States, Becomes(e, t),
         wire' = wire \/ Takes(e), t.out = ends[e].out,
         DOMAIN t.pending \subseteq DOMAIN ends[e].pending,
         \A id \in DOMAIN t.inbound :
           t.inbound[id].aborted => id \notin DOMAIN ends[Peer(e)].pending
  PROVE  CancelOK(e)' /\ CancelOK(Peer(e))'
<1>1. PICK p \in Ends : p = Peer(e) /\ Peer(p) = e /\ p # e
  BY PeerFacts
<1>2. ends'[e] = t /\ ends'[p] = ends[p]
  BY <1>1, Becoming DEF IInv, TypeOK
<1>3. /\ wire'[p] = wire[p]
      /\ \A i \in DOMAIN wire'[e] : \E j \in DOMAIN wire[e] : wire'[e][i] = wire[e][j]
  BY <1>1, Shrunk DEF IInv
<1>4. CancelOK(e) /\ CancelOK(p)
  BY <1>1 DEF IInv, Side
<1>5. CancelOK(e)'
  BY <1>1, <1>2, <1>3, <1>4 DEF CancelOK
<1>6. CancelOK(p)'
  <2>1. ASSUME NEW i \in DOMAIN wire'[e], wire'[e][i].kind = "cancel"
        PROVE  wire'[e][i].of <= ends[p].out /\ wire'[e][i].of \notin DOMAIN ends[p].pending
    BY <1>1, <1>3, <1>4, <2>1 DEF CancelOK
  <2>2. ASSUME NEW id \in DOMAIN t.inbound, t.inbound[id].aborted
        PROVE  id \notin DOMAIN ends[p].pending
    BY <1>1, <1>4, <2>2 DEF CancelOK
  <2> QED BY <1>1, <1>2, <2>1, <2>2 DEF CancelOK
<1> QED BY <1>1, <1>5, <1>6

\* An endpoint that closes leaves nothing behind that the invariant forbids.
LEMMA CloseKeeps ==
  ASSUME IInv, NEW e \in Ends, NEW t \in States, Becomes(e, t),
         t.session # Open, t.session.why # "sequence",
         t.out = ends[e].out, t.remembered = ends[e].remembered,
         DOMAIN t.pending = {}, DOMAIN t.inbound = {},
         closings' = closings,
         \/ wire' = wire /\ t.in = ends[e].in
         \/ Takes(e) /\ IsOpen(e) /\ t.in \in {ends[e].in, ends[e].in + 1},
         t.session.why = "correlation" =>
           /\ t.session.replyTo \in Range(closings[e])
           /\ \A i \in DOMAIN t.remembered : t.remembered[i].id # t.session.replyTo,
         results' \in Seq(Kinds), DOMAIN results \subseteq DOMAIN results',
         \A n \in DOMAIN results' :
           \/ n \in DOMAIN results /\ results'[n] = results[n]
           \/ /\ n \in DOMAIN results => results[n].from = e
              /\ results'[n].how.reason = "closed",
         \A id \in DOMAIN ends[e].pending :
           results'[ends[e].pending[id]].how.reason = "closed"
  PROVE  IInv'
<1>1. PICK p \in Ends : p = Peer(e) /\ Peer(p) = e /\ p # e /\ \A x \in Ends : x = e \/ x = p
  BY PeerFacts
<1>2. ends'[e] = t /\ ends'[p] = ends[p] /\ ends' \in [Ends -> States]
  BY <1>1, Becoming DEF IInv, TypeOK
<1>3. wire' = wire \/ Takes(e)
  OBVIOUS
<1>4. /\ wire' \in [Ends -> Seq(Messages)] /\ wire'[p] = wire[p]
      /\ \A id, n \in Nat : AnsweredBy(e, id, n)' => AnsweredBy(e, id, n)
      /\ \A id, n \in Nat : Sent(p, id, n)' => Sent(p, id, n)
      /\ \A id, n \in Nat : AnsweredBy(p, id, n)' => AnsweredBy(p, id, n)
      /\ \A id, n \in Nat : Sent(e, id, n)' => Sent(e, id, n)
  BY <1>1, <1>3, Shrunk, ShrunkAlive DEF IInv
<1>5. TypeOK'
  BY <1>2, <1>4 DEF IInv, TypeOK, Kinds
<1>6. ResultsOK'
  <2>1. "closed" # "completed"
    OBVIOUS
  <2> QED BY <2>1 DEF IInv, ResultsOK
<1>7. WireOK(e)' /\ WireOK(p)'
  BY <1>1, WireSame, WireTaken
<1>8. OnceOK(e)' /\ OnceOK(p)'
  <2>1. t.in >= ends[e].in
    <3>1. PICK k \in Nat : k = ends[e].in
      BY DEF IInv, TypeOK, States
    <3>2. t.in = k \/ t.in = k + 1
      BY <3>1
    <3> QED BY <3>1, <3>2
  <2>2. OnceOK(e)'
    BY <1>3, ShrunkOnce
  <2> QED BY <1>1, <1>4, <2>1, <2>2, WorkedOnOnce
<1>9. CancelOK(e)' /\ CancelOK(p)'
  BY <1>1, <1>3, ShrunkCancel
<1>10. \A n \in DOMAIN results : Withdrawn(n) => Withdrawn(n)'
  BY DEF Withdrawn
<1>11. Side(p)'
  <2>1. ResultsKept(p)
    BY <1>1, <1>10 DEF ResultsKept
  <2>2. \A id, n \in Nat : Alive(p, id, n)' => Alive(p, id, n)
    BY <1>1, <1>2, <1>4 DEF Alive, WorkedOn
  <2> QED BY <1>2, <1>7, <1>8, <1>9, <2>1, <2>2, PeerKept DEF Side
<1>12. AliveSide(e)'
  <2> SUFFICES ASSUME NEW id \in Nat, NEW n \in Nat, Alive(e, id, n)'
               PROVE  AliveOK(e, id, n)'
    BY DEF AliveSide
  <2>1. Alive(e, id, n)
    BY <1>1, <1>2, <1>4 DEF Alive, WorkedOn
  <2>2. AliveOK(e, id, n)
    BY <2>1 DEF IInv, Side, AliveSide
  <2>3. Withdrawn(n)'
    BY <1>10, <2>2 DEF AliveOK, Withdrawn
  <2> QED BY <1>2, <2>2, <2>3 DEF AliveOK, IsOpen
<1>13. PendingOK(e)'
  BY <1>2 DEF PendingOK, IsInjective
<1>14. InOrder(ends[e].remembered, closings[e])' /\ CompletedOK(e)'
  BY <1>2 DEF IInv, Side, CompletedOK
<1>15. ClosedOK(e)'
  BY <1>2 DEF ClosedOK, ForgottenOK
<1>16. Side(e)'
  BY <1>7, <1>8, <1>9, <1>12, <1>13, <1>14, <1>15 DEF Side
<1> QED BY <1>1, <1>5, <1>6, <1>11, <1>16 DEF IInv

-----------------------------------------------------------------------------
(* The steps that end the session *)

\* Settling everything pending changes only the results of what is pending.
LEMMA AllSettledIs ==
  ASSUME NEW rs \in Seq(Kinds), NEW s \in States
  PROVE  /\ AllSettled(rs, s) \in Seq(Kinds) /\ DOMAIN AllSettled(rs, s) = DOMAIN rs
         /\ \A n \in DOMAIN rs :
              IF n \in Range(s.pending)
              THEN AllSettled(rs, s)[n].how.reason = "closed"
              ELSE AllSettled(rs, s)[n] = rs[n]
<1> DEFINE a == AllSettled(rs, s)
<1>1. Len(rs) \in Nat /\ DOMAIN rs = 1..Len(rs) /\ \A n \in 1..Len(rs) : rs[n] \in Kinds
  OBVIOUS
<1>2. /\ a = [n \in 1..Len(rs) |-> a[n]]
      /\ \A n \in 1..Len(rs) :
           a[n] = IF n \in Range(s.pending)
                  THEN [rs[n] EXCEPT !.how = [reason |-> "closed"]] ELSE rs[n]
  BY <1>1 DEF AllSettled
<1>3. \A k \in Kinds : /\ [k EXCEPT !.how = [reason |-> "closed"]] \in Kinds
                       /\ [k EXCEPT !.how = [reason |-> "closed"]].how.reason = "closed"
  BY DEF Kinds, Hows
<1> HIDE DEF a
<1>4. \A n \in 1..Len(rs) : a[n] \in Kinds
  BY <1>1, <1>2, <1>3
<1>5. a \in [1..Len(rs) -> Kinds]
  BY <1>2, <1>4
<1>6. a \in Seq(Kinds) /\ DOMAIN a = DOMAIN rs
  BY <1>1, <1>5, SeqDef
<1>7. \A n \in DOMAIN rs : IF n \in Range(s.pending) THEN a[n].how.reason = "closed"
                           ELSE a[n] = rs[n]
  BY <1>1, <1>2, <1>3
<1> QED BY <1>6, <1>7 DEF a

\* A session that is closed in state s, with the results rs so far.
LEMMA Closing ==
  ASSUME IInv, NEW e \in Ends, NEW s \in States, NEW rs \in Seq(Kinds),
         NEW session \in Sessions, CloseInternal(e, s, rs, session),
         closings' = closings, session # Open, session.why # "sequence",
         s.out = ends[e].out, s.remembered = ends[e].remembered,
         \/ wire' = wire /\ s.in = ends[e].in
         \/ Takes(e) /\ IsOpen(e) /\ s.in \in {ends[e].in, ends[e].in + 1},
         session.why = "correlation" =>
           /\ session.replyTo \in Range(closings[e])
           /\ \A i \in DOMAIN s.remembered : s.remembered[i].id # session.replyTo,
         DOMAIN results \subseteq DOMAIN rs,
         \A n \in DOMAIN results : rs[n] = results[n],
         \A n \in DOMAIN rs : n \in DOMAIN results \/ n \in Range(s.pending),
         \A n \in Range(s.pending) : n \in DOMAIN results => results[n].from = e,
         \A id \in DOMAIN ends[e].pending : ends[e].pending[id] \in Range(s.pending)
  PROVE  IInv'
<1>1. PICK t \in States :
        /\ t = Closed(s, session)
        /\ t.out = s.out /\ t.in = s.in /\ t.remembered = s.remembered
        /\ t.session = session /\ DOMAIN t.pending = {} /\ DOMAIN t.inbound = {}
  BY ClosedFields
<1>2. Becomes(e, t)
  BY <1>1 DEF Becomes, CloseInternal
<1>3. /\ results' \in Seq(Kinds) /\ DOMAIN results' = DOMAIN rs
      /\ \A n \in DOMAIN rs :
           IF n \in Range(s.pending) THEN results'[n].how.reason = "closed"
           ELSE results'[n] = rs[n]
  <2>1. results' = AllSettled(rs, s)
    BY DEF CloseInternal
  <2> QED BY <2>1, AllSettledIs
<1>4. \A n \in DOMAIN results' :
        \/ n \in DOMAIN results /\ results'[n] = results[n]
        \/ /\ n \in DOMAIN results => results[n].from = e
           /\ results'[n].how.reason = "closed"
  BY <1>3
<1>5. \A id \in DOMAIN ends[e].pending :
        results'[ends[e].pending[id]].how.reason = "closed"
  BY <1>3 DEF IInv, Side, PendingOK
<1>6. \/ wire' = wire /\ t.in = ends[e].in
      \/ Takes(e) /\ IsOpen(e) /\ t.in \in {ends[e].in, ends[e].in + 1}
  BY <1>1
<1>7. t.session.why = "correlation" =>
        /\ t.session.replyTo \in Range(closings[e])
        /\ \A i \in DOMAIN t.remembered : t.remembered[i].id # t.session.replyTo
  BY <1>1
<1>8. /\ t.session # Open /\ t.session.why # "sequence"
      /\ t.out = ends[e].out /\ t.remembered = ends[e].remembered
  BY <1>1
<1>9. DOMAIN results \subseteq DOMAIN results'
  BY <1>3
<1> QED BY <1>1, <1>2, <1>3, <1>4, <1>5, <1>6, <1>7, <1>8, <1>9, CloseKeeps

\* With the requests and the results as they are.
LEMMA ClosingAsItIs ==
  ASSUME IInv, NEW e \in Ends, NEW s \in States, NEW session \in Sessions,
         CloseInternal(e, s, results, session), closings' = closings,
         session # Open, session.why # "sequence",
         s.out = ends[e].out, s.remembered = ends[e].remembered, s.pending = ends[e].pending,
         \/ wire' = wire /\ s.in = ends[e].in
         \/ Takes(e) /\ IsOpen(e) /\ s.in \in {ends[e].in, ends[e].in + 1},
         session.why = "correlation" =>
           /\ session.replyTo \in Range(closings[e])
           /\ \A i \in DOMAIN s.remembered : s.remembered[i].id # session.replyTo
  PROVE  IInv'
<1>1. results \in Seq(Kinds)
  BY DEF IInv, TypeOK, Kinds
<1>2. \A n \in Range(s.pending) : n \in DOMAIN results => results[n].from = e
  BY DEF IInv, Side, PendingOK, Range
<1>3. \A id \in DOMAIN ends[e].pending : ends[e].pending[id] \in Range(s.pending)
  BY DEF Range
<1>4. PICK rs \in Seq(Kinds) : rs = results
  BY <1>1
<1>5. CloseInternal(e, s, rs, session)
  BY <1>4
<1>6. /\ DOMAIN results \subseteq DOMAIN rs /\ \A n \in DOMAIN results : rs[n] = results[n]
      /\ \A n \in DOMAIN rs : n \in DOMAIN results \/ n \in Range(s.pending)
  BY <1>4
<1> QED BY <1>2, <1>3, <1>5, <1>6, Closing

\* The owner closes the session, or a handler fails.
LEMMA CloseStep ==
  ASSUME IInv, NEW e \in Ends, Close(e) \/ HandlerFails(e)
  PROVE  IInv'
<1>1. PICK s \in States : s = ends[e]
  BY DEF IInv, TypeOK
<1>2. PICK session \in Sessions :
        /\ session.why \in {"handler", "closed"}
        /\ CloseInternal(e, s, results, session)
  <2>1. CASE Close(e)
    <3>1. [why |-> "closed"] \in Sessions
      BY DEF Sessions
    <3> QED BY <1>1, <2>1, <3>1 DEF Close
  <2>2. CASE HandlerFails(e)
    <3>1. [why |-> "handler"] \in Sessions
      BY DEF Sessions
    <3> QED BY <1>1, <2>2, <3>1 DEF HandlerFails
  <2> QED BY <2>1, <2>2
<1>3. session # Open /\ session.why # "sequence" /\ session.why # "correlation"
  BY <1>2 DEF Open
<1>4. wire' = wire /\ closings' = closings
  BY DEF Close, HandlerFails
<1> QED BY <1>1, <1>2, <1>3, <1>4, ClosingAsItIs

\* The port throws while the answer of a handler or a cancellation is sent.
LEMMA SendFailsStep ==
  ASSUME IInv, NEW e \in Ends, NEW s \in States, SendFails(e, s, results),
         s.out = ends[e].out, s.remembered = ends[e].remembered,
         s.pending = ends[e].pending, s.in = ends[e].in
  PROVE  IInv'
<1>1. PICK session \in Sessions : session = [why |-> "transport"]
  BY DEF Sessions
<1>2. session # Open /\ session.why # "sequence" /\ session.why # "correlation"
  BY <1>1 DEF Open
<1>3. CloseInternal(e, s, results, session) /\ wire' = wire /\ closings' = closings
  BY <1>1 DEF SendFails
<1> QED BY <1>2, <1>3, ClosingAsItIs

-----------------------------------------------------------------------------
(* The steps that go on *)

\* What is remembered of a closed request.
LEMMA RememberedTyped ==
  ASSUME TypeOK, NEW e \in Ends
  PROVE  \A c \in Range(ends[e].remembered) :
           c.id \in Nat /\ c.reason \in {"canceled", "timed-out", "completed"}
<1>1. PICK r \in Seq(Memories) : r = ends[e].remembered
  BY DEF TypeOK, States
<1>2. \A i \in DOMAIN r : r[i] \in Memories
  OBVIOUS
<1>3. \A c \in Memories : c.id \in Nat /\ c.reason \in {"canceled", "timed-out", "completed"}
  BY DEF Memories
<1>4. \A c \in Range(r) : c \in Memories
  BY <1>2 DEF Range
<1> QED BY <1>1, <1>3, <1>4

\* A step that settles nothing keeps the invariant if the messages do.
LEMMA GoingOn ==
  ASSUME IInv, NEW e \in Ends, NEW t \in States, Becomes(e, t),
         wire' \in [Ends -> Seq(Messages)], results' = results, closings' = closings,
         t.pending = ends[e].pending, t.remembered = ends[e].remembered,
         t.session = ends[e].session, t.out >= ends[e].out, IsOpen(e),
         WireOK(e)', WireOK(Peer(e))', OnceOK(e)', OnceOK(Peer(e))',
         CancelOK(e)', CancelOK(Peer(e))',
         \A id, n \in Nat : Alive(e, id, n)' => Alive(e, id, n),
         \A id, n \in Nat : Alive(Peer(e), id, n)' => Alive(Peer(e), id, n)
  PROVE  IInv'
<1>1. PICK p \in Ends : p = Peer(e) /\ Peer(p) = e /\ p # e /\ \A x \in Ends : x = e \/ x = p
  BY PeerFacts
<1>2. ends'[e] = t /\ ends'[p] = ends[p] /\ ends' \in [Ends -> States]
  BY <1>1, Becoming DEF IInv, TypeOK
<1>3. TypeOK' /\ ResultsOK'
  BY <1>2 DEF IInv, TypeOK, ResultsOK
<1>4. Side(p)'
  <2>1. ResultsKept(p)
    BY DEF ResultsKept, Withdrawn
  <2>2. closings'[p] = closings[p]
    OBVIOUS
  <2>3. /\ AliveSide(p)' /\ PendingOK(p)'
        /\ InOrder(ends[p].remembered, closings[p])' /\ CompletedOK(p)' /\ ClosedOK(p)'
    BY <1>1, <1>2, <2>1, <2>2, PeerKept
  <2> QED BY <1>1, <2>3 DEF Side
<1>5. PICK a \in Nat, b \in Nat : a = ends[e].out /\ b = t.out /\ a <= b
  BY DEF IInv, TypeOK, States
<1>6. AliveSide(e)'
  <2> SUFFICES ASSUME NEW id \in Nat, NEW n \in Nat, Alive(e, id, n)'
               PROVE  AliveOK(e, id, n)'
    BY DEF AliveSide
  <2>1. AliveOK(e, id, n)
    BY DEF IInv, Side, AliveSide
  <2>2. id <= b
    BY <1>5, <2>1 DEF AliveOK
  <2> QED BY <1>2, <1>5, <2>1, <2>2 DEF AliveOK, IsOpen, Withdrawn
<1>7. PendingOK(e)'
  <2>1. PendingOK(e)
    BY DEF IInv, Side
  <2>2. \A id \in DOMAIN ends[e].pending : id \in Nat
    <3>1. ends[e].pending \in Maps(Nat)
      BY DEF IInv, TypeOK, States
    <3> QED BY <3>1, MapIs
  <2>3. \A id \in DOMAIN ends[e].pending : id <= b
    BY <1>5, <2>1, <2>2 DEF PendingOK
  <2> QED BY <1>2, <1>5, <2>1, <2>3 DEF PendingOK
<1>8. InOrder(ends[e].remembered, closings[e])'
  BY <1>2 DEF IInv, Side
<1>9. CompletedOK(e)'
  <2>1. \A c \in Range(ends[e].remembered) : c.id \in Nat
    BY RememberedTyped DEF IInv
  <2>2. \A c \in Range(ends[e].remembered) : c.reason = "completed" => c.id <= b
    BY <1>5, <2>1 DEF IInv, Side, CompletedOK
  <2> QED BY <1>2, <1>5, <2>2 DEF CompletedOK
<1>10. ClosedOK(e)'
  BY <1>2 DEF IInv, Side, ClosedOK, ForgottenOK, IsOpen
<1> QED BY <1>1, <1>3, <1>4, <1>6, <1>7, <1>8, <1>9, <1>10 DEF IInv, Side

\* What is worked on, and what it asks.
LEMMA InboundTyped ==
  ASSUME TypeOK, NEW e \in Ends
  PROVE  /\ ends[e].inbound \in Maps(Questions)
         /\ \A id \in DOMAIN ends[e].inbound :
              /\ id \in Nat /\ ends[e].inbound[id] \in Questions
              /\ ends[e].inbound[id].asks \in Nat /\ ends[e].inbound[id].aborted \in BOOLEAN
<1>1. PICK f \in Maps(Questions) : f = ends[e].inbound
  BY DEF TypeOK, States
<1>2. \A id \in DOMAIN f : id \in Nat /\ f[id] \in Questions
  BY MapIs
<1>3. \A q \in Questions : q.asks \in Nat /\ q.aborted \in BOOLEAN
  BY DEF Questions
<1> QED BY <1>1, <1>2, <1>3

\* What a message carries.
LEMMA MessageTyped ==
  ASSUME NEW m \in Messages
  PROVE  /\ m.seq \in Nat
         /\ m.kind = "request" => m.asks \in Nat
         /\ m.kind = "cancel" => m.of \in Nat
         /\ m.kind = "response" => m.replyTo \in Nat /\ m.answers \in Nat
BY DEF Messages

\* An endpoint that has read a message.
HasRead(s, n, f) == [s EXCEPT !.in = n, !.inbound = f]

LEMMA ReadFields ==
  ASSUME NEW s \in States, NEW n \in Nat, NEW f \in Maps(Questions)
  PROVE  \E t \in States :
           /\ t = HasRead(s, n, f)
           /\ t.in = n /\ t.inbound = f /\ t.out = s.out /\ t.pending = s.pending
           /\ t.remembered = s.remembered /\ t.session = s.session
<1>1. PICK a \in States : /\ a = [s EXCEPT !.in = n]
                          /\ a.in = n /\ a.out = s.out /\ a.pending = s.pending
                          /\ a.remembered = s.remembered /\ a.session = s.session
  BY SetIn, Zenon
<1>2. PICK t \in States : /\ t = [a EXCEPT !.inbound = f]
                          /\ t.inbound = f /\ t.out = a.out /\ t.in = a.in
                          /\ t.pending = a.pending /\ t.remembered = a.remembered
                          /\ t.session = a.session
  BY SetInbound, Zenon
<1>3. t = HasRead(s, n, f)
  BY <1>1, <1>2 DEF HasRead
<1> WITNESS t \in States
<1> QED BY <1>1, <1>2, <1>3

\* A message that only changes what is worked on keeps the invariant.
LEMMA Reading ==
  ASSUME IInv, NEW e \in Ends, NEW t \in States, Becomes(e, t), Takes(e), IsOpen(e),
         results' = results, closings' = closings,
         t.in = ends[e].in + 1, t.out = ends[e].out, t.pending = ends[e].pending,
         t.remembered = ends[e].remembered, t.session = ends[e].session,
         \A id \in DOMAIN t.inbound :
           \/ id \in DOMAIN ends[e].inbound
           \/ id = t.in,
         \A id \in DOMAIN t.inbound :
           t.inbound[id].aborted => id \notin DOMAIN ends[Peer(e)].pending,
         \A id, n \in Nat : WorkedOn(Peer(e), id, n)' => Alive(Peer(e), id, n)
  PROVE  IInv'
<1>1. PICK p \in Ends : p = Peer(e) /\ Peer(p) = e /\ p # e
  BY PeerFacts
<1>2. ends'[e] = t /\ ends'[p] = ends[p]
  BY <1>1, Becoming DEF IInv, TypeOK
<1>3. ends[e].in \in Nat /\ ends[e].out \in Nat
  BY DEF IInv, TypeOK, States
<1>4. wire' \in [Ends -> Seq(Messages)] /\ wire'[p] = wire[p]
  BY <1>1, Shrunk DEF IInv
<1>5. WireOK(e)' /\ WireOK(p)'
  BY <1>1, WireTaken
<1>6. OnceOK(e)'
  BY ShrunkOnce
<1>7. OnceOK(p)'
  <2>1. t.in >= ends[e].in /\ t.in > ends[e].in
    BY <1>3
  <2>2. \A id \in DOMAIN t.inbound :
          id \in DOMAIN ends[e].inbound \/ (id = t.in /\ id > ends[e].in)
    BY <2>1
  <2> QED BY <1>1, <1>4, <2>1, <2>2, WorkedOnOnce
<1>8. CancelOK(e)' /\ CancelOK(p)'
  BY <1>1, ShrunkCancel
<1>9. \A id, n \in Nat : Alive(e, id, n)' => Alive(e, id, n)
  BY <1>1, <1>2, ShrunkAlive DEF IInv, Alive, WorkedOn
<1>10. \A id, n \in Nat : Alive(p, id, n)' => Alive(p, id, n)
  <2>1. /\ \A id, n \in Nat : Sent(p, id, n)' => Sent(p, id, n)
        /\ \A id, n \in Nat : AnsweredBy(p, id, n)' => AnsweredBy(p, id, n)
    BY <1>1, ShrunkAlive DEF IInv
  <2> QED BY <1>1, <2>1 DEF Alive
<1>11. t.out >= ends[e].out
  BY <1>3
<1> QED BY <1>1, <1>4, <1>5, <1>6, <1>7, <1>8, <1>9, <1>10, <1>11, GoingOn

\* The oldest message and what endpoint e may receive.
LEMMA ReceiveRequestStep ==
  ASSUME IInv, NEW e \in Ends, IsOpen(e), Takes(e),
         NEW m \in Messages, m = wire[e][1], 1 \in DOMAIN wire[e],
         m.seq = ends[e].in + 1, ReceiveRequest(e, m)
  PROVE  IInv'
<1>1. PICK p \in Ends : p = Peer(e) /\ Peer(p) = e /\ p # e
  BY PeerFacts
<1>2. PICK s \in States : s = ends[e]
  BY DEF IInv, TypeOK
<1>3. PICK k \in Nat, q \in Questions :
        /\ k = m.seq /\ q = [asks |-> m.asks, aborted |-> FALSE] /\ m.kind = "request"
        /\ q.asks = m.asks /\ q.aborted = FALSE
  <2>1. m.kind = "request" /\ m.seq \in Nat /\ m.asks \in Nat
    BY MessageTyped DEF ReceiveRequest
  <2>2. [asks |-> m.asks, aborted |-> FALSE] \in Questions
    BY <2>1 DEF Questions
  <2> QED BY <2>1, <2>2
<1>4. s.inbound \in Maps(Questions)
  BY <1>2, InboundTyped DEF IInv
<1>5. PICK f \in Maps(Questions) :
        /\ f = Put(s.inbound, k, q) /\ DOMAIN f = DOMAIN s.inbound \cup {k}
        /\ f[k] = q /\ \A z \in DOMAIN s.inbound : z # k => f[z] = s.inbound[z]
  <2>1. PICK g \in Maps(Questions) : g = s.inbound
    BY <1>4
  <2>2. PICK f \in Maps(Questions) :
          /\ f = Put(g, k, q) /\ DOMAIN f = DOMAIN g \cup {k}
          /\ f[k] = q /\ \A z \in DOMAIN g : z # k => f[z] = g[z]
    <3>1. /\ Put(g, k, q) \in Maps(Questions) /\ DOMAIN Put(g, k, q) = DOMAIN g \cup {k}
          /\ Put(g, k, q)[k] = q
          /\ \A z \in DOMAIN g : z # k => Put(g, k, q)[z] = g[z]
      BY MoreQuestions, Zenon
    <3> QED BY <3>1, Zenon
  <2> QED BY <2>1, <2>2
<1>6. PICK t \in States :
        /\ t = HasRead(s, k, f)
        /\ t.in = k /\ t.inbound = f /\ t.out = s.out /\ t.pending = s.pending
        /\ t.remembered = s.remembered /\ t.session = s.session
  BY ReadFields
<1>7. Becomes(e, t)
  <2>1. ends' = [ends EXCEPT ![e].in = k, ![e].inbound = Put(@, k, q)]
    BY <1>3 DEF ReceiveRequest
  <2>2. t = [ends[e] EXCEPT !.in = k, !.inbound = Put(ends[e].inbound, k, q)]
    BY <1>2, <1>5, <1>6 DEF HasRead
  <2>3. ends \in [Ends -> States] /\ s.inbound = [s EXCEPT !.in = k].inbound
    BY DEF IInv, TypeOK, States
  <2> QED BY <1>2, <2>1, <2>2, <2>3 DEF Becomes
<1>8. ends'[e] = t
  BY <1>7, Becoming DEF IInv, TypeOK
<1>9. \A id \in DOMAIN t.inbound : id \in DOMAIN ends[e].inbound \/ id = t.in
  BY <1>2, <1>5, <1>6
<1>10. ASSUME NEW id \in DOMAIN t.inbound, t.inbound[id].aborted
       PROVE  id \notin DOMAIN ends[p].pending
  <2>1. id # k
    BY <1>3, <1>5, <1>6, <1>10
  <2>2. id \in DOMAIN ends[e].inbound /\ ends[e].inbound[id].aborted
    BY <1>2, <1>5, <1>6, <1>10, <2>1
  <2>3. CancelOK(p)
    BY DEF IInv, Side
  <2> QED BY <1>1, <2>2, <2>3 DEF CancelOK
<1>11. ASSUME NEW id \in Nat, NEW n \in Nat, WorkedOn(p, id, n)'
       PROVE  Alive(p, id, n)
  <2>1. id \in DOMAIN f /\ f[id].asks = n
    BY <1>1, <1>6, <1>8, <1>11 DEF WorkedOn
  <2>2. CASE id = k
    <3>1. m.seq = id /\ m.asks = n
      BY <1>3, <1>5, <2>1, <2>2
    <3>2. Sent(p, id, n)
      BY <1>1, <1>3, <3>1 DEF Sent
    <3> QED BY <3>2 DEF Alive
  <2>3. CASE id # k
    <3>1. WorkedOn(p, id, n)
      BY <1>1, <1>2, <1>5, <2>1, <2>3 DEF WorkedOn
    <3> QED BY <3>1 DEF Alive
  <2> QED BY <2>2, <2>3
<1>12. t.in = ends[e].in + 1 /\ results' = results /\ closings' = closings
  BY <1>3, <1>6 DEF ReceiveRequest
<1> QED BY <1>1, <1>2, <1>6, <1>7, <1>9, <1>10, <1>11, <1>12, Reading

\* A cancellation stops the work it names.
LEMMA ReceiveCancelStep ==
  ASSUME IInv, NEW e \in Ends, IsOpen(e), Takes(e),
         NEW m \in Messages, m = wire[e][1], 1 \in DOMAIN wire[e],
         m.seq = ends[e].in + 1, ReceiveCancel(e, m)
  PROVE  IInv'
<1>1. PICK p \in Ends : p = Peer(e) /\ Peer(p) = e /\ p # e
  BY PeerFacts
<1>2. PICK s \in States : s = ends[e]
  BY DEF IInv, TypeOK
<1>3. PICK k \in Nat : k = m.seq /\ m.kind = "cancel"
  BY DEF ReceiveCancel, Messages
<1>4. /\ s.inbound \in Maps(Questions)
      /\ \A id \in DOMAIN s.inbound : id \in Nat /\ s.inbound[id] \in Questions
  BY <1>2, InboundTyped DEF IInv
<1>5. PICK f : f = Aborted(s.inbound, m.of)
  OBVIOUS
<1>6. /\ f \in Maps(Questions) /\ DOMAIN f = DOMAIN s.inbound
      /\ \A id \in DOMAIN f : f[id].asks = s.inbound[id].asks
      /\ \A id \in DOMAIN f : id # m.of => f[id] = s.inbound[id]
  <2>1. \A q \in Questions : /\ [q EXCEPT !.aborted = TRUE] \in Questions
                             /\ [q EXCEPT !.aborted = TRUE].asks = q.asks
    BY DEF Questions
  <2>2. /\ DOMAIN f = DOMAIN s.inbound /\ f = [id \in DOMAIN f |-> f[id]]
        /\ \A id \in DOMAIN f :
             f[id] = IF id = m.of THEN [s.inbound[id] EXCEPT !.aborted = TRUE]
                     ELSE s.inbound[id]
    BY <1>5 DEF Aborted
  <2>3. \A id \in DOMAIN f : f[id] \in Questions /\ f[id].asks = s.inbound[id].asks
    BY <1>4, <2>1, <2>2
  <2>4. DOMAIN f \subseteq Nat
    BY <1>4, <2>2
  <2>5. f \in Maps(Questions)
    BY <2>2, <2>3, <2>4, MapIs
  <2> QED BY <2>2, <2>3, <2>5
<1>7. PICK t \in States :
        /\ t = HasRead(s, k, f)
        /\ t.in = k /\ t.inbound = f /\ t.out = s.out /\ t.pending = s.pending
        /\ t.remembered = s.remembered /\ t.session = s.session
  BY <1>6, ReadFields
<1>8. Becomes(e, t)
  <2>1. ends' = [ends EXCEPT ![e].in = k, ![e].inbound = Aborted(@, m.of)]
    BY <1>3 DEF ReceiveCancel
  <2>2. t = [ends[e] EXCEPT !.in = k, !.inbound = Aborted(ends[e].inbound, m.of)]
    BY <1>2, <1>5, <1>7 DEF HasRead
  <2>3. ends \in [Ends -> States] /\ s.inbound = [s EXCEPT !.in = k].inbound
    BY DEF IInv, TypeOK, States
  <2> QED BY <1>2, <2>1, <2>2, <2>3 DEF Becomes
<1>9. ends'[e] = t
  BY <1>8, Becoming DEF IInv, TypeOK
<1>10. CancelOK(p)
  BY DEF IInv, Side
<1>11. ASSUME NEW id \in DOMAIN t.inbound, t.inbound[id].aborted
       PROVE  id \notin DOMAIN ends[p].pending
  <2>1. CASE id = m.of
    BY <1>1, <1>3, <1>10, <2>1 DEF CancelOK
  <2>2. CASE id # m.of
    <3>1. id \in DOMAIN ends[e].inbound /\ ends[e].inbound[id].aborted
      BY <1>2, <1>6, <1>7, <1>11, <2>2
    <3> QED BY <1>1, <1>10, <3>1 DEF CancelOK
  <2> QED BY <2>1, <2>2
<1>12. ASSUME NEW id \in Nat, NEW n \in Nat, WorkedOn(p, id, n)'
       PROVE  Alive(p, id, n)
  BY <1>1, <1>2, <1>6, <1>7, <1>9, <1>12 DEF WorkedOn, Alive
<1>13. t.in = ends[e].in + 1 /\ results' = results /\ closings' = closings
  BY <1>3, <1>7 DEF ReceiveCancel
<1>14. \A id \in DOMAIN t.inbound : id \in DOMAIN ends[e].inbound \/ id = t.in
  BY <1>2, <1>6, <1>7
<1> QED BY <1>1, <1>2, <1>7, <1>8, <1>11, <1>12, <1>13, <1>14, Reading

-----------------------------------------------------------------------------
(* The steps that settle one request *)

\* What is pending has a number and names a question.
LEMMA PendingTyped ==
  ASSUME TypeOK, NEW e \in Ends
  PROVE  /\ ends[e].pending \in Maps(Nat)
         /\ \A id \in DOMAIN ends[e].pending : id \in Nat /\ ends[e].pending[id] \in Nat
<1>1. PICK f \in Maps(Nat) : f = ends[e].pending
  BY DEF TypeOK, States
<1>2. \A id \in DOMAIN f : id \in Nat /\ f[id] \in Nat
  BY MapIs
<1> QED BY <1>1, <1>2

\* State t of endpoint e is one in which the request under id is settled.
IsSettled(e, t, id, reason) ==
  /\ t.out >= ends[e].out /\ t.session = ends[e].session
  /\ DOMAIN t.pending = DOMAIN ends[e].pending \ {id}
  /\ \A x \in DOMAIN ends[e].pending : x # id => t.pending[x] = ends[e].pending[x]
  /\ InOrder(t.remembered, Append(closings[e], id))
  /\ \A c \in Range(t.remembered) :
       (c.id = id /\ c.reason = reason) \/ (c \in Range(ends[e].remembered) /\ c.id # id)
  /\ closings' = [closings EXCEPT ![e] = Append(@, id)]

\* The results change for the request of e under id, if there is one.
OneResult(e, id, reason) ==
  /\ results' \in Seq(Kinds) /\ DOMAIN results \subseteq DOMAIN results' /\ ResultsOK'
  /\ \A n \in DOMAIN results :
       \/ results'[n] = results[n]
       \/ id \in DOMAIN ends[e].pending /\ n = ends[e].pending[id]
  /\ reason # "completed" /\ id \in DOMAIN ends[e].pending =>
       results'[ends[e].pending[id]].how.reason = reason

\* No question is asked, and the messages are as they should be.
MessagesKept ==
  /\ wire' \in [Ends -> Seq(Messages)]
  /\ \A x \in Ends : WireOK(x)' /\ OnceOK(x)' /\ CancelOK(x)'
  /\ \A x \in Ends, id, n \in Nat : Alive(x, id, n)' => Alive(x, id, n)

\* Endpoint e settles the request it has under id, if any, for a reason.
LEMMA Settling ==
  ASSUME IInv, NEW e \in Ends, NEW t \in States, Becomes(e, t), IsOpen(e),
         NEW id \in Nat, NEW reason \in {"canceled", "timed-out", "completed"},
         IsSettled(e, t, id, reason), OneResult(e, id, reason), MessagesKept,
         reason = "completed" =>
           id <= ends[e].out /\ \A n \in Nat : ~ Alive(e, id, n)'
  PROVE  IInv'
<1>0. /\ t.out >= ends[e].out /\ t.session = ends[e].session
      /\ DOMAIN t.pending = DOMAIN ends[e].pending \ {id}
      /\ \A x \in DOMAIN ends[e].pending : x # id => t.pending[x] = ends[e].pending[x]
      /\ InOrder(t.remembered, Append(closings[e], id))
      /\ \A c \in Range(t.remembered) :
           (c.id = id /\ c.reason = reason) \/ (c \in Range(ends[e].remembered) /\ c.id # id)
      /\ closings' = [closings EXCEPT ![e] = Append(@, id)]
      /\ results' \in Seq(Kinds) /\ DOMAIN results \subseteq DOMAIN results' /\ ResultsOK'
      /\ \A n \in DOMAIN results :
           \/ results'[n] = results[n]
           \/ id \in DOMAIN ends[e].pending /\ n = ends[e].pending[id]
      /\ reason # "completed" /\ id \in DOMAIN ends[e].pending =>
           results'[ends[e].pending[id]].how.reason = reason
      /\ wire' \in [Ends -> Seq(Messages)]
      /\ \A x \in Ends : WireOK(x)' /\ OnceOK(x)' /\ CancelOK(x)'
      /\ \A x \in Ends, i, n \in Nat : Alive(x, i, n)' => Alive(x, i, n)
  BY DEF IsSettled, OneResult, MessagesKept
<1>1. PICK p \in Ends : p = Peer(e) /\ Peer(p) = e /\ p # e /\ \A x \in Ends : x = e \/ x = p
  BY PeerFacts
<1>2. ends'[e] = t /\ ends'[p] = ends[p] /\ ends' \in [Ends -> States]
  BY <1>1, Becoming DEF IInv, TypeOK
<1>3. /\ closings' \in [Ends -> Seq(Nat)] /\ closings'[p] = closings[p]
      /\ closings'[e] = Append(closings[e], id)
      /\ id \in Range(closings'[e]) /\ Range(closings[e]) \subseteq Range(closings'[e])
  <2>1. PICK c \in Seq(Nat) : c = closings[e]
    BY DEF IInv, TypeOK
  <2>2. PICK d : d = Append(c, id)
    OBVIOUS
  <2>3. d \in Seq(Nat) /\ id \in Range(d) /\ Range(c) \subseteq Range(d)
    <3>1. /\ d \in Seq(Nat) /\ DOMAIN d = 1..(Len(c) + 1) /\ Len(c) \in Nat
          /\ DOMAIN c = 1..Len(c)
          /\ d[Len(c) + 1] = id /\ \A i \in 1..Len(c) : d[i] = c[i]
      BY <2>2
    <3>2. Len(c) + 1 \in DOMAIN d /\ \A i \in DOMAIN c : i \in DOMAIN d /\ d[i] = c[i]
      BY <3>1
    <3>3. \A x \in Range(c) : x \in Range(d)
      BY <3>2 DEF Range
    <3> QED BY <3>1, <3>2, <3>3 DEF Range
  <2>4. closings' \in [Ends -> Seq(Nat)] /\ closings'[p] = closings[p] /\ closings'[e] = d
    BY <1>0, <1>1, <2>1, <2>2, <2>3 DEF IInv, TypeOK
  <2> QED BY <2>1, <2>2, <2>3, <2>4
<1>4. TypeOK'
  BY <1>0, <1>2, <1>3 DEF TypeOK, Kinds
<1>5. PendingOK(e)
  BY DEF IInv, Side
<1>6. \A n \in DOMAIN results : Withdrawn(n) => results'[n] = results[n]
  <2> SUFFICES ASSUME NEW n \in DOMAIN results, Withdrawn(n)
               PROVE  results'[n] = results[n]
    OBVIOUS
  <2>1. ASSUME id \in DOMAIN ends[e].pending, n = ends[e].pending[id]
        PROVE  FALSE
    <3>1. results[n].how.reason = "none"
      BY <1>5, <2>1 DEF PendingOK
    <3> QED BY <3>1 DEF Withdrawn, WithdrawnReasons
  <2> QED BY <1>0, <2>1
<1>7. Side(p)'
  <2>1. ResultsKept(p)
    <3>1. \A n \in DOMAIN results : Withdrawn(n) => Withdrawn(n)'
      BY <1>6 DEF Withdrawn
    <3>2. \A n \in DOMAIN results : results[n].from = p => results'[n] = results[n]
      BY <1>0, <1>1, <1>5 DEF PendingOK
    <3> QED BY <1>0, <3>1, <3>2 DEF ResultsKept
  <2>2. /\ AliveSide(p)' /\ PendingOK(p)'
        /\ InOrder(ends[p].remembered, closings[p])' /\ CompletedOK(p)' /\ ClosedOK(p)'
    BY <1>0, <1>1, <1>2, <1>3, <2>1, PeerKept
  <2> QED BY <1>0, <1>1, <2>2 DEF Side
<1>8. PICK a \in Nat, b \in Nat : a = ends[e].out /\ b = t.out /\ a <= b
  BY <1>0 DEF IInv, TypeOK, States
<1>9. AliveSide(e)'
  <2> SUFFICES ASSUME NEW x \in Nat, NEW n \in Nat, Alive(e, x, n)'
               PROVE  AliveOK(e, x, n)'
    BY DEF AliveSide
  <2>1. AliveOK(e, x, n)
    BY <1>0 DEF IInv, Side, AliveSide
  <2>2. n \in DOMAIN results' /\ x <= b
    BY <1>0, <1>8, <2>1 DEF AliveOK
  <2>3. ASSUME x \in DOMAIN t.pending
        PROVE  t.pending[x] = n
    BY <1>0, <2>1, <2>3 DEF AliveOK
  <2>4. ASSUME x \notin DOMAIN t.pending
        PROVE  Withdrawn(n)' /\ x \in Range(closings'[e])
    <3>1. CASE x \in DOMAIN ends[e].pending
      <4>1. x = id /\ ends[e].pending[id] = n
        BY <1>0, <2>1, <2>4, <3>1 DEF AliveOK
      <4>2. reason # "completed"
        BY <4>1
      <4>3. results'[n].how.reason = reason /\ reason \in {"canceled", "timed-out"}
        BY <1>0, <3>1, <4>1, <4>2
      <4> QED BY <1>3, <4>1, <4>3 DEF Withdrawn, WithdrawnReasons
    <3>2. CASE x \notin DOMAIN ends[e].pending
      <4>1. Withdrawn(n) /\ n \in DOMAIN results /\ x \in Range(closings[e])
        BY <2>1, <3>2 DEF AliveOK
      <4> QED BY <1>3, <1>6, <4>1 DEF Withdrawn
    <3> QED BY <3>1, <3>2
  <2>5. ASSUME NEW c \in Range(t.remembered), c.id = x
        PROVE  c.reason # "completed"
    <3>1. CASE c.id = id /\ c.reason = reason
      BY <2>5, <3>1
    <3>2. CASE c \in Range(ends[e].remembered)
      BY <2>1, <2>5, <3>2 DEF AliveOK
    <3> QED BY <1>0, <3>1, <3>2
  <2> QED BY <1>2, <1>8, <2>2, <2>3, <2>4, <2>5 DEF AliveOK
<1>10. PendingOK(e)'
  <2>1. ASSUME NEW x \in DOMAIN t.pending
        PROVE  /\ x <= b /\ t.pending[x] = ends[e].pending[x]
               /\ x \in DOMAIN ends[e].pending
               /\ t.pending[x] \in DOMAIN results'
               /\ results'[t.pending[x]].from = e
               /\ results'[t.pending[x]].how.reason = "none"
    <3>1. x \in DOMAIN ends[e].pending /\ x # id /\ t.pending[x] = ends[e].pending[x]
      BY <1>0
    <3>2. PICK n : n = ends[e].pending[x]
      OBVIOUS
    <3>3. /\ x \in Nat /\ x <= a /\ n \in DOMAIN results
          /\ results[n].from = e /\ results[n].how.reason = "none"
      BY <1>5, <1>8, <3>1, <3>2, PendingTyped DEF IInv, PendingOK
    <3>4. ~ (id \in DOMAIN ends[e].pending /\ n = ends[e].pending[id])
      BY <1>5, <3>1, <3>2 DEF PendingOK, IsInjective
    <3>5. results'[n] = results[n] /\ n \in DOMAIN results'
      BY <1>0, <3>3, <3>4
    <3>6. x <= b
      BY <1>8, <3>3
    <3> QED BY <3>1, <3>2, <3>3, <3>5, <3>6
  <2>2. IsInjective(t.pending)
    BY <1>5, <2>1 DEF PendingOK, IsInjective
  <2> QED BY <1>2, <1>8, <2>1, <2>2 DEF PendingOK
<1>11. InOrder(ends[e].remembered, closings[e])'
  BY <1>0, <1>2, <1>3
<1>12. CompletedOK(e)'
  <2> SUFFICES ASSUME NEW c \in Range(t.remembered), c.reason = "completed"
               PROVE  c.id <= b
    BY <1>2, <1>8 DEF CompletedOK
  <2>1. CASE c.id = id /\ c.reason = reason
    BY <1>8, <2>1
  <2>2. CASE c \in Range(ends[e].remembered)
    <3>1. c.id \in Nat /\ c.id <= a
      BY <1>8, <2>2, RememberedTyped DEF IInv, Side, CompletedOK
    <3> QED BY <1>8, <3>1
  <2> QED BY <1>0, <2>1, <2>2
<1>13. ClosedOK(e)'
  <2>1. t.session = Open /\ Open.why = "open"
    BY <1>0 DEF IsOpen, Open
  <2> QED BY <1>2, <2>1 DEF ClosedOK, ForgottenOK, IsOpen
<1>14. Side(e)'
  BY <1>0, <1>9, <1>10, <1>11, <1>12, <1>13 DEF Side
<1> QED BY <1>0, <1>1, <1>4, <1>7, <1>14 DEF IInv

\* A result that is settled differs in how it was settled alone.
LEMMA SettledResult ==
  ASSUME IInv, NEW n \in DOMAIN results, NEW how \in Hows
  PROVE  LET r == Settled(n, how) IN
         /\ r \in Seq(Kinds) /\ DOMAIN r = DOMAIN results
         /\ r[n].how = how
         /\ \A k \in DOMAIN results : k # n => r[k] = results[k]
<1>1. PICK q \in Seq(Kinds) : q = results
  BY DEF IInv, TypeOK, Kinds
<1>2. n \in 1..Len(q) /\ DOMAIN q = 1..Len(q) /\ q[n] \in Kinds
  BY <1>1
<1>3. PICK k \in Kinds : k = [q[n] EXCEPT !.how = how] /\ k.how = how
  <2>1. [q[n] EXCEPT !.how = how] \in Kinds /\ [q[n] EXCEPT !.how = how].how = how
    BY <1>2 DEF Kinds
  <2> QED BY <2>1
<1>4. PICK r : r = [q EXCEPT ![n] = k]
  OBVIOUS
<1>5. /\ r \in Seq(Kinds) /\ DOMAIN r = DOMAIN q /\ r[n] = k
      /\ \A i \in DOMAIN q : i # n => r[i] = q[i]
  BY <1>2, <1>4
<1>6. Settled(n, how) = r
  BY <1>1, <1>3, <1>4 DEF Settled
<1> QED BY <1>1, <1>3, <1>5, <1>6

\* A request that is answered under its id is on its way, worked on or answered nowhere else.
LEMMA AnsweredOnce ==
  ASSUME IInv, NEW e \in Ends, NEW t \in States, Becomes(e, t), Takes(e),
         wire[e][1].kind = "response", NEW id \in Nat, id = wire[e][1].replyTo
  PROVE  \A n \in Nat : ~ Alive(e, id, n)'
<1> SUFFICES ASSUME NEW n \in Nat, Alive(e, id, n)'
             PROVE  FALSE
  OBVIOUS
<1>1. PICK p \in Ends : p = Peer(e) /\ Peer(p) = e /\ p # e
  BY PeerFacts
<1>2. ends'[e] = t /\ ends'[p] = ends[p]
  BY <1>1, Becoming DEF IInv, TypeOK
<1>3. /\ wire'[p] = wire[p] /\ 1 \in DOMAIN wire[e]
      /\ \A i \in DOMAIN wire'[e] :
           i \in Nat /\ i > 0 /\ i + 1 \in DOMAIN wire[e] /\ wire'[e][i] = wire[e][i + 1]
  BY <1>1, Taking DEF IInv, TypeOK
<1>4. OnceOK(e) /\ WireOK(p)
  BY <1>1 DEF IInv, Side
<1>5. PICK k \in Nat : k = ends[p].in /\ id <= k /\ id \notin DOMAIN ends[p].inbound
  <2>1. ends[p].in \in Nat
    BY DEF IInv, TypeOK, States
  <2> QED BY <1>1, <1>3, <1>4, <2>1 DEF OnceOK
<1>6. CASE Sent(e, id, n)'
  <2>1. PICK i \in DOMAIN wire[p] : wire[p][i].seq = id
    BY <1>1, <1>3, <1>6 DEF Sent
  <2>2. wire[p][i].seq > k
    BY <1>4, <1>5 DEF WireOK
  <2> QED BY <1>5, <2>1, <2>2
<1>7. CASE WorkedOn(e, id, n)'
  BY <1>1, <1>2, <1>5, <1>7 DEF WorkedOn
<1>8. CASE AnsweredBy(e, id, n)'
  <2>1. PICK i \in DOMAIN wire'[e] : wire'[e][i].kind = "response" /\ wire'[e][i].replyTo = id
    BY <1>8 DEF AnsweredBy
  <2>2. PICK j \in DOMAIN wire[e] : j = i + 1 /\ j # 1 /\ wire[e][j] = wire'[e][i]
    <3>1. i \in Nat /\ i > 0 /\ i + 1 \in DOMAIN wire[e] /\ wire'[e][i] = wire[e][i + 1]
      BY <1>3
    <3>2. i + 1 # 1
      BY <3>1
    <3> QED BY <3>1, <3>2
  <2>3. wire[e][j].kind = "response" /\ wire[e][j].replyTo = id
    BY <2>1, <2>2
  <2> QED BY <1>3, <1>4, <2>2, <2>3 DEF OnceOK
<1> QED BY <1>6, <1>7, <1>8 DEF Alive

\* An answer completes the request it answers, comes late, or ends the session.
LEMMA ReceiveResponseStep ==
  ASSUME IInv, NEW e \in Ends, IsOpen(e), Takes(e),
         NEW m \in Messages, m = wire[e][1], 1 \in DOMAIN wire[e],
         m.seq = ends[e].in + 1, ReceiveResponse(e, m)
  PROVE  IInv'
<1>1. PICK p \in Ends : p = Peer(e) /\ Peer(p) = e /\ p # e /\ \A x \in Ends : x = e \/ x = p
  BY PeerFacts
<1>2. PICK u \in States : u = ends[e]
  BY DEF IInv, TypeOK
<1>3. PICK k \in Nat, id \in Nat, n \in Nat :
        k = m.seq /\ id = m.replyTo /\ n = m.answers /\ m.kind = "response"
  BY MessageTyped DEF ReceiveResponse
<1>4. PICK s \in States : /\ s = [u EXCEPT !.in = k]
                          /\ s.in = k /\ s.out = u.out /\ s.pending = u.pending
                          /\ s.remembered = u.remembered /\ s.inbound = u.inbound
                          /\ s.session = u.session
  BY SetIn, Zenon
<1>5. s = [ends[e] EXCEPT !.in = m.seq]
  BY <1>2, <1>3, <1>4
<1>6. AnsweredBy(e, id, n)
  BY <1>3 DEF AnsweredBy
<1>7. AliveOK(e, id, n)
  BY <1>6 DEF IInv, Side, AliveSide, Alive
<1>8. s.in = ends[e].in + 1
  BY <1>3, <1>4
<1>9. CancelOK(p)
  BY DEF IInv, Side
<1>10. \A i \in DOMAIN s.inbound : s.inbound[i].aborted => i \notin DOMAIN ends[p].pending
  BY <1>1, <1>2, <1>4, <1>9 DEF CancelOK
<1>11. CASE /\ AskedBy(s, m) = {} /\ Late(s, m)
            /\ ends' = [ends EXCEPT ![e] = s]
            /\ UNCHANGED <<results, closings>>
  <2>1. Becomes(e, s)
    BY <1>11 DEF Becomes
  <2>2. ends'[e] = s
    BY <2>1, Becoming DEF IInv, TypeOK
  <2>3. \A x, y \in Nat : WorkedOn(p, x, y)' => Alive(p, x, y)
    BY <1>1, <1>2, <1>4, <2>2 DEF WorkedOn, Alive
  <2>4. \A x \in DOMAIN s.inbound : x \in DOMAIN ends[e].inbound \/ x = s.in
    BY <1>2, <1>4
  <2> QED BY <1>1, <1>2, <1>4, <1>8, <1>10, <1>11, <2>1, <2>3, <2>4, Reading
<1>12. CASE /\ AskedBy(s, m) = {} /\ ~ Late(s, m)
            /\ CloseInternal(e, s, results, [why |-> "correlation", replyTo |-> m.replyTo])
            /\ UNCHANGED closings
  <2>1. PICK session \in Sessions :
          /\ session = [why |-> "correlation", replyTo |-> id]
          /\ session.why = "correlation" /\ session.replyTo = id /\ session # Open
    <3>1. [why |-> "correlation", replyTo |-> id] \in Sessions
      BY DEF Sessions
    <3>2. [why |-> "correlation", replyTo |-> id] # Open
      <4>1. [why |-> "correlation", replyTo |-> id].why # Open.why
        BY DEF Open
      <4> QED BY <4>1
    <3> QED BY <3>1, <3>2
  <2>2. id \notin DOMAIN ends[e].pending
    BY <1>2, <1>3, <1>4, <1>12 DEF AskedBy
  <2>3. id \in Range(closings[e])
    BY <1>7, <2>2 DEF AliveOK
  <2>4. \A i \in DOMAIN s.remembered : s.remembered[i].id # id
    <3> SUFFICES ASSUME NEW i \in DOMAIN ends[e].remembered, ends[e].remembered[i].id = id
                 PROVE  FALSE
      BY <1>2, <1>4
    <3>1. PICK c \in Range(ends[e].remembered) : c = ends[e].remembered[i] /\ c.id = id
      BY DEF Range
    <3>2. c.reason \in {"canceled", "timed-out"}
      BY <1>7, <3>1, RememberedTyped DEF IInv, AliveOK
    <3>3. Late(s, m)
      BY <1>2, <1>3, <1>4, <3>1, <3>2 DEF Late, WithdrawnReasons
    <3> QED BY <1>12, <3>3
  <2>5. CloseInternal(e, s, results, session) /\ closings' = closings
    BY <1>3, <1>12, <2>1
  <2>6. session.why # "sequence" /\ session # Open
    BY <2>1
  <2>7. /\ s.out = ends[e].out /\ s.remembered = ends[e].remembered
        /\ s.pending = ends[e].pending
        /\ s.in \in {ends[e].in, ends[e].in + 1}
    BY <1>2, <1>4, <1>8
  <2>8. session.why = "correlation" =>
          /\ session.replyTo \in Range(closings[e])
          /\ \A i \in DOMAIN s.remembered : s.remembered[i].id # session.replyTo
    BY <2>1, <2>3, <2>4
  <2> QED BY <2>5, <2>6, <2>7, <2>8, ClosingAsItIs
<1>13. CASE \E x \in AskedBy(s, m) :
              /\ ends' = [ends EXCEPT ![e] = SettledPending(s, x, "completed")]
              /\ results' = Settled(s.pending[x],
                                    [reason |-> "completed", answers |-> m.answers])
              /\ closings' = [closings EXCEPT ![e] = Append(@, x)]
  <2>1. /\ id \in DOMAIN u.pending
        /\ ends' = [ends EXCEPT ![e] = SettledPending(s, id, "completed")]
        /\ results' = Settled(u.pending[id], [reason |-> "completed", answers |-> n])
        /\ closings' = [closings EXCEPT ![e] = Append(@, id)]
    BY <1>3, <1>4, <1>13 DEF AskedBy
  <2>2. u.pending[id] = n
    BY <1>2, <1>7, <2>1 DEF AliveOK
  <2>3. PICK C \in Seq(Nat) : C = closings[e]
    BY DEF IInv, TypeOK
  <2>4. InOrder(s.remembered, C)
    BY <1>2, <1>4, <2>3 DEF IInv, Side
  <2>5. PICK t \in States :
          /\ t = SettledPending(s, id, "completed")
          /\ t.out = s.out /\ t.in = s.in
          /\ t.inbound = s.inbound /\ t.session = s.session
          /\ DOMAIN t.pending = DOMAIN s.pending \ {id}
          /\ \A x \in DOMAIN s.pending : x # id => t.pending[x] = s.pending[x]
          /\ InOrder(t.remembered, Append(C, id))
          /\ \A c \in Range(t.remembered) :
               \/ c.id = id /\ c.reason = "completed"
               \/ c \in Range(s.remembered) /\ c.id # id
    BY <2>4, SettledFields
  <2>6. Becomes(e, t)
    BY <2>1, <2>5 DEF Becomes
  <2>7. PICK how \in Hows : /\ how = [reason |-> "completed", answers |-> n]
                            /\ how.answers = n
    <3>1. [reason |-> "completed", answers |-> n] \in Hows
      BY DEF Hows
    <3> QED BY <3>1
  <2>8. /\ n \in DOMAIN results /\ id <= ends[e].out
    BY <1>7 DEF AliveOK
  <2>9. /\ results' \in Seq(Kinds) /\ DOMAIN results' = DOMAIN results
        /\ results'[n].how = how
        /\ \A x \in DOMAIN results : x # n => results'[x] = results[x]
    <3>1. results' = Settled(n, how)
      BY <2>1, <2>2, <2>7
    <3> QED BY <2>8, <3>1, SettledResult
  <2>10. ResultsOK'
    BY <2>7, <2>9 DEF IInv, ResultsOK
  <2>11. /\ wire' \in [Ends -> Seq(Messages)] /\ wire'[p] = wire[p]
    BY <1>1, Shrunk DEF IInv
  <2>12. WireOK(e)' /\ WireOK(p)'
    <3>1. t.in = ends[e].in + 1 /\ t.out = ends[e].out
      BY <1>2, <1>4, <1>8, <2>5
    <3> QED BY <1>1, <2>6, <3>1, WireTaken
  <2>13. OnceOK(e)' /\ OnceOK(p)'
    <3>1. t.in >= ends[e].in
      <4>1. ends[e].in \in Nat
        BY DEF IInv, TypeOK, States
      <4> QED BY <1>8, <2>5, <4>1
    <3>2. \A x \in DOMAIN t.inbound :
            x \in DOMAIN ends[e].inbound \/ (x = t.in /\ x > ends[e].in)
      BY <1>2, <1>4, <2>5
    <3> QED BY <1>1, <2>6, <2>11, <3>1, <3>2, ShrunkOnce, WorkedOnOnce
  <2>14. CancelOK(e)' /\ CancelOK(p)'
    <3>1. /\ t.out = ends[e].out /\ DOMAIN t.pending \subseteq DOMAIN ends[e].pending
          /\ \A i \in DOMAIN t.inbound :
               t.inbound[i].aborted => i \notin DOMAIN ends[p].pending
      BY <1>2, <1>4, <1>10, <2>5
    <3> QED BY <1>1, <2>6, <3>1, ShrunkCancel
  <2>15. ends'[e] = t /\ ends'[p] = ends[p]
    BY <1>1, <2>6, Becoming DEF IInv, TypeOK
  <2>16. \A x, y \in Nat : Alive(e, x, y)' => Alive(e, x, y)
    BY <1>1, <2>15, ShrunkAlive DEF IInv, Alive, WorkedOn
  <2>17. \A x, y \in Nat : Alive(p, x, y)' => Alive(p, x, y)
    <3>1. /\ \A x, y \in Nat : Sent(p, x, y)' => Sent(p, x, y)
          /\ \A x, y \in Nat : AnsweredBy(p, x, y)' => AnsweredBy(p, x, y)
      BY <1>1, ShrunkAlive DEF IInv
    <3>2. \A x, y \in Nat : WorkedOn(p, x, y)' => WorkedOn(p, x, y)
      BY <1>1, <1>2, <1>4, <2>5, <2>15 DEF WorkedOn
    <3> QED BY <3>1, <3>2 DEF Alive
  <2>18. \A y \in Nat : ~ Alive(e, id, y)'
    BY <1>3, <2>6, AnsweredOnce
  <2>19. t.out >= ends[e].out /\ t.session = ends[e].session
    <3>1. ends[e].out \in Nat
      BY DEF IInv, TypeOK, States
    <3> QED BY <1>2, <1>4, <2>5, <3>1
  <2>20. /\ DOMAIN t.pending = DOMAIN ends[e].pending \ {id}
         /\ \A x \in DOMAIN ends[e].pending : x # id => t.pending[x] = ends[e].pending[x]
         /\ InOrder(t.remembered, Append(closings[e], id))
         /\ \A c \in Range(t.remembered) :
              \/ c.id = id /\ c.reason = "completed"
              \/ c \in Range(ends[e].remembered) /\ c.id # id
    <3>1. s.pending = ends[e].pending /\ s.remembered = ends[e].remembered
      BY <1>2, <1>4
    <3> QED BY <2>3, <2>5, <3>1, Zenon
  <2>21. \A x \in DOMAIN results :
           \/ results'[x] = results[x]
           \/ id \in DOMAIN ends[e].pending /\ x = ends[e].pending[id]
    BY <1>2, <2>1, <2>2, <2>9
  <2>22. PICK reason \in {"canceled", "timed-out", "completed"} : reason = "completed"
    OBVIOUS
  <2>23. /\ \A c \in Range(t.remembered) :
              \/ c.id = id /\ c.reason = reason
              \/ c \in Range(ends[e].remembered) /\ c.id # id
         /\ reason = "completed" => id <= ends[e].out /\ \A y \in Nat : ~ Alive(e, id, y)'
         /\ reason # "completed" /\ id \in DOMAIN ends[e].pending =>
              results'[ends[e].pending[id]].how.reason = reason
    BY <2>8, <2>18, <2>20, <2>22
  <2>24. DOMAIN results \subseteq DOMAIN results'
    BY <2>9
  <2>25. MessagesKept
    BY <1>1, <2>11, <2>12, <2>13, <2>14, <2>16, <2>17 DEF MessagesKept
  <2>26. IsSettled(e, t, id, reason)
    BY <2>1, <2>19, <2>20, <2>22 DEF IsSettled
  <2>27. OneResult(e, id, reason)
    BY <2>9, <2>10, <2>21, <2>23, <2>24 DEF OneResult
  <2> QED BY <2>6, <2>23, <2>25, <2>26, <2>27, Settling
<1> QED BY <1>5, <1>11, <1>12, <1>13 DEF ReceiveResponse

\* A message that is sent makes no answer and no request disappear, or appear unless it is one.
LEMMA SentAlive ==
  ASSUME TypeOK, NEW e \in Ends, NEW m \in Messages, Sends(e, m)
  PROVE  /\ m.kind # "request" => \A id, n \in Nat : Sent(e, id, n)' => Sent(e, id, n)
         /\ \A id, n \in Nat : AnsweredBy(e, id, n)' => AnsweredBy(e, id, n)
         /\ \A id, n \in Nat : Sent(Peer(e), id, n)' => Sent(Peer(e), id, n)
         /\ m.kind # "response" =>
              \A id, n \in Nat : AnsweredBy(Peer(e), id, n)' => AnsweredBy(Peer(e), id, n)
         /\ \A id, n \in Nat : Sent(e, id, n)' =>
              Sent(e, id, n) \/ (m.kind = "request" /\ m.seq = id /\ m.asks = n)
         /\ \A id, n \in Nat : AnsweredBy(Peer(e), id, n)' =>
              \/ AnsweredBy(Peer(e), id, n)
              \/ m.kind = "response" /\ m.replyTo = id /\ m.answers = n
<1>1. PICK p \in Ends : p = Peer(e) /\ Peer(p) = e
  BY PeerFacts
<1>2. /\ wire'[e] = wire[e]
      /\ \A i \in DOMAIN wire'[p] :
           \/ i \in DOMAIN wire[p] /\ wire'[p][i] = wire[p][i]
           \/ wire'[p][i] = m
  BY <1>1, Sending DEF TypeOK
<1>3. \A id, n \in Nat : AnsweredBy(e, id, n)' => AnsweredBy(e, id, n)
  BY <1>2 DEF AnsweredBy
<1>4. \A id, n \in Nat : Sent(p, id, n)' => Sent(p, id, n)
  BY <1>1, <1>2 DEF Sent
<1>5. \A id, n \in Nat : Sent(e, id, n)' =>
        Sent(e, id, n) \/ (m.kind = "request" /\ m.seq = id /\ m.asks = n)
  BY <1>1, <1>2 DEF Sent
<1>6. \A id, n \in Nat : AnsweredBy(p, id, n)' =>
        \/ AnsweredBy(p, id, n)
        \/ m.kind = "response" /\ m.replyTo = id /\ m.answers = n
  BY <1>2 DEF AnsweredBy
<1> QED BY <1>1, <1>3, <1>4, <1>5, <1>6

\* A message that is not an answer leaves the answers apart.
LEMMA SentOnce ==
  ASSUME IInv, NEW e \in Ends, NEW t \in States, Becomes(e, t),
         NEW m \in Messages, Sends(e, m), m.kind # "response",
         t.in = ends[e].in, t.inbound = ends[e].inbound
  PROVE  OnceOK(e)' /\ OnceOK(Peer(e))'
<1>1. PICK p \in Ends : p = Peer(e) /\ Peer(p) = e /\ p # e
  BY PeerFacts
<1>2. ends'[e] = t /\ ends'[p] = ends[p]
  BY <1>1, Becoming DEF IInv, TypeOK
<1>3. /\ wire'[e] = wire[e]
      /\ \A i \in DOMAIN wire'[p] : wire'[p][i].kind = "response" =>
           i \in DOMAIN wire[p] /\ wire'[p][i] = wire[p][i]
  BY <1>1, Sending DEF IInv, TypeOK
<1>4. OnceOK(e) /\ OnceOK(p)
  BY DEF IInv, Side
<1>5. OnceOK(e)'
  BY <1>1, <1>2, <1>3, <1>4 DEF OnceOK
<1>6. OnceOK(p)'
  <2>1. \A id \in DOMAIN t.inbound : id <= t.in
    BY <1>1, <1>4 DEF OnceOK
  <2>2. ASSUME NEW i \in DOMAIN wire'[p], wire'[p][i].kind = "response"
        PROVE  /\ wire'[p][i].replyTo <= t.in /\ wire'[p][i].replyTo \notin DOMAIN t.inbound
    BY <1>1, <1>3, <1>4, <2>2 DEF OnceOK
  <2>3. ASSUME NEW i \in DOMAIN wire'[p], wire'[p][i].kind = "response",
               NEW j \in DOMAIN wire'[p], wire'[p][j].kind = "response", j # i
        PROVE  wire'[p][j].replyTo # wire'[p][i].replyTo
    <3>1. /\ i \in DOMAIN wire[p] /\ wire'[p][i] = wire[p][i]
          /\ j \in DOMAIN wire[p] /\ wire'[p][j] = wire[p][j]
      BY <1>3, <2>3
    <3> QED BY <1>4, <2>3, <3>1 DEF OnceOK
  <2> QED BY <1>1, <1>2, <2>1, <2>2, <2>3 DEF OnceOK
<1> QED BY <1>1, <1>5, <1>6

\* A timer or a signal settles a request, and the peer is told.
LEMMA WithdrawStep ==
  ASSUME IInv, NEW e \in Ends, Withdraw(e)
  PROVE  IInv'
<1>1. PICK p \in Ends : p = Peer(e) /\ Peer(p) = e /\ p # e /\ \A x \in Ends : x = e \/ x = p
  BY PeerFacts
<1>2. PICK s \in States : s = ends[e]
  BY DEF IInv, TypeOK
<1>3. PICK id \in DOMAIN s.pending, reason \in {"timed-out", "canceled"} :
        \/ /\ Transmit(e, SettledPending(s, id, reason),
                       [seq |-> NextId(s), kind |-> "cancel", of |-> id])
           /\ results' = Settled(s.pending[id], [reason |-> reason])
           /\ closings' = [closings EXCEPT ![e] = Append(@, id)]
        \/ SendFails(e, s, results)
  BY <1>2 DEF Withdraw
<1>4. CASE SendFails(e, s, results)
  BY <1>2, <1>4, SendFailsStep
<1>5. CASE /\ Transmit(e, SettledPending(s, id, reason),
                       [seq |-> NextId(s), kind |-> "cancel", of |-> id])
           /\ results' = Settled(s.pending[id], [reason |-> reason])
           /\ closings' = [closings EXCEPT ![e] = Append(@, id)]
  <2>1. PICK n \in Nat : n = s.pending[id] /\ id \in Nat
    BY <1>2, PendingTyped DEF IInv
  <2>2. PendingOK(e) /\ CancelOK(e) /\ CancelOK(p) /\ ClosedOK(e)
    BY DEF IInv, Side
  <2>3. IsOpen(e)
    BY <1>2, <2>2 DEF ClosedOK
  <2>4. n \in DOMAIN results /\ id <= ends[e].out
    BY <1>2, <2>1, <2>2 DEF PendingOK
  <2>5. PICK C \in Seq(Nat) : C = closings[e]
    BY DEF IInv, TypeOK
  <2>6. InOrder(s.remembered, C)
    BY <1>2, <2>5 DEF IInv, Side
  <2>7. PICK why \in {"canceled", "timed-out", "completed"} : why = reason /\ why # "completed"
    OBVIOUS
  <2>8. PICK u \in States :
          /\ u = SettledPending(s, id, why)
          /\ u.out = s.out /\ u.in = s.in
          /\ u.inbound = s.inbound /\ u.session = s.session
          /\ DOMAIN u.pending = DOMAIN s.pending \ {id}
          /\ \A x \in DOMAIN s.pending : x # id => u.pending[x] = s.pending[x]
          /\ InOrder(u.remembered, Append(C, id))
          /\ \A c \in Range(u.remembered) :
               \/ c.id = id /\ c.reason = why
               \/ c \in Range(s.remembered) /\ c.id # id
    BY <2>1, <2>6, SettledFields
  <2>9. PICK k \in Nat : k = s.out + 1 /\ k >= s.out /\ k = NextId(s)
    <3>1. s.out \in Nat
      BY DEF States
    <3> QED BY <3>1 DEF NextId
  <2>10. PICK t \in States : /\ t = [u EXCEPT !.out = k] /\ t.out = k
                             /\ t.in = u.in /\ t.pending = u.pending
                             /\ t.remembered = u.remembered /\ t.inbound = u.inbound
                             /\ t.session = u.session
    <3>1. LET x == [u EXCEPT !.out = k] IN
          /\ x \in States /\ x.out = k
          /\ x.in = u.in /\ x.pending = u.pending
          /\ x.remembered = u.remembered /\ x.inbound = u.inbound
          /\ x.session = u.session
      BY SetOut, Zenon
    <3> QED BY <3>1, Zenon
  <2>11. PICK m \in Messages : /\ m = [seq |-> k, kind |-> "cancel", of |-> id]
                               /\ m.seq = k /\ m.kind = "cancel" /\ m.of = id
    <3>1. [seq |-> k, kind |-> "cancel", of |-> id] \in Messages
      BY <2>1 DEF Messages
    <3> QED BY <3>1
  <2>12. Becomes(e, t) /\ Sends(e, m)
    <3>1. t = [u EXCEPT !.out = @ + 1]
      BY <2>8, <2>9, <2>10
    <3>2. Transmit(e, u, m)
      BY <1>5, <2>7, <2>8, <2>9, <2>11
    <3> QED BY <3>1, <3>2 DEF Transmit, Becomes, Sends
  <2>13. ends'[e] = t /\ ends'[p] = ends[p]
    BY <1>1, <2>12, Becoming DEF IInv, TypeOK
  <2>14. /\ wire' \in [Ends -> Seq(Messages)] /\ wire'[e] = wire[e]
         /\ \A i \in DOMAIN wire'[p] :
              \/ i \in DOMAIN wire[p] /\ wire'[p][i] = wire[p][i]
              \/ wire'[p][i] = m
    BY <1>1, <2>12, Sending DEF IInv, TypeOK
  <2>15. WireOK(e)' /\ WireOK(p)'
    <3>1. /\ m.seq = t.out /\ t.out = ends[e].out + 1 /\ t.in = ends[e].in
      BY <1>2, <2>8, <2>9, <2>10, <2>11
    <3> QED BY <1>1, <2>3, <2>12, <3>1, WireSent
  <2>16. OnceOK(e)' /\ OnceOK(p)'
    <3>1. t.in = ends[e].in /\ t.inbound = ends[e].inbound
      BY <1>2, <2>8, <2>10
    <3> QED BY <1>1, <2>11, <2>12, <3>1, SentOnce
  <2>17. CancelOK(e)'
    <3>1. ASSUME NEW i \in DOMAIN wire'[p], wire'[p][i].kind = "cancel"
          PROVE  wire'[p][i].of <= t.out /\ wire'[p][i].of \notin DOMAIN t.pending
      <4>1. CASE i \in DOMAIN wire[p] /\ wire'[p][i] = wire[p][i]
        <5>1. PICK x \in Nat : x = wire[p][i].of
          BY <3>1, <4>1, Numbered, MessageTyped DEF IInv
        <5>2. x <= s.out /\ x \notin DOMAIN s.pending
          BY <1>1, <1>2, <2>2, <3>1, <4>1, <5>1 DEF CancelOK
        <5>3. s.out \in Nat
          BY DEF States
        <5>4. x <= k
          BY <2>9, <5>2, <5>3
        <5> QED BY <2>8, <2>10, <4>1, <5>1, <5>2, <5>4
      <4>2. CASE wire'[p][i] = m
        <5>1. s.out \in Nat
          BY DEF States
        <5>2. id <= k
          BY <1>2, <2>1, <2>4, <2>9, <5>1
        <5> QED BY <2>8, <2>10, <2>11, <4>2, <5>2
      <4> QED BY <2>14, <4>1, <4>2
    <3>2. \A x \in DOMAIN ends[p].inbound :
            ends[p].inbound[x].aborted => x \notin DOMAIN t.pending
      BY <1>1, <1>2, <2>2, <2>8, <2>10 DEF CancelOK
    <3> QED BY <1>1, <2>13, <3>1, <3>2 DEF CancelOK
  <2>18. CancelOK(p)'
    BY <1>1, <1>2, <2>2, <2>8, <2>10, <2>13, <2>14 DEF CancelOK
  <2>19. \A x, y \in Nat : Alive(e, x, y)' => Alive(e, x, y)
    <3>1. /\ \A x, y \in Nat : Sent(e, x, y)' => Sent(e, x, y)
          /\ \A x, y \in Nat : AnsweredBy(e, x, y)' => AnsweredBy(e, x, y)
      BY <2>11, <2>12, SentAlive DEF IInv
    <3>2. \A x, y \in Nat : WorkedOn(e, x, y)' => WorkedOn(e, x, y)
      BY <1>1, <2>13 DEF WorkedOn
    <3> QED BY <3>1, <3>2 DEF Alive
  <2>20. \A x, y \in Nat : Alive(p, x, y)' => Alive(p, x, y)
    <3>1. /\ \A x, y \in Nat : Sent(p, x, y)' => Sent(p, x, y)
          /\ \A x, y \in Nat : AnsweredBy(p, x, y)' => AnsweredBy(p, x, y)
      BY <1>1, <2>11, <2>12, SentAlive DEF IInv
    <3>2. \A x, y \in Nat : WorkedOn(p, x, y)' => WorkedOn(p, x, y)
      BY <1>1, <1>2, <2>8, <2>10, <2>13 DEF WorkedOn
    <3> QED BY <3>1, <3>2 DEF Alive
  <2>21. MessagesKept
    BY <1>1, <2>14, <2>15, <2>16, <2>17, <2>18, <2>19, <2>20 DEF MessagesKept
  <2>22. IsSettled(e, t, id, why)
    <3>1. /\ t.out >= ends[e].out /\ t.session = ends[e].session
          /\ DOMAIN t.pending = DOMAIN ends[e].pending \ {id}
          /\ \A x \in DOMAIN ends[e].pending : x # id => t.pending[x] = ends[e].pending[x]
      BY <1>2, <2>8, <2>9, <2>10
    <3>2. /\ InOrder(t.remembered, Append(closings[e], id))
          /\ \A c \in Range(t.remembered) :
               \/ c.id = id /\ c.reason = why
               \/ c \in Range(ends[e].remembered) /\ c.id # id
      BY <1>2, <2>5, <2>8, <2>10
    <3> QED BY <1>5, <3>1, <3>2 DEF IsSettled
  <2>23. PICK how \in Hows : how = [reason |-> why] /\ how.reason = why
    <3>1. [reason |-> why] \in Hows
      BY <2>7 DEF Hows
    <3> QED BY <3>1
  <2>24. /\ results' \in Seq(Kinds) /\ DOMAIN results' = DOMAIN results
         /\ results'[n].how = how
         /\ \A x \in DOMAIN results : x # n => results'[x] = results[x]
    <3>1. results' = Settled(n, how)
      BY <1>5, <2>1, <2>7, <2>23
    <3> QED BY <2>4, <3>1, SettledResult
  <2>25. OneResult(e, id, why)
    <3>1. ResultsOK'
      BY <2>7, <2>23, <2>24 DEF IInv, ResultsOK
    <3>2. id \in DOMAIN ends[e].pending /\ n = ends[e].pending[id]
      BY <1>2, <2>1
    <3> QED BY <2>23, <2>24, <3>1, <3>2 DEF OneResult
  <2> QED BY <2>1, <2>3, <2>7, <2>12, <2>21, <2>22, <2>25, Settling
<1> QED BY <1>3, <1>4, <1>5

-----------------------------------------------------------------------------
(* The steps that ask *)

\* Endpoint e waits for question n under id in state w; the results are then rs.
Asked(e, how, id, n, w, rs) ==
  /\ id = NextId(ends[e]) /\ id = ends[e].out + 1 /\ n = Len(results) + 1
  /\ w = [ends[e] EXCEPT !.pending = Put(@, id, n)]
  /\ w.out = ends[e].out /\ w.in = ends[e].in /\ w.inbound = ends[e].inbound
  /\ w.remembered = ends[e].remembered /\ w.session = ends[e].session
  /\ DOMAIN w.pending = DOMAIN ends[e].pending \cup {id} /\ w.pending[id] = n
  /\ id \notin DOMAIN ends[e].pending
  /\ \A x \in DOMAIN ends[e].pending : w.pending[x] = ends[e].pending[x]
  /\ rs = Append(results, [from |-> e, how |-> how])
  /\ DOMAIN rs = DOMAIN results \cup {n} /\ n \notin DOMAIN results
  /\ rs[n].from = e /\ rs[n].how = how
  /\ \A x \in DOMAIN results : rs[x] = results[x]

\* A new question has a new number, in the session and among all.
LEMMA Asking ==
  ASSUME IInv, NEW e \in Ends, NEW how \in Hows
  PROVE  \E id \in Nat, n \in Nat, w \in States, rs \in Seq(Kinds) : Asked(e, how, id, n, w, rs)
<1>1. PICK s \in States : s = ends[e]
  BY DEF IInv, TypeOK
<1>2. PICK id \in Nat : id = NextId(s) /\ id = s.out + 1
  <2>1. s.out \in Nat
    BY DEF States
  <2> QED BY <2>1 DEF NextId
<1>3. PICK q \in Seq(Kinds) : q = results
  BY DEF IInv, TypeOK, Kinds
<1>4. PICK n \in Nat : n = Len(q) + 1
  OBVIOUS
<1>5. PICK p \in Maps(Nat) : p = s.pending
  BY DEF States
<1>6. PICK f \in Maps(Nat) :
        /\ f = Put(p, id, n) /\ DOMAIN f = DOMAIN p \cup {id}
        /\ f[id] = n /\ \A z \in DOMAIN p : z # id => f[z] = p[z]
  <2>1. /\ Put(p, id, n) \in Maps(Nat) /\ DOMAIN Put(p, id, n) = DOMAIN p \cup {id}
        /\ Put(p, id, n)[id] = n
        /\ \A z \in DOMAIN p : z # id => Put(p, id, n)[z] = p[z]
    BY MoreNumbers, Zenon
  <2> QED BY <2>1, Zenon
<1>7. PICK w \in States : /\ w = [s EXCEPT !.pending = f]
                          /\ w.pending = f /\ w.in = s.in /\ w.out = s.out
                          /\ w.remembered = s.remembered /\ w.inbound = s.inbound
                          /\ w.session = s.session
  BY SetPending, Zenon
<1>8. w = [ends[e] EXCEPT !.pending = Put(@, id, n)]
  BY <1>1, <1>5, <1>6, <1>7
<1>9. id \notin DOMAIN p
  <2>1. \A x \in DOMAIN p : x \in Nat /\ x <= s.out
    BY <1>1, <1>5, PendingTyped DEF IInv, Side, PendingOK
  <2>2. s.out \in Nat
    BY DEF States
  <2> QED BY <1>2, <2>1, <2>2
<1>10. PICK k \in Kinds : k = [from |-> e, how |-> how] /\ k.from = e /\ k.how = how
  <2>1. [from |-> e, how |-> how] \in Kinds
    BY DEF Kinds
  <2> QED BY <2>1
<1>11. PICK rs \in Seq(Kinds) :
         /\ rs = Append(q, k) /\ DOMAIN rs = DOMAIN q \cup {n} /\ n \notin DOMAIN q
         /\ rs[n] = k /\ \A x \in DOMAIN q : rs[x] = q[x]
  <2>1. PICK rs : rs = Append(q, k)
    OBVIOUS
  <2>2. /\ rs \in Seq(Kinds) /\ Len(q) \in Nat
        /\ DOMAIN rs = 1..(Len(q) + 1) /\ DOMAIN q = 1..Len(q)
        /\ rs[Len(q) + 1] = k /\ \A x \in 1..Len(q) : rs[x] = q[x]
    BY <2>1
  <2>3. DOMAIN rs = DOMAIN q \cup {n} /\ n \notin DOMAIN q
    BY <1>4, <2>2
  <2> QED BY <1>4, <2>1, <2>2, <2>3
<1>12. /\ DOMAIN w.pending = DOMAIN ends[e].pending \cup {id} /\ w.pending[id] = n
       /\ id \notin DOMAIN ends[e].pending
       /\ \A x \in DOMAIN ends[e].pending : w.pending[x] = ends[e].pending[x]
  BY <1>1, <1>5, <1>6, <1>7, <1>9
<1>13. /\ rs = Append(results, [from |-> e, how |-> how])
       /\ DOMAIN rs = DOMAIN results \cup {n} /\ n \notin DOMAIN results
       /\ rs[n].from = e /\ rs[n].how = how
       /\ \A x \in DOMAIN results : rs[x] = results[x]
  BY <1>3, <1>10, <1>11
<1>14. id = NextId(ends[e]) /\ id = ends[e].out + 1 /\ n = Len(results) + 1
  BY <1>1, <1>2, <1>3, <1>4
<1>15. /\ w.out = ends[e].out /\ w.in = ends[e].in /\ w.inbound = ends[e].inbound
       /\ w.remembered = ends[e].remembered /\ w.session = ends[e].session
  BY <1>1, <1>7
<1>16. Asked(e, how, id, n, w, rs)
  BY <1>8, <1>12, <1>13, <1>14, <1>15 DEF Asked
<1> QED BY <1>16

\* A question whose message cannot be encoded is withdrawn at once.
LEMMA RequestUnencodableStep ==
  ASSUME IInv, NEW e \in Ends, RequestUnencodable(e)
  PROVE  IInv'
<1>1. PICK p \in Ends : p = Peer(e) /\ Peer(p) = e /\ p # e /\ \A x \in Ends : x = e \/ x = p
  BY PeerFacts
<1>2. PICK how \in Hows : how = [reason |-> "canceled"] /\ how.reason = "canceled"
  <2>1. [reason |-> "canceled"] \in Hows
    BY DEF Hows
  <2> QED BY <2>1
<1>0. PICK id \in Nat, n \in Nat, w \in States, rs \in Seq(Kinds) : Asked(e, how, id, n, w, rs)
  BY Asking
<1>3. /\ id = NextId(ends[e]) /\ id = ends[e].out + 1 /\ n = Len(results) + 1
      /\ w = [ends[e] EXCEPT !.pending = Put(@, id, n)]
      /\ w.out = ends[e].out /\ w.in = ends[e].in /\ w.inbound = ends[e].inbound
      /\ w.remembered = ends[e].remembered /\ w.session = ends[e].session
      /\ DOMAIN w.pending = DOMAIN ends[e].pending \cup {id} /\ w.pending[id] = n
      /\ id \notin DOMAIN ends[e].pending
      /\ \A x \in DOMAIN ends[e].pending : w.pending[x] = ends[e].pending[x]
      /\ rs = Append(results, [from |-> e, how |-> how])
      /\ DOMAIN rs = DOMAIN results \cup {n} /\ n \notin DOMAIN results
      /\ rs[n].from = e /\ rs[n].how = how
      /\ \A x \in DOMAIN results : rs[x] = results[x]
  BY <1>0 DEF Asked
<1>4. /\ IsOpen(e) /\ wire' = wire /\ results' = rs
      /\ closings' = [closings EXCEPT ![e] = Append(@, id)]
      /\ ends' = [ends EXCEPT ![e] = SettledPending(w, id, "canceled")]
  BY <1>2, <1>3 DEF RequestUnencodable, NotEncoded
<1>5. PICK C \in Seq(Nat) : C = closings[e]
  BY DEF IInv, TypeOK
<1>6. InOrder(w.remembered, C)
  BY <1>3, <1>5 DEF IInv, Side
<1>7. PICK why \in {"canceled", "timed-out", "completed"} : why = "canceled"
  OBVIOUS
<1>8. PICK t \in States :
        /\ t = SettledPending(w, id, why)
        /\ t.out = w.out /\ t.in = w.in
        /\ t.inbound = w.inbound /\ t.session = w.session
        /\ DOMAIN t.pending = DOMAIN w.pending \ {id}
        /\ \A x \in DOMAIN w.pending : x # id => t.pending[x] = w.pending[x]
        /\ InOrder(t.remembered, Append(C, id))
        /\ \A c \in Range(t.remembered) :
             \/ c.id = id /\ c.reason = why
             \/ c \in Range(w.remembered) /\ c.id # id
  BY <1>6, SettledFields
<1>9. Becomes(e, t)
  BY <1>4, <1>7, <1>8 DEF Becomes
<1>10. /\ t.out = ends[e].out /\ t.in = ends[e].in /\ t.inbound = ends[e].inbound
       /\ t.session = ends[e].session
       /\ DOMAIN t.pending = DOMAIN ends[e].pending \ {id}
       /\ \A x \in DOMAIN ends[e].pending : x # id => t.pending[x] = ends[e].pending[x]
  <2>1. /\ t.out = ends[e].out /\ t.in = ends[e].in /\ t.inbound = ends[e].inbound
        /\ t.session = ends[e].session
    BY <1>3, <1>8, Zenon
  <2>2. \A x \in DOMAIN ends[e].pending :
          x # id => x \in DOMAIN w.pending /\ w.pending[x] = ends[e].pending[x]
    BY <1>3
  <2>3. \A x \in DOMAIN ends[e].pending : x # id => t.pending[x] = ends[e].pending[x]
    BY <1>8, <2>2, Zenon
  <2>4. DOMAIN t.pending = DOMAIN w.pending \ {id}
    BY <1>8, Zenon
  <2>5. (DOMAIN ends[e].pending \cup {id}) \ {id} = DOMAIN ends[e].pending \ {id}
    OBVIOUS
  <2>6. DOMAIN t.pending = DOMAIN ends[e].pending \ {id}
    BY <1>3, <2>4, <2>5, Zenon
  <2> QED BY <2>1, <2>3, <2>6, Zenon
<1>11. ends'[e] = t /\ ends'[p] = ends[p]
  BY <1>1, <1>9, Becoming DEF IInv, TypeOK
<1>12. ends[e].out \in Nat /\ ends[e].in \in Nat
  BY DEF IInv, TypeOK, States
<1>13. WireOK(e)' /\ WireOK(p)'
  BY <1>1, <1>4, <1>9, <1>10, WireSame
<1>14. OnceOK(e)' /\ OnceOK(p)'
  <2>1. t.in >= ends[e].in
    BY <1>10, <1>12
  <2>2. \A x \in DOMAIN t.inbound :
          x \in DOMAIN ends[e].inbound \/ (x = t.in /\ x > ends[e].in)
    BY <1>10
  <2>3. wire'[Peer(e)] = wire[Peer(e)]
    BY <1>4
  <2> QED BY <1>1, <1>4, <1>9, <2>1, <2>2, <2>3, ShrunkOnce, WorkedOnOnce
<1>15. CancelOK(e)' /\ CancelOK(p)'
  <2>1. CancelOK(p)
    BY DEF IInv, Side
  <2>2. \A i \in DOMAIN t.inbound : t.inbound[i].aborted => i \notin DOMAIN ends[p].pending
    BY <1>1, <1>10, <2>1 DEF CancelOK
  <2>3. DOMAIN t.pending \subseteq DOMAIN ends[e].pending
    BY <1>10
  <2> QED BY <1>1, <1>4, <1>9, <1>10, <2>2, <2>3, ShrunkCancel
<1>16. \A x \in Ends, y, z \in Nat : Alive(x, y, z)' => Alive(x, y, z)
  <2>1. \A y, z \in Nat : Alive(e, y, z)' => Alive(e, y, z)
    BY <1>1, <1>4, <1>11 DEF Alive, Sent, WorkedOn, AnsweredBy
  <2>2. \A y, z \in Nat : Alive(p, y, z)' => Alive(p, y, z)
    BY <1>1, <1>4, <1>10, <1>11 DEF Alive, Sent, WorkedOn, AnsweredBy
  <2> QED BY <1>1, <2>1, <2>2
<1>17. MessagesKept
  BY <1>1, <1>4, <1>13, <1>14, <1>15, <1>16 DEF MessagesKept, IInv, TypeOK
<1>18. IsSettled(e, t, id, why)
  <2>1. t.out >= ends[e].out
    BY <1>10, <1>12
  <2>2. /\ InOrder(t.remembered, Append(closings[e], id))
        /\ \A c \in Range(t.remembered) :
             \/ c.id = id /\ c.reason = why
             \/ c \in Range(ends[e].remembered) /\ c.id # id
    BY <1>3, <1>5, <1>8
  <2> QED BY <1>4, <1>10, <2>1, <2>2 DEF IsSettled
<1>19. OneResult(e, id, why)
  <2>1. ResultsOK'
    BY <1>2, <1>3, <1>4 DEF IInv, ResultsOK
  <2> QED BY <1>3, <1>4, <2>1 DEF OneResult
<1> QED BY <1>4, <1>7, <1>9, <1>17, <1>18, <1>19, Settling

\* The port throws while a question is sent.
LEMMA RequestFailsStep ==
  ASSUME IInv, NEW e \in Ends, NEW how \in Hows,
         NEW id \in Nat, NEW n \in Nat, NEW w \in States, NEW rs \in Seq(Kinds),
         Asked(e, how, id, n, w, rs), SendFails(e, w, rs)
  PROVE  IInv'
<1>1. PICK session \in Sessions : session = [why |-> "transport"]
  BY DEF Sessions
<1>2. session # Open /\ session.why # "sequence" /\ session.why # "correlation"
  BY <1>1 DEF Open
<1>3. CloseInternal(e, w, rs, session) /\ wire' = wire /\ closings' = closings
  BY <1>1 DEF SendFails
<1>4. /\ w.out = ends[e].out /\ w.in = ends[e].in /\ w.remembered = ends[e].remembered
      /\ DOMAIN w.pending = DOMAIN ends[e].pending \cup {id} /\ w.pending[id] = n
      /\ \A x \in DOMAIN ends[e].pending : w.pending[x] = ends[e].pending[x]
      /\ DOMAIN rs = DOMAIN results \cup {n} /\ n \notin DOMAIN results
      /\ \A x \in DOMAIN results : rs[x] = results[x]
  BY DEF Asked
<1>5. \A x \in DOMAIN rs : x \in DOMAIN results \/ x \in Range(w.pending)
  BY <1>4 DEF Range
<1>6. \A x \in Range(w.pending) : x \in DOMAIN results => results[x].from = e
  <2>1. PendingOK(e)
    BY DEF IInv, Side
  <2>2. \A i \in DOMAIN w.pending : w.pending[i] \in DOMAIN results =>
          results[w.pending[i]].from = e
    BY <1>4, <2>1 DEF PendingOK
  <2> QED BY <2>2 DEF Range
<1>7. \A i \in DOMAIN ends[e].pending : ends[e].pending[i] \in Range(w.pending)
  <2> SUFFICES ASSUME NEW i \in DOMAIN ends[e].pending
               PROVE  ends[e].pending[i] \in Range(w.pending)
    OBVIOUS
  <2>1. i \in DOMAIN w.pending /\ w.pending[i] = ends[e].pending[i]
    BY <1>4
  <2> QED BY <2>1 DEF Range
<1>8. DOMAIN results \subseteq DOMAIN rs
  BY <1>4
<1> QED BY <1>2, <1>3, <1>4, <1>5, <1>6, <1>7, <1>8, Closing

\* A question is asked.
LEMMA RequestStep ==
  ASSUME IInv, NEW e \in Ends, Request(e)
  PROVE  IInv'
<1>1. PICK p \in Ends : p = Peer(e) /\ Peer(p) = e /\ p # e /\ \A x \in Ends : x = e \/ x = p
  BY PeerFacts
<1>2. PICK how \in Hows : how = [reason |-> "none"] /\ how.reason = "none"
  <2>1. [reason |-> "none"] \in Hows
    BY DEF Hows
  <2> QED BY <2>1
<1>3. PICK id \in Nat, n \in Nat, w \in States, rs \in Seq(Kinds) : Asked(e, how, id, n, w, rs)
  BY Asking
<1>4. /\ id = NextId(ends[e]) /\ id = ends[e].out + 1 /\ n = Len(results) + 1
      /\ w = [ends[e] EXCEPT !.pending = Put(@, id, n)]
      /\ w.out = ends[e].out /\ w.in = ends[e].in /\ w.inbound = ends[e].inbound
      /\ w.remembered = ends[e].remembered /\ w.session = ends[e].session
      /\ DOMAIN w.pending = DOMAIN ends[e].pending \cup {id} /\ w.pending[id] = n
      /\ id \notin DOMAIN ends[e].pending
      /\ \A x \in DOMAIN ends[e].pending : w.pending[x] = ends[e].pending[x]
      /\ rs = Append(results, [from |-> e, how |-> how])
      /\ DOMAIN rs = DOMAIN results \cup {n} /\ n \notin DOMAIN results
      /\ rs[n].from = e /\ rs[n].how = how
      /\ \A x \in DOMAIN results : rs[x] = results[x]
  BY <1>3 DEF Asked
<1>5. /\ IsOpen(e)
      /\ \/ /\ Transmit(e, w, [seq |-> id, kind |-> "request", asks |-> n])
            /\ results' = rs /\ closings' = closings
         \/ SendFails(e, w, rs)
  <2>1. PICK x : x = Len(results) + 1
    OBVIOUS
  <2>2. PICK y : y = NextId(ends[e])
    OBVIOUS
  <2>3. /\ IsOpen(e)
        /\ \/ /\ Transmit(e, [ends[e] EXCEPT !.pending = Put(@, y, x)],
                          [seq |-> y, kind |-> "request", asks |-> x])
              /\ results' = Append(results, [from |-> e, how |-> [reason |-> "none"]])
              /\ UNCHANGED <<closings, faults>>
           \/ SendFails(e, [ends[e] EXCEPT !.pending = Put(@, y, x)],
                        Append(results, [from |-> e, how |-> [reason |-> "none"]]))
    BY <2>1, <2>2, Zenon DEF Request
  <2>4. x = n /\ y = id
    BY <1>4, <2>1, <2>2
  <2>5. /\ w = [ends[e] EXCEPT !.pending = Put(@, y, x)]
        /\ rs = Append(results, [from |-> e, how |-> [reason |-> "none"]])
    BY <1>2, <1>4, <2>4
  <2> QED BY <2>3, <2>4, <2>5
<1>6. CASE SendFails(e, w, rs)
  BY <1>3, <1>6, RequestFailsStep
<1>7. CASE /\ Transmit(e, w, [seq |-> id, kind |-> "request", asks |-> n])
           /\ results' = rs /\ closings' = closings
  <2>1. PICK o \in Nat, k \in Nat :
          o = ends[e].out /\ k = ends[e].in /\ id = o + 1 /\ o < id /\ ~ (id <= o)
    <3>1. PICK o \in Nat, k \in Nat : o = ends[e].out /\ k = ends[e].in
      BY DEF IInv, TypeOK, States
    <3>2. id = o + 1
      BY <1>4, <3>1, Zenon
    <3>3. o < id /\ ~ (id <= o)
      BY <3>2
    <3> QED BY <3>1, <3>2, <3>3, Zenon
  <2>2. PICK t \in States : /\ t = [w EXCEPT !.out = id] /\ t.out = id
                            /\ t.in = w.in /\ t.pending = w.pending
                            /\ t.remembered = w.remembered /\ t.inbound = w.inbound
                            /\ t.session = w.session
    <3>1. LET x == [w EXCEPT !.out = id] IN
          /\ x \in States /\ x.out = id
          /\ x.in = w.in /\ x.pending = w.pending
          /\ x.remembered = w.remembered /\ x.inbound = w.inbound
          /\ x.session = w.session
      BY SetOut, Zenon
    <3> QED BY <3>1, Zenon
  <2>3. PICK m \in Messages : /\ m = [seq |-> id, kind |-> "request", asks |-> n]
                              /\ m.seq = id /\ m.kind = "request" /\ m.asks = n
    <3>1. [seq |-> id, kind |-> "request", asks |-> n] \in Messages
      BY DEF Messages
    <3> QED BY <3>1
  <2>4. Becomes(e, t) /\ Sends(e, m)
    <3>1. t = [w EXCEPT !.out = @ + 1]
      BY <1>4, <2>2
    <3> QED BY <1>7, <2>3, <3>1 DEF Transmit, Becomes, Sends
  <2>5. ends'[e] = t /\ ends'[p] = ends[p] /\ ends' \in [Ends -> States]
    BY <1>1, <2>4, Becoming DEF IInv, TypeOK
  <2>6. /\ wire' \in [Ends -> Seq(Messages)] /\ wire'[e] = wire[e]
        /\ \A i \in DOMAIN wire'[p] :
             \/ i \in DOMAIN wire[p] /\ wire'[p][i] = wire[p][i]
             \/ wire'[p][i] = m
    BY <1>1, <2>4, Sending DEF IInv, TypeOK
  <2>7. Side(e) /\ Side(p)
    BY DEF IInv
  <2>8. TypeOK'
    BY <1>7, <2>5, <2>6 DEF IInv, TypeOK, Kinds
  <2>9. ResultsOK'
    BY <1>2, <1>4, <1>7 DEF IInv, ResultsOK
  <2>10. WireOK(e)' /\ WireOK(p)'
    <3>1. m.seq = t.out /\ t.out = ends[e].out + 1 /\ t.in = ends[e].in
      BY <1>4, <2>2, <2>3
    <3> QED BY <1>1, <1>5, <2>4, <3>1, WireSent
  <2>11. OnceOK(e)' /\ OnceOK(p)'
    <3>1. t.in = ends[e].in /\ t.inbound = ends[e].inbound
      BY <1>4, <2>2
    <3> QED BY <1>1, <2>3, <2>4, <3>1, SentOnce
  <2>12. CancelOK(e)'
    <3>1. ASSUME NEW i \in DOMAIN wire'[p], wire'[p][i].kind = "cancel"
          PROVE  wire'[p][i].of <= t.out /\ wire'[p][i].of \notin DOMAIN t.pending
      <4>1. i \in DOMAIN wire[p] /\ wire'[p][i] = wire[p][i]
        BY <2>3, <2>6, <3>1
      <4>2. PICK x \in Nat : x = wire[p][i].of
        BY <3>1, <4>1, Numbered, MessageTyped DEF IInv
      <4>3. x <= o /\ x \notin DOMAIN ends[e].pending
        BY <1>1, <2>1, <2>7, <3>1, <4>1, <4>2 DEF Side, CancelOK
      <4>4. x <= id /\ x # id
        BY <2>1, <4>3
      <4> QED BY <1>4, <2>2, <4>1, <4>2, <4>3, <4>4
    <3>2. ASSUME NEW x \in DOMAIN ends[p].inbound, ends[p].inbound[x].aborted
          PROVE  x \notin DOMAIN t.pending
      <4>1. x \in Nat /\ x <= ends[p].in
        BY <1>1, <2>7, <3>2, InboundTyped DEF IInv, Side, OnceOK
      <4>2. ends[p].in <= o /\ ends[p].in \in Nat
        BY <1>1, <2>1, <2>7 DEF Side, WireOK, IInv, TypeOK, States
      <4>3. x # id
        BY <2>1, <4>1, <4>2
      <4>4. x \notin DOMAIN ends[e].pending
        BY <1>1, <2>7, <3>2 DEF Side, CancelOK
      <4> QED BY <1>4, <2>2, <4>3, <4>4
    <3> QED BY <1>1, <2>5, <3>1, <3>2 DEF CancelOK
  <2>13. CancelOK(p)'
    BY <1>1, <1>4, <2>2, <2>5, <2>6, <2>7 DEF Side, CancelOK
  <2>14. \A x, y \in Nat : Alive(e, x, y)' => Alive(e, x, y) \/ (x = id /\ y = n)
    <3>1. /\ \A x, y \in Nat : Sent(e, x, y)' =>
               Sent(e, x, y) \/ (m.kind = "request" /\ m.seq = x /\ m.asks = y)
          /\ \A x, y \in Nat : AnsweredBy(e, x, y)' => AnsweredBy(e, x, y)
      BY <2>4, SentAlive DEF IInv
    <3>2. \A x, y \in Nat : WorkedOn(e, x, y)' => WorkedOn(e, x, y)
      BY <1>1, <2>5 DEF WorkedOn
    <3> QED BY <2>3, <3>1, <3>2 DEF Alive
  <2>15. \A x, y \in Nat : Alive(p, x, y)' => Alive(p, x, y)
    <3>1. /\ \A x, y \in Nat : Sent(p, x, y)' => Sent(p, x, y)
          /\ \A x, y \in Nat : AnsweredBy(p, x, y)' => AnsweredBy(p, x, y)
      BY <1>1, <2>3, <2>4, SentAlive DEF IInv
    <3>2. \A x, y \in Nat : WorkedOn(p, x, y)' => WorkedOn(p, x, y)
      BY <1>1, <1>4, <2>2, <2>5 DEF WorkedOn
    <3> QED BY <3>1, <3>2 DEF Alive
  <2>16. \A x \in DOMAIN results : x \in DOMAIN results' /\ results'[x] = results[x]
    BY <1>4, <1>7
  <2>17. Side(p)'
    <3>1. ResultsKept(p)
      BY <2>16 DEF ResultsKept, Withdrawn
    <3>2. /\ AliveSide(p)' /\ PendingOK(p)'
          /\ InOrder(ends[p].remembered, closings[p])' /\ CompletedOK(p)' /\ ClosedOK(p)'
      BY <1>7, <2>5, <2>15, <3>1, PeerKept
    <3> QED BY <2>10, <2>11, <2>13, <3>2 DEF Side
  <2>18. AliveSide(e)'
    <3> SUFFICES ASSUME NEW x \in Nat, NEW y \in Nat, Alive(e, x, y)'
                 PROVE  AliveOK(e, x, y)'
      BY DEF AliveSide
    <3>1. CASE Alive(e, x, y)
      <4>1. AliveOK(e, x, y)
        BY <2>7, <3>1 DEF Side, AliveSide
      <4>2. x <= o
        BY <2>1, <4>1 DEF AliveOK
      <4>3. x <= id /\ x # id
        BY <2>1, <4>2
      <4>4. y \in DOMAIN results' /\ (Withdrawn(y) => Withdrawn(y)')
        BY <2>16, <4>1 DEF AliveOK, Withdrawn
      <4>5. IF x \in DOMAIN t.pending THEN t.pending[x] = y
            ELSE Withdrawn(y)' /\ (t.session = Open => x \in Range(closings[e]))
        BY <1>4, <2>2, <4>1, <4>3, <4>4 DEF AliveOK, IsOpen
      <4>6. \A c \in Range(t.remembered) : c.id = x => c.reason # "completed"
        BY <1>4, <2>2, <4>1 DEF AliveOK
      <4> QED BY <1>7, <2>2, <2>5, <4>3, <4>4, <4>5, <4>6 DEF AliveOK, IsOpen
    <3>2. CASE x = id /\ y = n
      <4>1. n \in DOMAIN results' /\ id \in DOMAIN t.pending /\ t.pending[id] = n
        BY <1>4, <1>7, <2>2
      <4>2. \A c \in Range(t.remembered) : c.id = id => c.reason # "completed"
        <5> SUFFICES ASSUME NEW c \in Range(ends[e].remembered), c.id = id,
                            c.reason = "completed"
                     PROVE  FALSE
          BY <1>4, <2>2
        <5>1. c.id <= o
          BY <2>1, <2>7 DEF Side, CompletedOK
        <5> QED BY <2>1, <5>1
      <4>3. id <= t.out
        BY <2>2
      <4> QED BY <2>5, <3>2, <4>1, <4>2, <4>3 DEF AliveOK
    <3> QED BY <2>14, <3>1, <3>2
  <2>19. PendingOK(e)'
    <3>0. PendingOK(e)
      BY <2>7 DEF Side
    <3>1. ASSUME NEW x \in DOMAIN t.pending
          PROVE  /\ x <= id
                 /\ t.pending[x] \in DOMAIN results'
                 /\ results'[t.pending[x]].from = e
                 /\ results'[t.pending[x]].how.reason = "none"
      <4>1. CASE x = id
        BY <1>2, <1>4, <1>7, <2>2, <4>1
      <4>2. CASE x # id
        <5>1. x \in DOMAIN ends[e].pending /\ t.pending[x] = ends[e].pending[x]
          BY <1>4, <2>2, <4>2
        <5>2. x \in Nat /\ x <= o
          BY <2>1, <3>0, <5>1, PendingTyped DEF IInv, PendingOK
        <5>3. x <= id
          BY <2>1, <5>2
        <5>4. /\ t.pending[x] \in DOMAIN results /\ results[t.pending[x]].from = e
              /\ results[t.pending[x]].how.reason = "none"
          BY <3>0, <5>1 DEF PendingOK
        <5> QED BY <2>16, <5>3, <5>4
      <4> QED BY <4>1, <4>2
    <3>2. ASSUME NEW x \in DOMAIN t.pending, NEW y \in DOMAIN t.pending, x # y
          PROVE  t.pending[x] # t.pending[y]
      <4>1. \A z \in DOMAIN ends[e].pending : ends[e].pending[z] # n
        BY <1>4, <3>0 DEF PendingOK
      <4>2. \A z \in DOMAIN t.pending : z # id =>
              z \in DOMAIN ends[e].pending /\ t.pending[z] = ends[e].pending[z]
        BY <1>4, <2>2
      <4>3. t.pending[id] = n
        BY <1>4, <2>2
      <4>4. CASE x # id /\ y # id
        BY <3>0, <3>2, <4>2, <4>4 DEF PendingOK, IsInjective
      <4>5. CASE x = id
        BY <3>2, <4>1, <4>2, <4>3, <4>5
      <4>6. CASE y = id
        BY <3>2, <4>1, <4>2, <4>3, <4>6
      <4> QED BY <4>4, <4>5, <4>6
    <3>3. IsInjective(t.pending)
      BY <3>2 DEF IsInjective
    <3> QED BY <2>2, <2>5, <3>1, <3>3 DEF PendingOK
  <2>20. InOrder(ends[e].remembered, closings[e])'
    <3>1. InOrder(ends'[e].remembered, closings'[e])
      BY <1>4, <1>7, <2>2, <2>5, <2>7 DEF Side
    <3> QED BY <3>1
  <2>21. CompletedOK(e)'
    <3> SUFFICES ASSUME NEW c \in Range(ends[e].remembered), c.reason = "completed"
                 PROVE  c.id <= id
      BY <1>4, <2>2, <2>5 DEF CompletedOK
    <3>1. c.id \in Nat /\ c.id <= o
      BY <2>1, <2>7, RememberedTyped DEF IInv, Side, CompletedOK
    <3> QED BY <2>1, <3>1
  <2>22. ClosedOK(e)'
    <3>1. t.session = Open /\ Open.why = "open"
      BY <1>4, <1>5, <2>2 DEF IsOpen, Open
    <3> QED BY <2>5, <3>1 DEF ClosedOK, ForgottenOK, IsOpen
  <2>23. Side(e)'
    BY <2>10, <2>11, <2>12, <2>18, <2>19, <2>20, <2>21, <2>22 DEF Side
  <2> QED BY <1>1, <2>8, <2>9, <2>17, <2>23 DEF IInv
<1> QED BY <1>5, <1>6, <1>7

-----------------------------------------------------------------------------
(* The steps of the handlers *)

\* State s is that of endpoint e, which has ended its work for id.
WorkEnded(e, id, s) ==
  /\ s = [ends[e] EXCEPT !.inbound = Restrict(@, DOMAIN @ \ {id})]
  /\ s.out = ends[e].out /\ s.in = ends[e].in /\ s.pending = ends[e].pending
  /\ s.remembered = ends[e].remembered /\ s.session = ends[e].session
  /\ DOMAIN s.inbound = DOMAIN ends[e].inbound \ {id}
  /\ \A x \in DOMAIN ends[e].inbound : x # id => s.inbound[x] = ends[e].inbound[x]

\* Ending the work for one question leaves the rest.
LEMMA EndingWork ==
  ASSUME TypeOK, NEW e \in Ends, NEW id \in Nat
  PROVE  \E s \in States : WorkEnded(e, id, s)
<1>1. PICK u \in States : u = ends[e]
  BY DEF TypeOK
<1>2. PICK q \in Maps(Questions) : q = u.inbound
  BY <1>1, InboundTyped
<1>3. PICK f \in Maps(Questions) :
        /\ f = Restrict(q, DOMAIN q \ {id}) /\ DOMAIN f = DOMAIN q \ {id}
        /\ \A z \in DOMAIN q : z # id => f[z] = q[z]
  <2>1. LET f == Restrict(q, DOMAIN q \ {id}) IN
        /\ f \in Maps(Questions) /\ DOMAIN f = DOMAIN q \ {id}
        /\ \A z \in DOMAIN q : z # id => f[z] = q[z]
    BY LessMap, Zenon
  <2> QED BY <2>1, Zenon
<1>4. PICK s \in States : /\ s = [u EXCEPT !.inbound = f]
                          /\ s.inbound = f /\ s.out = u.out /\ s.in = u.in
                          /\ s.pending = u.pending /\ s.remembered = u.remembered
                          /\ s.session = u.session
  BY SetInbound, Zenon
<1>5. s = [ends[e] EXCEPT !.inbound = Restrict(@, DOMAIN @ \ {id})]
  BY <1>1, <1>2, <1>3, <1>4
<1>6. WorkEnded(e, id, s)
  BY <1>1, <1>2, <1>3, <1>4, <1>5 DEF WorkEnded
<1> QED BY <1>6

\* The work for a question ends without an answer.
LEMMA NoAnswerStep ==
  ASSUME IInv, NEW e \in Ends, NEW id \in Nat, NEW s \in States, WorkEnded(e, id, s),
         IsOpen(e), Becomes(e, s), UNCHANGED <<wire, results, closings>>
  PROVE  IInv'
<1>1. PICK p \in Ends : p = Peer(e) /\ Peer(p) = e /\ p # e
  BY PeerFacts
<1>2. ends'[e] = s /\ ends'[p] = ends[p]
  BY <1>1, Becoming DEF IInv, TypeOK
<1>3. ends[e].in \in Nat /\ ends[e].out \in Nat
  BY DEF IInv, TypeOK, States
<1>4. WireOK(e)' /\ WireOK(p)'
  BY <1>1, WireSame DEF WorkEnded
<1>5. OnceOK(e)' /\ OnceOK(p)'
  <2>1. s.in >= ends[e].in /\ wire'[Peer(e)] = wire[Peer(e)]
    BY <1>3 DEF WorkEnded
  <2>2. \A x \in DOMAIN s.inbound :
          x \in DOMAIN ends[e].inbound \/ (x = s.in /\ x > ends[e].in)
    BY DEF WorkEnded
  <2> QED BY <1>1, <2>1, <2>2, ShrunkOnce, WorkedOnOnce
<1>6. CancelOK(e)' /\ CancelOK(p)'
  <2>1. CancelOK(p)
    BY DEF IInv, Side
  <2>2. \A i \in DOMAIN s.inbound : s.inbound[i].aborted => i \notin DOMAIN ends[p].pending
    BY <1>1, <2>1 DEF CancelOK, WorkEnded
  <2>3. s.out = ends[e].out /\ DOMAIN s.pending \subseteq DOMAIN ends[e].pending
    BY DEF WorkEnded
  <2> QED BY <1>1, <2>2, <2>3, ShrunkCancel
<1>7. \A x, y \in Nat : Alive(e, x, y)' => Alive(e, x, y)
  BY <1>1, <1>2 DEF Alive, Sent, WorkedOn, AnsweredBy
<1>8. \A x, y \in Nat : Alive(p, x, y)' => Alive(p, x, y)
  <2>1. \A x, y \in Nat : WorkedOn(p, x, y)' => WorkedOn(p, x, y)
    BY <1>1, <1>2 DEF WorkedOn, WorkEnded
  <2> QED BY <1>1, <2>1 DEF Alive, Sent, AnsweredBy
<1>9. /\ s.pending = ends[e].pending /\ s.remembered = ends[e].remembered
      /\ s.session = ends[e].session /\ s.out >= ends[e].out
  BY <1>3 DEF WorkEnded
<1>10. wire' \in [Ends -> Seq(Messages)]
  BY DEF IInv, TypeOK
<1> QED BY <1>1, <1>4, <1>5, <1>6, <1>7, <1>8, <1>9, <1>10, GoingOn

\* The answer of a handler is sent.
LEMMA AnswerStep ==
  ASSUME IInv, NEW e \in Ends, NEW id \in DOMAIN ends[e].inbound, id \in Nat,
         NEW s \in States, WorkEnded(e, id, s), IsOpen(e),
         Transmit(e, s, [seq |-> NextId(s), kind |-> "response", replyTo |-> id,
                         answers |-> ends[e].inbound[id].asks]),
         UNCHANGED <<results, closings>>
  PROVE  IInv'
<1>1. PICK p \in Ends : p = Peer(e) /\ Peer(p) = e /\ p # e
  BY PeerFacts
<1>2. PICK o \in Nat, k \in Nat, n \in Nat :
        o = ends[e].out /\ k = NextId(s) /\ k = o + 1 /\ k >= o /\ n = ends[e].inbound[id].asks
  <2>1. ends[e].out \in Nat /\ ends[e].inbound[id].asks \in Nat
    BY InboundTyped DEF IInv, TypeOK, States
  <2>2. NextId(s) = ends[e].out + 1
    BY DEF WorkEnded, NextId
  <2>3. PICK o \in Nat : o = ends[e].out
    BY <2>1
  <2>4. PICK k \in Nat : k = o + 1 /\ k >= o
    OBVIOUS
  <2> QED BY <2>1, <2>2, <2>3, <2>4
<1>3. PICK t \in States : /\ t = [s EXCEPT !.out = k] /\ t.out = k
                          /\ t.in = s.in /\ t.pending = s.pending
                          /\ t.remembered = s.remembered /\ t.inbound = s.inbound
                          /\ t.session = s.session
  <2>1. LET x == [s EXCEPT !.out = k] IN
        /\ x \in States /\ x.out = k
        /\ x.in = s.in /\ x.pending = s.pending
        /\ x.remembered = s.remembered /\ x.inbound = s.inbound
        /\ x.session = s.session
    BY SetOut, Zenon
  <2> QED BY <2>1, Zenon
<1>4. PICK m \in Messages :
        /\ m = [seq |-> k, kind |-> "response", replyTo |-> id, answers |-> n]
        /\ m.seq = k /\ m.kind = "response" /\ m.replyTo = id /\ m.answers = n
  <2>1. [seq |-> k, kind |-> "response", replyTo |-> id, answers |-> n] \in Messages
    BY DEF Messages
  <2> QED BY <2>1
<1>5. Becomes(e, t) /\ Sends(e, m)
  <2>1. t = [s EXCEPT !.out = @ + 1]
    BY <1>2, <1>3 DEF NextId
  <2>2. Transmit(e, s, m)
    BY <1>2, <1>4
  <2> QED BY <2>1, <2>2 DEF Transmit, Becomes, Sends
<1>6. ends'[e] = t /\ ends'[p] = ends[p]
  BY <1>1, <1>5, Becoming DEF IInv, TypeOK
<1>7. /\ wire' \in [Ends -> Seq(Messages)] /\ wire'[e] = wire[e]
      /\ Len(wire[p]) \in Nat /\ DOMAIN wire[p] = 1..Len(wire[p])
      /\ \A i \in DOMAIN wire'[p] :
           IF i \in DOMAIN wire[p] THEN wire'[p][i] = wire[p][i]
           ELSE i = Len(wire[p]) + 1 /\ wire'[p][i] = m
  BY <1>1, <1>5, Sending DEF IInv, TypeOK
<1>8. Side(e) /\ Side(p)
  BY DEF IInv
<1>9. /\ t.in = ends[e].in /\ t.out = ends[e].out + 1 /\ t.pending = ends[e].pending
      /\ t.remembered = ends[e].remembered /\ t.session = ends[e].session
      /\ DOMAIN t.inbound = DOMAIN ends[e].inbound \ {id}
      /\ \A x \in DOMAIN ends[e].inbound : x # id => t.inbound[x] = ends[e].inbound[x]
      /\ t.out >= ends[e].out
  BY <1>2, <1>3 DEF WorkEnded
<1>10. WireOK(e)' /\ WireOK(p)'
  <2>1. m.seq = t.out
    BY <1>3, <1>4
  <2> QED BY <1>1, <1>5, <1>9, <2>1, WireSent
<1>11. OnceOK(e)'
  BY <1>1, <1>6, <1>7, <1>8 DEF Side, OnceOK
<1>12. OnceOK(p)'
  <2>1. OnceOK(p)
    BY <1>8 DEF Side
  <2>2. \A x \in DOMAIN t.inbound : x <= t.in
    BY <1>1, <1>9, <2>1 DEF OnceOK
  <2>3. ASSUME NEW i \in DOMAIN wire'[p], wire'[p][i].kind = "response"
        PROVE  wire'[p][i].replyTo <= t.in /\ wire'[p][i].replyTo \notin DOMAIN t.inbound
    <3>1. CASE i \in DOMAIN wire[p]
      BY <1>1, <1>7, <1>9, <2>1, <2>3, <3>1 DEF OnceOK
    <3>2. CASE i \notin DOMAIN wire[p]
      <4>1. wire'[p][i].replyTo = id
        BY <1>4, <1>7, <3>2
      <4>2. id <= ends[e].in
        BY <1>1, <2>1 DEF OnceOK
      <4> QED BY <1>9, <4>1, <4>2
    <3> QED BY <3>1, <3>2
  <2>4. ASSUME NEW i \in DOMAIN wire'[p], wire'[p][i].kind = "response",
               NEW j \in DOMAIN wire'[p], wire'[p][j].kind = "response", j # i
        PROVE  wire'[p][j].replyTo # wire'[p][i].replyTo
    <3>1. \A x \in DOMAIN wire[p] : wire[p][x].kind = "response" => wire[p][x].replyTo # id
      BY <1>1, <2>1 DEF OnceOK
    <3>2. CASE i \in DOMAIN wire[p] /\ j \in DOMAIN wire[p]
      <4>1. wire'[p][i] = wire[p][i] /\ wire'[p][j] = wire[p][j]
        BY <1>7, <3>2
      <4>2. wire[p][j].replyTo # wire[p][i].replyTo
        BY <2>1, <2>4, <3>2, <4>1 DEF OnceOK
      <4> QED BY <4>1, <4>2, Zenon
    <3>3. CASE i \in DOMAIN wire[p] /\ j \notin DOMAIN wire[p]
      BY <1>4, <1>7, <2>4, <3>1, <3>3
    <3>4. CASE i \notin DOMAIN wire[p] /\ j \in DOMAIN wire[p]
      BY <1>4, <1>7, <2>4, <3>1, <3>4
    <3>5. CASE i \notin DOMAIN wire[p] /\ j \notin DOMAIN wire[p]
      BY <1>7, <2>4, <3>5
    <3> QED BY <3>2, <3>3, <3>4, <3>5
  <2> QED BY <1>1, <1>6, <2>2, <2>3, <2>4 DEF OnceOK
<1>13. CancelOK(e)'
  <2>1. CancelOK(e)
    BY <1>8 DEF Side
  <2>2. ASSUME NEW i \in DOMAIN wire'[p], wire'[p][i].kind = "cancel"
        PROVE  wire'[p][i].of <= k /\ wire'[p][i].of \notin DOMAIN ends[e].pending
    <3>1. i \in DOMAIN wire[p] /\ wire'[p][i] = wire[p][i]
      BY <1>4, <1>7, <2>2
    <3>2. PICK x \in Nat : x = wire[p][i].of
      BY <2>2, <3>1, Numbered, MessageTyped DEF IInv
    <3>3. x <= o /\ x \notin DOMAIN ends[e].pending
      BY <1>1, <1>2, <2>1, <2>2, <3>1, <3>2 DEF CancelOK
    <3>4. x <= k
      BY <1>2, <3>3
    <3> QED BY <3>1, <3>2, <3>3, <3>4
  <2>3. t.out = k
    BY <1>3
  <2> QED BY <1>1, <1>6, <1>9, <2>1, <2>2, <2>3 DEF CancelOK
<1>14. CancelOK(p)'
  BY <1>1, <1>6, <1>7, <1>8, <1>9 DEF Side, CancelOK
<1>15. \A x, y \in Nat : Alive(e, x, y)' => Alive(e, x, y)
  <2>1. /\ \A x, y \in Nat : Sent(e, x, y)' => Sent(e, x, y)
        /\ \A x, y \in Nat : AnsweredBy(e, x, y)' => AnsweredBy(e, x, y)
    BY <1>4, <1>5, SentAlive DEF IInv
  <2>2. \A x, y \in Nat : WorkedOn(e, x, y)' => WorkedOn(e, x, y)
    BY <1>1, <1>6 DEF WorkedOn
  <2> QED BY <2>1, <2>2 DEF Alive
<1>16. \A x, y \in Nat : Alive(p, x, y)' => Alive(p, x, y)
  <2>1. /\ \A x, y \in Nat : Sent(p, x, y)' => Sent(p, x, y)
        /\ \A x, y \in Nat : AnsweredBy(p, x, y)' => AnsweredBy(p, x, y) \/ (x = id /\ y = n)
    <3>1. /\ \A x, y \in Nat : Sent(p, x, y)' => Sent(p, x, y)
          /\ \A x, y \in Nat : AnsweredBy(p, x, y)' =>
               \/ AnsweredBy(p, x, y)
               \/ m.kind = "response" /\ m.replyTo = x /\ m.answers = y
      BY <1>1, <1>5, SentAlive DEF IInv
    <3> QED BY <1>4, <3>1
  <2>2. \A x, y \in Nat : WorkedOn(p, x, y)' => WorkedOn(p, x, y)
    BY <1>1, <1>6, <1>9 DEF WorkedOn
  <2>3. WorkedOn(p, id, n)
    BY <1>1, <1>2 DEF WorkedOn
  <2> QED BY <2>1, <2>2, <2>3 DEF Alive
<1> QED BY <1>1, <1>5, <1>7, <1>9, <1>10, <1>11, <1>12, <1>13, <1>14, <1>15, <1>16, GoingOn

\* A handler returns, or its answer cannot be encoded.
LEMMA HandledStep ==
  ASSUME IInv, NEW e \in Ends, Handled(e) \/ HandledUnencodable(e)
  PROVE  IInv'
<1>1. PICK id \in DOMAIN ends[e].inbound :
        LET s == [ends[e] EXCEPT !.inbound = Restrict(@, DOMAIN @ \ {id})]
        IN \/ ends' = [ends EXCEPT ![e] = s] /\ UNCHANGED <<wire, results, closings>>
           \/ /\ Transmit(e, s, [seq |-> NextId(s), kind |-> "response", replyTo |-> id,
                                 answers |-> ends[e].inbound[id].asks])
              /\ UNCHANGED <<results, closings>>
           \/ SendFails(e, s, results)
  <2>1. CASE Handled(e)
    BY <2>1 DEF Handled
  <2>2. CASE HandledUnencodable(e)
    BY <2>2 DEF HandledUnencodable, IInv, TypeOK
  <2> QED BY <2>1, <2>2
<1>2. id \in Nat
  BY InboundTyped DEF IInv
<1>3. IsOpen(e)
  BY DEF IInv, Side, ClosedOK
<1>4. PICK s \in States : WorkEnded(e, id, s)
  BY <1>2, EndingWork DEF IInv
<1>5. \/ Becomes(e, s) /\ UNCHANGED <<wire, results, closings>>
      \/ /\ Transmit(e, s, [seq |-> NextId(s), kind |-> "response", replyTo |-> id,
                            answers |-> ends[e].inbound[id].asks])
         /\ UNCHANGED <<results, closings>>
      \/ SendFails(e, s, results)
  BY <1>1, <1>4 DEF Becomes, WorkEnded
<1>6. CASE Becomes(e, s) /\ UNCHANGED <<wire, results, closings>>
  BY <1>2, <1>3, <1>4, <1>6, NoAnswerStep
<1>7. CASE /\ Transmit(e, s, [seq |-> NextId(s), kind |-> "response", replyTo |-> id,
                              answers |-> ends[e].inbound[id].asks])
           /\ UNCHANGED <<results, closings>>
  BY <1>2, <1>3, <1>4, <1>7, AnswerStep
<1>8. CASE SendFails(e, s, results)
  BY <1>4, <1>8, SendFailsStep DEF WorkEnded
<1> QED BY <1>5, <1>6, <1>7, <1>8

-----------------------------------------------------------------------------
(* Every step *)

\* A message is read; one beyond the budget of the session closes it.
LEMMA ReceiveStep ==
  ASSUME IInv, NEW e \in Ends, Receive(e)
  PROVE  IInv'
<1>1. IsOpen(e) /\ Takes(e) /\ wire[e] # <<>>
  BY DEF Receive, Takes
<1>2. PICK m \in Messages :
        /\ m = Head(wire[e]) /\ m = wire[e][1] /\ 1 \in DOMAIN wire[e]
        /\ m.seq = ends[e].in + 1
  BY <1>1, Expected
<1>3. CASE ReceiveOutOfSequence(e, m)
  <2>1. PICK s \in States : s = ends[e]
    BY DEF IInv, TypeOK
  <2>2. SequenceFault(s, m) = "budget"
    BY <1>2, <1>3, <2>1 DEF ReceiveOutOfSequence, SequenceFault
  <2>3. PICK session \in Sessions : session = [why |-> "budget"]
    BY DEF Sessions
  <2>4. session # Open /\ session.why # "sequence" /\ session.why # "correlation"
    BY <2>3 DEF Open
  <2>5. CloseInternal(e, s, results, session) /\ closings' = closings
    BY <1>3, <2>1, <2>2, <2>3 DEF ReceiveOutOfSequence
  <2> QED BY <1>1, <2>1, <2>4, <2>5, ClosingAsItIs
<1>4. CASE ReceiveRequest(e, m)
  BY <1>1, <1>2, <1>4, ReceiveRequestStep
<1>5. CASE ReceiveCancel(e, m)
  BY <1>1, <1>2, <1>5, ReceiveCancelStep
<1>6. CASE ReceiveResponse(e, m)
  BY <1>1, <1>2, <1>6, ReceiveResponseStep
<1> QED BY <1>2, <1>3, <1>4, <1>5, <1>6 DEF Receive

\* Nothing has been asked, sent or closed.
LEMMA InitInvariant == Init => IInv
<1> SUFFICES ASSUME Init PROVE IInv
  OBVIOUS
<1>1. /\ New \in States /\ New.out = 0 /\ New.in = 0 /\ New.remembered = <<>>
      /\ DOMAIN New.pending = {} /\ DOMAIN New.inbound = {}
      /\ New.session = Open /\ Open.why = "open"
  <2>1. Empty \in Maps(Nat) /\ Empty \in Maps(Questions) /\ DOMAIN Empty = {}
    BY EmptyMap
  <2>2. Open \in Sessions /\ Open.why = "open"
    BY DEF Open, Sessions
  <2>3. <<>> \in Seq(Memories)
    OBVIOUS
  <2> HIDE DEF Open, Empty
  <2> QED BY <2>1, <2>2, <2>3 DEF New, States
<1>2. /\ \A e \in Ends : ends[e] = New /\ wire[e] = <<>> /\ closings[e] = <<>>
      /\ results = <<>>
  BY DEF Init
<1>3. TypeOK
  BY <1>1 DEF Init, TypeOK
<1>4. ResultsOK
  BY <1>2 DEF ResultsOK
<1>5. ASSUME NEW e \in Ends
      PROVE  Side(e)
  <2>1. PICK p \in Ends : p = Peer(e)
    BY PeerFacts
  <2>2. WireOK(e)
    BY <1>1, <1>2, <2>1 DEF WireOK, IsOpen
  <2>3. AliveSide(e)
    BY <1>1, <1>2, <2>1 DEF AliveSide, Alive, Sent, WorkedOn, AnsweredBy
  <2>4. PendingOK(e)
    BY <1>1, <1>2 DEF PendingOK, IsInjective
  <2>5. OnceOK(e) /\ CancelOK(e)
    BY <1>1, <1>2, <2>1 DEF OnceOK, CancelOK
  <2>6. InOrder(ends[e].remembered, closings[e])
    <3>1. Range(<<>>) = {} /\ DOMAIN <<>> = {} /\ Len(<<>>) = 0
      BY DEF Range
    <3>2. Len(<<>>) <= MaxClosed
      BY <3>1, LimitsAssumption
    <3>3. ends[e].remembered = <<>> /\ closings[e] = <<>>
      BY <1>1, <1>2
    <3> QED BY <3>1, <3>2, <3>3 DEF InOrder
  <2>7. CompletedOK(e)
    BY <1>1, <1>2 DEF CompletedOK, Range
  <2>8. ClosedOK(e)
    BY <1>1, <1>2 DEF ClosedOK, ForgottenOK, IsOpen
  <2> QED BY <2>2, <2>3, <2>4, <2>5, <2>6, <2>7, <2>8 DEF Side
<1> QED BY <1>3, <1>4, <1>5 DEF IInv

\* A step that changes nothing.
LEMMA StutterStep ==
  ASSUME IInv, UNCHANGED vars
  PROVE  IInv'
<1>1. /\ ends' = ends /\ wire' = wire /\ results' = results /\ closings' = closings
  BY DEF vars
<1>2. TypeOK' /\ ResultsOK'
  BY <1>1 DEF IInv, TypeOK, ResultsOK
<1>3. ASSUME NEW e \in Ends
      PROVE  Side(e)'
  <2>1. Side(e)
    BY DEF IInv
  <2>2. WireOK(e)' /\ AliveSide(e)'
    BY <1>1, <2>1 DEF Side, WireOK, IsOpen, AliveSide, Alive, Sent, WorkedOn, AnsweredBy,
                      AliveOK, Withdrawn
  <2>3. PendingOK(e)' /\ OnceOK(e)' /\ CancelOK(e)'
    BY <1>1, <2>1 DEF Side, PendingOK, OnceOK, CancelOK
  <2>4. InOrder(ends[e].remembered, closings[e])' /\ CompletedOK(e)' /\ ClosedOK(e)'
    BY <1>1, <2>1 DEF Side, CompletedOK, ClosedOK, ForgottenOK, IsOpen
  <2> QED BY <2>2, <2>3, <2>4 DEF Side
<1> QED BY <1>2, <1>3 DEF IInv

\* The state of both endpoints and of the port is consistent: each request is on its
\* way, worked on or answered at most once, under the id its author knows it by
\* (whole session).
THEOREM Invariant == Spec => []IInv
<1>1. Init => IInv
  BY InitInvariant
<1>2. IInv /\ [Next]_vars => IInv'
  <2> SUFFICES ASSUME IInv, [Next]_vars PROVE IInv'
    OBVIOUS
  <2>1. CASE UNCHANGED vars
    BY <2>1, StutterStep
  <2>2. CASE Next
    <3>1. PICK e \in Ends :
            \/ Request(e) \/ RequestUnencodable(e) \/ Withdraw(e) \/ Receive(e)
            \/ Handled(e) \/ HandledUnencodable(e) \/ HandlerFails(e) \/ Close(e)
      BY <2>2 DEF Next
    <3>2. CASE Request(e)
      BY <3>2, RequestStep
    <3>3. CASE RequestUnencodable(e)
      BY <3>3, RequestUnencodableStep
    <3>4. CASE Withdraw(e)
      BY <3>4, WithdrawStep
    <3>5. CASE Receive(e)
      BY <3>5, ReceiveStep
    <3>6. CASE Handled(e) \/ HandledUnencodable(e)
      BY <3>6, HandledStep
    <3>7. CASE HandlerFails(e) \/ Close(e)
      BY <3>7, CloseStep
    <3> QED BY <3>1, <3>2, <3>3, <3>4, <3>5, <3>6, <3>7
  <2> QED BY <2>1, <2>2
<1> QED BY <1>1, <1>2, PTL DEF Spec

-----------------------------------------------------------------------------
(* The properties *)

\* Two correct endpoints never find each other's sequence numbers wrong, whichever
\* messages could not be encoded (validateInboundSequence).
THEOREM SequencesAgree == Spec => []NoSequenceViolation
<1>1. IInv => NoSequenceViolation
  BY DEF IInv, Side, ClosedOK, NoSequenceViolation
<1> QED BY <1>1, Invariant, PTL

\* Whoever gets an answer asked for it, and a handler is told to stop only when its own
\* requester no longer waits (handleResponse, handleCancelEvent).
THEOREM AnswersAreOwn == Spec => []OwnQuestion
<1>1. ASSUME IInv PROVE OwnQuestion
  <2>1. \A n \in Requests : results[n].how.reason = "completed" => results[n].how.answers = n
    BY <1>1 DEF IInv, ResultsOK, Requests
  <2>2. ASSUME NEW e \in Ends, NEW id \in DOMAIN ends[e].inbound, ends[e].inbound[id].aborted
        PROVE  results[ends[e].inbound[id].asks].how.reason \in WithdrawnReasons \cup {"closed"}
    <3>1. PICK p \in Ends : p = Peer(e) /\ Peer(p) = e
      BY PeerFacts
    <3>2. PICK n \in Nat, i \in Nat : n = ends[e].inbound[id].asks /\ i = id
      BY <1>1, InboundTyped DEF IInv
    <3>3. Alive(p, i, n)
      BY <2>2, <3>1, <3>2 DEF Alive, WorkedOn
    <3>4. AliveOK(p, i, n)
      BY <1>1, <3>3 DEF IInv, Side, AliveSide
    <3>5. i \notin DOMAIN ends[p].pending
      BY <1>1, <2>2, <3>1, <3>2 DEF IInv, Side, CancelOK
    <3> QED BY <3>2, <3>4, <3>5 DEF AliveOK, Withdrawn
  <2> QED BY <2>1, <2>2 DEF OwnQuestion
<1> QED BY <1>1, Invariant, PTL

\* Since a forgotten id was last closed, as many others were as the memory holds.
LEMMA ManySince ==
  ASSUME NEW R \in Seq(Memories), NEW C \in Seq(Nat), InOrder(R, C),
         NEW id \in Range(C), \A i \in DOMAIN R : R[i].id # id,
         NEW last \in DOMAIN C, LastAt(C, last, id)
  PROVE  Cardinality({C[k] : k \in last+1..Len(C)}) >= MaxClosed
<1> DEFINE T == {C[k] : k \in last+1..Len(C)}
           h == [k \in last+1..Len(C) |-> C[k]]
           f == [i \in 1..MaxClosed |-> R[i].id]
<1>1. PICK n \in Nat, c \in Nat : n = Len(C) /\ c = MaxClosed /\ DOMAIN C = 1..n
  BY LimitsAssumption
<1>2. PICK l0 \in 1..n : l0 = last
  BY <1>1
<1>3. /\ Len(R) = c /\ DOMAIN R = 1..c
      /\ \A i \in DOMAIN R, l \in DOMAIN C : LastAt(C, l, R[i].id) => last < l
  BY <1>1 DEF InOrder
<1>4. IsFiniteSet(T) /\ Cardinality(T) \in Nat
  <2>1. IsFiniteSet(last+1..Len(C))
    BY <1>1, <1>2, FS_Interval
  <2>2. h \in Surjection(last+1..Len(C), T)
    BY DEF Surjection
  <2>3. IsFiniteSet(T)
    BY <2>1, <2>2, FS_Surjection
  <2> QED BY <2>3, FS_CardinalityType
<1>5. ASSUME NEW i \in 1..c
      PROVE  f[i] = R[i].id /\ f[i] \in T
  <2>1. PICK l \in DOMAIN C : LastAt(C, l, R[i].id)
    BY <1>3 DEF InOrder
  <2>2. last < l /\ C[l] = R[i].id
    BY <1>3, <2>1 DEF LastAt
  <2>3. l \in last+1..Len(C)
    BY <1>1, <1>2, <2>2
  <2> QED BY <1>1, <2>2, <2>3
<1>6. f \in Injection(1..c, T)
  <2>1. \A i, j \in 1..c : i # j => f[i] # f[j]
    <3>1. \A i, j \in 1..c : i # j => R[i].id # R[j].id
      BY <1>3, DistinctMemory
    <3>2. \A i \in 1..c : f[i] = R[i].id
      BY <1>5
    <3> HIDE DEF f
    <3> QED BY <3>1, <3>2
  <2>2. f \in [1..c -> T]
    BY <1>1, <1>5
  <2> HIDE DEF f, T
  <2> QED BY <2>1, <2>2 DEF Injection, IsInjective
<1>7. Cardinality(1..c) = c /\ IsFiniteSet(1..c)
  BY FS_Interval
<1>8. Cardinality(1..c) <= Cardinality(T)
  BY <1>4, <1>6, FS_Injection
<1> QED BY <1>1, <1>4, <1>7, <1>8

\* An honest late answer ends the session only if the memory of closed requests is full
\* of younger ones (closedRequests, handleResponse).
THEOREM LateAnswersAreKnown == Spec => []LateAnswerIsHarmless
<1>1. ASSUME IInv PROVE LateAnswerIsHarmless
  <2> SUFFICES ASSUME NEW e \in Ends, ends[e].session.why = "correlation"
               PROVE  LET id == ends[e].session.replyTo
                      IN id \in Range(closings[e]) /\ Cardinality(ClosedSince(e, id)) >= MaxClosed
    BY DEF LateAnswerIsHarmless
  <2> DEFINE id == ends[e].session.replyTo
  <2>1. PICK C \in Seq(Nat), R \in Seq(Memories) : C = closings[e] /\ R = ends[e].remembered
    BY <1>1 DEF IInv, TypeOK, States
  <2>2. InOrder(R, C) /\ id \in Range(C) /\ \A i \in DOMAIN R : R[i].id # id
    BY <1>1, <2>1 DEF IInv, Side, ClosedOK, ForgottenOK
  <2> HIDE DEF id
  <2> DEFINE last == CHOOSE k \in DOMAIN C : C[k] = id /\ \A j \in k+1..Len(C) : C[j] # id
  <2>3. last \in DOMAIN C /\ LastAt(C, last, id)
    <3>1. PICK n \in Nat : n = Len(C) /\ DOMAIN C = 1..n
      OBVIOUS
    <3>2. \A k \in DOMAIN C :
            LastAt(C, k, id) <=> C[k] = id /\ \A j \in k+1..Len(C) : C[j] # id
      BY <3>1 DEF LastAt
    <3>3. \E k \in DOMAIN C : LastAt(C, k, id)
      BY <2>2 DEF InOrder
    <3> QED BY <3>2, <3>3
  <2>4. ClosedSince(e, id) = {C[k] : k \in last+1..Len(C)}
    BY <2>1 DEF ClosedSince
  <2> HIDE DEF last
  <2>5. Cardinality({C[k] : k \in last+1..Len(C)}) >= MaxClosed
    BY <2>2, <2>3, ManySince
  <2> QED BY <2>1, <2>2, <2>4, <2>5 DEF id
<1> QED BY <1>1, Invariant, PTL
=============================================================================
