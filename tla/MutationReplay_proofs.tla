------------------------ MODULE MutationReplay_proofs ------------------------
(***************************************************************************)
(* Theorems about MutationReplay for any invocations, calls, inputs,        *)
(* handlers, capacities and number of requests and faults.                  *)
(***************************************************************************)
EXTENDS MutationReplay, SequenceTheorems, TLAPS

-----------------------------------------------------------------------------
(* The inductive invariant *)

\* The phases in which a handler has its claim to resolve.
Open == {"claimed", "sent", "completing", "releasing"}
Bound == Open \cup {"fencing"}

Request ==
  [phase : Bound \cup {"claiming"}, of : Invocations, input : Inputs, attempt : Nat, n : Nat]

DataResult == [request : Nat]
CallResult == [key : Keys, revision : Nat]

DataRow ==
  [input : Inputs, attempt : Nat, result : DataResult,
   status : {"pending", "retryable", "succeeded", "indeterminate"}]

Heard == {"nothing", "ok", "retryable", "refused"}
Message == [of : Invocations, attempt : Nat, input : Inputs, heard : Heard]

TypeOK ==
  /\ DOMAIN rows \subseteq Invocations /\ \A i \in DOMAIN rows : rows[i] \in DataRow
  /\ handlers \in [Handlers -> {Idle} \cup Request]
  /\ sent \in Seq(Message)
  /\ DOMAIN calls \subseteq Calls
  /\ \A c \in DOMAIN calls : calls[c] \in [input : Inputs, result : CallResult]
  /\ cells \in [Keys -> Nat]
  /\ answers \subseteq
       [of : Invocations \cup Calls, input : Inputs, result : DataResult \cup CallResult]

\* A retry is possible only where all that was sent was heard to fail retryably.
RowsOK ==
  \A i \in DOMAIN rows :
    /\ rows[i].status = "retryable" => i \in Idempotent
    /\ rows[i].status = "succeeded" =>
         LET n == rows[i].result.request
         IN n \in DOMAIN sent /\ sent[n].heard = "ok" /\ sent[n].input = rows[i].input

\* Every request was sent under a claim, once in its attempt.
SentOK ==
  /\ \A n \in DOMAIN sent :
       LET i == sent[n].of
       IN /\ i \in DOMAIN rows
          /\ sent[n].attempt <= rows[i].attempt
          /\ sent[n].attempt < rows[i].attempt \/ rows[i].status = "retryable" =>
               sent[n].heard = "retryable" /\ i \in Idempotent
  /\ \A m, n \in DOMAIN sent :
       m < n /\ sent[m].of = sent[n].of => sent[m].attempt < sent[n].attempt

HasClaim(r) == r # Idle /\ r.phase \in Bound

\* While a handler has not resolved its claim, the row is the pending row of
\* its attempt, and what it sent in it is what it goes on from.
GoodRequest(table, log, r) ==
  HasClaim(r) =>
    /\ r.of \in DOMAIN table
    /\ table[r.of].input = r.input
    /\ r.attempt <= table[r.of].attempt
    /\ r.phase \in Open => table[r.of].attempt = r.attempt /\ table[r.of].status = "pending"
    /\ r.phase = "claimed" =>
         \A n \in DOMAIN log : log[n].of = r.of => log[n].attempt < r.attempt
    /\ r.phase \in {"sent", "completing", "releasing"} =>
         /\ r.n \in DOMAIN log
         /\ log[r.n].of = r.of /\ log[r.n].attempt = r.attempt /\ log[r.n].input = r.input
    /\ r.phase = "sent" => log[r.n].heard = "nothing"
    /\ r.phase = "completing" => log[r.n].heard = "ok"
    /\ r.phase = "releasing" => log[r.n].heard = "retryable" /\ r.of \in Idempotent

Apart(q, r) == HasClaim(q) /\ HasClaim(r) /\ q.of = r.of => q.attempt # r.attempt

\* No two handlers hold a claim of the same attempt.
HandlersOK ==
  /\ \A h \in Handlers : GoodRequest(rows, sent, handlers[h])
  /\ \A g, h \in Handlers : g # h => Apart(handlers[g], handlers[h])

\* Clients were answered with what the row of their request holds for good.
AnswersOK ==
  \A a \in answers :
    \/ /\ a.of \in DOMAIN rows
       /\ rows[a.of].status = "succeeded"
       /\ a.input = rows[a.of].input /\ a.result = rows[a.of].result
    \/ /\ a.of \in DOMAIN calls
       /\ a.input = calls[a.of].input /\ a.result = calls[a.of].result

IInv == TypeOK /\ RowsOK /\ SentOK /\ HandlersOK /\ AnswersOK /\ RevisionsCountCalls

-----------------------------------------------------------------------------
(* What the steps have in common *)

\* What a row says for good is never rewritten.
SettledKept ==
  /\ DOMAIN rows \subseteq DOMAIN rows'
  /\ \A i \in DOMAIN rows :
       rows[i].status \in {"succeeded", "indeterminate"} => rows'[i] = rows[i]

\* A step keeps the invariant and what rows say for good.
IStep == IInv' /\ SettledKept

\* Answers stand as long as succeeded rows and calls do.
LEMMA AnswersStand ==
  ASSUME AnswersOK, SettledKept, DOMAIN calls \subseteq DOMAIN calls',
         \A c \in DOMAIN calls : calls'[c] = calls[c],
         NEW a \in answers
  PROVE  \/ /\ a.of \in DOMAIN rows'
            /\ rows'[a.of].status = "succeeded"
            /\ a.input = rows'[a.of].input /\ a.result = rows'[a.of].result
         \/ /\ a.of \in DOMAIN calls'
            /\ a.input = calls'[a.of].input /\ a.result = calls'[a.of].result
BY DEF AnswersOK, SettledKept

\* The history consists of messages.
LEMMA MessageSent ==
  ASSUME TypeOK
  PROVE  /\ DOMAIN sent = 1..Len(sent) /\ Len(sent) \in Nat
         /\ \A n \in DOMAIN sent : sent[n] \in Message
BY LenProperties, ElementOfSeq DEF TypeOK

\* A handler is idle or at work on a request.
LEMMA RequestOfHandler ==
  ASSUME TypeOK, NEW h \in Handlers, handlers[h].phase # "idle"
  PROVE  handlers[h] # Idle /\ handlers[h] \in Request
BY DEF TypeOK, Idle

\* A step of one handler leaves the others' claims apart from its own.
LEMMA HandlerMoves ==
  ASSUME TypeOK, HandlersOK, NEW h \in Handlers, NEW x, handlers' = [handlers EXCEPT ![h] = x],
         GoodRequest(rows', sent', x),
         \A g \in Handlers \ {h} : /\ GoodRequest(rows', sent', handlers[g])
                                   /\ Apart(handlers[g], x)
  PROVE  HandlersOK'
<1>1. handlers'[h] = x /\ \A g \in Handlers \ {h} : handlers'[g] = handlers[g]
  BY DEF TypeOK
<1>2. \A g \in Handlers : GoodRequest(rows', sent', handlers'[g])
  BY <1>1
<1>3. \A f, g \in Handlers : f # g => Apart(handlers'[f], handlers'[g])
  BY <1>1 DEF HandlersOK, Apart
<1> QED BY <1>2, <1>3 DEF HandlersOK, GoodRequest, Apart, HasClaim

\* A step of the data gateway, from its parts.
LEMMA GatewayStep ==
  ASSUME IInv, TypeOK', RowsOK', SentOK', HandlersOK', SettledKept, UNCHANGED functions,
         \A a \in answers' \ answers :
           /\ a.of \in DOMAIN rows'
           /\ rows'[a.of].status = "succeeded"
           /\ a.input = rows'[a.of].input /\ a.result = rows'[a.of].result
  PROVE  IStep
<1>1. AnswersOK'
  BY AnswersStand DEF AnswersOK, IInv, functions
<1>2. RevisionsCountCalls'
  BY DEF IInv, RevisionsCountCalls, functions
<1> QED BY <1>1, <1>2 DEF IInv, IStep

\* A step in which a handler goes on, or is gone, and writes nothing.
LEMMA RestStep ==
  ASSUME IInv, NEW h \in Handlers, NEW x \in {Idle} \cup Request,
         handlers' = [handlers EXCEPT ![h] = x],
         UNCHANGED <<rows, sent, functions>>,
         GoodRequest(rows, sent, x),
         HasClaim(x) => /\ HasClaim(handlers[h])
                        /\ x.of = handlers[h].of /\ x.attempt = handlers[h].attempt,
         \A a \in answers' \ answers :
           /\ a.of \in DOMAIN rows
           /\ rows[a.of].status = "succeeded"
           /\ a.input = rows[a.of].input /\ a.result = rows[a.of].result,
         answers' \subseteq
           [of : Invocations \cup Calls, input : Inputs, result : DataResult \cup CallResult]
  PROVE  IStep
<1>1. TypeOK'
  BY DEF IInv, TypeOK, functions
<1>2. RowsOK' /\ SentOK' /\ SettledKept
  BY DEF IInv, RowsOK, SentOK, SettledKept
<1>3. HandlersOK'
  <2>1. \A g \in Handlers \ {h} : GoodRequest(rows', sent', handlers[g]) /\ Apart(handlers[g], x)
    BY DEF IInv, HandlersOK, Apart
  <2> QED BY <2>1, HandlerMoves DEF IInv
<1> QED BY <1>1, <1>2, <1>3, GatewayStep

\* A handler that only falls back on its fence keeps its claim.
LEMMA FencingIsGood ==
  ASSUME NEW table, NEW log, NEW r \in Request, GoodRequest(table, log, r), r.phase \in Bound
  PROVE  LET x == [r EXCEPT !.phase = "fencing"] IN
         /\ x \in Request /\ x # Idle /\ HasClaim(x) /\ HasClaim(r)
         /\ x.of = r.of /\ x.attempt = r.attempt /\ x.phase = "fencing"
         /\ GoodRequest(table, log, x)
<1> DEFINE x == [r EXCEPT !.phase = "fencing"]
<1>1. /\ x \in Request /\ x.phase = "fencing" /\ x.of = r.of /\ x.attempt = r.attempt
      /\ x.input = r.input /\ x.n = r.n
  BY DEF Request, Bound
<1>2. x # Idle /\ r # Idle
  <2>1. Idle.phase = "idle"
    BY DEF Idle
  <2> QED BY <1>1, <2>1 DEF Bound, Open
<1>3. HasClaim(x) /\ HasClaim(r)
  BY <1>1, <1>2 DEF HasClaim, Bound
<1> HIDE DEF x
<1>4. GoodRequest(table, log, x)
  BY <1>1, <1>3 DEF GoodRequest, Open
<1> QED BY <1>1, <1>2, <1>3, <1>4 DEF x

\* What the step answers to i is what row y says.
AnsweredFrom(i, y) ==
  \A a \in answers' \ answers :
    a.of = i /\ y.status = "succeeded" /\ a.input = y.input /\ a.result = y.result

\* The success that row y says was heard.
HeardSuccess(y) ==
  y.status = "succeeded" =>
    /\ y.result.request \in DOMAIN sent
    /\ sent[y.result.request].heard = "ok" /\ sent[y.result.request].input = y.input

\* A row that says nothing for good is rewritten by the handler of its attempt.
LEMMA RewriteStep ==
  ASSUME IInv, NEW h \in Handlers, HasClaim(handlers[h]), handlers[h] \in Request,
         NEW i, i = handlers[h].of, OwnsRow(i, handlers[h]),
         NEW y \in DataRow, y.input = rows[i].input, y.attempt = rows[i].attempt,
         rows[i].status # "succeeded", rows[i].status = "indeterminate" => y = rows[i],
         y.status = "retryable" =>
           /\ i \in Idempotent
           /\ \A n \in DOMAIN sent :
                sent[n].of = i /\ sent[n].attempt = y.attempt => sent[n].heard = "retryable",
         HeardSuccess(y),
         rows' = [rows EXCEPT ![i] = y],
         NEW x \in {Idle, [handlers[h] EXCEPT !.phase = "fencing"]},
         handlers' = [handlers EXCEPT ![h] = x],
         UNCHANGED <<sent, functions>>,
         AnsweredFrom(i, y),
         answers' \subseteq
           [of : Invocations \cup Calls, input : Inputs, result : DataResult \cup CallResult]
  PROVE  IStep
<1> DEFINE r == handlers[h]
<1>1. i \in DOMAIN rows /\ rows[i].attempt = r.attempt /\ rows[i].input = r.input
  BY DEF OwnsRow, Claimed, Matches
<1>2. /\ DOMAIN rows' = DOMAIN rows /\ rows'[i] = y
      /\ \A j \in DOMAIN rows : j # i => rows'[j] = rows[j]
  BY <1>1
<1>3. GoodRequest(rows, sent, r)
  BY DEF IInv, HandlersOK
<1>4. x \in {Idle} \cup Request /\ GoodRequest(rows, sent, x)
      /\ (HasClaim(x) => x.of = r.of /\ x.attempt = r.attempt /\ x.phase = "fencing")
  <2>1. r.phase \in Bound
    BY DEF HasClaim
  <2>2. GoodRequest(rows, sent, Idle) /\ ~HasClaim(Idle)
    BY DEF GoodRequest, HasClaim
  <2>3. CASE x = Idle
    BY <2>2, <2>3
  <2>4. CASE x = [r EXCEPT !.phase = "fencing"]
    <3>1. r \in Request
      OBVIOUS
    <3> HIDE DEF r
    <3> QED BY <1>3, <2>1, <2>4, <3>1, FencingIsGood
  <2> QED BY <2>3, <2>4
<1>5. TypeOK'
  BY <1>2, <1>4 DEF IInv, TypeOK, functions
<1>6. SettledKept
  BY <1>1, <1>2 DEF SettledKept
<1>7. RowsOK'
  BY <1>2 DEF IInv, RowsOK, HeardSuccess
<1>8. SentOK'
  <2> SUFFICES ASSUME NEW n \in DOMAIN sent
               PROVE  LET j == sent[n].of
                      IN /\ j \in DOMAIN rows'
                         /\ sent[n].attempt <= rows'[j].attempt
                         /\ sent[n].attempt < rows'[j].attempt \/ rows'[j].status = "retryable" =>
                              sent[n].heard = "retryable" /\ j \in Idempotent
    BY DEF IInv, SentOK
  <2>1. CASE sent[n].of # i
    BY <1>2, <2>1 DEF IInv, SentOK
  <2>2. CASE sent[n].of = i
    <3>1. /\ sent[n].attempt <= rows[i].attempt
          /\ sent[n].attempt < rows[i].attempt => sent[n].heard = "retryable" /\ i \in Idempotent
      BY <2>2 DEF IInv, SentOK
    <3>2. sent[n].attempt \in Nat /\ rows[i].attempt \in Nat
      BY <1>1, MessageSent DEF IInv, TypeOK, Message, DataRow
    <3> QED BY <1>1, <1>2, <2>2, <3>1, <3>2
  <2> QED BY <2>1, <2>2
<1>9. HandlersOK'
  <2> SUFFICES ASSUME NEW g \in Handlers \ {h}
               PROVE  GoodRequest(rows', sent, handlers[g])
    <3>1. GoodRequest(rows', sent, x)
      BY <1>1, <1>2, <1>4 DEF GoodRequest, Open
    <3>2. \A g \in Handlers \ {h} : Apart(handlers[g], x)
      BY <1>4 DEF IInv, HandlersOK, Apart
    <3> QED BY <3>1, <3>2, HandlerMoves DEF IInv
  <2>1. GoodRequest(rows, sent, handlers[g]) /\ Apart(handlers[g], r)
    BY DEF IInv, HandlersOK
  <2>2. HasClaim(handlers[g]) /\ handlers[g].of = i => handlers[g].phase \notin Open
    BY <1>1, <2>1 DEF Apart, GoodRequest
  <2> QED BY <1>1, <1>2, <2>1, <2>2 DEF GoodRequest, Open
<1> QED BY <1>1, <1>2, <1>5, <1>6, <1>7, <1>8, <1>9, GatewayStep DEF AnsweredFrom

-----------------------------------------------------------------------------
(* The steps of a data mutation *)

\* A claim: of a new invocation, or of the next attempt after one that was released.
LEMMA ClaimedStep ==
  ASSUME IInv, NEW h \in Handlers, handlers[h].phase = "claiming",
         NEW i, i = handlers[h].of,
         \/ i \notin Claimed
         \/ i \in Claimed /\ Matches(i, handlers[h]) /\ NextAttempt(i, handlers[h].attempt),
         ClaimRow(i, handlers[h]),
         NEW x \in {Idle, [handlers[h] EXCEPT !.phase = "claimed"]},
         handlers' = [handlers EXCEPT ![h] = x],
         UNCHANGED <<sent, answers, functions>>
  PROVE  IStep
<1> DEFINE r == handlers[h]
           y == [input |-> r.input, attempt |-> r.attempt, status |-> "pending",
                 result |-> NoResult]
<1>1. r # Idle /\ r \in Request /\ r.attempt \in Nat /\ i \in Invocations /\ r.input \in Inputs
  BY RequestOfHandler DEF IInv, Request
<1>2. y \in DataRow
  BY <1>1 DEF DataRow, DataResult, NoResult
<1>3. /\ DOMAIN rows' = DOMAIN rows \cup {i} /\ rows'[i] = y
      /\ \A j \in DOMAIN rows : j # i => rows'[j] = rows[j]
  <2>1. rows' = Put(rows, i, y)
    BY DEF ClaimRow
  <2> HIDE DEF y
  <2> QED BY <2>1 DEF Put
<1>4. y.input = r.input /\ y.attempt = r.attempt /\ y.status = "pending"
  OBVIOUS
<1> HIDE DEF y
<1>5. i \in DOMAIN rows =>
        /\ rows[i].input = r.input /\ rows[i].status = "retryable"
        /\ rows[i].attempt \in Nat /\ r.attempt = rows[i].attempt + 1
  BY DEF Claimed, Matches, NextAttempt, IInv, TypeOK, DataRow
<1>6. x = Idle \/ /\ x \in Request /\ x # Idle /\ HasClaim(x) /\ x.phase = "claimed"
                  /\ x.of = i /\ x.attempt = r.attempt /\ x.input = r.input
  <2> SUFFICES ASSUME x = [r EXCEPT !.phase = "claimed"]
               PROVE  /\ x \in Request /\ x # Idle /\ HasClaim(x) /\ x.phase = "claimed"
                      /\ x.of = i /\ x.attempt = r.attempt /\ x.input = r.input
    OBVIOUS
  <2>1. x \in Request /\ x.phase = "claimed" /\ x.of = i /\ x.attempt = r.attempt
        /\ x.input = r.input
    BY <1>1 DEF Request, Bound, Open
  <2>2. x # Idle
    BY <2>1 DEF Idle
  <2> QED BY <2>1, <2>2 DEF HasClaim, Bound, Open
<1>7. TypeOK'
  BY <1>1, <1>2, <1>3, <1>6 DEF IInv, TypeOK, functions
<1>8. SettledKept
  BY <1>3, <1>5 DEF SettledKept
<1>9. RowsOK'
  BY <1>3, <1>4 DEF IInv, RowsOK
<1>10. ASSUME NEW n \in DOMAIN sent, sent[n].of = i
       PROVE  /\ i \in DOMAIN rows /\ sent[n].attempt < r.attempt
              /\ sent[n].heard = "retryable" /\ i \in Idempotent
  <2>1. /\ i \in DOMAIN rows /\ sent[n].attempt <= rows[i].attempt
        /\ rows[i].status = "retryable" => sent[n].heard = "retryable" /\ i \in Idempotent
    BY <1>10 DEF IInv, SentOK
  <2>2. sent[n].attempt \in Nat
    BY MessageSent DEF IInv, Message
  <2> QED BY <1>1, <1>5, <2>1, <2>2
<1>11. SentOK'
  <2> SUFFICES ASSUME NEW n \in DOMAIN sent
               PROVE  LET j == sent[n].of
                      IN /\ j \in DOMAIN rows'
                         /\ sent[n].attempt <= rows'[j].attempt
                         /\ sent[n].attempt < rows'[j].attempt \/ rows'[j].status = "retryable" =>
                              sent[n].heard = "retryable" /\ j \in Idempotent
    BY DEF IInv, SentOK
  <2>1. CASE sent[n].of # i
    BY <1>3, <2>1 DEF IInv, SentOK
  <2>2. CASE sent[n].of = i
    <3>1. sent[n].attempt \in Nat
      BY MessageSent DEF IInv, Message
    <3> QED BY <1>1, <1>3, <1>4, <1>10, <2>2, <3>1
  <2> QED BY <2>1, <2>2
<1>12. HandlersOK'
  <2>1. GoodRequest(rows', sent, x)
    <3>1. ~HasClaim(Idle)
      BY DEF HasClaim
    <3>2. CASE x # Idle
      BY <1>1, <1>3, <1>4, <1>6, <1>10, <3>2 DEF GoodRequest
    <3> QED BY <3>1, <3>2 DEF GoodRequest
  <2>2. ASSUME NEW g \in Handlers \ {h}
        PROVE  GoodRequest(rows', sent, handlers[g]) /\ Apart(handlers[g], x)
    <3>1. GoodRequest(rows, sent, handlers[g])
      BY DEF IInv, HandlersOK
    <3>2. ASSUME HasClaim(handlers[g]), handlers[g].of = i
          PROVE  /\ i \in DOMAIN rows /\ handlers[g].phase = "fencing"
                 /\ handlers[g].attempt <= rows[i].attempt /\ rows[i].input = handlers[g].input
                 /\ handlers[g].attempt \in Nat
      <4>1. handlers[g] \in Request
        BY <3>2 DEF IInv, TypeOK, HasClaim
      <4> QED BY <1>5, <3>1, <3>2, <4>1 DEF GoodRequest, HasClaim, Bound, Request
    <3>3. GoodRequest(rows', sent, handlers[g])
      <4>1. CASE handlers[g].of # i
        BY <1>3, <3>1, <4>1 DEF GoodRequest
      <4>2. CASE handlers[g].of = i
        BY <1>1, <1>3, <1>4, <1>5, <3>2, <4>2 DEF GoodRequest, Open
      <4> QED BY <4>1, <4>2
    <3>4. Apart(handlers[g], x)
      <4>1. ~HasClaim(Idle)
        BY DEF HasClaim
      <4> QED BY <1>1, <1>5, <1>6, <3>2, <4>1 DEF Apart
    <3> QED BY <3>3, <3>4
  <2> QED BY <2>1, <2>2, HandlerMoves DEF IInv
<1> QED BY <1>7, <1>8, <1>9, <1>11, <1>12, GatewayStep

\* The request of a claim is sent once; whatever was sent before is of an
\* earlier attempt.
LEMMA SendStep ==
  ASSUME IInv, NEW h \in Handlers, Send(h)
  PROVE  IStep
<1> DEFINE r == handlers[h]
           n == Len(sent) + 1
           e == [of |-> r.of, attempt |-> r.attempt, input |-> r.input, heard |-> "nothing"]
           x == [r EXCEPT !.phase = "sent", !.n = n]
<1>1. /\ r.phase = "claimed" /\ sent' = Append(sent, e)
      /\ handlers' = [handlers EXCEPT ![h].phase = "sent", ![h].n = n]
      /\ UNCHANGED <<rows, answers, functions>>
  BY DEF Send
<1>2. r # Idle /\ r \in Request /\ r.attempt \in Nat
  BY <1>1, RequestOfHandler DEF IInv, Request
<1>3. handlers' = [handlers EXCEPT ![h] = x]
  BY <1>1, <1>2 DEF IInv, TypeOK
<1>4. /\ HasClaim(r) /\ GoodRequest(rows, sent, r)
  BY <1>1, <1>2 DEF HasClaim, Bound, Open, IInv, HandlersOK
<1>5. /\ r.of \in DOMAIN rows /\ rows[r.of].input = r.input
      /\ rows[r.of].attempt = r.attempt /\ rows[r.of].status = "pending"
      /\ \A m \in DOMAIN sent : sent[m].of = r.of => sent[m].attempt < r.attempt
  BY <1>1, <1>4 DEF GoodRequest, Open
<1>6. e \in Message /\ e.of = r.of /\ e.attempt = r.attempt /\ e.input = r.input
      /\ e.heard = "nothing"
  BY <1>2 DEF Message, Heard, Request
<1>7. DOMAIN sent = 1..Len(sent) /\ Len(sent) \in Nat /\ n \in Nat
  BY MessageSent DEF IInv
<1> HIDE DEF e
<1>8. /\ sent' \in Seq(Message) /\ DOMAIN sent' = DOMAIN sent \cup {n} /\ sent'[n] = e
      /\ \A m \in DOMAIN sent : m < n /\ sent'[m] = sent[m]
  <2>1. sent \in Seq(Message)
    BY DEF IInv, TypeOK
  <2>2. DOMAIN sent' = 1..n
    BY <1>1, <1>6, <2>1, AppendProperties, LenProperties
  <2> QED BY <1>1, <1>6, <1>7, <2>1, <2>2, AppendProperties
<1>9. /\ x \in Request /\ x # Idle /\ x.phase = "sent" /\ x.n = n
      /\ x.of = r.of /\ x.attempt = r.attempt /\ x.input = r.input
  <2>1. /\ x \in Request /\ x.phase = "sent" /\ x.n = n
        /\ x.of = r.of /\ x.attempt = r.attempt /\ x.input = r.input
    BY <1>2, <1>7 DEF Request, Bound, Open
  <2> QED BY <2>1 DEF Idle
<1> HIDE DEF x, n
<1>10. TypeOK'
  BY <1>1, <1>3, <1>8, <1>9 DEF IInv, TypeOK, functions
<1>11. SettledKept
  BY <1>1 DEF SettledKept
<1>12. RowsOK'
  BY <1>1, <1>8 DEF IInv, RowsOK
<1>13. SentOK'
  <2>1. ASSUME NEW m \in DOMAIN sent'
        PROVE  LET i == sent'[m].of
               IN /\ i \in DOMAIN rows
                  /\ sent'[m].attempt <= rows[i].attempt
                  /\ sent'[m].attempt < rows[i].attempt \/ rows[i].status = "retryable" =>
                       sent'[m].heard = "retryable" /\ i \in Idempotent
    <3>1. CASE m \in DOMAIN sent
      BY <1>8, <3>1 DEF IInv, SentOK
    <3>2. CASE m = n
      BY <1>2, <1>5, <1>6, <1>8, <3>2
    <3> QED BY <1>8, <3>1, <3>2
  <2>2. ASSUME NEW l \in DOMAIN sent', NEW m \in DOMAIN sent', l < m, sent'[l].of = sent'[m].of
        PROVE  sent'[l].attempt < sent'[m].attempt
    <3>1. l \in DOMAIN sent
      BY <1>7, <1>8, <2>2
    <3>2. CASE m \in DOMAIN sent
      BY <1>8, <2>2, <3>1, <3>2 DEF IInv, SentOK
    <3>3. CASE m = n
      BY <1>5, <1>6, <1>8, <2>2, <3>1, <3>3
    <3> QED BY <1>8, <3>2, <3>3
  <2> QED BY <1>1, <2>1, <2>2 DEF SentOK
<1>14. HandlersOK'
  <2>1. GoodRequest(rows', sent', x)
    BY <1>1, <1>2, <1>5, <1>6, <1>8, <1>9 DEF GoodRequest
  <2>2. ASSUME NEW g \in Handlers \ {h}
        PROVE  GoodRequest(rows', sent', handlers[g]) /\ Apart(handlers[g], x)
    <3>1. GoodRequest(rows, sent, handlers[g]) /\ Apart(handlers[g], r)
      BY DEF IInv, HandlersOK
    <3>2. HasClaim(handlers[g]) /\ handlers[g].phase = "claimed" => handlers[g].of # r.of
      BY <1>4, <1>5, <3>1 DEF Apart, GoodRequest, Open
    <3>3. GoodRequest(rows', sent', handlers[g])
      BY <1>1, <1>6, <1>8, <3>1, <3>2 DEF GoodRequest
    <3>4. Apart(handlers[g], x)
      BY <1>4, <1>9, <3>1 DEF Apart
    <3> QED BY <3>3, <3>4
  <2> QED BY <1>3, <2>1, <2>2, HandlerMoves DEF IInv
<1> QED BY <1>1, <1>10, <1>11, <1>12, <1>13, <1>14, GatewayStep

\* What is heard is heard of the handler's own request, whose row is pending, so
\* that no row and no other handler has built on it.
LEMMA HearStep ==
  ASSUME IInv, NEW h \in Handlers, Hear(h)
  PROVE  IStep
<1> DEFINE r == handlers[h]
           n == r.n
<1>1. PICK heard \in {"ok", "retryable", "refused"} :
        /\ sent' = [sent EXCEPT ![n].heard = heard]
        /\ Goto(h, NextPhase(h, heard))
  BY DEF Hear
<1>2. r.phase = "sent" /\ UNCHANGED <<rows, answers, functions>>
  BY DEF Hear
<1>3. r # Idle /\ r \in Request /\ r.attempt \in Nat
  BY <1>2, RequestOfHandler DEF IInv, Request
<1> DEFINE phase == NextPhase(h, heard)
           x == [r EXCEPT !.phase = phase]
           e == [sent[n] EXCEPT !.heard = heard]
<1>4. /\ HasClaim(r) /\ GoodRequest(rows, sent, r)
  BY <1>2, <1>3 DEF HasClaim, Bound, Open, IInv, HandlersOK
<1>5. /\ r.of \in DOMAIN rows /\ rows[r.of].input = r.input
      /\ rows[r.of].attempt = r.attempt /\ rows[r.of].status = "pending"
      /\ n \in DOMAIN sent /\ sent[n].heard = "nothing"
      /\ sent[n].of = r.of /\ sent[n].attempt = r.attempt /\ sent[n].input = r.input
  BY <1>2, <1>4 DEF GoodRequest, Open
<1>6. DOMAIN sent = 1..Len(sent) /\ Len(sent) \in Nat /\ sent[n] \in Message
      /\ sent \in Seq(Message)
  BY <1>5, MessageSent DEF IInv, TypeOK
<1>7. e \in Message /\ e.of = r.of /\ e.attempt = r.attempt /\ e.input = r.input
      /\ e.heard = heard
  BY <1>5, <1>6 DEF Message, Heard
<1>8. sent' = [sent EXCEPT ![n] = e]
  BY <1>1, <1>6
<1> HIDE DEF e
<1>9. /\ sent' \in Seq(Message) /\ DOMAIN sent' = DOMAIN sent /\ sent'[n] = e
      /\ \A m \in DOMAIN sent : m # n => sent'[m] = sent[m]
  BY <1>5, <1>6, <1>7, <1>8, ExceptSeq
<1>10. /\ phase \in {"completing", "releasing", "fencing"}
       /\ phase = "completing" => heard = "ok"
       /\ phase = "releasing" => heard = "retryable" /\ r.of \in Idempotent
  BY DEF NextPhase
<1> HIDE DEF phase
<1>11. /\ x \in Request /\ x # Idle /\ x.phase = phase /\ x.n = n
       /\ x.of = r.of /\ x.attempt = r.attempt /\ x.input = r.input
  <2>1. /\ x \in Request /\ x.phase = phase /\ x.n = n
        /\ x.of = r.of /\ x.attempt = r.attempt /\ x.input = r.input
    BY <1>3, <1>10 DEF Request, Bound, Open
  <2> QED BY <1>10, <2>1 DEF Idle
<1>12. handlers' = [handlers EXCEPT ![h] = x]
  BY <1>1, <1>3 DEF Goto, phase, IInv, TypeOK
<1> HIDE DEF x
<1>13. TypeOK'
  BY <1>2, <1>9, <1>11, <1>12 DEF IInv, TypeOK, functions
<1>14. SettledKept
  BY <1>2 DEF SettledKept
<1>15. RowsOK'
  BY <1>2, <1>5, <1>9 DEF IInv, RowsOK
<1>16. SentOK'
  <2>1. \A m \in DOMAIN sent : sent'[m].of = sent[m].of /\ sent'[m].attempt = sent[m].attempt
    BY <1>5, <1>7, <1>9
  <2>2. ASSUME NEW m \in DOMAIN sent
        PROVE  LET i == sent'[m].of
               IN /\ i \in DOMAIN rows
                  /\ sent'[m].attempt <= rows[i].attempt
                  /\ sent'[m].attempt < rows[i].attempt \/ rows[i].status = "retryable" =>
                       sent'[m].heard = "retryable" /\ i \in Idempotent
    <3>1. CASE m # n
      BY <1>9, <3>1 DEF IInv, SentOK
    <3>2. CASE m = n
      BY <1>3, <1>5, <1>7, <1>9, <3>2
    <3> QED BY <3>1, <3>2
  <2> QED BY <1>2, <1>9, <2>1, <2>2 DEF IInv, SentOK
<1>17. HandlersOK'
  <2>1. GoodRequest(rows', sent', x)
    BY <1>2, <1>3, <1>5, <1>7, <1>9, <1>10, <1>11 DEF GoodRequest, Open
  <2>2. ASSUME NEW g \in Handlers \ {h}
        PROVE  GoodRequest(rows', sent', handlers[g]) /\ Apart(handlers[g], x)
    <3>1. GoodRequest(rows, sent, handlers[g]) /\ Apart(handlers[g], r)
      BY DEF IInv, HandlersOK
    <3>2. HasClaim(handlers[g]) /\ handlers[g].phase \in {"sent", "completing", "releasing"}
            => handlers[g].n # n
      BY <1>4, <1>5, <3>1 DEF Apart, GoodRequest
    <3>3. \A m \in DOMAIN sent : sent'[m].of = sent[m].of /\ sent'[m].attempt = sent[m].attempt
      BY <1>5, <1>7, <1>9
    <3>4. GoodRequest(rows', sent', handlers[g])
      BY <1>2, <1>9, <3>1, <3>2, <3>3 DEF GoodRequest
    <3>5. Apart(handlers[g], x)
      BY <1>4, <1>11, <3>1 DEF Apart
    <3> QED BY <3>4, <3>5
  <2> QED BY <1>12, <2>1, <2>2, HandlerMoves DEF IInv
<1> QED BY <1>2, <1>13, <1>14, <1>15, <1>16, <1>17, GatewayStep

\* A handler that falls back on its fence, or is gone, without a write.
LEMMA FallsBack ==
  ASSUME IInv, NEW h \in Handlers, handlers[h].phase \in Bound,
         Goto(h, "fencing") \/ Finish(h),
         UNCHANGED <<rows, sent, answers, functions>>
  PROVE  IStep
<1> DEFINE r == handlers[h]
           x == [r EXCEPT !.phase = "fencing"]
<1>1. r # Idle /\ r \in Request /\ GoodRequest(rows, sent, r)
  <2>1. r.phase # "idle"
    BY DEF Bound, Open
  <2> QED BY <2>1, RequestOfHandler DEF IInv, HandlersOK
<1>2. answers' \subseteq
        [of : Invocations \cup Calls, input : Inputs, result : DataResult \cup CallResult]
  BY DEF IInv, TypeOK
<1>3. CASE Finish(h)
  <2>1. ~HasClaim(Idle) /\ GoodRequest(rows, sent, Idle)
    BY DEF HasClaim, GoodRequest
  <2>2. handlers' = [handlers EXCEPT ![h] = Idle]
    BY <1>3 DEF Finish
  <2> QED BY <1>2, <2>1, <2>2, RestStep
<1>4. CASE Goto(h, "fencing")
  <2>1. handlers' = [handlers EXCEPT ![h] = x]
    BY <1>1, <1>4 DEF Goto, IInv, TypeOK
  <2>2. /\ x \in Request /\ GoodRequest(rows, sent, x) /\ HasClaim(r)
        /\ x.of = r.of /\ x.attempt = r.attempt
    <3> HIDE DEF r
    <3>1. r.phase \in Bound
      BY DEF r
    <3> QED BY <1>1, <3>1, FencingIsGood
  <2> QED BY <1>2, <2>1, <2>2, RestStep
<1> QED BY <1>3, <1>4

\* The answer was heard to be a success: the row says so for good, also if the
\* handler is told otherwise and falls back on its fence.
LEMMA CompleteStep ==
  ASSUME IInv, NEW h \in Handlers, Complete(h)
  PROVE  IStep
<1> DEFINE r == handlers[h]
           i == r.of
           result == [request |-> r.n]
           y == [rows[i] EXCEPT !.result = result, !.status = "succeeded"]
           owns == OwnsRow(i, r) /\ rows[i].status = "pending"
           completed == [rows EXCEPT ![i].result = result, ![i].status = "succeeded"]
<1>1. r.phase = "completing" /\ UNCHANGED <<sent, functions, lost, requests>>
  BY DEF Complete
<1>2. \/ owns /\ rows' = completed /\ Answer(i, r.input, result) /\ Finish(h)
      \/ owns /\ rows' = completed /\ Goto(h, "fencing") /\ UNCHANGED answers
      \/ rows' = rows /\ Goto(h, "fencing") /\ UNCHANGED answers
  BY DEF Complete
<1>3. r # Idle /\ r \in Request /\ HasClaim(r) /\ GoodRequest(rows, sent, r)
  BY <1>1, RequestOfHandler DEF HasClaim, Bound, Open, IInv, HandlersOK
<1>4. CASE rows' = rows /\ Goto(h, "fencing") /\ UNCHANGED answers
  BY <1>1, <1>4, FallsBack DEF Bound, Open
<1>5. ASSUME owns, rows' = completed,
             \/ Answer(i, r.input, result) /\ Finish(h)
             \/ Goto(h, "fencing") /\ UNCHANGED answers
      PROVE  IStep
  <2>1. i \in DOMAIN rows /\ rows[i] \in DataRow /\ rows[i].input = r.input
        /\ rows[i].status = "pending" /\ r.n \in Nat /\ i \in Invocations /\ r.input \in Inputs
    BY <1>3, <1>5 DEF OwnsRow, Claimed, Matches, IInv, TypeOK, Request
  <2>2. /\ y \in DataRow /\ y.input = rows[i].input /\ y.attempt = rows[i].attempt
        /\ y.status = "succeeded" /\ y.result = result /\ result \in DataResult
    BY <2>1 DEF DataRow, DataResult
  <2>3. rows' = [rows EXCEPT ![i] = y]
    BY <1>5, <2>1 DEF DataRow
  <2>4. r.n \in DOMAIN sent /\ sent[r.n].heard = "ok" /\ sent[r.n].input = r.input
    BY <1>1, <1>3 DEF GoodRequest
  <2>5. result.request = r.n
    OBVIOUS
  <2>6. \A a \in answers' \ answers :
          a.of = i /\ a.input = r.input /\ a.result = result
    BY <1>5 DEF Answer
  <2>7. answers' \subseteq
          [of : Invocations \cup Calls, input : Inputs, result : DataResult \cup CallResult]
    BY <1>5, <2>1, <2>2 DEF Answer, IInv, TypeOK
  <2>8. PICK x \in {Idle, [r EXCEPT !.phase = "fencing"]} : handlers' = [handlers EXCEPT ![h] = x]
    BY <1>3, <1>5 DEF Finish, Goto, IInv, TypeOK
  <2>9. OwnsRow(i, r) /\ UNCHANGED <<sent, functions>>
    BY <1>1, <1>5
  <2> HIDE DEF y, result, i, r
  <2>10. HeardSuccess(y)
    BY <2>1, <2>2, <2>4, <2>5 DEF HeardSuccess
  <2>11. AnsweredFrom(i, y)
    BY <2>1, <2>2, <2>6 DEF AnsweredFrom
  <2>12. /\ rows[i].status # "succeeded" /\ rows[i].status # "indeterminate"
         /\ y \in DataRow /\ y.input = rows[i].input /\ y.attempt = rows[i].attempt
         /\ y.status # "retryable"
    BY <2>1, <2>2
  <2> HIDE DEF owns, completed
  <2> QED BY <1>3, <2>3, <2>7, <2>8, <2>9, <2>10, <2>11, <2>12, RewriteStep DEF i, r
<1> QED BY <1>2, <1>4, <1>5

\* What was sent in this attempt was heard to fail retryably, as was what was
\* sent before: the next attempt may be claimed.
LEMMA ReleaseStep ==
  ASSUME IInv, NEW h \in Handlers, Release(h)
  PROVE  IStep
<1> DEFINE r == handlers[h]
           i == r.of
           y == [rows[i] EXCEPT !.status = "retryable"]
           owns == OwnsRow(i, r) /\ rows[i].status \in {"pending", "retryable"}
           released == [rows EXCEPT ![i].status = "retryable"]
<1>1. r.phase = "releasing" /\ UNCHANGED <<sent, answers, functions, lost, requests>>
  BY DEF Release
<1>2. \/ owns /\ rows' = released /\ (Finish(h) \/ Goto(h, "fencing"))
      \/ rows' = rows /\ Goto(h, "fencing")
  BY DEF Release
<1>3. r # Idle /\ r \in Request /\ HasClaim(r) /\ GoodRequest(rows, sent, r)
  BY <1>1, RequestOfHandler DEF HasClaim, Bound, Open, IInv, HandlersOK
<1>4. CASE rows' = rows /\ Goto(h, "fencing")
  BY <1>1, <1>4, FallsBack DEF Bound, Open
<1>5. ASSUME owns, rows' = released, Finish(h) \/ Goto(h, "fencing")
      PROVE  IStep
  <2>1. i \in DOMAIN rows /\ rows[i] \in DataRow /\ rows[i].status \in {"pending", "retryable"}
        /\ rows[i].attempt = r.attempt
    BY <1>5 DEF OwnsRow, Claimed, IInv, TypeOK
  <2>2. /\ y \in DataRow /\ y.input = rows[i].input /\ y.attempt = rows[i].attempt
        /\ y.status = "retryable"
    BY <2>1 DEF DataRow
  <2>3. rows' = [rows EXCEPT ![i] = y]
    BY <1>5, <2>1 DEF DataRow
  <2>4. r.n \in DOMAIN sent /\ sent[r.n].of = i /\ sent[r.n].attempt = r.attempt
        /\ sent[r.n].heard = "retryable" /\ i \in Idempotent
    BY <1>1, <1>3 DEF GoodRequest
  <2>5. ASSUME NEW n \in DOMAIN sent, sent[n].of = i, sent[n].attempt = r.attempt
        PROVE  sent[n].heard = "retryable"
    <3>1. n = r.n
      <4>1. DOMAIN sent = 1..Len(sent) /\ Len(sent) \in Nat
            /\ sent[n].attempt \in Nat /\ sent[r.n].attempt \in Nat
        BY <2>4, MessageSent DEF IInv, Message
      <4>2. ~(n < r.n) /\ ~(r.n < n)
        BY <2>4, <2>5, <4>1 DEF IInv, SentOK
      <4> QED BY <2>4, <4>1, <4>2
    <3> QED BY <2>4, <3>1
  <2>6. PICK x \in {Idle, [r EXCEPT !.phase = "fencing"]} : handlers' = [handlers EXCEPT ![h] = x]
    BY <1>3, <1>5 DEF Finish, Goto, IInv, TypeOK
  <2>7. answers' \subseteq
          [of : Invocations \cup Calls, input : Inputs, result : DataResult \cup CallResult]
    BY <1>1 DEF IInv, TypeOK
  <2>8. OwnsRow(i, r) /\ UNCHANGED <<sent, answers, functions>>
    BY <1>1, <1>5
  <2> HIDE DEF y, i, r
  <2>9. \A n \in DOMAIN sent :
          sent[n].of = i /\ sent[n].attempt = y.attempt => sent[n].heard = "retryable"
    BY <2>1, <2>2, <2>5
  <2>10. HeardSuccess(y) /\ AnsweredFrom(i, y)
    BY <2>2, <2>8 DEF HeardSuccess, AnsweredFrom
  <2> QED BY <1>3, <2>1, <2>2, <2>3, <2>4, <2>6, <2>7, <2>8, <2>9, <2>10, RewriteStep DEF i, r
<1> QED BY <1>2, <1>4, <1>5

\* The fence closes a pending row for good, and touches no other.
LEMMA FenceStep ==
  ASSUME IInv, NEW h \in Handlers, Fence(h)
  PROVE  IStep
<1> DEFINE r == handlers[h]
           i == r.of
           y == [rows[i] EXCEPT !.status = "indeterminate"]
<1>1. r.phase = "fencing" /\ Finish(h) /\ UNCHANGED <<sent, answers, functions>>
  BY DEF Fence
<1>2. \/ Fenceable(i, r) /\ SetRow(i, "indeterminate")
      \/ UNCHANGED rows
  BY DEF Fence
<1>3. CASE UNCHANGED rows
  BY <1>1, <1>3, FallsBack DEF Bound
<1>4. ASSUME Fenceable(i, r), SetRow(i, "indeterminate") PROVE IStep
  <2>1. r # Idle /\ r \in Request /\ HasClaim(r)
    BY <1>1, RequestOfHandler DEF HasClaim, Bound, IInv
  <2>2. i \in DOMAIN rows /\ rows[i] \in DataRow /\ rows[i].status \in {"pending", "indeterminate"}
        /\ OwnsRow(i, r)
    BY <1>4 DEF Fenceable, OwnsRow, Claimed, IInv, TypeOK
  <2>3. /\ y \in DataRow /\ y.input = rows[i].input /\ y.attempt = rows[i].attempt
        /\ y.status = "indeterminate"
        /\ rows[i].status = "indeterminate" => y = rows[i]
    BY <2>2 DEF DataRow
  <2>4. rows' = [rows EXCEPT ![i] = y]
    BY <1>4, <2>2 DEF SetRow, DataRow
  <2>5. handlers' = [handlers EXCEPT ![h] = Idle]
    BY <1>1 DEF Finish
  <2>6. answers' \subseteq
          [of : Invocations \cup Calls, input : Inputs, result : DataResult \cup CallResult]
    BY <1>1 DEF IInv, TypeOK
  <2>7. HeardSuccess(y) /\ AnsweredFrom(i, y)
    BY <1>1, <2>3 DEF HeardSuccess, AnsweredFrom
  <2> HIDE DEF y
  <2> QED BY <1>1, <2>1, <2>2, <2>3, <2>4, <2>5, <2>6, <2>7, RewriteStep
<1> QED BY <1>2, <1>3, <1>4

\* A request that arrives has no claim yet.
LEMMA ArriveStep ==
  ASSUME IInv, NEW h \in Handlers, Arrive(h)
  PROVE  IStep
<1>1. PICK i \in Invocations, input \in Inputs :
        \E attempt \in 1..Maximum[i] :
          handlers' = [handlers EXCEPT ![h] =
            [phase |-> "claiming", of |-> i, input |-> input, attempt |-> attempt, n |-> 0]]
  BY DEF Arrive
<1>0. PICK attempt \in 1..Maximum[i] :
        handlers' = [handlers EXCEPT ![h] =
          [phase |-> "claiming", of |-> i, input |-> input, attempt |-> attempt, n |-> 0]]
  BY <1>1
<1> DEFINE x == [phase |-> "claiming", of |-> i, input |-> input, attempt |-> attempt, n |-> 0]
<1>2. x \in Request
  <2>1. attempt \in Nat
    BY MaximumAssumption
  <2> QED BY <2>1 DEF Request
<1>3. ~HasClaim(x) /\ GoodRequest(rows, sent, x)
  BY DEF HasClaim, Bound, Open, GoodRequest
<1>4. UNCHANGED <<rows, sent, answers, functions>>
  BY DEF Arrive
<1>5. answers' \subseteq
        [of : Invocations \cup Calls, input : Inputs, result : DataResult \cup CallResult]
  BY <1>4 DEF IInv, TypeOK
<1> HIDE DEF x
<1> QED BY <1>0, <1>2, <1>3, <1>4, <1>5, RestStep DEF x

\* The claim transaction, whichever way it ends.
LEMMA ClaimStep ==
  ASSUME IInv, NEW h \in Handlers, Claim(h)
  PROVE  IStep
<1> DEFINE r == handlers[h]
           i == r.of
           again == i \in Claimed /\ Matches(i, r) /\ NextAttempt(i, r.attempt)
           done == i \in Claimed /\ Matches(i, r) /\ rows[i].status = "succeeded"
<1>1. r.phase = "claiming" /\ UNCHANGED <<sent, functions>>
  BY DEF Claim
<1>2. \/ /\ i \notin Claimed \/ again
         /\ ClaimRow(i, r)
         /\ Goto(h, "claimed") \/ Finish(h)
         /\ UNCHANGED answers
      \/ done /\ Answer(i, r.input, rows[i].result) /\ Finish(h) /\ UNCHANGED rows
      \/ Finish(h) /\ UNCHANGED <<rows, answers>>
  BY DEF Claim
<1>3. r # Idle /\ r \in Request
  BY <1>1, RequestOfHandler DEF IInv
<1>4. ASSUME i \notin Claimed \/ again, ClaimRow(i, r), Goto(h, "claimed") \/ Finish(h),
             UNCHANGED answers
      PROVE  IStep
  <2>1. PICK x \in {Idle, [r EXCEPT !.phase = "claimed"]} : handlers' = [handlers EXCEPT ![h] = x]
    BY <1>3, <1>4 DEF Finish, Goto, IInv, TypeOK
  <2> QED BY <1>1, <1>4, <2>1, ClaimedStep
<1>5. ASSUME Finish(h), UNCHANGED rows,
             UNCHANGED answers \/ (done /\ Answer(i, r.input, rows[i].result))
      PROVE  IStep
  <2>1. ~HasClaim(Idle) /\ GoodRequest(rows, sent, Idle)
    BY DEF HasClaim, GoodRequest
  <2>2. handlers' = [handlers EXCEPT ![h] = Idle]
    BY <1>5 DEF Finish
  <2>3. \A a \in answers' \ answers :
          /\ a.of \in DOMAIN rows
          /\ rows[a.of].status = "succeeded"
          /\ a.input = rows[a.of].input /\ a.result = rows[a.of].result
    BY <1>5 DEF Answer, Claimed, Matches
  <2>4. answers' \subseteq
          [of : Invocations \cup Calls, input : Inputs, result : DataResult \cup CallResult]
    <3>1. done => rows[i].result \in DataResult
      BY DEF Claimed, IInv, TypeOK, DataRow
    <3> QED BY <1>3, <1>5, <3>1 DEF Answer, IInv, TypeOK, Request
  <2> QED BY <1>1, <1>5, <2>1, <2>2, <2>3, <2>4, RestStep
<1> QED BY <1>2, <1>4, <1>5

-----------------------------------------------------------------------------
(* The step of a server function mutation *)

\* The effect and the row with its revision are written together, so that the
\* revisions in the rows of an entry stay those it has had.
LEMMA ApplyStep ==
  ASSUME IInv, ApplyStateMutation
  PROVE  IStep
<1>1. UNCHANGED <<rows, handlers, sent>>
  BY DEF ApplyStateMutation, gateway
<1>2. PICK c \in Calls, k \in Keys, input \in Inputs :
        \/ /\ c \in DOMAIN calls
           /\ calls[c].input = input
           /\ Answer(c, input, calls[c].result)
           /\ UNCHANGED functions
        \/ LET result == [key |-> k, revision |-> cells[k] + 1]
           IN /\ c \notin DOMAIN calls
              /\ cells' = [cells EXCEPT ![k] = @ + 1]
              /\ calls' = Put(calls, c, [input |-> input, result |-> result])
              /\ Answer(c, input, result) \/ UNCHANGED answers
  BY DEF ApplyStateMutation, Stored, Recorded
<1> DEFINE result == [key |-> k, revision |-> cells[k] + 1]
           row == [input |-> input, result |-> result]
<1>3. /\ HandlersOK' /\ RowsOK' /\ SentOK' /\ SettledKept
      /\ DOMAIN rows' \subseteq Invocations /\ \A i \in DOMAIN rows' : rows'[i] \in DataRow
      /\ handlers' \in [Handlers -> {Idle} \cup Request]
      /\ sent' \in Seq(Message)
  BY <1>1 DEF IInv, TypeOK, HandlersOK, RowsOK, SentOK, SettledKept
<1>4. CASE /\ c \in DOMAIN calls
           /\ calls[c].input = input
           /\ Answer(c, input, calls[c].result)
           /\ UNCHANGED functions
  <2>1. TypeOK'
    BY <1>3, <1>4 DEF IInv, TypeOK, Answer, functions
  <2>2. AnswersOK'
    <3>1. \A a \in answers' \ answers : a = [of |-> c, input |-> input, result |-> calls[c].result]
      BY <1>4 DEF Answer
    <3> QED BY <1>3, <1>4, <3>1, AnswersStand DEF AnswersOK, IInv, functions
  <2>3. RevisionsCountCalls'
    BY <1>4 DEF IInv, RevisionsCountCalls, functions
  <2> QED BY <1>3, <2>1, <2>2, <2>3 DEF IInv, IStep
<1>5. ASSUME c \notin DOMAIN calls, cells' = [cells EXCEPT ![k] = @ + 1],
             calls' = Put(calls, c, row),
             Answer(c, input, result) \/ UNCHANGED answers
      PROVE  IStep
  <2>1. cells[k] \in Nat /\ cells' \in [Keys -> Nat] /\ cells'[k] = cells[k] + 1
        /\ \A j \in Keys : j # k => cells'[j] = cells[j]
    BY <1>5 DEF IInv, TypeOK
  <2>2. result \in CallResult /\ result.key = k /\ result.revision = cells[k] + 1
    BY <2>1 DEF CallResult
  <2>3. row.input = input /\ row.result = result /\ row \in [input : Inputs, result : CallResult]
    BY <2>2
  <2> HIDE DEF row, result
  <2>4. /\ DOMAIN calls' = DOMAIN calls \cup {c} /\ calls'[c] = row
        /\ \A x \in DOMAIN calls : calls'[x] = calls[x]
    BY <1>5 DEF Put
  <2>5. TypeOK'
    <3>1. DOMAIN calls' \subseteq Calls
      BY <2>4 DEF IInv, TypeOK
    <3>2. \A x \in DOMAIN calls' : calls'[x] \in [input : Inputs, result : CallResult]
      BY <2>3, <2>4 DEF IInv, TypeOK
    <3>3. answers' \subseteq
            [of : Invocations \cup Calls, input : Inputs, result : DataResult \cup CallResult]
      BY <1>5, <2>2 DEF IInv, TypeOK, Answer
    <3> QED BY <1>3, <2>1, <3>1, <3>2, <3>3 DEF TypeOK
  <2>6. AnswersOK'
    <3>1. \A a \in answers' \ answers : a = [of |-> c, input |-> input, result |-> result]
      BY <1>5 DEF Answer
    <3> QED BY <1>3, <2>3, <2>4, <3>1, AnswersStand DEF AnswersOK, IInv
  <2>7. RevisionsCountCalls'
    <3> DEFINE Of(j) == {x \in DOMAIN calls : calls[x].result.key = j}
               OfNext(j) == {x \in DOMAIN calls' : calls'[x].result.key = j}
    <3> SUFFICES ASSUME NEW j \in Keys
                 PROVE  {calls'[x].result.revision : x \in OfNext(j)} = 1..cells'[j]
      BY DEF RevisionsCountCalls
    <3>1. {calls[x].result.revision : x \in Of(j)} = 1..cells[j]
      BY DEF IInv, RevisionsCountCalls
    <3>2. CASE j # k
      <4>1. OfNext(j) = Of(j) /\ \A x \in Of(j) : calls'[x] = calls[x]
        BY <2>2, <2>3, <2>4, <3>2
      <4>2. {calls'[x].result.revision : x \in OfNext(j)} = {calls[x].result.revision : x \in Of(j)}
        BY <4>1
      <4> QED BY <2>1, <3>1, <3>2, <4>2
    <3>3. CASE j = k
      <4>1. OfNext(j) = Of(j) \cup {c} /\ \A x \in Of(j) : calls'[x] = calls[x]
        BY <2>2, <2>3, <2>4, <3>3
      <4>2. calls'[c].result.revision = cells[k] + 1
        BY <2>2, <2>3, <2>4
      <4>3. {calls'[x].result.revision : x \in OfNext(j)}
              = {calls[x].result.revision : x \in Of(j)} \cup {cells[k] + 1}
        BY <4>1, <4>2
      <4>4. 1..(cells[k] + 1) = 1..cells[k] \cup {cells[k] + 1}
        BY <2>1
      <4> QED BY <2>1, <3>1, <3>3, <4>3, <4>4
    <3> QED BY <3>2, <3>3
  <2> QED BY <1>3, <2>5, <2>6, <2>7 DEF IInv, IStep
<1> QED BY <1>2, <1>4, <1>5

-----------------------------------------------------------------------------
(* The theorems *)

LEMMA InitIsGood == Init => IInv
<1> SUFFICES ASSUME Init PROVE IInv
  OBVIOUS
<1>1. DOMAIN rows = {} /\ DOMAIN calls = {} /\ sent = <<>> /\ answers = {}
      /\ handlers = [h \in Handlers |-> Idle] /\ cells = [k \in Keys |-> 0]
  BY DEF Init, Empty
<1>2. DOMAIN sent = {} /\ sent \in Seq(Message)
  BY <1>1
<1>3. TypeOK
  BY <1>1, <1>2 DEF TypeOK
<1>4. RowsOK /\ SentOK /\ AnswersOK
  BY <1>1, <1>2 DEF RowsOK, SentOK, AnswersOK
<1>5. HandlersOK
  BY <1>1 DEF HandlersOK, GoodRequest, Apart, HasClaim
<1>6. RevisionsCountCalls
  <2> SUFFICES ASSUME NEW k \in Keys
               PROVE  {calls[c].result.revision : c \in {x \in DOMAIN calls : calls[x].result.key = k}}
                        = 1..cells[k]
    BY DEF RevisionsCountCalls
  <2>1. 1..cells[k] = {}
    BY <1>1
  <2> QED BY <1>1, <2>1
<1> QED BY <1>3, <1>4, <1>5, <1>6 DEF IInv

\* Every step keeps the invariant and what rows say for good.
LEMMA NextIsGood == IInv /\ [Next]_vars => IStep
<1> SUFFICES ASSUME IInv, [Next]_vars PROVE IStep
  OBVIOUS
<1>1. ASSUME NEW h \in Handlers, Denied(h) PROVE IStep
  BY <1>1, FallsBack DEF Denied, Bound, Open
<1>2. ASSUME NEW h \in Handlers, Crash(h) PROVE IStep
  <2>1. handlers[h].phase # "idle" /\ handlers[h].phase # "claiming"
    BY <1>2 DEF Crash
  <2>2. handlers[h].phase \in Bound
    BY <2>1, RequestOfHandler DEF IInv, Request
  <2> QED BY <1>2, <2>2, FallsBack DEF Crash
<1>3. CASE UNCHANGED vars
  BY <1>3 DEF vars, IInv, IStep, TypeOK, RowsOK, SentOK, HandlersOK, AnswersOK,
              RevisionsCountCalls, SettledKept
<1> QED BY <1>1, <1>2, <1>3, ArriveStep, ClaimStep, SendStep, HearStep, CompleteStep, ReleaseStep,
           FenceStep, ApplyStep DEF Next, Proceed

\* The invariant holds in every state of every behaviour.
THEOREM Invariant == Spec => []IInv
BY InitIsGood, NextIsGood, PTL DEF Spec, IStep

\* A mutation is sent again only after everything that was sent of it before
\* was heard to fail retryably (releaseMutationRetry and the deferred fence of
\* the handler): no crash, race or lost answer lets a request go out twice
\* whose first effect is unknown.
THEOREM NoDoubtfulRepeat == Spec => []SentAgainOnlyAfterRetryable
<1>1. IInv => SentAgainOnlyAfterRetryable
  <2> SUFFICES ASSUME IInv, NEW m \in DOMAIN sent, NEW n \in DOMAIN sent,
                      m < n, sent[m].of = sent[n].of
               PROVE  /\ sent[m].heard = "retryable"
                      /\ sent[m].attempt < sent[n].attempt
                      /\ sent[m].of \in Idempotent
    BY DEF SentAgainOnlyAfterRetryable
  <2> DEFINE i == sent[m].of
  <2>1. sent[m].attempt < sent[n].attempt /\ sent[n].attempt <= rows[i].attempt
        /\ i \in DOMAIN rows
    BY DEF IInv, SentOK
  <2>2. sent[m].attempt \in Nat /\ sent[n].attempt \in Nat /\ rows[i].attempt \in Nat
    BY <2>1, MessageSent DEF IInv, TypeOK, Message, DataRow
  <2>3. sent[m].attempt < rows[i].attempt
    BY <2>1, <2>2
  <2> QED BY <2>1, <2>3 DEF IInv, SentOK
<1> QED BY <1>1, Invariant, PTL

\* All successful answers to one invocation or call are the same and answer the
\* input of the client: those of a data mutation are the result of a request
\* that was heard to succeed (CompleteDataGatewayMutation and the replay of a
\* succeeded row), those of a server function mutation the row that its
\* transaction wrote.
THEOREM OneAnswerEach == Spec => []AnswersAgree
<1>1. IInv => AnswersAgree
  <2> SUFFICES ASSUME IInv PROVE AnswersAgree
    OBVIOUS
  <2>1. ASSUME NEW a \in answers, NEW b \in answers, a.of = b.of PROVE a = b
    <3>1. /\ a \in [of : Invocations \cup Calls, input : Inputs, result : DataResult \cup CallResult]
          /\ b \in [of : Invocations \cup Calls, input : Inputs, result : DataResult \cup CallResult]
      BY DEF IInv, TypeOK
    <3>2. ~(a.of \in DOMAIN rows /\ a.of \in DOMAIN calls)
      BY KindsAssumption DEF IInv, TypeOK
    <3>3. a.input = b.input /\ a.result = b.result
      BY <2>1, <3>2 DEF IInv, AnswersOK
    <3> QED BY <2>1, <3>1, <3>3
  <2>2. ASSUME NEW a \in answers, a.of \in Invocations
        PROVE  /\ sent[a.result.request].heard = "ok"
               /\ sent[a.result.request].input = a.input
    <3>1. a.of \notin DOMAIN calls
      BY <2>2, KindsAssumption DEF IInv, TypeOK
    <3> QED BY <3>1 DEF IInv, AnswersOK, RowsOK
  <2> QED BY <2>1, <2>2 DEF AnswersAgree
<1> QED BY <1>1, Invariant, PTL

\* Every revision of a state entry is the result of exactly one server function
\* call: the effect and the row are one transaction.
THEOREM EffectsAreRecorded == Spec => []RevisionsCountCalls
BY Invariant, PTL DEF IInv

\* No step rewrites a row that says succeeded or indeterminate: the fence of a
\* handler that did not hear of its own completion leaves the result, and nobody
\* claims an invocation whose outcome is unknown.
THEOREM SettledForGood == Spec => SettledRowsStay
<1>1. IInv /\ [Next]_vars =>
        [\A i \in Claimed :
           rows[i].status \in {"succeeded", "indeterminate"} => rows'[i] = rows[i]]_vars
  BY NextIsGood DEF IStep, SettledKept, Claimed
<1> QED BY <1>1, Invariant, PTL DEF Spec, SettledRowsStay
=============================================================================
