----------------------- MODULE RemoteExecution_proofs -----------------------
(***************************************************************************)
(* Theorems about RemoteExecution for any requests, workers, cancellations, *)
(* attempts, event budget and number of faults.                             *)
(***************************************************************************)
EXTENDS RemoteExecution, SequenceTheorems, TLAPS

Events == {"output", "artifact"}

Entry == [kind : {"state"} \cup Events, status : Statuses \cup {"none"}, attempt : Nat]

Row ==
  [request : Requests, key : Keys, status : Statuses, log : Seq(Entry), attempt : Nat,
   owner : Workers \cup {Nobody}, expired : BOOLEAN, cancels : SUBSET Cancellations]

-----------------------------------------------------------------------------
(* The inductive invariant *)

\* Only the last entry may be an end.
EndsOnce(log) == \A n \in DOMAIN log : log[n].status \in Terminal => n = Len(log)

Unended(log) == \A n \in DOMAIN log : log[n].status \notin Terminal

InOrder(log) ==
  \A m, n \in DOMAIN log :
    m < n /\ "state" \notin {log[m].kind, log[n].kind} => log[m].attempt <= log[n].attempt

\* No event is of an attempt that has not begun.
UpTo(log, attempt) == \A n \in DOMAIN log : log[n].attempt <= attempt

HasEvent(x, kind, attempt) ==
  [kind |-> kind, status |-> "none", attempt |-> attempt] \in Range(x.log)

\* All an attempt publishes before it reports its success.
Complete(x, attempt) == \A kind \in Events : HasEvent(x, kind, attempt)

GoodLog(x) ==
  /\ EndsOnce(x.log) /\ InOrder(x.log) /\ UpTo(x.log, x.attempt)
  /\ x.status \notin Terminal => Unended(x.log)
  /\ x.status \in Terminal => \E n \in DOMAIN x.log : x.log[n].status = x.status

\* What ended is nobody's, and what nobody has begun was never claimed.
GoodLease(x) ==
  /\ x.status \in Terminal \cup {"queued"} => x.owner = Nobody
  /\ x.status = "queued" => x.attempt = 0
  /\ x.status \notin Terminal \cup {"queued"} => x.attempt >= 1
  /\ x.attempt <= MaxAttempts

GoodRow(x) ==
  /\ x \in Row
  /\ GoodLog(x)
  /\ GoodLease(x)
  /\ x.status = "succeeded" => Complete(x, x.attempt)

RowsOK ==
  /\ executions \in Seq(Row)
  /\ \A id \in DOMAIN executions : GoodRow(executions[id])

\* A request id names one execution; every answer named it, and still does.
RequestsOK ==
  /\ \A i, j \in DOMAIN executions : executions[i].request = executions[j].request => i = j
  /\ answers \subseteq [request : Requests, key : Keys, id : Nat]
  /\ \A a \in answers :
       /\ a.id \in DOMAIN executions
       /\ executions[a.id].request = a.request
       /\ executions[a.id].key = a.key

HandlersOK ==
  handlers \in [Handlers -> {Idle} \cup [phase : {"checked"}, request : Requests, key : Keys]]

Calls ==
  [worker : Workers, id : Nat, attempt : Nat, do : {"running"} \cup Events \cup Terminal]

\* A success is reported after the events of its attempt are stored.
GoodCall(rows, call) ==
  /\ call \in Calls
  /\ call.id \in DOMAIN rows
  /\ call.attempt <= rows[call.id].attempt
  /\ call.do = "succeeded" => Complete(rows[call.id], call.attempt)

Busy ==
  [phase : {"claimed", "starting", "executing", "publishing", "uploading", "ending"},
   id : Nat, attempt : Nat, status : Statuses, result : Terminal \cup {"none"}]

\* A worker at work on an attempt that is, or was, the present one.
GoodWork(rows, me) ==
  /\ me \in Busy
  /\ me.id \in DOMAIN rows
  /\ me.attempt <= rows[me.id].attempt
  /\ me.phase = "claimed" /\ me.attempt <= 1 => me.status = "starting"
  /\ me.phase = "uploading" => HasEvent(rows[me.id], "output", me.attempt)
  /\ me.phase \in {"publishing", "uploading", "ending"} => me.result \in Terminal
  /\ me.phase = "ending" /\ me.result = "succeeded" => Complete(rows[me.id], me.attempt)

WorkersOK ==
  /\ workers \in [Workers -> {Idle} \cup Busy]
  /\ \A w \in Workers : workers[w] = Idle \/ GoodWork(executions, workers[w])

StrayOK == \A call \in stray : GoodCall(executions, call)

IInv == RowsOK /\ RequestsOK /\ HandlersOK /\ WorkersOK /\ StrayOK

-----------------------------------------------------------------------------
(* What the transactions make of a row *)

\* The history of a row is kept: its identity, its events and their cursors.
Grows(x, y) ==
  /\ y.request = x.request /\ y.key = x.key
  /\ x.attempt <= y.attempt
  /\ \A n \in DOMAIN x.log : n \in DOMAIN y.log /\ y.log[n] = x.log[n]

\* Appending an entry to the log keeps the entries it has.
LEMMA AppendedEntry ==
  ASSUME NEW log \in Seq(Entry), NEW e \in Entry
  PROVE  LET new == Append(log, e) IN
         /\ new \in Seq(Entry)
         /\ DOMAIN new = DOMAIN log \cup {Len(log) + 1}
         /\ Len(new) = Len(log) + 1
         /\ \A n \in DOMAIN log : n \in 1..Len(log) /\ new[n] = log[n]
         /\ new[Len(log) + 1] = e
<1>1. DOMAIN log = 1..Len(log) /\ Len(log) \in Nat
  BY LenProperties
<1>2. DOMAIN Append(log, e) = 1..(Len(log) + 1)
  BY AppendProperties, LenProperties
<1> QED BY <1>1, <1>2, AppendProperties

\* The log of a row consists of entries.
LEMMA EntryOfLog ==
  ASSUME NEW x \in Row
  PROVE  \A n \in DOMAIN x.log : x.log[n] \in Entry
<1>1. x.log \in Seq(Entry)
  BY DEF Row
<1> QED BY <1>1, LenProperties, ElementOfSeq

\* A log that has not ended may be continued with an entry of the present attempt.
LEMMA ContinuedLog ==
  ASSUME NEW x \in Row, GoodLog(x), Unended(x.log), NEW e \in Entry,
         e.attempt <= x.attempt, e.kind # "state" => e.attempt = x.attempt
  PROVE  LET log == Append(x.log, e) IN
         /\ log \in Seq(Entry)
         /\ EndsOnce(log) /\ InOrder(log) /\ UpTo(log, x.attempt)
         /\ e.status \notin Terminal => Unended(log)
         /\ \A n \in DOMAIN x.log : n \in DOMAIN log /\ log[n] = x.log[n]
         /\ Len(x.log) + 1 \in DOMAIN log /\ log[Len(x.log) + 1] = e
<1> DEFINE log == Append(x.log, e)
<1>1. x.log \in Seq(Entry) /\ x.attempt \in Nat
  BY DEF Row
<1>2. /\ log \in Seq(Entry)
      /\ DOMAIN log = DOMAIN x.log \cup {Len(x.log) + 1}
      /\ Len(log) = Len(x.log) + 1
      /\ \A n \in DOMAIN x.log : n \in 1..Len(x.log) /\ log[n] = x.log[n]
      /\ log[Len(x.log) + 1] = e
  BY <1>1, AppendedEntry
<1>3. Len(x.log) \in Nat
  BY <1>1, LenProperties
<1> HIDE DEF log
<1>4. EndsOnce(log)
  BY <1>2 DEF EndsOnce, Unended
<1>5. UpTo(log, x.attempt)
  BY <1>2 DEF UpTo, GoodLog
<1>6. InOrder(log)
  <2> SUFFICES ASSUME NEW m \in DOMAIN log, NEW n \in DOMAIN log, m < n,
                      "state" \notin {log[m].kind, log[n].kind}
               PROVE  log[m].attempt <= log[n].attempt
    BY DEF InOrder
  <2>1. CASE n \in DOMAIN x.log
    <3>1. m \in DOMAIN x.log
      BY <1>2, <1>3, <2>1
    <3> QED BY <1>2, <2>1, <3>1 DEF GoodLog, InOrder
  <2>2. CASE n = Len(x.log) + 1
    <3>1. m \in DOMAIN x.log
      BY <1>2, <1>3, <2>2
    <3> QED BY <1>2, <2>2, <3>1 DEF GoodLog, UpTo
  <2> QED BY <1>2, <2>1, <2>2
<1>7. e.status \notin Terminal => Unended(log)
  BY <1>2 DEF Unended
<1> QED BY <1>2, <1>4, <1>5, <1>6, <1>7 DEF log

\* A row that keeps its history keeps the events of each attempt.
LEMMA EventsAreKept ==
  ASSUME NEW x, NEW y, Grows(x, y), NEW attempt
  PROVE  /\ \A kind : HasEvent(x, kind, attempt) => HasEvent(y, kind, attempt)
         /\ Complete(x, attempt) => Complete(y, attempt)
<1>1. Range(x.log) \subseteq Range(y.log)
  BY DEF Grows, Range
<1> QED BY <1>1 DEF HasEvent, Complete

\* A new execution is queued and nobody's.
LEMMA CreatedIsGood ==
  ASSUME NEW r \in Requests, NEW k \in Keys
  PROVE  GoodRow(Created(r, k)) /\ Created(r, k).request = r /\ Created(r, k).key = k
<1> DEFINE x == Created(r, k)
<1>1. StateEntry("queued") \in Entry
  BY DEF StateEntry, Entry, Statuses
<1>2. /\ x.log = <<StateEntry("queued")>> /\ x.log \in Seq(Entry)
      /\ DOMAIN x.log = {1} /\ Len(x.log) = 1 /\ x.log[1] = StateEntry("queued")
  BY <1>1 DEF Created
<1>3. x \in Row
  BY <1>2 DEF Created, Row, Statuses
<1>4. x.attempt = 0 /\ x.status = "queued" /\ x.owner = Nobody
  BY DEF Created
<1>5. GoodLog(x)
  BY <1>2, <1>4 DEF GoodLog, EndsOnce, InOrder, UpTo, Unended, StateEntry, Terminal
<1>6. GoodLease(x)
  BY <1>4, MaxAttemptsAssumption DEF GoodLease, Terminal
<1> QED BY <1>3, <1>4, <1>5, <1>6 DEF GoodRow, Created

\* A state event ends a row once and for all, or leaves it open.
LEMMA MovedRow ==
  ASSUME NEW x \in Row, GoodLog(x), x.status \notin Terminal, NEW status \in Statuses
  PROVE  LET y == Moved(x, status) IN
         /\ y \in Row /\ GoodLog(y) /\ Grows(x, y)
         /\ y.status = status
         /\ y.attempt = x.attempt
         /\ y.owner = IF status \in Terminal THEN Nobody ELSE x.owner
<1> DEFINE e == StateEntry(status)
           log == Append(x.log, e)
           y == Moved(x, status)
<1>1. e \in Entry /\ e.kind = "state" /\ e.status = status /\ e.attempt = 0
  BY DEF StateEntry, Entry
<1>2. x.attempt \in Nat /\ x.log \in Seq(Entry) /\ Unended(x.log)
  BY DEF Row, GoodLog
<1>3. /\ log \in Seq(Entry)
      /\ EndsOnce(log) /\ InOrder(log) /\ UpTo(log, x.attempt)
      /\ status \notin Terminal => Unended(log)
      /\ \A n \in DOMAIN x.log : n \in DOMAIN log /\ log[n] = x.log[n]
      /\ Len(x.log) + 1 \in DOMAIN log /\ log[Len(x.log) + 1] = e
  BY <1>1, <1>2, ContinuedLog
<1>4. /\ y.log = log /\ y.status = status /\ y.attempt = x.attempt
      /\ y.request = x.request /\ y.key = x.key
      /\ y.owner = IF status \in Terminal THEN Nobody ELSE x.owner
  BY DEF Moved, Row
<1>5. y \in Row
  BY <1>3 DEF Moved, Row
<1> HIDE DEF log, e, y
<1>6. GoodLog(y)
  BY <1>1, <1>3, <1>4 DEF GoodLog
<1>7. Grows(x, y)
  BY <1>2, <1>3, <1>4 DEF Grows
<1> QED BY <1>4, <1>5, <1>6, <1>7 DEF y

\* A cancellation ends a queued execution, asks the others to end, and
\* changes nothing of those that have ended.
LEMMA CancelledIsGood ==
  ASSUME NEW x, GoodRow(x), NEW c \in Cancellations
  PROVE  GoodRow(Cancelled(x, c)) /\ Grows(x, Cancelled(x, c))
<1> DEFINE asked == [x EXCEPT !.cancels = @ \cup {c}]
<1>1. x \in Row /\ x.attempt \in Nat
  BY DEF GoodRow, Row
<1>2. /\ asked \in Row /\ asked.log = x.log /\ asked.status = x.status
      /\ asked.attempt = x.attempt /\ asked.owner = x.owner
      /\ asked.request = x.request /\ asked.key = x.key
  BY <1>1 DEF Row
<1>3. GoodRow(asked) /\ Grows(x, asked)
  BY <1>1, <1>2 DEF GoodRow, GoodLog, GoodLease, Grows, Complete, HasEvent
<1>4. CASE c \in x.cancels \/ x.status \in Terminal \cup {"cancelling"}
  BY <1>3, <1>4 DEF Cancelled
<1>5. CASE ~(c \in x.cancels \/ x.status \in Terminal \cup {"cancelling"})
  <2> DEFINE status == IF x.status = "queued" THEN "cancelled" ELSE "cancelling"
             y == Moved(asked, status)
  <2>1. Cancelled(x, c) = y
    BY <1>5 DEF Cancelled
  <2>2. status \in Statuses \ {"succeeded", "queued"}
    BY DEF Statuses, Terminal
  <2>3. asked.status \notin Terminal
    BY <1>2, <1>5
  <2>4. /\ y \in Row /\ GoodLog(y) /\ Grows(asked, y)
        /\ y.status = status /\ y.attempt = x.attempt
        /\ y.owner = IF status \in Terminal THEN Nobody ELSE x.owner
    BY <1>2, <1>3, <2>2, <2>3, MovedRow DEF GoodRow
  <2> HIDE DEF asked, y
  <2>5. GoodLease(y)
    BY <1>2, <1>5, <2>2, <2>4 DEF GoodRow, GoodLease, Terminal
  <2>6. Grows(x, y)
    BY <1>1, <1>2, <1>3, <2>4 DEF Grows
  <2> QED BY <2>1, <2>2, <2>4, <2>5, <2>6 DEF GoodRow
<1> QED BY <1>4, <1>5

\* A claim begins the next attempt; the first one finds the execution queued.
LEMMA ClaimedIsGood ==
  ASSUME NEW x, GoodRow(x), Claimable(x), NEW w \in Workers
  PROVE  LET y == Claimed(x, w) IN
         /\ GoodRow(y) /\ Grows(x, y)
         /\ y.status \notin Terminal
         /\ y.attempt <= 1 => y.status = "starting"
<1> DEFINE started == IF x.status = "queued" THEN Moved(x, "starting") ELSE x
           y == Claimed(x, w)
<1>1. x \in Row /\ GoodLog(x) /\ GoodLease(x) /\ x.attempt \in Nat /\ x.status \notin Terminal
  BY DEF GoodRow, Row, Claimable, Reclaimable, Terminal
<1>2. /\ started \in Row /\ GoodLog(started) /\ Grows(x, started)
      /\ started.attempt = x.attempt
      /\ started.status = IF x.status = "queued" THEN "starting" ELSE x.status
  <2>1. "starting" \in Statuses
    BY DEF Statuses
  <2>2. CASE x.status = "queued"
    BY <1>1, <2>1, <2>2, MovedRow
  <2>3. CASE x.status # "queued"
    BY <1>1, <2>3 DEF Grows
  <2> QED BY <2>2, <2>3
<1>3. started.status \notin Terminal \cup {"queued"}
  BY <1>1, <1>2 DEF Terminal
<1>4. x.attempt + 1 \in Nat /\ x.attempt + 1 <= MaxAttempts
  <2>1. CASE x.status = "queued"
    BY <1>1, <2>1, MaxAttemptsAssumption DEF GoodLease
  <2>2. CASE x.status # "queued"
    BY <1>1, <2>2, MaxAttemptsAssumption DEF Claimable, Exhausted
  <2> QED BY <2>1, <2>2
<1> HIDE DEF started
<1>5. y = [started EXCEPT !.owner = w, !.attempt = @ + 1, !.expired = FALSE]
  BY DEF Claimed, started
<1>6. /\ y.log = started.log /\ y.status = started.status /\ y.attempt = x.attempt + 1
      /\ y.request = started.request /\ y.key = started.key
  BY <1>2, <1>5 DEF Row
<1>7. y \in Row
  BY <1>2, <1>4, <1>5 DEF Row
<1> HIDE DEF y
<1>8. GoodLog(y)
  <2>1. \A n \in DOMAIN started.log : started.log[n].attempt \in Nat
    BY <1>2, EntryOfLog DEF Entry
  <2>2. UpTo(y.log, y.attempt)
    BY <1>1, <1>2, <1>6, <2>1 DEF GoodLog, UpTo
  <2> QED BY <1>2, <1>6, <2>2 DEF GoodLog
<1>9. GoodLease(y)
  BY <1>3, <1>4, <1>6, <1>1 DEF GoodLease, Terminal
<1>10. Grows(x, y)
  BY <1>1, <1>2, <1>6 DEF Grows
<1>11. y.attempt <= 1 => y.status = "starting"
  BY <1>1, <1>2, <1>6 DEF GoodLease
<1> QED BY <1>3, <1>6, <1>7, <1>8, <1>9, <1>10, <1>11 DEF GoodRow, y, Terminal

\* Whoever finds the attempts used up fails the execution.
LEMMA ExhaustedIsGood ==
  ASSUME NEW x, GoodRow(x), Exhausted(x)
  PROVE  GoodRow(Moved(x, "failed")) /\ Grows(x, Moved(x, "failed"))
<1>1. x \in Row /\ GoodLog(x) /\ GoodLease(x) /\ x.status \notin Terminal
  BY DEF GoodRow, Exhausted, Reclaimable, Terminal
<1>2. "failed" \in Statuses /\ "failed" \in Terminal
  BY DEF Statuses, Terminal
<1> DEFINE y == Moved(x, "failed")
<1>3. /\ y \in Row /\ GoodLog(y) /\ Grows(x, y)
      /\ y.status = "failed" /\ y.attempt = x.attempt /\ y.owner = Nobody
  BY <1>1, <1>2, MovedRow
<1> HIDE DEF y
<1>4. GoodLease(y)
  BY <1>1, <1>2, <1>3 DEF GoodLease
<1> QED BY <1>3, <1>4 DEF GoodRow, y

\* A call that is accepted publishes under the lease of the present attempt.
LEMMA AcceptedIsGood ==
  ASSUME NEW x, GoodRow(x), NEW call \in Calls, Accepts(x, call),
         call.do = "succeeded" => Complete(x, call.attempt)
  PROVE  LET y == After(x, call) IN
         /\ GoodRow(y) /\ Grows(x, y)
         /\ call.do \in Events => HasEvent(y, call.do, call.attempt)
<1> DEFINE y == After(x, call)
<1>1. x \in Row /\ GoodLog(x) /\ GoodLease(x) /\ x.attempt \in Nat
  BY DEF GoodRow, Row
<1>2. call.worker # Nobody /\ x.owner = call.worker /\ x.attempt = call.attempt
  BY NobodyAssumption DEF Accepts, Holds, Calls
<1>3. x.status \notin Terminal \cup {"queued"}
  BY <1>1, <1>2 DEF GoodLease
<1>4. CASE call.do \in Statuses
  <2>1. y = Moved(x, call.do)
    BY <1>4 DEF After
  <2>2. CanTransition(x.status, call.do)
    BY <1>4 DEF Accepts
  <2>3. /\ y \in Row /\ GoodLog(y) /\ Grows(x, y)
        /\ y.status = call.do /\ y.attempt = x.attempt
        /\ y.owner = IF call.do \in Terminal THEN Nobody ELSE x.owner
    BY <1>1, <1>3, <1>4, <2>1, MovedRow
  <2>4. call.do # "queued" /\ call.do \notin Events
    BY <1>4 DEF Calls, Events, Terminal, Statuses
  <2>5. GoodLease(y)
    BY <1>1, <1>3, <2>3, <2>4 DEF GoodLease, Terminal
  <2>6. y.status = "succeeded" => Complete(y, y.attempt)
    BY <1>2, <2>3, EventsAreKept
  <2> QED BY <2>3, <2>4, <2>5, <2>6 DEF GoodRow
<1>5. CASE call.do \notin Statuses /\ Existing(x, call)
  <2>1. y = x
    BY <1>5 DEF After
  <2>2. Grows(x, x)
    BY <1>1 DEF Grows
  <2>3. HasEvent(x, call.do, call.attempt)
    BY <1>5 DEF Existing, EventEntry, HasEvent
  <2> QED BY <2>1, <2>2, <2>3
<1>6. CASE call.do \notin Statuses /\ ~Existing(x, call)
  <2> DEFINE e == EventEntry(call)
             log == Append(x.log, e)
  <2>1. y = [x EXCEPT !.log = log]
    BY <1>6 DEF After
  <2>2. e \in Entry /\ e.attempt = x.attempt /\ e.status \notin Terminal
    BY <1>2, <1>6 DEF EventEntry, Entry, Calls, Statuses, Terminal
  <2>3. Unended(x.log)
    BY <1>1, <1>3 DEF GoodLog
  <2>4. /\ log \in Seq(Entry)
        /\ EndsOnce(log) /\ InOrder(log) /\ UpTo(log, x.attempt) /\ Unended(log)
        /\ \A n \in DOMAIN x.log : n \in DOMAIN log /\ log[n] = x.log[n]
        /\ Len(x.log) + 1 \in DOMAIN log /\ log[Len(x.log) + 1] = e
    BY <1>1, <2>2, <2>3, ContinuedLog
  <2>5. /\ y.log = log /\ y.status = x.status /\ y.attempt = x.attempt /\ y.owner = x.owner
        /\ y.request = x.request /\ y.key = x.key
    BY <1>1, <2>1 DEF Row
  <2>6. y \in Row
    BY <1>1, <2>1, <2>4 DEF Row
  <2> HIDE DEF log, y
  <2>7. GoodLog(y) /\ GoodLease(y)
    BY <1>1, <2>4, <2>5 DEF GoodLog, GoodLease
  <2>8. Grows(x, y)
    BY <1>1, <2>4, <2>5 DEF Grows
  <2>9. e \in Range(y.log)
    BY <2>4, <2>5 DEF Range
  <2>10. HasEvent(y, call.do, call.attempt)
    BY <2>9 DEF EventEntry, HasEvent
  <2>11. y.status # "succeeded"
    BY <1>3, <2>5 DEF Terminal
  <2> QED BY <2>6, <2>7, <2>8, <2>10, <2>11 DEF GoodRow, y
<1> QED BY <1>4, <1>5, <1>6

-----------------------------------------------------------------------------
(* What the steps have in common *)

\* No transaction removes a row or rewrites its history.
KeepsHistory ==
  /\ executions' \in Seq(Row)
  /\ DOMAIN executions \subseteq DOMAIN executions'
  /\ \A id \in DOMAIN executions : Grows(executions[id], executions'[id])
  /\ \A id \in DOMAIN executions' : GoodRow(executions'[id])

\* A transaction that writes one row, or none, keeps the others' history.
LEMMA RowWritten ==
  ASSUME RowsOK, NEW id \in DOMAIN executions, NEW y, GoodRow(y), Grows(executions[id], y),
         executions' = [executions EXCEPT ![id] = y]
  PROVE  KeepsHistory /\ DOMAIN executions' = DOMAIN executions /\ executions'[id] = y
<1>1. executions \in Seq(Row) /\ DOMAIN executions = 1..Len(executions) /\ Len(executions) \in Nat
  BY LenProperties DEF RowsOK
<1>2. y \in Row
  BY DEF GoodRow
<1>3. executions' \in Seq(Row)
  BY <1>1, <1>2, ExceptSeq
<1>4. DOMAIN executions' = DOMAIN executions /\ executions'[id] = y
      /\ \A i \in DOMAIN executions : i # id => executions'[i] = executions[i]
  OBVIOUS
<1>5. \A i \in DOMAIN executions : Grows(executions[i], executions[i])
  BY DEF RowsOK, GoodRow, Row, Grows
<1>6. \A i \in DOMAIN executions : Grows(executions[i], executions'[i])
  BY <1>4, <1>5
<1>7. \A i \in DOMAIN executions' : GoodRow(executions'[i])
  BY <1>4 DEF RowsOK
<1> QED BY <1>3, <1>4, <1>6, <1>7 DEF KeepsHistory

\* See RowWritten.
LEMMA NoRowWritten ==
  ASSUME RowsOK, UNCHANGED executions
  PROVE  KeepsHistory
<1>1. \A i \in DOMAIN executions : Grows(executions[i], executions[i])
  BY DEF RowsOK, GoodRow, Row, Grows
<1> QED BY <1>1 DEF RowsOK, KeepsHistory

\* Attempts are counted up.
LEMMA AttemptsCountUp ==
  ASSUME RowsOK, KeepsHistory, NEW id \in DOMAIN executions
  PROVE  /\ executions[id].attempt \in Nat /\ executions'[id].attempt \in Nat
         /\ executions[id].attempt <= executions'[id].attempt
BY DEF RowsOK, KeepsHistory, GoodRow, Row, Grows

\* What a worker has asked remains the call of an attempt that has begun, and a
\* success that was reported after its events remains complete.
LEMMA CallsStayGood ==
  ASSUME RowsOK, KeepsHistory, NEW call, GoodCall(executions, call)
  PROVE  GoodCall(executions', call)
<1>1. call \in Calls /\ call.id \in DOMAIN executions /\ call.attempt \in Nat
  BY DEF GoodCall, Calls
<1>2. Grows(executions[call.id], executions'[call.id]) /\ call.id \in DOMAIN executions'
  BY <1>1 DEF KeepsHistory
<1>3. call.attempt <= executions'[call.id].attempt
  BY <1>1, AttemptsCountUp DEF GoodCall
<1>4. call.do = "succeeded" => Complete(executions'[call.id], call.attempt)
  BY <1>2, EventsAreKept DEF GoodCall
<1> QED BY <1>1, <1>2, <1>3, <1>4 DEF GoodCall

\* So does a worker that stands still.
LEMMA WorkStaysGood ==
  ASSUME RowsOK, KeepsHistory, NEW me, GoodWork(executions, me)
  PROVE  GoodWork(executions', me)
<1>1. me \in Busy /\ me.id \in DOMAIN executions /\ me.attempt \in Nat
  BY DEF GoodWork, Busy
<1>2. Grows(executions[me.id], executions'[me.id]) /\ me.id \in DOMAIN executions'
  BY <1>1 DEF KeepsHistory
<1>3. me.attempt <= executions'[me.id].attempt
  BY <1>1, AttemptsCountUp DEF GoodWork
<1>4. me.phase = "uploading" => HasEvent(executions'[me.id], "output", me.attempt)
  BY <1>2, EventsAreKept DEF GoodWork
<1>5. me.phase = "ending" /\ me.result = "succeeded" => Complete(executions'[me.id], me.attempt)
  BY <1>2, EventsAreKept DEF GoodWork
<1> QED BY <1>1, <1>2, <1>3, <1>4, <1>5 DEF GoodWork

\* Every step keeps the history and the invariant.
IStep == KeepsHistory /\ IInv'

\* A step that creates no execution, and moves no worker or one to good work.
LEMMA StepOfWorker ==
  ASSUME IInv, KeepsHistory, DOMAIN executions' = DOMAIN executions,
         UNCHANGED <<handlers, stray, answers>>,
         NEW w \in Workers, NEW me, me = Idle \/ GoodWork(executions', me), Becomes(w, me)
  PROVE  IStep
<1>1. RowsOK /\ RequestsOK /\ HandlersOK /\ WorkersOK /\ StrayOK
  BY DEF IInv
<1>2. RowsOK'
  BY DEF KeepsHistory, RowsOK
<1>3. RequestsOK'
  <2>1. \A id \in DOMAIN executions : /\ executions'[id].request = executions[id].request
                                      /\ executions'[id].key = executions[id].key
    BY DEF KeepsHistory, Grows
  <2> QED BY <1>1, <2>1 DEF RequestsOK
<1>4. HandlersOK'
  BY <1>1 DEF HandlersOK
<1>5. StrayOK'
  BY <1>1, CallsStayGood DEF StrayOK
<1>6. WorkersOK'
  <2>1. workers' = [workers EXCEPT ![w] = me]
    BY DEF Becomes
  <2>2. /\ workers' \in [Workers -> {Idle} \cup Busy] /\ workers'[w] = me
        /\ \A v \in Workers : v # w => workers'[v] = workers[v]
    <3>1. me \in {Idle} \cup Busy
      BY DEF GoodWork
    <3> QED BY <1>1, <2>1, <3>1 DEF WorkersOK
  <2>3. \A v \in Workers : workers[v] # Idle => GoodWork(executions', workers[v])
    BY <1>1, WorkStaysGood DEF WorkersOK
  <2>4. \A v \in Workers : workers'[v] = Idle \/ GoodWork(executions', workers'[v])
    BY <2>2, <2>3
  <2> QED BY <2>1, <2>2, <2>4 DEF WorkersOK
<1> QED BY <1>2, <1>3, <1>4, <1>5, <1>6 DEF IInv, IStep

\* A step that neither creates an execution nor moves a worker.
LEMMA StepOfRow ==
  ASSUME IInv, KeepsHistory, DOMAIN executions' = DOMAIN executions,
         UNCHANGED <<handlers, workers, stray, answers>>
  PROVE  IStep
<1>1. RowsOK /\ RequestsOK /\ HandlersOK /\ WorkersOK /\ StrayOK
  BY DEF IInv
<1>2. RowsOK'
  BY DEF KeepsHistory, RowsOK
<1>3. RequestsOK'
  <2>1. \A id \in DOMAIN executions : /\ executions'[id].request = executions[id].request
                                      /\ executions'[id].key = executions[id].key
    BY DEF KeepsHistory, Grows
  <2> QED BY <1>1, <2>1 DEF RequestsOK
<1>4. HandlersOK'
  BY <1>1 DEF HandlersOK
<1>5. StrayOK'
  BY <1>1, CallsStayGood DEF StrayOK
<1>6. WorkersOK'
  BY <1>1, WorkStaysGood DEF WorkersOK
<1> QED BY <1>2, <1>3, <1>4, <1>5, <1>6 DEF IInv, IStep

\* A worker that is not idle is at work.
LEMMA AtWorkIsGood ==
  ASSUME IInv, NEW w \in Workers, workers[w].phase # "idle"
  PROVE  GoodWork(executions, workers[w]) /\ executions[workers[w].id].attempt \in Nat
<1>1. GoodWork(executions, workers[w])
  BY DEF IInv, WorkersOK, Idle
<1> QED BY <1>1 DEF GoodWork, IInv, RowsOK, GoodRow, Row

-----------------------------------------------------------------------------
(* The steps of clients *)

\* A known request is answered with its execution, if it is the same request.
LEMMA KnownStep ==
  ASSUME IInv, NEW h \in Handlers, NEW r \in Requests, NEW k \in Keys, Known(h, r, k),
         UNCHANGED <<workers, stray>>
  PROVE  IStep
<1>1. RowsOK /\ RequestsOK /\ HandlersOK /\ WorkersOK /\ StrayOK
  BY DEF IInv
<1>2. RowsOK' /\ WorkersOK' /\ StrayOK'
  BY <1>1 DEF Known, RowsOK, WorkersOK, StrayOK
<1>3. HandlersOK'
  BY <1>1 DEF Known, HandlersOK
<1>4. RequestsOK'
  <2> DEFINE new == {[request |-> r, key |-> k, id |-> id] :
                      id \in {i \in OfRequest(r) : executions[i].key = k}}
  <2>1. executions' = executions /\ answers' = answers \cup new
    BY DEF Known
  <2>2. DOMAIN executions \subseteq Nat
    BY <1>1, LenProperties DEF RowsOK
  <2>3. \A a \in new : /\ a \in [request : Requests, key : Keys, id : Nat]
                       /\ a.id \in DOMAIN executions
                       /\ executions[a.id].request = a.request
                       /\ executions[a.id].key = a.key
    BY <2>2 DEF OfRequest
  <2> HIDE DEF new
  <2> QED BY <1>1, <2>1, <2>3 DEF RequestsOK
<1>5. KeepsHistory
  BY <1>1, NoRowWritten DEF Known
<1> QED BY <1>2, <1>3, <1>4, <1>5 DEF IInv, IStep

\* A request nobody knows yet becomes a new execution, and is answered with it.
LEMMA CreateStep ==
  ASSUME IInv, NEW h \in Handlers, NEW r \in Requests, NEW k \in Keys, Unknown(r),
         handlers' = [handlers EXCEPT ![h] = Idle],
         executions' = Append(executions, Created(r, k)),
         answers' = answers \cup {[request |-> r, key |-> k, id |-> Len(executions) + 1]},
         UNCHANGED <<workers, stray>>
  PROVE  IStep
<1> DEFINE x == Created(r, k)
           new == Len(executions) + 1
<1>1. RowsOK /\ RequestsOK /\ HandlersOK /\ WorkersOK /\ StrayOK
  BY DEF IInv
<1>2. GoodRow(x) /\ x \in Row /\ x.request = r /\ x.key = k
  BY CreatedIsGood DEF GoodRow
<1>3. executions \in Seq(Row) /\ DOMAIN executions = 1..Len(executions) /\ Len(executions) \in Nat
  BY <1>1, LenProperties DEF RowsOK
<1>4. /\ executions' \in Seq(Row)
      /\ DOMAIN executions' = DOMAIN executions \cup {new}
      /\ \A id \in DOMAIN executions : executions'[id] = executions[id]
      /\ executions'[new] = x
  <2>1. /\ executions' \in Seq(Row) /\ Len(executions') = new
        /\ \A id \in 1..Len(executions) : executions'[id] = executions[id]
        /\ executions'[new] = x
    BY <1>2, <1>3, AppendProperties
  <2>2. DOMAIN executions' = 1..new
    BY <2>1, LenProperties
  <2> QED BY <1>3, <2>1, <2>2
<1> HIDE DEF x, new
<1>5. KeepsHistory
  <2>1. \A id \in DOMAIN executions : Grows(executions[id], executions[id])
    BY <1>1 DEF RowsOK, GoodRow, Row, Grows
  <2>2. \A id \in DOMAIN executions' : GoodRow(executions'[id])
    BY <1>1, <1>2, <1>4 DEF RowsOK
  <2> QED BY <1>4, <2>1, <2>2 DEF KeepsHistory
<1>6. RowsOK'
  BY <1>5 DEF KeepsHistory, RowsOK
<1>7. \A id \in DOMAIN executions : executions[id].request # r
  BY DEF Unknown, OfRequest
<1>8. RequestsOK'
  <2>1. \A i, j \in DOMAIN executions' : executions'[i].request = executions'[j].request => i = j
    BY <1>1, <1>2, <1>4, <1>7 DEF RequestsOK
  <2>2. new \in Nat /\ answers' = answers \cup {[request |-> r, key |-> k, id |-> new]}
    BY <1>3 DEF new
  <2>3. \A a \in answers' : /\ a \in [request : Requests, key : Keys, id : Nat]
                            /\ a.id \in DOMAIN executions'
                            /\ executions'[a.id].request = a.request
                            /\ executions'[a.id].key = a.key
    BY <1>1, <1>2, <1>4, <2>2 DEF RequestsOK
  <2> QED BY <2>1, <2>3 DEF RequestsOK
<1>9. HandlersOK'
  BY <1>1 DEF HandlersOK
<1>10. StrayOK'
  BY <1>1, <1>5, CallsStayGood DEF StrayOK
<1>11. WorkersOK'
  BY <1>1, <1>5, WorkStaysGood DEF WorkersOK
<1> QED BY <1>5, <1>6, <1>8, <1>9, <1>10, <1>11 DEF IInv, IStep

\* A create request that is only looked up, or refused by the quota.
LEMMA HandlerStep ==
  ASSUME IInv, NEW h \in Handlers,
         NEW new \in {Idle} \cup [phase : {"checked"}, request : Requests, key : Keys],
         handlers' = [handlers EXCEPT ![h] = new],
         UNCHANGED <<executions, workers, stray, answers>>
  PROVE  IStep
<1>1. HandlersOK'
  BY DEF IInv, HandlersOK
<1>2. KeepsHistory
  BY NoRowWritten DEF IInv
<1> QED BY <1>1, <1>2 DEF IStep, IInv, RowsOK, RequestsOK, WorkersOK, StrayOK

\* The look-up without a lock, and the transaction that repeats it.
LEMMA CreateRequestStep ==
  ASSUME IInv, NEW h \in Handlers, BeginCreate(h) \/ CreateOrGet(h)
  PROVE  IStep
<1>1. ASSUME BeginCreate(h) PROVE IStep
  <2>1. PICK r \in Requests, k \in Keys :
          \/ OfRequest(r) # {} /\ Known(h, r, k)
          \/ /\ OfRequest(r) = {}
             /\ handlers' = [handlers EXCEPT ![h] = [phase |-> "checked", request |-> r, key |-> k]]
             /\ UNCHANGED <<executions, answers>>
    BY <1>1 DEF BeginCreate
  <2>2. UNCHANGED <<workers, stray>>
    BY <1>1 DEF BeginCreate
  <2>3. [phase |-> "checked", request |-> r, key |-> k]
          \in [phase : {"checked"}, request : Requests, key : Keys]
    OBVIOUS
  <2> QED BY <2>1, <2>2, <2>3, KnownStep, HandlerStep
<1>2. ASSUME CreateOrGet(h) PROVE IStep
  <2> DEFINE r == handlers[h].request
             k == handlers[h].key
  <2>1. r \in Requests /\ k \in Keys
    BY <1>2 DEF CreateOrGet, IInv, HandlersOK, Idle
  <2>2. \/ ~Unknown(r) /\ Known(h, r, k)
        \/ /\ Unknown(r)
           /\ handlers' = [handlers EXCEPT ![h] = Idle]
           /\ \/ /\ executions' = Append(executions, Created(r, k))
                 /\ answers' = answers \cup
                      {[request |-> r, key |-> k, id |-> Len(executions) + 1]}
              \/ UNCHANGED <<executions, answers>>
    BY <1>2 DEF CreateOrGet
  <2>3. UNCHANGED <<workers, stray>>
    BY <1>2 DEF CreateOrGet
  <2> HIDE DEF r, k
  <2> QED BY <2>1, <2>2, <2>3, KnownStep, CreateStep, HandlerStep
<1> QED BY <1>1, <1>2

\* A cancellation, whatever the state of the execution.
LEMMA CancelStep ==
  ASSUME IInv, NEW id \in DOMAIN executions, Cancel(id)
  PROVE  IStep
<1>1. PICK c \in Cancellations : executions' = [executions EXCEPT ![id] = Cancelled(executions[id], c)]
  BY DEF Cancel
<1>2. RowsOK /\ GoodRow(executions[id])
  BY DEF IInv, RowsOK
<1>3. KeepsHistory /\ DOMAIN executions' = DOMAIN executions
  BY <1>1, <1>2, CancelledIsGood, RowWritten
<1> QED BY <1>3, StepOfRow DEF Cancel

-----------------------------------------------------------------------------
(* The steps of workers *)

\* A claim, with the exhausted executions it fails on its way.
LEMMA ClaimStep ==
  ASSUME IInv, NEW w \in Workers, ClaimNext(w)
  PROVE  IStep
<1>1. PICK spent \in SUBSET {i \in DOMAIN executions : Exhausted(executions[i])},
           taken \in SUBSET {i \in DOMAIN executions : Claimable(executions[i])} :
        /\ executions' = [i \in DOMAIN executions |->
             IF i \in spent THEN Moved(executions[i], "failed")
             ELSE IF i \in taken THEN Claimed(executions[i], w)
             ELSE executions[i]]
        /\ \/ taken = {} /\ UNCHANGED workers
           \/ \E id \in taken :
                Becomes(w, [phase |-> "claimed", id |-> id, attempt |-> executions'[id].attempt,
                            status |-> executions'[id].status, result |-> "none"])
  BY DEF ClaimNext
<1>2. RowsOK /\ DOMAIN executions = 1..Len(executions) /\ Len(executions) \in Nat
  BY LenProperties DEF IInv, RowsOK
<1>3. ASSUME NEW i \in DOMAIN executions
      PROVE  GoodRow(executions'[i]) /\ Grows(executions[i], executions'[i])
  <2>1. GoodRow(executions[i])
    BY <1>2 DEF RowsOK
  <2>2. Grows(executions[i], executions[i])
    BY <2>1 DEF GoodRow, Row, Grows
  <2>3. CASE i \in spent
    BY <1>1, <2>1, <2>3, ExhaustedIsGood
  <2>4. CASE i \notin spent /\ i \in taken
    BY <1>1, <2>1, <2>4, ClaimedIsGood
  <2>5. CASE i \notin spent /\ i \notin taken
    BY <1>1, <2>1, <2>2, <2>5
  <2> QED BY <2>3, <2>4, <2>5
<1>4. DOMAIN executions' = DOMAIN executions
  BY <1>1
<1>5. KeepsHistory
  <2>1. \A i \in 1..Len(executions) : executions'[i] \in Row
    BY <1>2, <1>3 DEF GoodRow
  <2>2. executions' = [i \in 1..Len(executions) |-> executions'[i]]
    BY <1>1, <1>2
  <2>3. executions' \in Seq(Row)
    BY <1>2, <2>1, <2>2
  <2> QED BY <1>3, <1>4, <2>3 DEF KeepsHistory
<1>6. CASE taken = {} /\ UNCHANGED workers
  BY <1>4, <1>5, <1>6, StepOfRow DEF ClaimNext
<1>7. ASSUME NEW id \in taken,
             Becomes(w, [phase |-> "claimed", id |-> id, attempt |-> executions'[id].attempt,
                         status |-> executions'[id].status, result |-> "none"])
      PROVE  IStep
  <2> DEFINE x == executions'[id]
             me == [phase |-> "claimed", id |-> id, attempt |-> x.attempt,
                    status |-> x.status, result |-> "none"]
  <2>1. id \in DOMAIN executions /\ id \in Nat /\ Claimable(executions[id]) /\ GoodRow(executions[id])
    BY <1>2, <1>7 DEF RowsOK
  <2>2. id \notin spent
    BY <1>1, <2>1 DEF Claimable, Exhausted, Reclaimable
  <2>3. x = Claimed(executions[id], w)
    BY <1>1, <2>1, <2>2, <1>7
  <2>4. GoodRow(x) /\ (x.attempt <= 1 => x.status = "starting")
    BY <2>1, <2>3, ClaimedIsGood
  <2>5. x.attempt \in Nat /\ x.status \in Statuses
    BY <2>4 DEF GoodRow, Row
  <2>6. me \in Busy
    BY <2>1, <2>5 DEF Busy
  <2>7. GoodWork(executions', me)
    BY <1>4, <2>1, <2>4, <2>5, <2>6 DEF GoodWork
  <2>8. UNCHANGED <<handlers, stray, answers>>
    BY DEF ClaimNext
  <2> QED BY <1>4, <1>5, <1>7, <2>7, <2>8, StepOfWorker
<1> QED BY <1>1, <1>6, <1>7

\* A worker that gives up leaves nothing to prove.
LEMMA IdleStep ==
  ASSUME IInv, NEW w \in Workers, Becomes(w, Idle),
         UNCHANGED <<executions, handlers, stray, answers>>
  PROVE  IStep
<1>1. KeepsHistory
  BY NoRowWritten DEF IInv
<1> QED BY <1>1, StepOfWorker

\* A worker goes on to a phase in which nothing is promised.
LEMMA QuietAdvance ==
  ASSUME IInv, NEW w \in Workers, workers[w].phase # "idle",
         NEW phase \in {"starting", "executing", "publishing"},
         NEW result \in Terminal \cup {"none"}, phase = "publishing" => result \in Terminal,
         workers' = [workers EXCEPT ![w] = [@ EXCEPT !.phase = phase, !.result = result]],
         UNCHANGED <<executions, handlers, stray, answers>>
  PROVE  IStep
<1> DEFINE me == [workers[w] EXCEPT !.phase = phase, !.result = result]
<1>1. GoodWork(executions, workers[w])
  BY AtWorkIsGood
<1>2. me \in Busy /\ me.phase = phase /\ me.id = workers[w].id /\ me.attempt = workers[w].attempt
  BY <1>1 DEF GoodWork, Busy
<1>3. GoodWork(executions, me)
  BY <1>1, <1>2 DEF GoodWork
<1>4. KeepsHistory /\ Becomes(w, me)
  BY NoRowWritten DEF IInv, Becomes
<1> QED BY <1>3, <1>4, StepOfWorker

\* A worker ends its attempt without a success.
LEMMA EndsStep ==
  ASSUME IInv, NEW w \in Workers, workers[w].phase # "idle",
         NEW result \in Terminal \ {"succeeded"}, Ends(w, result),
         UNCHANGED <<executions, handlers, stray, answers>>
  PROVE  IStep
<1> DEFINE me == [workers[w] EXCEPT !.phase = "ending", !.result = result]
<1>1. GoodWork(executions, workers[w])
  BY AtWorkIsGood
<1>2. me \in Busy /\ me.phase = "ending" /\ me.result = result
      /\ me.id = workers[w].id /\ me.attempt = workers[w].attempt
  BY <1>1 DEF GoodWork, Busy
<1>3. GoodWork(executions, me)
  BY <1>1, <1>2 DEF GoodWork
<1>4. KeepsHistory
  BY NoRowWritten DEF IInv
<1>5. Becomes(w, me)
  <2>1. workers \in [Workers -> {Idle} \cup Busy] /\ workers[w] \in Busy
    BY <1>1 DEF IInv, WorkersOK, GoodWork
  <2> QED BY <2>1 DEF Ends, Becomes, Busy
<1> QED BY <1>3, <1>4, <1>5, StepOfWorker

\* A call of a worker, accepted, refused, or refused for the event budget.
LEMMA CallStep ==
  ASSUME IInv, NEW w \in Workers, workers[w].phase # "idle", NEW do, NEW phase,
         GoodCall(executions, CallOf(w, do)),
         \/ phase = "idle"
         \/ phase = "executing"
         \/ phase = "uploading" /\ do = "output" /\ workers[w].phase = "publishing"
         \/ phase = "ending" /\ do = "artifact" /\ workers[w].phase = "uploading",
         Call(w, do, phase)
  PROVE  IStep
<1> DEFINE call == CallOf(w, do)
           x == executions[call.id]
           y == After(x, call)
           me == workers[w]
           next == [me EXCEPT !.phase = phase]
<1>1. GoodWork(executions, me) /\ me \in Busy
  BY AtWorkIsGood DEF GoodWork
<1>2. /\ call.id = me.id /\ call.attempt = me.attempt /\ call.do = do
      /\ call \in Calls /\ call.id \in DOMAIN executions
      /\ do = "succeeded" => Complete(x, call.attempt)
  BY DEF CallOf, GoodCall
<1>3. GoodRow(x)
  BY <1>2 DEF IInv, RowsOK
<1>4. UNCHANGED <<handlers, stray, answers>>
  BY DEF Call
<1>5. ASSUME Accepts(x, call), executions' = [executions EXCEPT ![call.id] = y],
             IF phase = "idle" THEN Becomes(w, Idle) ELSE Advances(w, phase)
      PROVE  IStep
  <2>1. GoodRow(y) /\ Grows(x, y) /\ (do \in Events => HasEvent(y, do, call.attempt))
    BY <1>2, <1>3, <1>5, AcceptedIsGood
  <2>2. KeepsHistory /\ DOMAIN executions' = DOMAIN executions /\ executions'[call.id] = y
    <3>1. RowsOK
      BY DEF IInv
    <3> HIDE DEF y, call
    <3> QED BY <1>2, <1>5, <2>1, <3>1, RowWritten
  <2>3. CASE phase = "idle"
    BY <1>4, <1>5, <2>2, <2>3, StepOfWorker
  <2>4. CASE phase # "idle"
    <3>1. next \in Busy /\ next.phase = phase /\ next.id = me.id /\ next.attempt = me.attempt
          /\ next.result = me.result
      BY <1>1, <2>4 DEF Busy
    <3>2. Becomes(w, next)
      <4>1. workers \in [Workers -> {Idle} \cup Busy]
        BY DEF IInv, WorkersOK
      <4> QED BY <1>1, <1>5, <2>4, <4>1 DEF Advances, Becomes, Busy
    <3>3. GoodWork(executions', me)
      BY <1>1, <2>2, WorkStaysGood DEF IInv
    <3>4. phase = "uploading" => HasEvent(y, "output", me.attempt)
      BY <1>2, <2>1 DEF Events
    <3>5. phase = "ending" => Complete(y, me.attempt)
      <4> SUFFICES ASSUME phase = "ending" PROVE Complete(y, me.attempt)
        OBVIOUS
      <4>1. do = "artifact" /\ me.phase = "uploading"
        OBVIOUS
      <4>2. HasEvent(y, "artifact", me.attempt)
        BY <1>2, <2>1, <4>1 DEF Events
      <4>3. HasEvent(executions'[me.id], "output", me.attempt)
        BY <3>3, <4>1 DEF GoodWork
      <4> QED BY <1>2, <2>2, <4>2, <4>3 DEF Complete, Events
    <3>6. phase \in {"uploading", "ending"} => me.result \in Terminal
      BY <1>1 DEF GoodWork
    <3>7. phase \in {"executing", "uploading", "ending"}
      BY <2>4
    <3> HIDE DEF next, me, y
    <3>8. GoodWork(executions', next)
      BY <1>2, <2>2, <3>1, <3>3, <3>4, <3>5, <3>6, <3>7 DEF GoodWork
    <3> QED BY <1>4, <2>2, <3>2, <3>8, StepOfWorker
  <2> QED BY <2>3, <2>4
<1>6. ASSUME Ends(w, "failed"), UNCHANGED executions PROVE IStep
  <2>1. "failed" \in Terminal \ {"succeeded"}
    BY DEF Terminal
  <2> QED BY <1>4, <1>6, <2>1, EndsStep
<1>7. ASSUME Becomes(w, Idle), UNCHANGED executions PROVE IStep
  BY <1>4, <1>7, IdleStep
<1>8. \/ /\ Accepts(x, call)
         /\ executions' = [executions EXCEPT ![call.id] = y]
         /\ IF phase = "idle" THEN Becomes(w, Idle) ELSE Advances(w, phase)
      \/ Ends(w, "failed") /\ UNCHANGED executions
      \/ Becomes(w, Idle) /\ UNCHANGED executions
  BY DEF Call
<1> QED BY <1>5, <1>6, <1>7, <1>8

\* What a worker asks in each phase is the call of an attempt that has begun, and
\* a success only once the events are stored.
LEMMA AsksGoodCalls ==
  ASSUME IInv, NEW w \in Workers
  PROVE  /\ workers[w].phase = "starting" => GoodCall(executions, CallOf(w, "running"))
         /\ workers[w].phase = "publishing" => GoodCall(executions, CallOf(w, "output"))
         /\ workers[w].phase = "uploading" => GoodCall(executions, CallOf(w, "artifact"))
         /\ workers[w].phase = "ending" => GoodCall(executions, CallOf(w, workers[w].result))
<1> SUFFICES ASSUME workers[w].phase # "idle",
                    NEW do \in {"running"} \cup Events \cup Terminal,
                    do = "succeeded" => /\ workers[w].phase = "ending"
                                        /\ workers[w].result = "succeeded"
             PROVE  GoodCall(executions, CallOf(w, do))
  <2>1. workers[w].phase = "ending" => workers[w].result \in Terminal
    BY AtWorkIsGood DEF GoodWork
  <2> QED BY <2>1 DEF Events, Terminal
<1>1. GoodWork(executions, workers[w]) /\ workers[w] \in Busy
  BY AtWorkIsGood DEF GoodWork
<1>2. CallOf(w, do) \in Calls
  BY <1>1 DEF CallOf, Calls, Busy
<1> QED BY <1>1, <1>2 DEF GoodCall, GoodWork, CallOf

\* A call that arrives late is served like any other.
LEMMA StrayStep ==
  ASSUME IInv, ServeStray
  PROVE  IStep
<1>1. PICK call \in stray :
        /\ Accepts(executions[call.id], call)
        /\ executions' = [executions EXCEPT ![call.id] = After(executions[call.id], call)]
  BY DEF ServeStray
<1>2. GoodCall(executions, call) /\ RowsOK
  BY DEF IInv, StrayOK
<1>3. GoodRow(executions[call.id]) /\ call.id \in DOMAIN executions
  BY <1>2 DEF GoodCall, RowsOK
<1>4. GoodRow(After(executions[call.id], call))
      /\ Grows(executions[call.id], After(executions[call.id], call))
  BY <1>1, <1>2, <1>3, AcceptedIsGood DEF GoodCall
<1>5. KeepsHistory /\ DOMAIN executions' = DOMAIN executions
  BY <1>1, <1>2, <1>3, <1>4, RowWritten
<1> QED BY <1>5, StepOfRow DEF ServeStray

\* A worker that is lost leaves a good call behind, or none.
LEMMA LoseStep ==
  ASSUME IInv, NEW w \in Workers, LoseWorker(w)
  PROVE  IStep
<1>1. /\ workers' = [workers EXCEPT ![w] = Idle]
      /\ UNCHANGED <<executions, handlers, answers>>
      /\ stray' \subseteq stray \cup Asks(w)
  BY DEF LoseWorker, Becomes
<1>2. \A call \in Asks(w) : GoodCall(executions, call)
  BY AsksGoodCalls DEF Asks
<1>3. RowsOK' /\ RequestsOK' /\ HandlersOK'
  BY <1>1 DEF IInv, RowsOK, RequestsOK, HandlersOK
<1>4. StrayOK'
  BY <1>1, <1>2 DEF IInv, StrayOK
<1>5. WorkersOK'
  BY <1>1 DEF IInv, WorkersOK
<1>6. KeepsHistory
  BY <1>1, NoRowWritten DEF IInv
<1> QED BY <1>3, <1>4, <1>5, <1>6 DEF IInv, IStep

\* A lease that runs out is marked, and no more.
LEMMA LeaseStep ==
  ASSUME IInv, NEW id \in DOMAIN executions, LeaseRunsOut(id)
  PROVE  IStep
<1> DEFINE x == executions[id]
           y == [x EXCEPT !.expired = TRUE]
<1>1. RowsOK /\ GoodRow(x) /\ x \in Row /\ x.attempt \in Nat
  BY DEF IInv, RowsOK, GoodRow, Row
<1>2. y \in Row /\ y.log = x.log /\ y.status = x.status /\ y.attempt = x.attempt
      /\ y.owner = x.owner /\ y.request = x.request /\ y.key = x.key
  BY <1>1 DEF Row
<1>3. executions' = [executions EXCEPT ![id] = y]
  <2>1. executions \in Seq(Row)
    BY <1>1 DEF RowsOK
  <2> QED BY <1>1, <2>1 DEF LeaseRunsOut, Row
<1> HIDE DEF y
<1>4. GoodRow(y) /\ Grows(x, y)
  BY <1>1, <1>2 DEF GoodRow, GoodLog, GoodLease, Complete, HasEvent, Grows
<1>5. KeepsHistory /\ DOMAIN executions' = DOMAIN executions
  BY <1>1, <1>3, <1>4, RowWritten
<1> QED BY <1>5, StepOfRow DEF LeaseRunsOut

\* Every other step of a worker.
LEMMA WorkStep ==
  ASSUME IInv, NEW w \in Workers, Works(w) \/ Heartbeat(w)
  PROVE  IStep
<1> DEFINE me == workers[w]
<1>1. me.phase # "idle" => GoodWork(executions, me) /\ me \in Busy
  BY AtWorkIsGood DEF GoodWork
<1>2. workers \in [Workers -> {Idle} \cup Busy]
  BY DEF IInv, WorkersOK
<1>3. {"failed", "cancelled"} \subseteq Terminal \ {"succeeded"}
  BY DEF Terminal
<1>4. CASE Decline(w)
  BY <1>3, <1>4, EndsStep DEF Decline
<1>5. CASE FetchSnapshot(w)
  <2>1. CASE Becomes(w, Idle)
    BY <1>5, <2>1, IdleStep DEF FetchSnapshot
  <2>2. ASSUME NEW phase \in {"executing", "starting"}, Advances(w, phase) PROVE IStep
    <3>1. me.phase # "idle" /\ UNCHANGED <<executions, handlers, stray, answers>>
      BY <1>5 DEF FetchSnapshot
    <3>2. me.result \in Terminal \cup {"none"}
      BY <1>1, <3>1 DEF Busy
    <3>3. workers' = [workers EXCEPT ![w] = [@ EXCEPT !.phase = phase, !.result = me.result]]
      BY <1>1, <1>2, <2>2, <3>1 DEF Advances, Busy
    <3> QED BY <3>1, <3>2, <3>3, QuietAdvance
  <2>3. Becomes(w, Idle) \/ Advances(w, "executing") \/ Advances(w, "starting")
    BY <1>5 DEF FetchSnapshot
  <2> QED BY <2>1, <2>2, <2>3
<1>6. CASE Start(w)
  BY <1>6, AsksGoodCalls, CallStep DEF Start
<1>7. CASE SandboxEnds(w)
  <2>1. PICK result \in Results :
          Becomes(w, [me EXCEPT !.phase = "publishing", !.result = result])
    BY <1>7 DEF SandboxEnds
  <2>2. me.phase # "idle" /\ UNCHANGED <<executions, handlers, stray, answers>>
    BY <1>7 DEF SandboxEnds
  <2>3. result \in Terminal
    BY ResultsAssumption
  <2>4. workers' = [workers EXCEPT ![w] = [@ EXCEPT !.phase = "publishing", !.result = result]]
    BY <1>2, <2>1 DEF Becomes
  <2> QED BY <2>2, <2>3, <2>4, QuietAdvance
<1>8. CASE PublishOutput(w)
  BY <1>8, AsksGoodCalls, CallStep DEF PublishOutput
<1>9. CASE UploadArtifact(w)
  BY <1>9, AsksGoodCalls, CallStep DEF UploadArtifact
<1>10. CASE Finish(w)
  BY <1>10, AsksGoodCalls, CallStep DEF Finish
<1>11. CASE Heartbeat(w)
  BY <1>3, <1>11, IdleStep, EndsStep DEF Heartbeat
<1> QED BY <1>4, <1>5, <1>6, <1>7, <1>8, <1>9, <1>10, <1>11 DEF Works

-----------------------------------------------------------------------------
(* The theorems *)

\* Nothing exists at first.
LEMMA InitIsGood ==
  ASSUME Init
  PROVE  IInv
<1>1. executions = <<>> /\ DOMAIN executions = {} /\ executions \in Seq(Row)
  BY DEF Init
<1>2. RowsOK /\ RequestsOK /\ StrayOK
  BY <1>1 DEF Init, RowsOK, RequestsOK, StrayOK
<1>3. HandlersOK /\ WorkersOK
  BY DEF Init, HandlersOK, WorkersOK
<1> QED BY <1>2, <1>3 DEF IInv

\* The invariant is inductive, and no step takes history back.
LEMMA NextIsGood ==
  ASSUME IInv, [Next]_vars
  PROVE  IStep
<1>1. CASE UNCHANGED vars
  <2>1. KeepsHistory
    BY <1>1, NoRowWritten DEF IInv, vars
  <2> QED BY <1>1, <2>1, StepOfRow DEF vars
<1>2. ASSUME NEW h \in Handlers, BeginCreate(h) \/ CreateOrGet(h) PROVE IStep
  BY <1>2, CreateRequestStep
<1>3. ASSUME NEW w \in Workers, ClaimNext(w) PROVE IStep
  BY <1>3, ClaimStep
<1>4. ASSUME NEW w \in Workers, Works(w) \/ Heartbeat(w) PROVE IStep
  BY <1>4, WorkStep
<1>5. ASSUME NEW w \in Workers, LoseWorker(w) PROVE IStep
  BY <1>5, LoseStep
<1>6. ASSUME NEW id \in DOMAIN executions, Cancel(id) PROVE IStep
  BY <1>6, CancelStep
<1>7. ASSUME NEW id \in DOMAIN executions, LeaseLapses(id) \/ LeaseMissed(id) PROVE IStep
  BY <1>7, LeaseStep DEF LeaseLapses, LeaseMissed
<1>8. CASE ServeStray
  BY <1>8, StrayStep
<1> QED BY <1>1, <1>2, <1>3, <1>4, <1>5, <1>6, <1>7, <1>8 DEF Next

\* Every reachable state satisfies the invariant.
LEMMA Invariant == Spec => []IInv
<1>1. Init => IInv
  BY InitIsGood
<1>2. IInv /\ [Next]_vars => IInv'
  BY NextIsGood DEF IStep
<1> QED BY <1>1, <1>2, PTL DEF Spec

\* POST /executions is idempotent: however often a start is repeated, and
\* whichever handlers race, a request id names one execution, and every answer
\* ever given names it.
THEOREM StartIsIdempotent == Spec => []RequestsAreIdempotent
<1>1. IInv => RequestsAreIdempotent
  <2> SUFFICES ASSUME IInv, NEW a \in answers, NEW b \in answers, a.request = b.request
               PROVE  a = b
    BY DEF IInv, RequestsOK, RequestsAreIdempotent
  <2>1. a.id = b.id /\ a.key = b.key
    BY DEF IInv, RequestsOK
  <2>2. {a, b} \subseteq [request : Requests, key : Keys, id : Nat]
    BY DEF IInv, RequestsOK
  <2> QED BY <2>1, <2>2
<1> QED BY <1>1, Invariant, PTL

(* A job ends once: no event, status or late call comes after its end, and   *)
(* no cancellation brings it back.                                           *)
NothingAfterTheEnd ==
  \A id \in DOMAIN executions :
    LET log == executions[id].log
    IN \A n \in DOMAIN log : log[n].status \in Terminal => n = Len(log)

\* A job ends once: whatever workers are lost or late, however often a call is
\* repeated and whenever a cancellation comes, nothing is logged after the end.
THEOREM EndIsLast == Spec => []NothingAfterTheEnd
<1>1. IInv => NothingAfterTheEnd
  BY DEF IInv, RowsOK, GoodRow, GoodLog, EndsOnce, NothingAfterTheEnd
<1> QED BY <1>1, Invariant, PTL

\* The lease token fences a worker that was taken over: no event of an attempt
\* comes after one of a later attempt.
THEOREM TakenOverIsSilent == Spec => []AttemptsInOrder
<1>1. IInv => AttemptsInOrder
  BY DEF IInv, RowsOK, GoodRow, GoodLog, InOrder, AttemptsInOrder
<1> QED BY <1>1, Invariant, PTL

\* An execution that is reported a success has all the output and artifacts of
\* the attempt that succeeded, also when its workers were lost between two calls.
THEOREM SuccessHasItsEvents == Spec => []SuccessIsComplete
<1>1. IInv => SuccessIsComplete
  BY DEF IInv, RowsOK, GoodRow, Complete, HasEvent, Events, SuccessIsComplete
<1> QED BY <1>1, Invariant, PTL

\* The worker's invalid-recovery-state is never met: a first attempt finds the
\* execution about to start.
THEOREM FirstAttemptStarts == Spec => []RecoveryIsValid
<1>1. IInv => RecoveryIsValid
  BY DEF IInv, WorkersOK, GoodWork, Idle, RecoveryIsValid
<1> QED BY <1>1, Invariant, PTL

(* No execution is taken back, renamed or begun more than                    *)
(* maximumWorkerAttempts times, and every event keeps its cursor, so that a  *)
(* client that resumes from a cursor misses nothing and sees nothing twice.  *)
CursorsAreStable ==
  \A id \in DOMAIN executions :
    /\ id \in DOMAIN executions'
    /\ Grows(executions[id], executions'[id])
    /\ executions'[id].attempt <= MaxAttempts

\* Whatever is stored of an execution stays as it was stored.
THEOREM EventsKeepTheirCursors == Spec => [][CursorsAreStable]_vars
<1>1. IInv /\ [Next]_vars => CursorsAreStable
  <2> SUFFICES ASSUME IInv, [Next]_vars PROVE CursorsAreStable
    OBVIOUS
  <2>1. KeepsHistory
    BY NextIsGood DEF IStep
  <2> QED BY <2>1 DEF KeepsHistory, CursorsAreStable, GoodRow, GoodLease
<1> QED BY <1>1, Invariant, PTL DEF Spec

\* An execution that has ended keeps its status and its log for good.
EndsForGood ==
  \A id \in DOMAIN executions :
    executions[id].status \in Terminal =>
      /\ executions'[id].status = executions[id].status
      /\ executions'[id].log = executions[id].log

\* No takeover, late call or cancellation brings an ended execution back.
THEOREM EndedIsEnded == Spec => [][EndsForGood]_vars
<1>1. IInv /\ [Next]_vars => EndsForGood
  <2> SUFFICES ASSUME IInv, [Next]_vars, NEW id \in DOMAIN executions,
                      executions[id].status \in Terminal
               PROVE  /\ executions'[id].status = executions[id].status
                      /\ executions'[id].log = executions[id].log
    BY DEF EndsForGood
  <2> DEFINE x == executions[id]
             y == executions'[id]
  <2>1. GoodRow(x) /\ GoodRow(y) /\ Grows(x, y)
    BY NextIsGood DEF IInv, RowsOK, IStep, KeepsHistory
  <2>2. /\ x.log \in Seq(Entry) /\ DOMAIN x.log = 1..Len(x.log) /\ Len(x.log) \in Nat
        /\ y.log \in Seq(Entry) /\ DOMAIN y.log = 1..Len(y.log) /\ Len(y.log) \in Nat
    BY <2>1, LenProperties DEF GoodRow, Row
  <2>3. PICK n \in DOMAIN x.log : x.log[n].status = x.status
    BY <2>1 DEF GoodRow, GoodLog
  <2>4. n = Len(x.log) /\ n = Len(y.log) /\ y.log[n].status = x.status
    BY <2>1, <2>3 DEF GoodRow, GoodLog, EndsOnce, Grows
  <2>5. y.log = x.log
    <3>1. \A m \in 1..Len(x.log) : y.log[m] = x.log[m]
      BY <2>1, <2>2 DEF Grows
    <3> QED BY <2>2, <2>4, <3>1, SeqEqual
  <2>6. y.status \in Terminal
    BY <2>1, <2>2, <2>4 DEF GoodRow, GoodLog, Unended
  <2>7. PICK m \in DOMAIN y.log : y.log[m].status = y.status
    BY <2>1, <2>6 DEF GoodRow, GoodLog
  <2>8. m = n
    BY <2>1, <2>4, <2>6, <2>7 DEF GoodRow, GoodLog, EndsOnce
  <2> QED BY <2>4, <2>5, <2>7, <2>8
<1> QED BY <1>1, Invariant, PTL DEF Spec

-----------------------------------------------------------------------------
(* A remote execution is an execution job *)

\* A job goes on as its controller would let it: to an allowed status, with the
\* event that tells so, or with an event before its end; or nothing shows.
JobGoesOn(x, y) ==
  \/ y.status = x.status /\ y.log = x.log
  \/ /\ y.status \in Statuses
     /\ CanTransition(x.status, y.status)
     /\ y.log = Append(x.log, StateEntry(y.status))
  \/ /\ x.status \notin Terminal
     /\ y.status = x.status
     /\ \E e \in Entry : e.kind \in Events /\ y.log = Append(x.log, e)

\* A state event goes with its status.
LEMMA MovedGoesOn ==
  ASSUME NEW x \in Row, NEW status \in Statuses, CanTransition(x.status, status)
  PROVE  JobGoesOn(x, Moved(x, status))
<1>1. Moved(x, status).status = status /\ Moved(x, status).log = Append(x.log, StateEntry(status))
  BY DEF Moved, Row
<1> QED BY <1>1 DEF JobGoesOn

\* A cancellation goes through the transitions a job has.
LEMMA CancelledGoesOn ==
  ASSUME NEW x \in Row, NEW c \in Cancellations
  PROVE  JobGoesOn(x, Cancelled(x, c))
<1> DEFINE asked == [x EXCEPT !.cancels = @ \cup {c}]
           status == IF x.status = "queued" THEN "cancelled" ELSE "cancelling"
<1>1. asked \in Row /\ asked.status = x.status /\ asked.log = x.log
  BY DEF Row
<1>2. CASE c \in x.cancels \/ x.status \in Terminal \cup {"cancelling"}
  BY <1>1, <1>2 DEF Cancelled, JobGoesOn
<1>3. CASE ~(c \in x.cancels \/ x.status \in Terminal \cup {"cancelling"})
  <2>1. Cancelled(x, c) = Moved(asked, status)
    BY <1>3 DEF Cancelled
  <2>2. x.status \in {"queued", "starting", "running"}
    BY <1>3 DEF Row, Statuses
  <2>3. status \in Statuses /\ CanTransition(asked.status, status)
    BY <1>1, <2>2 DEF CanTransition, Statuses, Terminal
  <2> HIDE DEF asked, status
  <2>4. JobGoesOn(asked, Moved(asked, status))
    BY <1>1, <2>3, MovedGoesOn
  <2> QED BY <1>1, <2>1, <2>4 DEF JobGoesOn
<1> QED BY <1>2, <1>3

\* So does a claim that finds the execution queued; a takeover does not show.
LEMMA ClaimedGoesOn ==
  ASSUME NEW x \in Row, NEW w \in Workers
  PROVE  JobGoesOn(x, Claimed(x, w))
<1> DEFINE started == IF x.status = "queued" THEN Moved(x, "starting") ELSE x
           y == Claimed(x, w)
<1>1. JobGoesOn(x, started)
  <2>1. x.status = "queued" => CanTransition(x.status, "starting")
    BY DEF CanTransition, Statuses, Terminal
  <2>2. "starting" \in Statuses
    BY DEF Statuses
  <2>3. x.status = "queued" => JobGoesOn(x, Moved(x, "starting"))
    BY <2>1, <2>2, MovedGoesOn
  <2>4. JobGoesOn(x, x)
    BY DEF JobGoesOn
  <2> QED BY <2>3, <2>4
<1>2. y.status = started.status /\ y.log = started.log
  BY DEF Claimed, Moved, Row
<1> HIDE DEF started, y
<1> QED BY <1>1, <1>2 DEF JobGoesOn, y

\* And the claim that ends it.
LEMMA ExhaustedGoesOn ==
  ASSUME NEW x \in Row, Exhausted(x)
  PROVE  JobGoesOn(x, Moved(x, "failed"))
<1>1. "failed" \in Statuses /\ CanTransition(x.status, "failed")
  BY DEF Exhausted, Reclaimable, CanTransition, Statuses, Terminal
<1> QED BY <1>1, MovedGoesOn

\* A call that is accepted moves a job that has not ended.
LEMMA AcceptedGoesOn ==
  ASSUME NEW x, GoodRow(x), NEW call \in Calls, Accepts(x, call)
  PROVE  JobGoesOn(x, After(x, call))
<1>1. x \in Row /\ GoodLease(x)
  BY DEF GoodRow
<1>2. CASE call.do \in Statuses
  <2>1. After(x, call) = Moved(x, call.do) /\ CanTransition(x.status, call.do)
    BY <1>2 DEF After, Accepts
  <2> QED BY <1>1, <1>2, <2>1, MovedGoesOn
<1>3. CASE call.do \notin Statuses /\ Existing(x, call)
  BY <1>3 DEF After, JobGoesOn
<1>4. CASE call.do \notin Statuses /\ ~Existing(x, call)
  <2> DEFINE e == EventEntry(call)
             y == After(x, call)
  <2>1. x.status \notin Terminal
    <3>1. call.worker # Nobody /\ x.owner = call.worker
      BY NobodyAssumption DEF Accepts, Holds, Calls
    <3> QED BY <1>1, <3>1 DEF GoodLease
  <2>2. e \in Entry /\ e.kind \in Events
    BY <1>4 DEF EventEntry, Entry, Calls, Events, Statuses, Terminal
  <2>3. y.status = x.status /\ y.log = Append(x.log, e)
    BY <1>1, <1>4 DEF After, Row
  <2> HIDE DEF e, y
  <2> QED BY <2>1, <2>2, <2>3 DEF JobGoesOn, y
<1> QED BY <1>2, <1>3, <1>4

\* What a transaction does to every execution: those that exist go on, and those
\* that do not may be created.
JobsGoOn ==
  /\ \A id \in DOMAIN executions :
       id \in DOMAIN executions' /\ JobGoesOn(executions[id], executions'[id])
  /\ \A id \in DOMAIN executions' \ DOMAIN executions :
       \E r \in Requests, k \in Keys : executions'[id] = Created(r, k)

\* A transaction that writes one row, or none.
LEMMA OneGoesOn ==
  ASSUME NEW id \in DOMAIN executions, NEW y, JobGoesOn(executions[id], y),
         executions' = [executions EXCEPT ![id] = y]
  PROVE  JobsGoOn
<1>1. /\ DOMAIN executions' = DOMAIN executions /\ executions'[id] = y
      /\ \A i \in DOMAIN executions : i # id => executions'[i] = executions[i]
  OBVIOUS
<1>2. \A i \in DOMAIN executions : i # id => JobGoesOn(executions[i], executions'[i])
  BY <1>1 DEF JobGoesOn
<1> QED BY <1>1, <1>2 DEF JobsGoOn

\* See OneGoesOn.
LEMMA NoneGoesOn ==
  ASSUME UNCHANGED executions
  PROVE  JobsGoOn
BY DEF JobsGoOn, JobGoesOn

\* A start creates at most one execution and touches no other.
LEMMA CreatesJob ==
  ASSUME IInv, NEW h \in Handlers, BeginCreate(h) \/ CreateOrGet(h)
  PROVE  JobsGoOn
<1>1. CASE UNCHANGED executions
  BY <1>1, NoneGoesOn
<1>2. ASSUME NEW r \in Requests, NEW k \in Keys, executions' = Append(executions, Created(r, k))
      PROVE  JobsGoOn
  <2>1. executions \in Seq(Row) /\ Created(r, k) \in Row
    BY CreatedIsGood DEF IInv, RowsOK, GoodRow
  <2>2. /\ DOMAIN executions = 1..Len(executions) /\ Len(executions) \in Nat
        /\ DOMAIN executions' = 1..(Len(executions) + 1)
        /\ \A id \in DOMAIN executions : executions'[id] = executions[id]
        /\ executions'[Len(executions) + 1] = Created(r, k)
    BY <1>2, <2>1, LenProperties, AppendProperties
  <2>3. DOMAIN executions' = DOMAIN executions \cup {Len(executions) + 1}
    BY <2>2
  <2> QED BY <2>2, <2>3 DEF JobsGoOn, JobGoesOn
<1>3. CASE BeginCreate(h)
  BY <1>1, <1>3 DEF BeginCreate, Known
<1>4. CASE CreateOrGet(h)
  <2>1. handlers[h].request \in Requests /\ handlers[h].key \in Keys
    BY <1>4 DEF CreateOrGet, IInv, HandlersOK, Idle
  <2> QED BY <1>1, <1>2, <1>4, <2>1 DEF CreateOrGet, Known
<1> QED BY <1>3, <1>4

\* A claim moves the executions it finds exhausted, and the one it takes.
LEMMA ClaimsJobs ==
  ASSUME IInv, NEW w \in Workers, ClaimNext(w)
  PROVE  JobsGoOn
<1>1. PICK spent \in SUBSET {i \in DOMAIN executions : Exhausted(executions[i])},
           taken \in SUBSET {i \in DOMAIN executions : Claimable(executions[i])} :
        executions' = [i \in DOMAIN executions |->
          IF i \in spent THEN Moved(executions[i], "failed")
          ELSE IF i \in taken THEN Claimed(executions[i], w)
          ELSE executions[i]]
  BY DEF ClaimNext
<1>2. ASSUME NEW i \in DOMAIN executions
      PROVE  JobGoesOn(executions[i], executions'[i])
  <2>1. executions[i] \in Row
    BY DEF IInv, RowsOK, GoodRow
  <2>2. CASE i \in spent
    BY <1>1, <2>1, <2>2, ExhaustedGoesOn
  <2>3. CASE i \notin spent /\ i \in taken
    BY <1>1, <2>1, <2>3, ClaimedGoesOn
  <2>4. CASE i \notin spent /\ i \notin taken
    BY <1>1, <2>4 DEF JobGoesOn
  <2> QED BY <2>2, <2>3, <2>4
<1> QED BY <1>1, <1>2 DEF JobsGoOn

\* A call that is served moves one job; one that is refused, none.
LEMMA ServedGoesOn ==
  ASSUME IInv, NEW call, GoodCall(executions, call), Accepts(executions[call.id], call),
         executions' = [executions EXCEPT ![call.id] = After(executions[call.id], call)]
  PROVE  JobsGoOn
<1>1. call \in Calls /\ call.id \in DOMAIN executions /\ GoodRow(executions[call.id])
  BY DEF GoodCall, IInv, RowsOK
<1> QED BY <1>1, AcceptedGoesOn, OneGoesOn

\* See ServedGoesOn.
LEMMA CallGoesOn ==
  ASSUME IInv, NEW w \in Workers, NEW do, NEW phase, GoodCall(executions, CallOf(w, do)),
         Call(w, do, phase)
  PROVE  JobsGoOn
<1> DEFINE call == CallOf(w, do)
<1>1. \/ /\ Accepts(executions[call.id], call)
         /\ executions' = [executions EXCEPT ![call.id] = After(executions[call.id], call)]
      \/ UNCHANGED executions
  BY DEF Call
<1> HIDE DEF call
<1> QED BY <1>1, ServedGoesOn, NoneGoesOn DEF call

\* Whatever clients, workers, late calls and time do, the jobs go on as jobs do.
LEMMA NextGoesOn ==
  ASSUME IInv, [Next]_vars
  PROVE  JobsGoOn
<1>1. CASE UNCHANGED executions
  BY <1>1, NoneGoesOn
<1>2. ASSUME NEW h \in Handlers, BeginCreate(h) \/ CreateOrGet(h) PROVE JobsGoOn
  BY <1>2, CreatesJob
<1>3. ASSUME NEW w \in Workers, ClaimNext(w) PROVE JobsGoOn
  BY <1>3, ClaimsJobs
<1>4. ASSUME NEW w \in Workers, Works(w) PROVE JobsGoOn
  <2>1. CASE Start(w)
    BY <2>1, AsksGoodCalls, CallGoesOn DEF Start
  <2>2. CASE PublishOutput(w)
    BY <2>2, AsksGoodCalls, CallGoesOn DEF PublishOutput
  <2>3. CASE UploadArtifact(w)
    BY <2>3, AsksGoodCalls, CallGoesOn DEF UploadArtifact
  <2>4. CASE Finish(w)
    BY <2>4, AsksGoodCalls, CallGoesOn DEF Finish
  <2>5. CASE Decline(w)
    BY <1>1, <2>5 DEF Decline
  <2>6. CASE FetchSnapshot(w)
    BY <1>1, <2>6 DEF FetchSnapshot
  <2>7. CASE SandboxEnds(w)
    BY <1>1, <2>7 DEF SandboxEnds
  <2> QED BY <1>4, <2>1, <2>2, <2>3, <2>4, <2>5, <2>6, <2>7 DEF Works
<1>5. ASSUME NEW w \in Workers, Heartbeat(w) \/ LoseWorker(w) PROVE JobsGoOn
  BY <1>1, <1>5 DEF Heartbeat, LoseWorker
<1>6. ASSUME NEW id \in DOMAIN executions, Cancel(id) PROVE JobsGoOn
  <2>1. PICK c \in Cancellations :
          executions' = [executions EXCEPT ![id] = Cancelled(executions[id], c)]
    BY <1>6 DEF Cancel
  <2>2. executions[id] \in Row
    BY DEF IInv, RowsOK, GoodRow
  <2> QED BY <2>1, <2>2, CancelledGoesOn, OneGoesOn
<1>7. ASSUME NEW id \in DOMAIN executions, LeaseLapses(id) \/ LeaseMissed(id) PROVE JobsGoOn
  <2> DEFINE y == [executions[id] EXCEPT !.expired = TRUE]
  <2>1. executions[id] \in Row /\ executions \in Seq(Row)
    BY DEF IInv, RowsOK, GoodRow
  <2>2. executions' = [executions EXCEPT ![id] = y]
    BY <1>7, <2>1 DEF LeaseLapses, LeaseMissed, LeaseRunsOut, Row
  <2>3. y.status = executions[id].status /\ y.log = executions[id].log
    BY <2>1 DEF Row
  <2> HIDE DEF y
  <2> QED BY <2>2, <2>3, OneGoesOn DEF JobGoesOn
<1>8. CASE ServeStray
  <2>1. PICK call \in stray :
          /\ Accepts(executions[call.id], call)
          /\ executions' = [executions EXCEPT ![call.id] = After(executions[call.id], call)]
    BY <1>8 DEF ServeStray
  <2> QED BY <2>1, ServedGoesOn DEF IInv, StrayOK
<1> QED BY <1>1, <1>2, <1>3, <1>4, <1>5, <1>6, <1>7, <1>8 DEF Next, vars

\* The history of a job grows with the log of its execution.
LEMMA HistoryAppends ==
  ASSUME NEW log \in Seq(Entry), NEW e \in Entry
  PROVE  History(Append(log, e)) = Append(History(log), Told(e))
<1> DEFINE S == {Told(x) : x \in Entry}
           new == Append(log, e)
<1>1. /\ new \in Seq(Entry) /\ Len(new) = Len(log) + 1 /\ Len(log) \in Nat
      /\ DOMAIN new = 1..(Len(log) + 1) /\ DOMAIN log = 1..Len(log)
      /\ \A n \in 1..Len(log) : new[n] = log[n]
      /\ new[Len(log) + 1] = e
  BY AppendProperties, LenProperties
<1>2. \A n \in 1..Len(log) : log[n] \in Entry
  BY ElementOfSeq
<1> HIDE DEF new
<1>3. History(log) \in [1..Len(log) -> S] /\ History(new) \in [1..(Len(log) + 1) -> S]
  BY <1>1, <1>2 DEF History
<1>4. History(log) \in Seq(S) /\ Len(History(log)) = Len(log)
      /\ History(new) \in Seq(S) /\ Len(History(new)) = Len(log) + 1
  <2>1. \A n \in Nat : \A f \in [1..n -> S] : f \in Seq(S) /\ Len(f) = n
    BY SeqDef, LenProperties
  <2>2. Len(log) \in Nat /\ Len(log) + 1 \in Nat
    BY <1>1
  <2> DEFINE h == History(log)
             g == History(new)
  <2> HIDE DEF h, g, S
  <2>3. h \in [1..Len(log) -> S] /\ g \in [1..(Len(log) + 1) -> S]
    BY <1>3 DEF h, g
  <2>4. h \in Seq(S) /\ Len(h) = Len(log)
    BY <2>1, <2>2, <2>3
  <2>5. g \in Seq(S) /\ Len(g) = Len(log) + 1
    BY <2>1, <2>2, <2>3
  <2> QED BY <2>4, <2>5 DEF h, g
<1>5. Told(e) \in S
  OBVIOUS
<1> DEFINE grown == Append(History(log), Told(e))
<1> HIDE DEF S
<1>6. /\ grown \in Seq(S) /\ Len(grown) = Len(log) + 1
      /\ \A n \in 1..Len(log) : grown[n] = History(log)[n]
      /\ grown[Len(log) + 1] = Told(e)
  BY <1>4, <1>5, AppendProperties
<1> HIDE DEF grown
<1>7. \A n \in 1..(Len(log) + 1) : History(new)[n] = grown[n]
  BY <1>1, <1>6 DEF History
<1>8. History(new) = grown
  BY <1>4, <1>6, <1>7, SeqEqual
<1> QED BY <1>8 DEF new, grown

\* Every execution has an event: the first one tells that it is queued.
Published == \A id \in DOMAIN executions : 1 \in DOMAIN executions[id].log

\* No step takes the first event back.
LEMMA StaysPublished ==
  ASSUME RowsOK, Published, KeepsHistory, JobsGoOn
  PROVE  Published'
<1>1. ASSUME NEW id \in DOMAIN executions PROVE 1 \in DOMAIN executions'[id].log
  BY DEF Published, KeepsHistory, Grows
<1>2. ASSUME NEW id \in DOMAIN executions' \ DOMAIN executions
      PROVE  1 \in DOMAIN executions'[id].log
  <2>1. PICK r \in Requests, k \in Keys : executions'[id] = Created(r, k)
    BY <1>2 DEF JobsGoOn
  <2> QED BY <2>1 DEF Created
<1> QED BY <1>1, <1>2 DEF Published

\* What JobGoesOn says of a row is what the job's actions say of its image.
LEMMA GoesOnAsJob ==
  ASSUME NEW x \in Row, NEW y, JobGoesOn(x, y), 1 \in DOMAIN x.log
  PROVE  LET h == History(x.log)
             g == History(y.log)
         IN \/ y.status = x.status /\ g = h
            \/ /\ h # <<>>
               /\ y.status \in Statuses
               /\ CanTransition(x.status, y.status)
               /\ g = Append(h, [kind |-> "state", status |-> y.status])
            \/ /\ h # <<>>
               /\ x.status \notin Terminal
               /\ \E kind \in {"log", "artifact"} : g = Append(h, [kind |-> kind])
               /\ y.status = x.status
<1> DEFINE h == History(x.log)
           g == History(y.log)
<1>1. x.log \in Seq(Entry)
  BY DEF Row
<1>2. h # <<>>
  <2>1. DOMAIN h = DOMAIN x.log
    BY DEF History
  <2>2. DOMAIN <<>> = {}
    OBVIOUS
  <2> QED BY <2>1, <2>2
<1>3. CASE y.status = x.status /\ y.log = x.log
  BY <1>3
<1>4. CASE /\ y.status \in Statuses
           /\ CanTransition(x.status, y.status)
           /\ y.log = Append(x.log, StateEntry(y.status))
  <2>1. StateEntry(y.status) \in Entry
    BY <1>4 DEF StateEntry, Entry
  <2>2. Told(StateEntry(y.status)) = [kind |-> "state", status |-> y.status]
    BY DEF Told, StateEntry
  <2>3. g = Append(h, [kind |-> "state", status |-> y.status])
    BY <1>1, <1>4, <2>1, <2>2, HistoryAppends
  <2> QED BY <1>2, <1>4, <2>3
<1>5. CASE /\ x.status \notin Terminal
           /\ y.status = x.status
           /\ \E e \in Entry : e.kind \in Events /\ y.log = Append(x.log, e)
  <2>1. PICK e \in Entry : e.kind \in Events /\ y.log = Append(x.log, e)
    BY <1>5
  <2>2. PICK kind \in {"log", "artifact"} : Told(e) = [kind |-> kind]
    BY <2>1 DEF Told, Events
  <2>3. g = Append(h, [kind |-> kind])
    BY <1>1, <2>1, <2>2, HistoryAppends
  <2> QED BY <1>2, <1>5, <2>3
<1> QED BY <1>3, <1>4, <1>5 DEF JobGoesOn

\* A step of an execution is a step of the job it implements, or does not show.
LEMMA JobStep ==
  ASSUME RowsOK, Published, JobsGoOn, NEW id
  PROVE  [Job(id)!Next]_(Job(id)!vars)
<1> DEFINE x == executions[id]
           y == executions'[id]
<1>1. CASE id \in DOMAIN executions
  <2>1. Exists(id) /\ Exists(id)'
    BY <1>1 DEF JobsGoOn, Exists
  <2>2. x \in Row /\ JobGoesOn(x, y) /\ 1 \in DOMAIN x.log
    BY <1>1 DEF RowsOK, GoodRow, JobsGoOn, Published
  <2> HIDE DEF x, y
  <2>3. CASE y.status = x.status /\ History(y.log) = History(x.log)
    BY <2>1, <2>3 DEF Job!vars, x, y
  <2>4. CASE /\ History(x.log) # <<>>
             /\ y.status \in Statuses
             /\ CanTransition(x.status, y.status)
             /\ History(y.log) = Append(History(x.log), [kind |-> "state", status |-> y.status])
    <3>1. Job(id)!CanTransition(x.status, y.status) /\ y.status \in Job(id)!Statuses
      BY <2>4 DEF CanTransition, Statuses, Terminal, Job!CanTransition, Job!Statuses, Job!Terminal
    <3>2. Job(id)!Transition
      BY <2>1, <2>4, <3>1 DEF Job!Transition, Job!StateEvent, x, y
    <3> QED BY <3>2 DEF Job!Next
  <2>5. CASE /\ History(x.log) # <<>>
             /\ x.status \notin Terminal
             /\ \E kind \in {"log", "artifact"} :
                  History(y.log) = Append(History(x.log), [kind |-> kind])
             /\ y.status = x.status
    <3>1. x.status \notin Job(id)!Terminal
      BY <2>5 DEF Terminal, Job!Terminal
    <3>2. {"log", "artifact"} \subseteq Job(id)!Kinds
      BY DEF Job!Kinds
    <3>3. Job(id)!PublishEvent
      BY <2>1, <2>5, <3>1, <3>2 DEF Job!PublishEvent, x, y
    <3> QED BY <3>3 DEF Job!Next
  <2> QED BY <2>2, <2>3, <2>4, <2>5, GoesOnAsJob
<1>2. CASE id \in DOMAIN executions' \ DOMAIN executions
  <2>1. PICK r \in Requests, k \in Keys : y = Created(r, k)
    BY <1>2 DEF JobsGoOn
  <2>2. ~Exists(id) /\ Exists(id)'
    BY <1>2 DEF Exists
  <2>3. y.status = "queued" /\ y.log = <<StateEntry("queued")>>
    BY <2>1 DEF Created
  <2>4. History(y.log) = <<[kind |-> "state", status |-> "queued"]>>
    BY <2>3 DEF History, Told, StateEntry
  <2> HIDE DEF y
  <2>5. Job(id)!PublishInitialState
    BY <2>2, <2>3, <2>4 DEF Job!PublishInitialState, Job!StateEvent, y
  <2> QED BY <2>5 DEF Job!Next
<1>3. CASE id \notin DOMAIN executions \cup DOMAIN executions'
  BY <1>3 DEF Job!vars, Exists
<1> QED BY <1>1, <1>2, <1>3

\* At first no job has published its initial state.
LEMMA JobInit ==
  ASSUME Init, NEW id
  PROVE  Job(id)!Init /\ Published
BY DEF Init, Job!Init, Exists, Published

\* The invariant, with the first events.
LEMMA PublishedInvariant == Spec => [](IInv /\ Published)
<1>1. Init => Published
  BY DEF Init, Published
<1>2. IInv /\ Published /\ [Next]_vars => Published'
  BY NextIsGood, NextGoesOn, StaysPublished DEF IStep, IInv
<1> QED BY <1>1, <1>2, Invariant, PTL DEF Spec

\* Each remote execution implements the job that runtime-core runs for a local
\* one: no lease, takeover, lost worker or late call shows in its status and events.
THEOREM RemoteExecutionIsAJob ==
  ASSUME NEW CONSTANT id
  PROVE  Spec => Job(id)!Spec
<1>1. Init => Job(id)!Init
  BY JobInit
<1>2. IInv /\ Published /\ [Next]_vars => [Job(id)!Next]_(Job(id)!vars)
  BY NextGoesOn, JobStep DEF IInv
<1> QED BY <1>1, <1>2, PublishedInvariant, PTL DEF Spec, Job!Spec

\* All of them at once, as the runs check it.
THEOREM RemoteRefinement == Spec => ImplementsExecutionJob
<1>1. Init => \A id \in DOMAIN executions : Job(id)!Init
  BY JobInit
<1>2. IInv /\ Published /\ [Next]_vars =>
        \A id \in DOMAIN executions \cup DOMAIN executions' : [Job(id)!Next]_(Job(id)!vars)
  BY NextGoesOn, JobStep DEF IInv
<1> QED BY <1>1, <1>2, PublishedInvariant, PTL DEF Spec, ImplementsExecutionJob
=============================================================================
