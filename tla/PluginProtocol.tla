---------------------------- MODULE PluginProtocol ----------------------------
(***************************************************************************)
(* The session between the plugin host and a plugin runtime: two protocol   *)
(* endpoints joined by a port that delivers in order.  Each side sends      *)
(* requests, withdraws them when a timer or a signal says so, and works on  *)
(* the requests of the other; a withdrawn request may still be answered,    *)
(* and the endpoint tells that late answer from a forged one by a bounded   *)
(* memory of the requests it has closed.                                    *)
(*                                                                          *)
(* A message id is its sender's sequence number.  What a request asks is    *)
(* its number in the order all requests were made, and the answer a handler *)
(* gives names the question it was given.                                   *)
(***************************************************************************)
EXTENDS Integers, FiniteSets, Sequences, SequencesExt, Functions

CONSTANTS
  Ends,         \* the two endpoints
  MaxClosed,    \* maxClosedRequestIds
  MaxMessages,  \* maxMessagesPerSession
  MaxRequests,  \* bound: how many requests each endpoint makes
  MaxFaults     \* bound: messages not sent, failed handlers, deliberate closes

ASSUME EndsAssumption == \E a, b \in Ends : a # b /\ Ends = {a, b}
ASSUME LimitsAssumption == {MaxClosed, MaxMessages} \subseteq Nat \ {0}
ASSUME MaxRequestsAssumption == MaxRequests \in [Ends -> Nat]

VARIABLES
  ends,    \* the state of each endpoint
  wire,    \* wire[e]: what is on its way to e, oldest first
  results, \* results[n]: who asked question n, and how the request was settled
  closings,\* history: the request ids each endpoint closed, oldest first
  faults

vars == <<ends, wire, results, closings, faults>>

Peer(e) == CHOOSE p \in Ends : p # e

\* Why an endpoint closed its session.
Open == [why |-> "open"]

Empty == [x \in {} |-> x]

New == [out |-> 0, in |-> 0, pending |-> Empty, remembered |-> <<>>,
        inbound |-> Empty, session |-> Open]

IsOpen(e) == ends[e].session = Open

-----------------------------------------------------------------------------
(* Bookkeeping of one endpoint s *)

Put(f, x, y) == [z \in DOMAIN f \cup {x} |-> IF z = x THEN y ELSE f[z]]

NewestOf(seq) ==
  IF Len(seq) <= MaxClosed THEN seq ELSE SubSeq(seq, Len(seq) - MaxClosed + 1, Len(seq))

\* An id that was closed before is remembered once.
Without(seq, id) ==
  IF \E k \in DOMAIN seq : seq[k].id = id
  THEN RemoveAt(seq, CHOOSE k \in DOMAIN seq : seq[k].id = id)
  ELSE seq

\* The closed request becomes the newest one; the oldest are forgotten.
Remembered(s, id, reason) ==
  [s EXCEPT !.remembered = NewestOf(Append(Without(@, id), [id |-> id, reason |-> reason]))]

SettledPending(s, id, reason) ==
  Remembered([s EXCEPT !.pending = Restrict(@, DOMAIN @ \ {id})], id, reason)

\* Running handlers are aborted, every pending request is settled.
Closed(s, session) ==
  [s EXCEPT !.session = session, !.pending = Empty, !.inbound = Empty]

Settled(n, how) == [results EXCEPT ![n].how = how]

AllSettled(rs, s) ==
  [n \in DOMAIN rs |-> IF n \in Range(s.pending)
                       THEN [rs[n] EXCEPT !.how = [reason |-> "closed"]] ELSE rs[n]]

\* Endpoint e, in state s, closes; rs are the results so far.
CloseInternal(e, s, rs, session) ==
  /\ ends' = [ends EXCEPT ![e] = Closed(s, session)]
  /\ results' = AllSettled(rs, s)

Fault == faults < MaxFaults /\ faults' = faults + 1

\* Mutated form: the sequence number is taken before the message is encoded.
ConsumedOnFailure(s) == [s EXCEPT !.out = @ + 1]

\* A message that cannot be encoded takes no sequence number.
NotEncoded(s) == s

\* Endpoint e hands m to the port, and is in state s if that succeeds.
Transmit(e, s, m) ==
  /\ ends' = [ends EXCEPT ![e] = [s EXCEPT !.out = @ + 1]]
  /\ wire' = [wire EXCEPT ![Peer(e)] = Append(@, m)]

\* The port throws: the session ends with whatever was pending in s.
SendFails(e, s, rs) ==
  /\ Fault
  /\ CloseInternal(e, s, rs, [why |-> "transport"])
  /\ UNCHANGED <<wire, closings>>

NextId(s) == s.out + 1

-----------------------------------------------------------------------------
(* Requests *)

MayAsk(e) == Cardinality({n \in DOMAIN results : results[n].from = e}) < MaxRequests[e]

\* A request is pending before it is sent, so that no answer can miss it.
Request(e) ==
  LET s == ends[e]
      n == Len(results) + 1
      id == NextId(s)
      waiting == [s EXCEPT !.pending = Put(@, id, n)]
      rs == Append(results, [from |-> e, how |-> [reason |-> "none"]])
  IN /\ IsOpen(e)
     /\ MayAsk(e)
     /\ \/ /\ Transmit(e, waiting, [seq |-> id, kind |-> "request", asks |-> n])
           /\ results' = rs
           /\ UNCHANGED <<closings, faults>>
        \/ SendFails(e, waiting, rs)

\* A request whose message cannot be encoded is settled at once; the next
\* message gets the id it had.
RequestUnencodable(e) ==
  LET s == ends[e]
      n == Len(results) + 1
      waiting == [s EXCEPT !.pending = Put(@, NextId(s), n)]
  IN /\ IsOpen(e)
     /\ MayAsk(e)
     /\ ends' = [ends EXCEPT ![e] = NotEncoded(SettledPending(waiting, NextId(s), "canceled"))]
     /\ results' = Append(results, [from |-> e, how |-> [reason |-> "canceled"]])
     /\ closings' = [closings EXCEPT ![e] = Append(@, NextId(s))]
     /\ Fault
     /\ UNCHANGED wire

\* Mutated form: the request is settled, but the peer is not told.
WithdrawQuietly(e) ==
  \E id \in DOMAIN ends[e].pending, reason \in {"timed-out", "canceled"} :
    /\ ends' = [ends EXCEPT ![e] = SettledPending(@, id, reason)]
    /\ results' = Settled(ends[e].pending[id], [reason |-> reason])
    /\ closings' = [closings EXCEPT ![e] = Append(@, id)]
    /\ UNCHANGED <<wire, faults>>

\* The timer of a pending request fires, or its signal is aborted: the peer
\* is told to stop, and the request is settled without waiting for it.
Withdraw(e) ==
  \E id \in DOMAIN ends[e].pending, reason \in {"timed-out", "canceled"} :
    \/ /\ Transmit(e, SettledPending(ends[e], id, reason),
                   [seq |-> NextId(ends[e]), kind |-> "cancel", of |-> id])
       /\ results' = Settled(ends[e].pending[id], [reason |-> reason])
       /\ closings' = [closings EXCEPT ![e] = Append(@, id)]
       /\ UNCHANGED faults
    \/ SendFails(e, ends[e], results)

-----------------------------------------------------------------------------
(* Messages that arrive *)

\* The sequence numbers of a session have no gap and the session is bounded.
SequenceFault(s, m) ==
  IF m.seq # s.in + 1 THEN "sequence" ELSE IF s.in >= MaxMessages THEN "budget" ELSE "none"

ReceiveOutOfSequence(e, m) ==
  /\ SequenceFault(ends[e], m) # "none"
  /\ CloseInternal(e, ends[e], results, [why |-> SequenceFault(ends[e], m)])
  /\ UNCHANGED closings

ReceiveRequest(e, m) ==
  /\ m.kind = "request"
  /\ ends' = [ends EXCEPT
       ![e].in = m.seq,
       ![e].inbound = Put(@, m.seq, [asks |-> m.asks, aborted |-> FALSE])]
  /\ UNCHANGED <<results, closings>>

Aborted(inbound, of) ==
  [id \in DOMAIN inbound |->
     IF id = of THEN [inbound[id] EXCEPT !.aborted = TRUE] ELSE inbound[id]]

\* A cancellation of a request that is not being worked on is ignored.
ReceiveCancel(e, m) ==
  /\ m.kind = "cancel"
  /\ ends' = [ends EXCEPT ![e].in = m.seq, ![e].inbound = Aborted(@, m.of)]
  /\ UNCHANGED <<results, closings>>

WithdrawnReasons == {"canceled", "timed-out"}

\* Mutated form: only a request that timed out may be answered late.
LateAfterTimeout(s, m) ==
  \E c \in Range(s.remembered) : c.id = m.replyTo /\ c.reason = "timed-out"

\* The answer to a request that was withdrawn before it came.
Late(s, m) == \E c \in Range(s.remembered) : c.id = m.replyTo /\ c.reason \in WithdrawnReasons

\* Mutated form: answers are taken to come in the order of the requests.
OldestAsked(s, m) == {id \in DOMAIN s.pending : \A p \in DOMAIN s.pending : id <= p}

\* The pending request an answer refers to, if any.
AskedBy(s, m) == {m.replyTo} \cap DOMAIN s.pending

ReceiveResponse(e, m) ==
  LET s == [ends[e] EXCEPT !.in = m.seq]
  IN /\ m.kind = "response"
     /\ \/ \E id \in AskedBy(s, m) :
             /\ ends' = [ends EXCEPT ![e] = SettledPending(s, id, "completed")]
             /\ results' = Settled(s.pending[id],
                                   [reason |-> "completed", answers |-> m.answers])
             /\ closings' = [closings EXCEPT ![e] = Append(@, id)]
        \/ /\ AskedBy(s, m) = {}
           /\ Late(s, m)
           /\ ends' = [ends EXCEPT ![e] = s]
           /\ UNCHANGED <<results, closings>>
        \/ /\ AskedBy(s, m) = {}
           /\ ~Late(s, m)
           /\ CloseInternal(e, s, results, [why |-> "correlation", replyTo |-> m.replyTo])
           /\ UNCHANGED closings

\* A closed endpoint reads nothing any more.
Receive(e) ==
  /\ IsOpen(e)
  /\ wire[e] # <<>>
  /\ wire' = [wire EXCEPT ![e] = Tail(@)]
  /\ UNCHANGED faults
  /\ LET m == Head(wire[e]) IN
       \/ ReceiveOutOfSequence(e, m)
       \/ /\ SequenceFault(ends[e], m) = "none"
          /\ \/ ReceiveRequest(e, m)
             \/ ReceiveCancel(e, m)
             \/ ReceiveResponse(e, m)

-----------------------------------------------------------------------------
(* Handlers *)

\* The handler of an inbound request returns; an aborted one is not answered.
Handled(e) ==
  \E id \in DOMAIN ends[e].inbound :
    LET h == ends[e].inbound[id]
        s == [ends[e] EXCEPT !.inbound = Restrict(@, DOMAIN @ \ {id})]
    IN \/ /\ h.aborted
          /\ ends' = [ends EXCEPT ![e] = s]
          /\ UNCHANGED <<wire, results, closings, faults>>
       \/ /\ ~h.aborted
          /\ Transmit(e, s, [seq |-> NextId(s), kind |-> "response", replyTo |-> id,
                             answers |-> h.asks])
          /\ UNCHANGED <<results, closings, faults>>
       \/ /\ ~h.aborted
          /\ SendFails(e, s, results)

\* The answer of a handler cannot be encoded: the peer gets none.
HandledUnencodable(e) ==
  \E id \in DOMAIN ends[e].inbound :
    /\ ~ends[e].inbound[id].aborted
    /\ Fault
    /\ ends' = [ends EXCEPT ![e].inbound = Restrict(@, DOMAIN @ \ {id})]
    /\ UNCHANGED <<wire, results, closings>>

\* A handler that fails ends the session.
HandlerFails(e) ==
  \E id \in DOMAIN ends[e].inbound :
    /\ ~ends[e].inbound[id].aborted
    /\ Fault
    /\ CloseInternal(e, ends[e], results, [why |-> "handler"])
    /\ UNCHANGED <<wire, closings>>

\* The owner of the endpoint ends the session.
Close(e) ==
  /\ IsOpen(e)
  /\ Fault
  /\ CloseInternal(e, ends[e], results, [why |-> "closed"])
  /\ UNCHANGED <<wire, closings>>

-----------------------------------------------------------------------------

Init ==
  /\ ends = [e \in Ends |-> New]
  /\ wire = [e \in Ends |-> <<>>]
  /\ results = <<>>
  /\ closings = [e \in Ends |-> <<>>]
  /\ faults = 0

Next == \E e \in Ends : \/ Request(e)
                       \/ RequestUnencodable(e)
                       \/ Withdraw(e)
                       \/ Receive(e)
                       \/ Handled(e)
                       \/ HandledUnencodable(e)
                       \/ HandlerFails(e)
                       \/ Close(e)

Spec == Init /\ [][Next]_vars

\* The port delivers.  Handlers and callers may do nothing for ever.
FairSpec == Spec /\ \A e \in Ends : WF_vars(Receive(e))

-----------------------------------------------------------------------------
(* Properties *)

Requests == DOMAIN results

(* Answers and cancellations meet the question they belong to, although     *)
(* requests are answered in any order, withdrawn and repeated, and although *)
(* an id is used again after a message that could not be encoded: whoever   *)
(* gets an answer asked for it, and a handler is told to stop only when its *)
(* own requester no longer waits (handleResponse, handleCancelEvent).       *)
OwnQuestion ==
  /\ \A n \in Requests :
       results[n].how.reason = "completed" => results[n].how.answers = n
  /\ \A e \in Ends : \A id \in DOMAIN ends[e].inbound :
       ends[e].inbound[id].aborted =>
         results[ends[e].inbound[id].asks].how.reason \in WithdrawnReasons \cup {"closed"}

(* Two correct endpoints never find each other's sequence numbers wrong,    *)
(* whichever messages could not be encoded (validateInboundSequence).       *)
NoSequenceViolation == \A e \in Ends : ends[e].session.why # "sequence"

ClosedSince(e, id) ==
  LET last == CHOOSE k \in DOMAIN closings[e] :
                closings[e][k] = id /\ \A j \in k+1..Len(closings[e]) : closings[e][j] # id
  IN {closings[e][k] : k \in last+1..Len(closings[e])}

(* An honest late answer ends the session only if the memory of closed      *)
(* requests is full of younger ones: MaxClosed others were closed between   *)
(* the withdrawal and the answer (closedRequests, handleResponse).          *)
LateAnswerIsHarmless ==
  \A e \in Ends :
    ends[e].session.why = "correlation" =>
      LET id == ends[e].session.replyTo
      IN id \in Range(closings[e]) /\ Cardinality(ClosedSince(e, id)) >= MaxClosed

SumOfRequests == FoldFunction(+, 0, MaxRequests)

\* The handler at e works for a request whose author has withdrawn it.
WorksForNobody(e, n) ==
  /\ results[n].how.reason \in WithdrawnReasons
  /\ IsOpen(Peer(e))
  /\ \E id \in DOMAIN ends[e].inbound :
       ends[e].inbound[id].asks = n /\ ~ends[e].inbound[id].aborted

(* The work for a withdrawn request stops in the end: the cancellation      *)
(* arrives, or the session ends (bestEffortCancel, handleCancelEvent).      *)
AbandonedWorkStops ==
  \A e \in Ends, n \in 1..SumOfRequests :
    (n \in Requests /\ WorksForNobody(e, n)) ~> ~(n \in Requests /\ WorksForNobody(e, n))

=============================================================================
