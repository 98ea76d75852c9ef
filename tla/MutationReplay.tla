---------------------------- MODULE MutationReplay ----------------------------
(***************************************************************************)
(* Mutations that live previews ask the backend to make.                    *)
(*                                                                          *)
(* A data mutation is a request to somebody else's server: the gateway      *)
(* claims the invocation in a row, sends the request, and writes what       *)
(* became of it into the row.  Between these steps anything may fail, so    *)
(* the row says whether the request may be sent once more, has its answer,  *)
(* or must never be sent again.                                             *)
(*                                                                          *)
(* A server function mutation changes state of the backend's own: the       *)
(* effect and the row with its result are written in one transaction.       *)
(*                                                                          *)
(* What a request asks for is its input; the request hash stands for it.    *)
(* The answer of the foreign server is named by the request that got it.    *)
(***************************************************************************)
EXTENDS Integers, FiniteSets, Sequences

CONSTANTS
  Invocations,    \* data mutations of one execution
  Maximum,        \* Maximum[i]: maximumAttempts of the operation of i
  Idempotent,     \* the invocations whose operation has an idempotency key
  Inputs,
  Capacity,       \* maximumDataGatewayReplays
  Calls,          \* server function mutations of the execution
  Keys,           \* their state entries
  CallCapacity,   \* maximumServerFunctionMutationReplays
  Handlers,       \* backend requests in progress
  MaxRequests,    \* bound: requests, of both kinds together
  MaxFaults       \* bound: crashes and database calls whose answer is an error

ASSUME MaximumAssumption == Maximum \in [Invocations -> Nat \ {0}]

\* Invocations and calls have tables of their own.
ASSUME KindsAssumption == Invocations \cap Calls = {}

\* parseDataGatewayDocument refuses documents that say otherwise.
ASSUME RetryNeedsIdempotency == \A i \in Invocations : Maximum[i] > 1 => i \in Idempotent

VARIABLES
  rows,     \* rows[i]: the replay row of a claimed invocation
  handlers,
  sent,     \* history: requests sent upstream, and what was heard of them
  answers,  \* history: the successful answers given to clients
  calls,    \* calls[c]: the replay row of a server function mutation
  cells,    \* cells[k]: revision of a state entry
  lost,     \* history: invocations whose handler crashed or lost the database
  requests, \* how many requests have arrived
  faults

gateway == <<rows, handlers, sent, lost>>
functions == <<calls, cells>>
vars == <<rows, handlers, sent, answers, calls, cells, lost, requests, faults>>

Idle == [phase |-> "idle"]

Claimed == DOMAIN rows

Arrival == requests < MaxRequests /\ requests' = requests + 1
Fault == faults < MaxFaults /\ faults' = faults + 1
Fine == UNCHANGED faults

Goto(h, phase) == handlers' = [handlers EXCEPT ![h].phase = phase]
Finish(h) == handlers' = [handlers EXCEPT ![h] = Idle]

Answer(i, input, result) == answers' = answers \cup {[of |-> i, input |-> input, result |-> result]}

\* A row is inserted, or replaces the one of its id.
Put(table, id, row) == [i \in DOMAIN table \cup {id} |-> IF i = id THEN row ELSE table[i]]

-----------------------------------------------------------------------------
(* The replay row *)

\* Mutated form: an attempt is also started where its outcome was not retryable.
NextAttemptOfAny(i, attempt) == attempt = rows[i].attempt + 1

\* The next attempt after one that was released.
NextAttempt(i, attempt) == rows[i].status = "retryable" /\ attempt = rows[i].attempt + 1

\* Mutated form: the request hash is not compared.
Whatever(i, r) == TRUE

\* The claim was made for the same request.
Matches(i, r) == rows[i].input = r.input

\* The row is still the pending attempt of request r.
OwnsRow(i, r) == i \in Claimed /\ Matches(i, r) /\ rows[i].attempt = r.attempt

\* Mutated form: the status of the row is not looked at.
FenceableWhatever(i, r) == OwnsRow(i, r)

Fenceable(i, r) == OwnsRow(i, r) /\ rows[i].status \in {"pending", "indeterminate"}

NoResult == [request |-> 0]

HasRoom == Cardinality(Claimed) < Capacity

ClaimRow(i, r) ==
  rows' = Put(rows, i, [input |-> r.input, attempt |-> r.attempt, status |-> "pending",
                        result |-> NoResult])

SetRow(i, status) == rows' = [rows EXCEPT ![i].status = status]

-----------------------------------------------------------------------------
(* A data mutation *)

\* The checks before the claim: the policy bounds the attempts.
Arrive(h) ==
  /\ handlers[h] = Idle
  /\ Arrival
  /\ \E i \in Invocations, input \in Inputs : \E attempt \in 1..Maximum[i] :
       handlers' = [handlers EXCEPT ![h] =
         [phase |-> "claiming", of |-> i, input |-> input, attempt |-> attempt, n |-> 0]]
  /\ UNCHANGED <<rows, sent, answers, functions, lost, faults>>

\* The claim transaction, under the advisory lock of the execution.
Claim(h) ==
  LET r == handlers[h]
      i == r.of
      new == i \notin Claimed /\ HasRoom /\ r.attempt = 1
      again == /\ i \in Claimed
               /\ Matches(i, r)
               /\ NextAttempt(i, r.attempt)
      done == /\ i \in Claimed
              /\ Matches(i, r)
              /\ rows[i].status = "succeeded"
  IN /\ r.phase = "claiming"
     /\ \/ /\ new \/ again
           /\ ClaimRow(i, r)
           /\ \/ Fine /\ Goto(h, "claimed") /\ UNCHANGED lost
              \/ Fault /\ Finish(h) /\ lost' = lost \cup {i} \* committed, but the handler is told otherwise
           /\ UNCHANGED answers
        \/ /\ done
           /\ ~again
           /\ Answer(i, r.input, rows[i].result)
           /\ Finish(h)
           /\ UNCHANGED <<rows, lost, faults>>
        \/ /\ ~new /\ ~again /\ ~done  \* conflict, unsafe, or no room
           /\ Finish(h)
           /\ UNCHANGED <<rows, answers, lost, faults>>
  /\ UNCHANGED <<sent, functions, requests>>

\* The secret grant is refused: nothing is sent, and nothing will be.
Denied(h) ==
  /\ handlers[h].phase = "claimed"
  /\ Goto(h, "fencing")
  /\ UNCHANGED <<rows, sent, answers, functions, lost, requests, faults>>

Send(h) ==
  /\ handlers[h].phase = "claimed"
  /\ sent' = Append(sent, [of |-> handlers[h].of, attempt |-> handlers[h].attempt,
                           input |-> handlers[h].input, heard |-> "nothing"])
  /\ handlers' = [handlers EXCEPT ![h].phase = "sent", ![h].n = Len(sent) + 1]
  /\ UNCHANGED <<rows, answers, functions, lost, requests, faults>>

\* What the handler does with what it heard; releaseMutationRetry.
NextPhase(h, heard) ==
  IF heard = "ok" THEN "completing"
  ELSE IF /\ heard = "retryable"
          /\ handlers[h].of \in Idempotent
          /\ handlers[h].attempt < Maximum[handlers[h].of] THEN "releasing" ELSE "fencing"

\* The transport returns: a usable answer, a failure that another attempt may
\* repair (no answer, 408, 429, 5xx, an unreadable body), or any other.
Hear(h) ==
  /\ handlers[h].phase = "sent"
  /\ \E heard \in {"ok", "retryable", "refused"} :
       /\ sent' = [sent EXCEPT ![handlers[h].n].heard = heard]
       /\ Goto(h, NextPhase(h, heard))
  /\ UNCHANGED <<rows, answers, functions, lost, requests, faults>>

\* CompleteDataGatewayMutation; an error leads to the deferred fence, whether
\* the update was made or not.
Complete(h) ==
  LET r == handlers[h]
      owns == OwnsRow(r.of, r) /\ rows[r.of].status = "pending"
      completed == [rows EXCEPT ![r.of].result = [request |-> r.n], ![r.of].status = "succeeded"]
  IN /\ r.phase = "completing"
     /\ \/ /\ owns
           /\ rows' = completed
           /\ Fine
           /\ Answer(r.of, r.input, [request |-> r.n])
           /\ Finish(h)
        \/ /\ IF owns THEN Fault /\ rows' \in {rows, completed} ELSE Fine /\ rows' = rows
           /\ Goto(h, "fencing")
           /\ UNCHANGED answers
  /\ UNCHANGED <<sent, functions, lost, requests>>

\* ReleaseDataGatewayMutationRetry: the next attempt, and only that one.
Release(h) ==
  LET r == handlers[h]
      owns == OwnsRow(r.of, r) /\ rows[r.of].status \in {"pending", "retryable"}
      released == [rows EXCEPT ![r.of].status = "retryable"]
  IN /\ r.phase = "releasing"
     /\ \/ owns /\ rows' = released /\ Fine /\ Finish(h)
        \/ /\ IF owns THEN Fault /\ rows' \in {rows, released} ELSE Fine /\ rows' = rows
           /\ Goto(h, "fencing")
  /\ UNCHANGED <<sent, answers, functions, lost, requests>>

\* Mutated form: the early returns forget the row.
ReturnUnfenced(h) ==
  /\ handlers[h].phase = "fencing"
  /\ Finish(h)
  /\ UNCHANGED <<rows, sent, answers, functions, lost, requests, faults>>

\* The deferred fence of a handler that did not resolve its claim.
Fence(h) ==
  LET r == handlers[h]
  IN /\ r.phase = "fencing"
     /\ Finish(h)
     /\ \/ /\ Fenceable(r.of, r)
           /\ SetRow(r.of, "indeterminate")
           /\ Fine
           /\ UNCHANGED lost
        \/ ~Fenceable(r.of, r) /\ Fine /\ UNCHANGED <<rows, lost>>
        \/ Fault /\ lost' = lost \cup {r.of} /\ UNCHANGED rows
  /\ UNCHANGED <<sent, answers, functions, requests>>

\* The backend process dies; the row stays as it is.
Crash(h) ==
  /\ handlers[h].phase \notin {"idle", "claiming"}
  /\ Fault
  /\ Finish(h)
  /\ lost' = lost \cup {handlers[h].of}
  /\ UNCHANGED <<rows, sent, answers, functions, requests>>

-----------------------------------------------------------------------------
(* A server function mutation *)

\* The result stored with the first call.
Stored(c) == calls[c].result

\* Mutated form: the row is written by a transaction of its own.
RecordedIfTold(c, input, result, told) ==
  IF told THEN Put(calls, c, [input |-> input, result |-> result]) ELSE calls

\* The row is written with the effect, whether the caller is told of it or not.
Recorded(c, input, result, told) == Put(calls, c, [input |-> input, result |-> result])

\* Effect and result row are one transaction, under the lock of the execution;
\* its last answer may be an error although it has committed.
ApplyStateMutation ==
  /\ Arrival
  /\ \E c \in Calls, k \in Keys, input \in Inputs :
       \/ /\ c \in DOMAIN calls
          /\ calls[c].result.key = k
          /\ calls[c].input = input
          /\ Answer(c, input, Stored(c))
          /\ UNCHANGED <<functions, faults>>
       \/ /\ c \notin DOMAIN calls
          /\ Cardinality(DOMAIN calls) < CallCapacity
          /\ \E told \in BOOLEAN :
               LET result == [key |-> k, revision |-> cells[k] + 1]
               IN /\ cells' = [cells EXCEPT ![k] = @ + 1]
                  /\ calls' = Recorded(c, input, result, told)
                  /\ IF told THEN Answer(c, input, result) /\ Fine ELSE UNCHANGED answers /\ Fault
  /\ UNCHANGED gateway

-----------------------------------------------------------------------------

Empty == [x \in {} |-> x]

Init ==
  /\ rows = Empty
  /\ handlers = [h \in Handlers |-> Idle]
  /\ sent = <<>>
  /\ answers = {}
  /\ calls = Empty
  /\ cells = [k \in Keys |-> 0]
  /\ lost = {}
  /\ requests = 0
  /\ faults = 0

Proceed(h) ==
  \/ Claim(h)
  \/ Denied(h)
  \/ Send(h)
  \/ Hear(h)
  \/ Complete(h)
  \/ Release(h)
  \/ Fence(h)

Next ==
  \/ \E h \in Handlers : Arrive(h) \/ Proceed(h) \/ Crash(h)
  \/ ApplyStateMutation

Spec == Init /\ [][Next]_vars

\* A request that has arrived is worked on; the transport has a timeout.
FairSpec == Spec /\ \A h \in Handlers : WF_vars(Proceed(h))

-----------------------------------------------------------------------------
(* Properties *)

(* A mutation is sent again only after the one before it was heard to fail  *)
(* retryably, in a later attempt, and only with an idempotency key, whatever *)
(* handlers crash, repeat or race.  A request with a key that is never       *)
(* answered counts as retryable: its effect is unknown, and the key is what  *)
(* keeps the service from carrying it out twice.                             *)
SentAgainOnlyAfterRetryable ==
  \A m, n \in DOMAIN sent :
    m < n /\ sent[m].of = sent[n].of =>
      /\ sent[m].heard = "retryable"
      /\ sent[m].attempt < sent[n].attempt
      /\ sent[m].of \in Idempotent

(* All successful answers to one invocation or call are the same, and they  *)
(* answer the input the client gave: the result of the one request that was *)
(* heard to succeed with this input, or of the one transaction that         *)
(* committed (resolveDataGatewayMutationReplayClaim).                       *)
AnswersAgree ==
  /\ \A a, b \in answers : a.of = b.of => a = b
  /\ \A a \in answers : a.of \in Invocations =>
       /\ sent[a.result.request].heard = "ok"
       /\ sent[a.result.request].input = a.input

(* Every revision of a state entry is the result of exactly one call.       *)
RevisionsCountCalls ==
  \A k \in Keys :
    {calls[c].result.revision : c \in {x \in DOMAIN calls : calls[x].result.key = k}}
      = 1..cells[k]

(* A settled row never changes again: the fence of a handler that did not   *)
(* hear of its own completion does not take the result away, and nobody     *)
(* claims an invocation whose outcome is unknown.                           *)
SettledRowsStay ==
  [][\A i \in Claimed : rows[i].status \in {"succeeded", "indeterminate"} => rows'[i] = rows[i]]_vars

Pending(i) == i \in Claimed /\ rows[i].status = "pending" /\ i \notin lost

(* A claim does not stay open: every handler that returns has said what     *)
(* became of it, on whichever path it returned.                             *)
EveryClaimIsResolved == \A i \in Invocations : Pending(i) ~> ~Pending(i)

=============================================================================
