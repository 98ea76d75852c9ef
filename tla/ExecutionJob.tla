---------------------------- MODULE ExecutionJob ----------------------------
(***************************************************************************)
(* An execution job as the controller of runtime-core runs it, whose        *)
(* "state transition, event ordering, replay, and terminal settlement"      *)
(* every provider shares: a status and the history of its events, the       *)
(* sequence number of an event being its place in the history.  Until its   *)
(* initial state is published nobody sees the job.                          *)
(*                                                                          *)
(* Clocks, subscribers and the content of events are left out; a            *)
(* cancellation that is accepted is the transition to "cancelling".         *)
(***************************************************************************)
EXTENDS ExecutionStatus, Sequences

VARIABLES
  status,   \* the snapshot's
  history

vars == <<status, history>>

StateEvent(s) == [kind |-> "state", status |-> s]
Kinds == {"log", "diagnostic", "artifact", "trace"}

Init == status = "queued" /\ history = <<>>

PublishInitialState ==
  /\ history = <<>>
  /\ history' = <<StateEvent(status)>>
  /\ UNCHANGED status

Transition ==
  /\ history # <<>>
  /\ \E s \in Statuses :
       /\ CanTransition(status, s)
       /\ status' = s
       /\ history' = Append(history, StateEvent(s))

PublishEvent ==
  /\ history # <<>>
  /\ status \notin Terminal
  /\ \E kind \in Kinds : history' = Append(history, [kind |-> kind])
  /\ UNCHANGED status

Next == PublishInitialState \/ Transition \/ PublishEvent

Spec == Init /\ [][Next]_vars
=============================================================================
