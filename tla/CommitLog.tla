------------------------------ MODULE CommitLog ------------------------------
(***************************************************************************)
(* What the commit endpoint promises, with the workspace left out: a log    *)
(* that only grows, in which a commit id occurs once, and answers that      *)
(* always carry the result stored with the first commit of their request,   *)
(* however often that request is delivered.                                 *)
(***************************************************************************)
EXTENDS Naturals, Sequences

VARIABLES log, answered

vars == <<log, answered>>

\* A request as it is hashed: the client's base snapshot is not part of it.
Hashed(r) == [r EXCEPT !.base = 0]

Init == log = <<>> /\ answered = {}

\* The first commit of an id: logged and answered in one step.
Commit ==
  \E rec \in {log'[n] : n \in DOMAIN log'} :
    /\ \A n \in DOMAIN log : log[n].id # rec.id
    /\ rec.id = rec.request.id
    /\ log' = Append(log, rec)
    /\ answered' = answered \cup {[request |-> rec.request, mutation |-> rec.mutation]}

\* A later delivery of a committed request: the stored result again.
Replay ==
  /\ \E n \in DOMAIN log, a \in answered' :
       /\ Hashed(log[n].request) = Hashed(a.request)
       /\ a.mutation = log[n].mutation
       /\ answered' = answered \cup {a}
  /\ UNCHANGED log

Next == Commit \/ Replay
Spec == Init /\ [][Next]_vars
=============================================================================
