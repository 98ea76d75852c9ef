-------------------------- MODULE MCRemoteExecution --------------------------
(***************************************************************************)
(* Finite instances of RemoteExecution.                                     *)
(***************************************************************************)
EXTENDS RemoteExecution

CONSTANTS r1, k1, k2, c1, h1, h2, w1, w2

OneRequest == {r1}
OneKey == {k1}
TwoKeys == {k1, k2}
NoCancellation == {}
OneCancellation == {c1}
OneHandler == {h1}
TwoHandlers == {h1, h2}
OneWorker == {w1}
TwoWorkers == {w1, w2}

\* The request travels whole, or without what the path says.
WholeRequest == {"executionId"}
Nothing == {}

AnyResult == {"succeeded", "failed", "timed-out"}
Success == {"succeeded"}
=============================================================================
