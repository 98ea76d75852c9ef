---------------------------- MODULE MCAgentRuns ----------------------------
(* AgentRuns with two workers, each with its own state directory. *)
EXTENDS AgentRuns

CONSTANTS w1, w2

TwoWorkers == {w1, w2}
=============================================================================
