--------------------------- MODULE ExecutionStatus ---------------------------
(***************************************************************************)
(* The statuses of an execution job and the ways between them, which        *)
(* providers, the repository of remote executions and clients share.        *)
(***************************************************************************)

Terminal == {"succeeded", "failed", "cancelled", "timed-out"}
Statuses == Terminal \cup {"queued", "starting", "running", "cancelling"}

\* The statuses a job may go to from each status.
CanTransition(from, to) ==
  \/ from = "queued" /\ to \in Statuses \ {"queued", "succeeded"}
  \/ from = "starting" /\ to \in Statuses \ {"queued", "starting", "succeeded"}
  \/ from = "running" /\ to \in Terminal \cup {"cancelling"}
  \/ from = "cancelling" /\ to \in Terminal
=============================================================================
