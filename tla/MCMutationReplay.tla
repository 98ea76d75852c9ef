-------------------------- MODULE MCMutationReplay --------------------------
(* MutationReplay with an invocation that may be retried and one that may not. *)
EXTENDS MutationReplay, TLC

CONSTANTS retried, once, in1, in2, call1, call2, key1, h1, h2

Both == {retried, once}
Retried == {retried}
MaximumOfBoth == retried :> 3 @@ once :> 1
=============================================================================
