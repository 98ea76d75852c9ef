-------------------------- MODULE MCPluginProtocol --------------------------
(* PluginProtocol with a host and a runtime. *)
EXTENDS PluginProtocol, TLC

CONSTANTS host, runtime

Both == {host, runtime}
\* The host asks twice and the runtime once.
TwoAndOne == host :> 2 @@ runtime :> 1
=============================================================================
