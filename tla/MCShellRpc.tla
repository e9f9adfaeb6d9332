----------------------------- MODULE MCShellRpc -----------------------------
(* Instances of ShellRpc for TLC. *)
EXTENDS ShellRpcProperties, TLC

CONSTANTS ann, bob

Clients == {ann, bob}
TwoOne  == ann :> 2 @@ bob :> 1
=============================================================================
