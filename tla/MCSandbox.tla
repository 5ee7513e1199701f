---------------------------- MODULE MCSandbox ----------------------------
(* Instances of SandboxedPluginAdapter: a plugin that announces one skill and *)
(* may register another later, with one call of the first or one of each.     *)
EXTENDS SandboxedPluginAdapter, TLC

CONSTANTS now, later, c1, c2

JustOne == c1 :> now

OneOfEach == c1 :> now @@ c2 :> later
=============================================================================
