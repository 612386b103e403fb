--------------------------- MODULE MCPluginManager ---------------------------
(* An instance of PluginManager for TLC: three versions, the last two of the *)
(* same binary.                                                             *)
EXTENDS PluginManager, TLC

MCBuild == <<1, 2, 2>>

MCBudget ==
    "ensure" :> 3 @@ "publish" :> 2 @@ "unlist" :> 1 @@ "revert" :> 1 @@ "net" :> 1
    @@ "disk" :> 1 @@ "load" :> 1 @@ "crash" :> 2 @@ "total" :> 5
=============================================================================
