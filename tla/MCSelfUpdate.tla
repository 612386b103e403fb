---------------------------- MODULE MCSelfUpdate ----------------------------
(* Instances of SelfUpdate for TLC: two newer releases, each with binaries   *)
(* of its version.                                                          *)
EXTENDS SelfUpdate, TLC

MCBuilt == [v \in Version |-> v]

(* The last release is of binaries of the first.                             *)
MCBuiltOld == [v \in Version |-> IF v = MaxVersion THEN 1 ELSE v]

MCBudget ==
    "publish" :> 2 @@ "push" :> 2 @@ "restart" :> 2 @@ "crash" :> 2 @@ "net" :> 1
    @@ "disk" :> 1 @@ "chmod" :> 1 @@ "script" :> 1 @@ "total" :> 5

(* One release, which the server announces. *)
MCBudgetPushed ==
    [k \in Sources |-> IF k \in {"publish", "push"} THEN 1 ELSE IF k = "total" THEN 2 ELSE 0]
=============================================================================
