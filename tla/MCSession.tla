------------------------------ MODULE MCSession ------------------------------
(* Instances of Session for TLC: one or two repair requests, a channel of    *)
(* one message.                                                             *)
EXTENDS Session, TLC

MCBudget ==
    "drop" :> 1 @@ "refuse" :> 1 @@ "link" :> 1 @@ "age" :> 1 @@ "resume" :> 1
    @@ "repair" :> 1 @@ "stop" :> 1 @@ "total" :> 3

(* The code nears its expiry after a repair; nothing else goes wrong. *)
MCBudgetQuiet ==
    [k \in Sources |-> IF k \in {"link", "age", "repair"} THEN 1 ELSE IF k = "total" THEN 3 ELSE 0]
=============================================================================
