------------------------------ MODULE MCGameMod ------------------------------
(* Instances of GameMod for TLC. *)
EXTENDS GameMod, TLC

MCBudget ==
    "refuse" :> 1 @@ "lose" :> 1 @@ "quit" :> 1 @@ "save" :> 1 @@ "repair" :> 1
    @@ "link" :> 1 @@ "total" :> 2

(* Nothing goes wrong. *)
MCBudgetQuiet == [k \in Events |-> 0]

(* A game is loaded while the last loop is at any stage past registration. *)
MCLoadDuring == Stages \ {"spawned", "register", "close"}
=============================================================================
