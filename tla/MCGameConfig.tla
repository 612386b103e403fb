---------------------------- MODULE MCGameConfig ----------------------------
(* Instances of GameConfig.  Game a has a template with two candidates (a   *)
(* known folder and its fallback) and one with a glob over two directories; *)
(* b has a plain path of its own and one outside the save roots.            *)
EXTENDS GameConfig, TLC

CONSTANTS a, b, d1, d2, d3, f1, f2, f3

MCDirOf == f1 :> d1 @@ f2 :> d2 @@ f3 :> d3
MCMatches == "known" :> {d1} @@ "fallback" :> {d2} @@ "slots" :> {d1, d2}
               @@ "own" :> {d3} @@ "outside" :> {d3}
MCCandidates == "folder" :> <<"known", "fallback">> @@ "glob" :> <<"slots">>
                  @@ "single" :> <<"own">> @@ "escape" :> <<"outside">>
MCWanted == a :> {"folder", "glob"} @@ b :> {"single", "escape"}

MCBudget == "user" :> 2 @@ "write" :> 2 @@ "delete" :> 1 @@ "rmdir" :> 1
              @@ "mkdir" :> 1 @@ "late" :> 0 @@ "crash" :> 1 @@ "connect" :> 1
              @@ "rescan" :> 1 @@ "plugin" :> 1 @@ "total" :> 4

(* Two games that exchange their directories. *)
SwapWanted == a :> {"folder", "single"} @@ b :> {"folder", "single"}
SwapBudget == [k \in Sources |-> IF k \in {"user", "total"} THEN 4 ELSE 0]

(* One game with a folder, a path outside the save roots and another path,  *)
(* refused once and rescanned while it is disabled.                         *)
StrayWanted == a :> {"folder", "escape", "single"} @@ b :> {}
StrayBudget == [k \in Sources |-> IF k = "user" THEN 3
                                  ELSE IF k = "rescan" THEN 1
                                  ELSE IF k = "total" THEN 4 ELSE 0]
=============================================================================
