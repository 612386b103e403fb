----------------------------- MODULE SaveMirror -----------------------------
(***************************************************************************)
(* What the save pipeline promises to the server, without hashes, deltas,  *)
(* generations or connections: each save the server holds is, at every     *)
(* moment, one complete snapshot that some parse produced; saves change    *)
(* one at a time, are never taken back, and never go from a newer plugin's *)
(* view of a file to an older plugin's.                                    *)
(***************************************************************************)
EXTENDS Naturals

CONSTANTS
  Save,        \* keys of saves: (game, save name)
  Snapshot,    \* complete snapshots: [ver, sections] of a successful parse
  Empty        \* the sections of a save that does not exist

VARIABLES
  mirror,      \* the sections of each save
  mirrorVer    \* the plugin version that produced them, 0 for none

Init ==
  /\ mirror = [k \in Save |-> Empty]
  /\ mirrorVer = [k \in Save |-> 0]

Replace(k, snap) ==
  /\ snap.ver >= mirrorVer[k]
  /\ mirror' = [mirror EXCEPT ![k] = snap.sections]
  /\ mirrorVer' = [mirrorVer EXCEPT ![k] = snap.ver]

Next == \E k \in Save, snap \in Snapshot : Replace(k, snap)

Spec == Init /\ [][Next]_<<mirror, mirrorVer>>
=============================================================================
