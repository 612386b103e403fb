------------------------ MODULE PluginManager_proofs ------------------------
(***************************************************************************)
(* Proofs about PluginManager for any number of versions, any binaries they  *)
(* are built to and any faults: its type invariant, that the cache mirrors  *)
(* the plugin that runs, and that a plugin is not replaced by an older one. *)
(***************************************************************************)
EXTENDS PluginManager, TLAPS

USE PluginAssumption

-----------------------------------------------------------------------------
(* The cache, when no write or load failed and no version was put back.      *)
(* None and Torn are less than every binary.                                *)

\* The registry, and what is believed of it, only moves forward.
Ordered ==
  /\ remote.sig <= remote.wasm /\ remote.listed <= remote.wasm
  /\ manifest <= remote.wasm
  /\ remote.listed \in Version => manifest <= remote.listed

\* Nothing in the cache is newer than what is known to be listed.
AtMost(b) ==
  /\ b <= Build[remote.wasm]
  /\ remote.listed \in Version => b <= Build[remote.listed]
  /\ manifest \in Version => b <= Build[manifest]

Bounded == AtMost(disk.wasm) /\ AtMost(disk.sha256)

\* The hash is written last, and may be of the module before.
Layered ==
  /\ disk.sha256 # None => None \notin {disk.wasm, disk.sig, disk.version}
  /\ disk.wasm \in Binary => disk.sha256 <= disk.wasm
  /\ disk.sha256 \in Binary /\ disk.wasm = disk.sha256 /\ disk.version \in Version =>
       Build[disk.version] = disk.wasm

\* The operation wants what the manifest lists.
Current ==
  pc \in {"compare", "cache", "sha", "tag", "tagged", "rollback", "wasm", "sig", "write"}
    => want = manifest

\* The files as far as they are written.
Tagging ==
  /\ pc \in {"tag", "tagged"} /\ disk.wasm \in Binary => disk.wasm = Build[want]
  /\ pc = "tag" => /\ file \in {"version", "sha256"}
                   /\ file = "version" => disk.sha256 = Build[want]
                   /\ file = "sha256"  => disk.version = want /\ disk.sha256 \in {Torn, Build[want]}
                   /\ None \notin {disk.wasm, disk.sig, disk.version}
  /\ pc = "tagged" => disk.version = want /\ disk.sha256 = Build[want]

Writing ==
  /\ (pc \in {"rollback", "wasm", "sig"} \/ (pc = "write" /\ file # "sha256")) =>
       disk.sha256 # Build[want]
  /\ pc = "write" => /\ got.wasm = Build[want] /\ got.sig = Build[want]
                     /\ file # "wasm" => disk.wasm = Build[want]
                     /\ file \in {"version", "sha256"} => disk.sig = Build[want]
                     /\ file = "sha256" => disk.version = want

\* The cache holds the binary b under one of its versions.
Holds(b) ==
  /\ Verified(disk, b)
  /\ disk.version = Torn \/ (disk.version \in Version /\ Build[disk.version] = b)

Mirrored ==
  /\ loaded # None /\ pc \notin {"write", "load"} => Holds(loaded)
  /\ pc = "load" => got.wasm \in Binary /\ Holds(got.wasm)

Cache == Ordered /\ Bounded /\ Layered /\ Current /\ Tagging /\ Writing /\ Mirrored

CacheInv == Sound /\ Forward => Cache

-----------------------------------------------------------------------------
(* The cache, when nothing failed and the process did not die.               *)

Alive == Sound /\ budget["crash"] = Budget["crash"]

Whole ==
  \/ disk = Empty
  \/ disk.version \in Version /\ Verified(disk, Build[disk.version])
     /\ disk.sha256 = Build[disk.version]

Order ==
  /\ pc \notin {"write", "tag"} => Whole
  /\ loaded # None /\ pc \notin {"write", "load"} => Verified(disk, loaded)
  /\ pc = "tag" => /\ Verified(disk, Build[want]) /\ file \in {"version", "sha256"}
                   /\ file = "version" => disk.sha256 = Build[want]
                   /\ file = "sha256" => disk.version = want
  /\ pc = "tagged" => disk.version = want
  /\ pc \in {"wasm", "sig"} => Build[want] >= loaded
  /\ pc = "write" => /\ got.wasm = Build[want] /\ got.sig = Build[want] /\ got.wasm >= loaded
                     /\ file # "wasm" => disk.wasm = Build[want]
                     /\ file \in {"version", "sha256"} => disk.sig = Build[want]
                     /\ file = "sha256" => disk.version = want
  /\ pc = "load" => got.wasm >= loaded /\ Verified(disk, got.wasm)

OrderInv == Alive => Order

-----------------------------------------------------------------------------
(* Types, and what is left of the budget.                                   *)

Unspent == \A k \in Sources : budget[k] <= Budget[k]

LEMMA Numbers ==
  /\ Version \subseteq Nat \ {0}
  /\ Binary \subseteq Nat \ {0}
  /\ \A v \in Version : Build[v] \in Binary /\ Build[v] \in Nat /\ Build[v] > 0
  /\ 1 \in Version /\ Version \cap {None, Torn, Unknown} = {}
  /\ \A v, w \in Version : v <= w => Build[v] <= Build[w]
BY DEF Version, Binary, None, Torn, Unknown

\* A fault that is spent is not given back.
LEMMA SpendType ==
  ASSUME budget \in [Sources -> Nat], Unspent, NEW k \in Sources, Spend(k)
  PROVE  /\ budget' \in [Sources -> Nat] /\ Unspent'
         /\ \A j \in Sources : budget'[j] <= budget[j]
         /\ budget'[k] < budget[k]
<1>1. budget' \in [Sources -> Nat]
  BY DEF Spend, Sources
<1>2. /\ \A j \in Sources : budget'[j] <= budget[j]
      /\ budget'[k] < budget[k]
  BY DEF Spend, Sources
<1>3. Unspent'
  BY <1>1, <1>2 DEF Unspent
<1> QED BY <1>1, <1>2, <1>3

Typed == TypeOK /\ Unspent

\* Every step but a fault leaves the budget alone.
LEMMA StepType ==
  ASSUME Typed, [Next]_vars
  PROVE  Typed'
<1> USE DEF Typed
<1>1. budget \in [Sources -> Nat] /\ Version \subseteq Nat /\ Version \subseteq Int
  BY Numbers DEF TypeOK
<1> DEFINE Rest == /\ remote' \in Remote
                   /\ manifest' \in Listed \cup {Unknown}
                   /\ disk' \in Disk
                   /\ loaded' \in Binary \cup {None}
                   /\ pc' \in Steps
                   /\ kind' \in {"ensure", "check"}
                   /\ want' \in Version
                   /\ got' \in Got
                   /\ file' \in File
<1>2. ASSUME Rest, UNCHANGED budget PROVE Typed'
  BY <1>1, <1>2 DEF TypeOK, Unspent
<1>3. ASSUME Rest, NEW k \in Sources, Spend(k) PROVE Typed'
  BY <1>1, <1>3, SpendType DEF TypeOK
<1>4. CASE Manifests
  <2>1. Rest BY <1>4 DEF TypeOK, Manifests, FetchManifest, Remote, op
  <2> QED BY <2>1, <1>2, <1>4 DEF Manifests
<1>5. CASE EnsurePlugin
  <2>1. Rest BY <1>5 DEF TypeOK, EnsurePlugin, Steps
  <2> QED BY <2>1, <1>3, <1>5 DEF EnsurePlugin, Sources
<1>6. CASE CheckForUpdates
  <2>1. Rest BY <1>6 DEF TypeOK, CheckForUpdates, Steps
  <2> QED BY <2>1, <1>2, <1>6 DEF CheckForUpdates
<1>7. CASE Resolve
  <2>1. manifest' \in Listed /\ (manifest' # None => manifest' \in Version)
    BY <1>7 DEF TypeOK, Resolve, Known, FetchManifest, Remote, Listed
  <2>2. Rest BY <1>7, <2>1 DEF TypeOK, Resolve, Steps
  <2> QED BY <2>2, <1>2, <1>7 DEF Resolve
<1>8. CASE FetchFails
  <2>1. Rest BY <1>8 DEF TypeOK, FetchFails, End, op, Steps
  <2> QED BY <2>1, <1>3, <1>8 DEF FetchFails, Sources
<1>9. CASE Compare
  <2>1. Rest BY <1>9 DEF TypeOK, Compare, Goto, op, Steps
  <2> QED BY <2>1, <1>2, <1>9 DEF Compare
<1>10. CASE LoadFromCache
  <2>1. Empty \in Disk BY DEF Empty, Disk, File
  <2>2. Readable /\ Verified(disk, Build[want]) =>
          [wasm |-> disk.wasm, sig |-> disk.sig] \in Got
    BY Numbers DEF TypeOK, Verified, Got
  <2>3. disk' \in Disk
    BY <2>1, <1>10 DEF TypeOK, LoadFromCache, Goto, Load
  <2>4. got' \in Got
    BY <2>2, <1>10 DEF TypeOK, LoadFromCache, Goto, Load, op
  <2>5. pc' \in Steps /\ kind' = kind /\ want' = want /\ file' = file
    BY <1>10 DEF LoadFromCache, Goto, Load, op, Steps
  <2>6. Rest BY <1>10, <2>3, <2>4, <2>5 DEF TypeOK, LoadFromCache
  <2> QED BY <2>6, <1>2, <1>10 DEF LoadFromCache
<1>11. CASE OtherVersion
  <2>1. Rest BY <1>11 DEF TypeOK, OtherVersion, Goto, op, Steps
  <2> QED BY <2>1, <1>2, <1>11 DEF OtherVersion
<1>12. CASE LoadCachedManifestFallback
  <2>1. disk.sha256 \in Binary /\ Verified(disk, disk.sha256) =>
          [wasm |-> disk.wasm, sig |-> disk.sig] \in Got
    BY DEF Verified, Got
  <2>2. got' \in Got
    BY <2>1, <1>12 DEF TypeOK, LoadCachedManifestFallback, End, Load, op
  <2>3. pc' \in Steps /\ kind' = kind /\ want' = want /\ file' = file
    BY <1>12 DEF LoadCachedManifestFallback, End, Load, op, Steps
  <2>4. Rest BY <1>12, <2>2, <2>3 DEF TypeOK, LoadCachedManifestFallback
  <2> QED BY <2>4, <1>2, <1>12 DEF LoadCachedManifestFallback
<1>13. CASE SameBinary
  <2>1. Rest BY <1>13 DEF TypeOK, SameBinary, Steps, File
  <2> QED BY <2>1, <1>2, <1>13 DEF SameBinary
<1>14. CASE IsRollback
  <2>1. Rest BY <1>14 DEF TypeOK, IsRollback, Goto, op, Steps
  <2> QED BY <2>1, <1>2, <1>14 DEF IsRollback
<1>15. CASE DownloadWasm
  <2>1. Build[remote.wasm] \in Binary BY Numbers DEF TypeOK, Remote
  <2>2. Rest BY <1>15, <2>1 DEF TypeOK, DownloadWasm, Got, Steps
  <2> QED BY <2>2, <1>2, <1>15 DEF DownloadWasm
<1>16. CASE DownloadSig
  <2>1. Build[remote.sig] \in Binary BY Numbers DEF TypeOK, Remote
  <2>2. [got EXCEPT !.sig = Build[remote.sig]] \in Got BY <2>1 DEF TypeOK, Got
  <2>3. Rest BY <1>16, <2>2 DEF TypeOK, DownloadSig, End, op, Steps, File
  <2> QED BY <2>3, <1>2, <1>16 DEF DownloadSig
<1>17. CASE DownloadFails
  <2>1. Rest BY <1>17 DEF TypeOK, DownloadFails, End, op, Steps
  <2> QED BY <2>1, <1>3, <1>17 DEF DownloadFails, Sources
<1>18. CASE Truncate
  <2>1. [disk EXCEPT ![file] = Torn] \in Disk BY DEF TypeOK, Disk, File
  <2>2. Rest BY <1>18, <2>1 DEF TypeOK, Truncate, op
  <2> QED BY <2>2, <1>2, <1>18 DEF Truncate
<1>19. CASE WriteFile
  <2>1. Build[want] \in Binary BY Numbers DEF TypeOK
  <2>2. [disk EXCEPT ![file] = Content[file]] \in Disk
    BY <2>1 DEF TypeOK, Disk, File, Content, Got
  <2>3. file' \in File BY <1>19 DEF TypeOK, WriteFile, File, Following
  <2>4. pc' \in Steps BY <1>19 DEF TypeOK, WriteFile, Written, Steps
  <2>5. Rest BY <1>19, <2>2, <2>3, <2>4 DEF TypeOK, WriteFile
  <2> QED BY <2>5, <1>2, <1>19 DEF WriteFile
<1>20. CASE WriteFails
  <2>1. Rest BY <1>20 DEF TypeOK, WriteFails, Goto, op, Steps
  <2> QED BY <2>1, <1>3, <1>20 DEF WriteFails, Sources
<1>21. CASE LoadPlugin
  <2>1. Rest BY <1>21 DEF TypeOK, LoadPlugin, End, op, Steps, Got
  <2> QED BY <2>1, <1>2, <1>21 DEF LoadPlugin
<1>22. CASE LoadFails
  <2>1. Rest BY <1>22 DEF TypeOK, LoadFails, End, op, Steps
  <2> QED BY <2>1, <1>3, <1>22 DEF LoadFails, Sources
<1>23. CASE Crash
  <2>1. Rest BY <1>23 DEF TypeOK, Crash, End, op, Steps
  <2> QED BY <2>1, <1>3, <1>23 DEF Crash, Sources
<1>24. CASE PublishWasm
  <2>1. remote.wasm + 1 \in Version BY <1>24 DEF PublishWasm, TypeOK, Remote, Version
  <2>2. Rest BY <1>24, <2>1 DEF TypeOK, PublishWasm, Remote, op
  <2> QED BY <2>2, <1>3, <1>24 DEF PublishWasm, Sources
<1>25. CASE Revert
  <2>1. \A v \in 1 .. remote.wasm - 1 : v \in Version BY DEF TypeOK, Remote, Version
  <2>2. Rest BY <1>25, <2>1 DEF TypeOK, Revert, Remote, op
  <2> QED BY <2>2, <1>3, <1>25 DEF Revert, Sources
<1>26. CASE PublishSig
  <2>1. Rest BY <1>26 DEF TypeOK, PublishSig, Remote, op
  <2> QED BY <2>1, <1>2, <1>26 DEF PublishSig
<1>27. CASE PublishManifest
  <2>1. Rest BY <1>27 DEF TypeOK, PublishManifest, Remote, Listed, op
  <2> QED BY <2>1, <1>2, <1>27 DEF PublishManifest
<1>28. CASE Unlist
  <2>1. Rest BY <1>28 DEF TypeOK, Unlist, Remote, Listed, op
  <2> QED BY <2>1, <1>3, <1>28 DEF Unlist, Sources
<1>29. CASE UNCHANGED vars
  BY <1>29, <1>2 DEF TypeOK, vars, op
<1> QED BY <1>4, <1>5, <1>6, <1>7, <1>8, <1>9, <1>10, <1>11, <1>12, <1>13, <1>14, <1>15,
           <1>16, <1>17, <1>18, <1>19, <1>20, <1>21, <1>22, <1>23, <1>24, <1>25, <1>26,
           <1>27, <1>28, <1>29 DEF Next, Step, Fault

LEMMA InitType ==
  ASSUME Init
  PROVE  Typed
<1>1. 1 \in Version BY Numbers
<1>2. Empty \in Disk BY DEF Empty, Disk, File
<1>3. budget \in [Sources -> Nat] /\ Unspent BY DEF Init, Unspent
<1> QED BY <1>1, <1>2, <1>3 DEF Init, Typed, TypeOK, Remote, Listed, Steps, Got, File

\* The types of PluginManager's variables, for any versions and any faults: the
\* cache holds nothing but whole files of known versions and torn ones.
THEOREM TypeCorrect == Spec => []TypeOK
<1>1. Init => Typed BY InitType
<1>2. Typed /\ [Next]_vars => Typed' BY StepType
<1>3. Typed => TypeOK BY DEF Typed
<1> QED BY <1>1, <1>2, <1>3, PTL DEF Spec
-----------------------------------------------------------------------------
(* The cache invariant, when nothing fails and no version is put back.      *)

USE DEF None, Torn, Unknown

\* What is written does not depend on the operation.
LEMMA FilesKept ==
  ASSUME Ordered, Bounded, Layered, UNCHANGED <<remote, manifest, disk>>
  PROVE  Ordered' /\ Bounded' /\ Layered'
BY DEF Ordered, Bounded, AtMost, Layered

\* One file is truncated or written.
LEMMA FileSet ==
  ASSUME Typed, NEW x, disk' = [disk EXCEPT ![file] = x]
  PROVE  /\ disk'.wasm    = IF file = "wasm"    THEN x ELSE disk.wasm
         /\ disk'.sig     = IF file = "sig"     THEN x ELSE disk.sig
         /\ disk'.version = IF file = "version" THEN x ELSE disk.version
         /\ disk'.sha256  = IF file = "sha256"  THEN x ELSE disk.sha256
BY DEF Typed, TypeOK, Disk, File

\* A missing or torn file bounds nothing, ...
LEMMA Little ==
  ASSUME Typed, NEW b \in {None, Torn}
  PROVE  AtMost(b)
<1>1. b \in Int /\ b <= 0
  OBVIOUS
<1>2. \A v \in Version : b <= Build[v]
  BY <1>1, Numbers
<1>3. remote.wasm \in Version
  BY DEF Typed, TypeOK, Remote
<1> QED BY <1>2, <1>3 DEF AtMost

\* ... and what the manifest lists is listed.
LEMMA AsListed ==
  ASSUME Typed, Ordered, manifest \in Version
  PROVE  AtMost(Build[manifest])
<1>1. remote.wasm \in Version
  BY DEF Typed, TypeOK, Remote
<1>2. \A v \in Version : manifest <= v => Build[manifest] <= Build[v]
  BY Numbers
<1>3. Build[manifest] <= Build[manifest]
  BY Numbers
<1> QED BY <1>1, <1>2, <1>3 DEF AtMost, Ordered

\* Every step but a failed write, a failed load and a revert.
LEMMA CacheStep ==
  ASSUME Typed, Typed', Cache, Manifests \/ EnsurePlugin \/ CheckForUpdates \/ Step
                               \/ FetchFails \/ DownloadFails \/ Crash
                               \/ PublishWasm \/ PublishSig \/ PublishManifest \/ Unlist
  PROVE  Cache'
<1> DEFINE Doing == Current /\ Tagging /\ Writing /\ Mirrored
<1>1. Ordered /\ Bounded /\ Layered /\ Doing
  BY DEF Cache
<1>2. ASSUME UNCHANGED <<remote, manifest, disk>>, Doing' PROVE Cache'
  BY <1>1, <1>2, FilesKept DEF Cache
<1>3. ASSUME UNCHANGED disk, Ordered', Bounded', Doing' PROVE Cache'
  BY <1>1, <1>3 DEF Cache, Layered

<1>4. CASE Manifests
  <2>1. Ordered' /\ Bounded'
    BY <1>4, <1>1 DEF Typed, TypeOK, Remote, Manifests, Ordered, Bounded, AtMost,
                      FetchManifest
  <2>2. Doing'
    BY <1>4, <1>1 DEF Manifests, Current, Tagging, Writing, Mirrored, Holds
  <2> QED BY <1>4, <2>1, <2>2, <1>3 DEF Manifests
<1>5. CASE EnsurePlugin
  <2>1. Doing'
    BY <1>5, <1>1 DEF EnsurePlugin, Current, Tagging, Writing, Mirrored, Holds
  <2> QED BY <1>5, <2>1, <1>2 DEF EnsurePlugin
<1>6. CASE CheckForUpdates
  <2>1. Doing'
    BY <1>6, <1>1 DEF CheckForUpdates, Current, Tagging, Writing, Mirrored, Holds
  <2> QED BY <1>6, <2>1, <1>2 DEF CheckForUpdates
<1>7. CASE Resolve
  <2>1. Ordered' /\ Bounded'
    BY <1>7, <1>1, Numbers DEF Typed, TypeOK, Resolve, Ordered, Bounded, AtMost,
                               FetchManifest
  <2>2. Doing'
    BY <1>7, <1>1 DEF Resolve, Current, Tagging, Writing, Mirrored, Holds
  <2> QED BY <1>7, <2>1, <2>2, <1>3 DEF Resolve
<1>8. CASE FetchFails
  <2>1. Doing'
    BY <1>8, <1>1 DEF FetchFails, Current, Tagging, Writing, Mirrored, Holds, End
  <2> QED BY <1>8, <2>1, <1>2 DEF FetchFails
<1>9. CASE Compare
  <2>1. Doing'
    BY <1>9, <1>1 DEF Compare, Current, Tagging, Writing, Mirrored, Holds, Goto, op
  <2> QED BY <1>9, <2>1, <1>2 DEF Compare
<1>10. CASE LoadFromCache
  <2>1. \/ disk' = disk
        \/ disk'.wasm = None /\ disk'.sig = None /\ disk'.version = None /\ disk'.sha256 = None
    BY <1>10 DEF LoadFromCache, Goto, Load, Empty, File
  <2>2. Ordered'
    BY <1>10, <1>1, <2>1 DEF LoadFromCache, Ordered
  <2>3. Bounded'
    <3>1. AtMost(disk'.wasm) /\ AtMost(disk'.sha256)
      BY <1>1, <2>1, Little DEF Bounded
    <3> QED BY <3>1, <1>10 DEF LoadFromCache, Bounded, AtMost
  <2>4. Layered'
    BY <1>10, <1>1, <2>1, Numbers DEF LoadFromCache, Layered
  <2>5. Current' /\ Tagging'
    BY <1>10, <1>1, <2>1 DEF LoadFromCache, Current, Tagging, Goto, Load, op
  <2>6. Writing'
    <3>1. pc' = "rollback" => disk'.sha256 # Build[want]
      <4>1. Build[want] # None
        BY Numbers DEF Typed, TypeOK
      <4>2. ~Readable => disk.sha256 = None
        BY <1>1 DEF Readable, Layered
      <4> QED BY <1>10, <2>1, <4>1, <4>2 DEF LoadFromCache, Goto, Load, Empty, File
    <3> QED BY <1>10, <3>1 DEF LoadFromCache, Goto, Load, op, Writing
  <2>7. Mirrored'
    BY <1>10, <1>1, <2>1, Numbers DEF Typed, TypeOK, LoadFromCache, Tagging, Mirrored,
                                      Holds, Verified, Goto, Load
  <2> QED BY <2>2, <2>3, <2>4, <2>5, <2>6, <2>7 DEF Cache
<1>11. CASE OtherVersion
  <2>1. Doing'
    BY <1>11, <1>1 DEF OtherVersion, Current, Tagging, Writing, Mirrored, Holds, Goto,
                       op
  <2> QED BY <1>11, <2>1, <1>2 DEF OtherVersion
<1>12. CASE LoadCachedManifestFallback
  <2>1. Doing'
    BY <1>12, <1>1 DEF Typed, TypeOK, Disk, LoadCachedManifestFallback, Current,
                       Tagging, Writing, Mirrored, Holds, Verified, Layered, Readable,
                       End, Load
  <2> QED BY <1>12, <2>1, <1>2 DEF LoadCachedManifestFallback
<1>13. CASE SameBinary
  <2>1. disk.sha256 = Build[want] =>
          None \notin {disk.wasm, disk.sig, disk.version}
    BY <1>1, Numbers DEF Typed, TypeOK, Layered
  <2>2. disk.sha256 = Build[want] /\ disk.wasm \in Binary => disk.wasm = Build[want]
    <3>1. want = manifest /\ disk.wasm <= Build[manifest]
      BY <1>1, <1>13 DEF SameBinary, Doing, Current, Bounded, AtMost, Typed, TypeOK
    <3>2. disk.wasm \in Binary => Build[want] <= disk.wasm \/ disk.sha256 # Build[want]
      BY <1>1, Numbers DEF Layered
    <3>3. /\ Build[want] \in Nat
          /\ disk.wasm \in Binary => disk.wasm \in Nat
      BY Numbers DEF Typed, TypeOK
    <3> QED BY <3>1, <3>2, <3>3
  <2>3. Doing'
    BY <1>13, <1>1, <2>1, <2>2 DEF SameBinary, Current, Tagging, Writing, Mirrored,
                                   Holds
  <2> QED BY <1>13, <2>3, <1>2 DEF SameBinary
<1>14. CASE IsRollback
  <2>1. Doing'
    BY <1>14, <1>1 DEF IsRollback, Current, Tagging, Writing, Mirrored, Holds, Goto, op
  <2> QED BY <1>14, <2>1, <1>2 DEF IsRollback
<1>15. CASE DownloadWasm
  <2>1. Doing'
    BY <1>15, <1>1 DEF DownloadWasm, Current, Tagging, Writing, Mirrored, Holds
  <2> QED BY <1>15, <2>1, <1>2 DEF DownloadWasm
<1>16. CASE DownloadSig
  <2>1. Doing'
    BY <1>16, <1>1 DEF DownloadSig, Current, Tagging, Writing, Mirrored, Holds,
                       Verified, End
  <2> QED BY <1>16, <2>1, <1>2 DEF DownloadSig
<1>17. CASE DownloadFails
  <2>1. Doing'
    BY <1>17, <1>1 DEF DownloadFails, Current, Tagging, Writing, Mirrored, Holds, End
  <2> QED BY <1>17, <2>1, <1>2 DEF DownloadFails
<1>18. CASE Truncate
  <2>1. disk' = [disk EXCEPT ![file] = Torn]
    BY <1>18 DEF Truncate
  <2>2. Ordered'
    BY <1>18, <1>1, <2>1 DEF Truncate, Ordered
  <2>3. Bounded'
    <3>1. AtMost(disk'.wasm) /\ AtMost(disk'.sha256)
      BY <1>1, <2>1, Little, FileSet DEF Bounded
    <3> QED BY <3>1, <1>18 DEF Truncate, Bounded, AtMost
  <2>4. Layered'
    BY <1>18, <1>1, <2>1, Numbers DEF Typed, TypeOK, Truncate, Layered, Tagging, Writing
  <2>5. Current' /\ Tagging'
    BY <1>18, <1>1, <2>1 DEF Truncate, Current, Tagging, op
  <2>6. Writing'
    BY <1>18, <1>1, <2>1 DEF Truncate, Writing, op
  <2>7. Mirrored'
    BY <1>18, <1>1, <2>1 DEF Truncate, Tagging, Mirrored, Holds, Verified
  <2> QED BY <2>2, <2>3, <2>4, <2>5, <2>6, <2>7 DEF Cache
<1>19. CASE WriteFile
  <2>1. disk' = [disk EXCEPT ![file] = Content[file]]
    BY <1>19 DEF WriteFile
  <2>2. Ordered'
    BY <1>19, <1>1, <2>1 DEF WriteFile, Ordered
  <2>3. Bounded'
    <3>1. manifest \in Version => AtMost(Build[manifest])
      BY <1>1, AsListed
    <3>2. /\ file = "wasm"   => Content[file] = Build[want]
          /\ file = "sha256" => Content[file] = Build[want]
      BY <1>1, <1>19 DEF WriteFile, Content, Doing, Writing, Tagging
    <3>4. manifest \in Version /\ Build[manifest] = Build[want]
      BY <1>1, <1>19 DEF WriteFile, Doing, Current, Typed, TypeOK
    <3>3. AtMost(disk'.wasm) /\ AtMost(disk'.sha256)
      <4>1. CASE file = "wasm"
        BY <1>1, <2>1, <3>1, <3>2, <3>4, <4>1, FileSet DEF Bounded
      <4>2. CASE file = "sha256"
        BY <1>1, <2>1, <3>1, <3>2, <3>4, <4>2, FileSet DEF Bounded
      <4>3. CASE file \notin {"wasm", "sha256"}
        BY <1>1, <2>1, <4>3, FileSet DEF Bounded
      <4> QED BY <4>1, <4>2, <4>3
    <3>5. UNCHANGED <<remote, manifest>>
      BY <1>19 DEF WriteFile
    <3> QED BY <3>3, <3>5 DEF Bounded, AtMost
  <2>4. Layered'
    BY <1>19, <1>1, <2>1, Numbers DEF Typed, TypeOK, WriteFile, Layered, Bounded,
                                      AtMost, Current, Tagging, Writing, Content
  <2>5. Current' /\ Tagging'
    BY <1>19, <1>1, <2>1, Numbers DEF Typed, TypeOK, Disk, WriteFile, Current, Tagging,
                                      Content, Written, Following
  <2>6. Writing'
    BY <1>19, <1>1, <2>1 DEF Typed, TypeOK, Disk, File, WriteFile, Writing, Content,
                             Written, Following
  <2>7. Mirrored'
    BY <1>19, <1>1, <2>1 DEF Typed, TypeOK, Got, WriteFile, Tagging, Writing, Mirrored,
                             Holds, Verified, Content, Written
  <2> QED BY <2>2, <2>3, <2>4, <2>5, <2>6, <2>7 DEF Cache
<1>20. CASE LoadPlugin
  <2>1. Doing'
    BY <1>20, <1>1 DEF LoadPlugin, Current, Tagging, Writing, Mirrored, Holds, End
  <2> QED BY <1>20, <2>1, <1>2 DEF LoadPlugin
<1>21. CASE Crash
  <2>1. Ordered' /\ Bounded'
    <3>1. /\ remote.wasm \in Version /\ remote.listed \in Version \cup {None}
          /\ manifest' = Unknown /\ Unknown \notin Version
      BY <1>21, Numbers DEF Typed, TypeOK, Remote, Listed, Crash
    <3>2. manifest' <= remote.wasm /\ manifest' <= remote.listed
      <4>1. \A v \in Version \cup {None} : v \in Int /\ -2 <= v
        BY Numbers
      <4>2. remote.wasm \in Version \cup {None}
        BY <3>1
      <4> QED BY <3>1, <4>1, <4>2
    <3> QED BY <1>21, <1>1, <3>1, <3>2 DEF Crash, Ordered, Bounded, AtMost
  <2>2. Doing'
    BY <1>21, <1>1 DEF Crash, Current, Tagging, Writing, Mirrored, End
  <2> QED BY <1>21, <2>1, <2>2, <1>3 DEF Crash
<1>22. CASE PublishWasm
  <2>1. Ordered' /\ Bounded'
    BY <1>22, <1>1, Numbers DEF Typed, TypeOK, Remote, Listed, Disk, PublishWasm,
                                Ordered, Bounded, AtMost
  <2>2. Doing'
    BY <1>22, <1>1 DEF PublishWasm, Current, Tagging, Writing, Mirrored, Holds, op
  <2> QED BY <1>22, <2>1, <2>2, <1>3 DEF PublishWasm
<1>23. CASE PublishSig
  <2>1. Ordered' /\ Bounded'
    BY <1>23, <1>1, Numbers DEF Typed, TypeOK, Remote, PublishSig, Ordered, Bounded,
                                AtMost
  <2>2. Doing'
    BY <1>23, <1>1 DEF PublishSig, Current, Tagging, Writing, Mirrored, Holds, op
  <2> QED BY <1>23, <2>1, <2>2, <1>3 DEF PublishSig
<1>24. CASE PublishManifest
  <2>1. Ordered' /\ Bounded'
    BY <1>24, <1>1, Numbers DEF Typed, TypeOK, Remote, PublishManifest, Ordered,
                                Bounded, AtMost
  <2>2. Doing'
    BY <1>24, <1>1 DEF PublishManifest, Current, Tagging, Writing, Mirrored, Holds, op
  <2> QED BY <1>24, <2>1, <2>2, <1>3 DEF PublishManifest
<1>25. CASE Unlist
  <2>1. Ordered' /\ Bounded'
    BY <1>25, <1>1, Numbers DEF Typed, TypeOK, Remote, Unlist, Ordered, Bounded, AtMost
  <2>2. Doing'
    BY <1>25, <1>1 DEF Unlist, Current, Tagging, Writing, Mirrored, Holds, op
  <2> QED BY <1>25, <2>1, <2>2, <1>3 DEF Unlist
<1> QED BY <1>4, <1>5, <1>6, <1>7, <1>8, <1>9, <1>10, <1>11, <1>12, <1>13, <1>14, <1>15,
           <1>16, <1>17, <1>18, <1>19, <1>20, <1>21, <1>22, <1>23, <1>24, <1>25 DEF Step
-----------------------------------------------------------------------------
(* The plugin that runs, when nothing fails and the process does not die.   *)

\* What a step that writes nothing and is not at a file has to show.
LEMMA OrderKept ==
  ASSUME Order, UNCHANGED disk, pc' \notin {"write", "tag", "tagged", "load"},
         pc \notin {"write", "tag", "load"}, UNCHANGED loaded,
         pc' \in {"wasm", "sig"} => Build[want'] >= loaded
  PROVE  Order'
BY DEF Order, Whole, Verified

\* A whole cache is of one version, and of the plugin that runs.
LEMMA Files ==
  ASSUME Typed, Whole
  PROVE  \/ disk.wasm = None /\ disk.sig = None /\ disk.version = None /\ disk.sha256 = None
         \/ /\ disk.version \in Version /\ disk.wasm = Build[disk.version]
            /\ disk.sig = disk.wasm /\ disk.sha256 = disk.wasm
            /\ Readable
<1>1. Empty.wasm = None /\ Empty.sig = None /\ Empty.version = None /\ Empty.sha256 = None
  BY DEF Empty, File
<1> QED BY <1>1, Numbers DEF Whole, Verified, Readable

\* Every step but a failed write, a failed load and a crash.
LEMMA OrderStep ==
  ASSUME Typed, Typed', Order, Manifests \/ EnsurePlugin \/ CheckForUpdates \/ Step
                               \/ FetchFails \/ DownloadFails
                               \/ PublishWasm \/ Revert \/ PublishSig \/ PublishManifest \/ Unlist
  PROVE  Order'

<1>1. CASE Manifests
  BY <1>1, OrderKept DEF Manifests, Order, op
<1>2. CASE EnsurePlugin
  BY <1>2, OrderKept DEF EnsurePlugin, Order
<1>3. CASE CheckForUpdates
  BY <1>3, OrderKept DEF CheckForUpdates, Order
<1>4. CASE Resolve
  BY <1>4, OrderKept DEF Resolve, Order
<1>5. CASE FetchFails
  BY <1>5, OrderKept DEF FetchFails, Order, End, op
<1>6. CASE Compare
  BY <1>6, OrderKept DEF Compare, Order, Goto, op
<1>7. CASE OtherVersion
  BY <1>7, OrderKept DEF OtherVersion, Order, Goto, op
<1>8. CASE DownloadWasm
  BY <1>8, OrderKept DEF DownloadWasm, Order
<1>9. CASE DownloadFails
  BY <1>9, OrderKept DEF DownloadFails, Order, End, op
<1>10. CASE PublishWasm
  BY <1>10 DEF PublishWasm, Order, Whole, Verified, op
<1>11. CASE Revert
  BY <1>11 DEF Revert, Order, Whole, Verified, op
<1>12. CASE PublishSig
  BY <1>12 DEF PublishSig, Order, Whole, Verified, op
<1>13. CASE PublishManifest
  BY <1>13 DEF PublishManifest, Order, Whole, Verified, op
<1>14. CASE Unlist
  BY <1>14 DEF Unlist, Order, Whole, Verified, op
<1>15. CASE LoadFromCache
  <2>1. Whole /\ (loaded # None => Verified(disk, loaded))
    BY <1>15 DEF Order, LoadFromCache
  <2>2. CASE ~Readable
    BY <1>15, <2>2, OrderKept DEF LoadFromCache, Goto, op
  <2>3. CASE Readable /\ Verified(disk, Build[want])
    <3>1. /\ pc' = "load" /\ got'.wasm = Build[want]
          /\ UNCHANGED <<disk, loaded, want, file>>
      BY <1>15, <2>3 DEF LoadFromCache, Load, Verified
    <3>2. got'.wasm >= loaded'
      BY <2>1, <2>3, <3>1, Numbers DEF Verified, Typed, TypeOK
    <3> QED BY <2>1, <2>3, <3>1, <3>2 DEF Order, Whole, Verified
  <2>4. CASE Readable /\ ~Verified(disk, Build[want])
    <3>1. disk.version = want
      BY <1>15 DEF LoadFromCache, Order
    <3>2. want # None
      BY Numbers DEF Typed, TypeOK
    <3>3. disk.wasm = Build[want] /\ disk.sig = Build[want]
      BY <2>1, <3>1, <3>2, Files
    <3> QED BY <2>4, <3>3 DEF Verified
  <2> QED BY <2>2, <2>3, <2>4
<1>16. CASE LoadCachedManifestFallback
  <2>1. Whole /\ (loaded # None => Verified(disk, loaded))
    BY <1>16 DEF Order, LoadCachedManifestFallback
  <2>2. CASE Readable /\ disk.sha256 \in Binary /\ Verified(disk, disk.sha256)
    <3>1. /\ pc' = "load" /\ got'.wasm = disk.wasm
          /\ UNCHANGED <<disk, loaded, want, file>>
      BY <1>16, <2>2 DEF LoadCachedManifestFallback, Load
    <3>2. got'.wasm >= loaded'
      <4>1. disk.wasm \in Nat /\ loaded' = loaded
        BY <2>2, <3>1, Numbers DEF Verified
      <4>2. loaded = None \/ loaded = disk.wasm
        BY <2>1 DEF Verified
      <4> QED BY <3>1, <4>1, <4>2
    <3> QED BY <2>1, <2>2, <3>1, <3>2 DEF Order, Whole, Verified
  <2>3. CASE ~(Readable /\ disk.sha256 \in Binary /\ Verified(disk, disk.sha256))
    BY <1>16, <2>3, OrderKept DEF LoadCachedManifestFallback, End, op
  <2> QED BY <2>2, <2>3
<1>17. CASE SameBinary
  <2>1. Whole /\ (loaded # None => Verified(disk, loaded))
    BY <1>17 DEF Order, SameBinary
  <2>2. CASE disk.sha256 = Build[want]
    <3>1. Build[want] # None
      BY Numbers DEF Typed, TypeOK
    <3>2. Verified(disk, Build[want])
      BY <2>1, <2>2, <3>1, Files DEF Verified
    <3>3. pc' = "tag" /\ file' = "version" /\ UNCHANGED <<disk, loaded, want>>
      BY <1>17, <2>2 DEF SameBinary
    <3> QED BY <2>1, <2>2, <3>2, <3>3 DEF Order, Verified
  <2>3. CASE disk.sha256 # Build[want]
    BY <1>17, <2>3, OrderKept DEF SameBinary
  <2> QED BY <2>2, <2>3
<1>18. CASE IsRollback
  <2>1. Whole /\ (loaded # None => Verified(disk, loaded))
    BY <1>18 DEF Order, IsRollback
  <2>2. want \in Version /\ Build[want] \in Nat
    BY Numbers DEF Typed, TypeOK
  <2>3. CASE loaded = None
    BY <1>18, <2>2, <2>3, OrderKept DEF IsRollback, Goto, op
  <2>4. CASE loaded # None
    <3>1. /\ disk.version \in Version /\ Build[disk.version] = loaded
          /\ disk.sha256 = loaded /\ Readable
      BY <2>1, <2>4, Files DEF Verified
    <3>2. ~Rollback => disk.version <= want \/ loaded = Build[want]
      <4>1. want \in Nat /\ disk.version \in Nat
        BY <2>2, <3>1, Numbers
      <4> QED BY <3>1, <4>1 DEF Rollback
    <3>3. ~Rollback => Build[want] >= loaded
      <4>1. \A v, w \in Version : v <= w => Build[v] <= Build[w] /\ Build[v] \in Nat
        BY Numbers
      <4> QED BY <2>2, <3>1, <3>2, <4>1
    <3> QED BY <1>18, <3>3, OrderKept DEF IsRollback, Goto, op
  <2> QED BY <2>3, <2>4
<1>19. CASE DownloadSig
  BY <1>19 DEF DownloadSig, Order, Whole, Verified, End
<1>20. CASE Truncate
  BY <1>20 DEF Truncate, Order, Verified, op
<1>21. CASE WriteFile
  BY <1>21 DEF Typed, TypeOK, Disk, File, WriteFile, Order, Whole, Verified, Content,
               Written, Following
<1>22. CASE LoadPlugin
  BY <1>22 DEF LoadPlugin, Order, Whole, End
<1> QED BY <1>1, <1>2, <1>3, <1>4, <1>5, <1>6, <1>7, <1>8, <1>9, <1>10, <1>11, <1>12,
           <1>13, <1>14, <1>15, <1>16, <1>17, <1>18, <1>19, <1>20, <1>21, <1>22 DEF Step

-----------------------------------------------------------------------------
(* What follows for the specification.                                      *)

Inv == Typed /\ CacheInv /\ OrderInv

\* What has not failed now has not failed before.
LEMMA Earlier ==
  ASSUME Typed, [Next]_vars
  PROVE  /\ \A k \in Sources : budget'[k] <= budget[k]
         /\ Sound' => Sound
         /\ Forward' => Forward
         /\ Alive' => Alive
<1>1. budget \in [Sources -> Nat] /\ budget' \in [Sources -> Nat] /\ Unspent
  BY StepType DEF Typed, TypeOK
<1>2. \A k \in Sources : budget'[k] <= budget[k]
  <2>1. ASSUME NEW j \in Sources, Spend(j) PROVE \A k \in Sources : budget'[k] <= budget[k]
    BY <1>1, <2>1, SpendType
  <2>2. CASE UNCHANGED budget
    BY <1>1, <2>2
  <2>3. (\E j \in Sources : Spend(j)) \/ UNCHANGED budget
    BY DEF Sources, vars, Next, Step, Fault, Manifests, EnsurePlugin, CheckForUpdates,
           Resolve,
           FetchFails, Compare, LoadFromCache, OtherVersion, LoadCachedManifestFallback,
           SameBinary, IsRollback, DownloadWasm, DownloadSig, DownloadFails, Truncate,
           WriteFile, WriteFails, LoadPlugin, LoadFails, Crash, PublishWasm, Revert,
           PublishSig, PublishManifest, Unlist
  <2> QED BY <2>1, <2>2, <2>3
<1>3. \A k \in Sources : budget'[k] = Budget[k] => budget[k] = Budget[k]
  BY <1>1, <1>2 DEF Unspent
<1> QED BY <1>2, <1>3 DEF Sound, Forward, Alive, Sources

LEMMA InvInit ==
  ASSUME Init
  PROVE  Inv
<1>1. Typed
  BY InitType
<1>2. disk.wasm = None /\ disk.sig = None /\ disk.version = None /\ disk.sha256 = None
  BY DEF Init, Empty, File
<1>3. manifest = Unknown /\ Unknown \notin Version /\ remote.wasm = 1 /\ remote.sig = 1
      /\ remote.listed = 1 /\ pc = "idle" /\ loaded = None
  BY Numbers DEF Init
<1>4. AtMost(None)
  BY <1>1, Little
<1>5. Cache
  <2>1. Ordered
    BY <1>3 DEF Ordered
  <2>2. Bounded
    BY <1>2, <1>4 DEF Bounded
  <2>3. Layered
    BY <1>2, Numbers DEF Layered
  <2>4. Current /\ Tagging /\ Writing /\ Mirrored
    BY <1>3 DEF Current, Tagging, Writing, Mirrored
  <2> QED BY <2>1, <2>2, <2>3, <2>4 DEF Cache
<1>6. Order
  BY <1>3 DEF Init, Order, Whole
<1> QED BY <1>1, <1>5, <1>6 DEF Inv, CacheInv, OrderInv

LEMMA InvStep ==
  ASSUME Inv, [Next]_vars
  PROVE  Inv'
<1>1. Typed /\ Typed'
  BY StepType DEF Inv
<1>2. ASSUME Sound', Forward' PROVE Cache'
  <2>1. Cache
    BY <1>1, <1>2, Earlier DEF Inv, CacheInv
  <2>2. budget' \in [Sources -> Nat] /\ budget \in [Sources -> Nat] /\ Unspent
    BY <1>1 DEF Typed, TypeOK
  <2>3. ASSUME NEW k \in Sources, Spend(k) PROVE budget'[k] # Budget[k]
    BY <2>2, <2>3, SpendType DEF Unspent
  <2>4. ~Revert /\ ~WriteFails /\ ~LoadFails
    BY <1>2, <2>3 DEF Revert, WriteFails, LoadFails, Sound, Forward, Sources
  <2>5. CASE UNCHANGED vars
    BY <2>1, <2>5 DEF vars, op, Cache, Ordered, Bounded, AtMost, Layered, Current,
                      Tagging,
                      Writing, Mirrored, Holds, Verified
  <2> QED BY <1>1, <2>1, <2>4, <2>5, CacheStep DEF Next, Fault
<1>3. ASSUME Alive' PROVE Order'
  <2>1. Order
    BY <1>1, <1>3, Earlier DEF Inv, OrderInv
  <2>2. budget' \in [Sources -> Nat] /\ budget \in [Sources -> Nat] /\ Unspent
    BY <1>1 DEF Typed, TypeOK
  <2>3. ASSUME NEW k \in Sources, Spend(k) PROVE budget'[k] # Budget[k]
    BY <2>2, <2>3, SpendType DEF Unspent
  <2>4. ~Crash /\ ~WriteFails /\ ~LoadFails
    BY <1>3, <2>3 DEF Crash, WriteFails, LoadFails, Alive, Sound, Sources
  <2>5. CASE UNCHANGED vars
    BY <2>1, <2>5 DEF vars, op, Order, Whole, Verified
  <2> QED BY <1>1, <2>1, <2>4, <2>5, OrderStep DEF Next, Fault
<1> QED BY <1>1, <1>2, <1>3 DEF Inv, CacheInv, OrderInv

LEMMA Invariance == Spec => []Inv
<1>1. Init => Inv BY InvInit
<1>2. Inv /\ [Next]_vars => Inv' BY InvStep
<1> QED BY <1>1, <1>2, PTL DEF Spec

\* What runs is what the cache holds, whole and under a version it was built
\* from: the next start finds the same plugin.
THEOREM Mirrors == Spec => []CacheMirrorsLoaded
<1>1. Inv => CacheMirrorsLoaded
  BY Numbers DEF Inv, CacheInv, Cache, Mirrored, Holds, CacheMirrorsLoaded
<1> QED BY <1>1, Invariance, PTL

\* A plugin that runs is not replaced by an older one while nothing fails and
\* the daemon does not die.
THEOREM Newer == Spec => NoDowngrade
<1> DEFINE Act == Sound' /\ budget["crash"] = Budget["crash"] /\ loaded # None /\ loaded' # None
                    => loaded' >= loaded
<1>1. Inv /\ [Next]_vars => [Act]_vars
  <2> SUFFICES ASSUME Inv, [Next]_vars, Sound', budget["crash"] = Budget["crash"],
                      loaded # None, loaded' # None
               PROVE  loaded' >= loaded
    OBVIOUS
  <2>1. loaded \in Nat
    BY Numbers DEF Inv, Typed, TypeOK
  <2>2. Order
    BY Earlier DEF Inv, OrderInv, Alive
  <2>3. CASE LoadPlugin
    BY <2>2, <2>3 DEF LoadPlugin, Order
  <2>4. CASE UNCHANGED loaded
    BY <2>1, <2>4
  <2>5. LoadPlugin \/ UNCHANGED loaded
    BY DEF vars, Next, Step, Fault, Manifests, EnsurePlugin, CheckForUpdates, Resolve,
           FetchFails, Compare, LoadFromCache, OtherVersion, LoadCachedManifestFallback,
           SameBinary, IsRollback, DownloadWasm, DownloadSig, DownloadFails, Truncate,
           WriteFile, WriteFails, LoadFails, Crash, PublishWasm, Revert,
           PublishSig, PublishManifest, Unlist
  <2> QED BY <2>3, <2>4, <2>5
<1> QED BY <1>1, Invariance, PTL DEF Spec, NoDowngrade
=============================================================================
