---------------------------- MODULE PluginManager ----------------------------
(***************************************************************************)
(* The plugin manager (src/internal/pluginmgr/manager.go) and its cache on   *)
(* disk (cache.go), for one game: EnsurePlugin, called when a game is        *)
(* configured or announced and when the server announces a plugin, and       *)
(* CheckForUpdates, called by a ticker and by the local API.  Manager.mu      *)
(* lets one of them run at a time; the registry changes and the daemon may    *)
(* die between any two of their steps.                                      *)
(*                                                                         *)
(* A version is a number, and so is the binary it was built to: a new        *)
(* version may be the same binary under another name.  A signature is the     *)
(* number of the binary it signs, and so is a hash.                          *)
(***************************************************************************)
EXTENDS Integers

CONSTANTS MaxVersion, \* how many versions are published
          Build,      \* the binary of each version
          Budget      \* how often the environment does each thing, and in total

Sources == {"ensure", "publish", "revert", "unlist", "net", "disk", "load", "crash", "total"}
Version == 1 .. MaxVersion

(* The registry builds no older binary again. *)
ASSUME PluginAssumption ==
    /\ MaxVersion \in Nat \ {0}
    /\ Build \in [Version -> Nat \ {0}]
    /\ \A v, w \in Version : v <= w => Build[v] <= Build[w]
    /\ Budget \in [Sources -> Nat]

None    == 0   \* no file, no plugin, not in the manifest
Torn    == -1  \* a file truncated and not yet written
Unknown == -2  \* the manifest has not been fetched
Binary  == {Build[v] : v \in Version}

VARIABLES
    remote,   \* the registry: whose binary, whose signature, and what is listed
    manifest, \* Manager.manifest: the version listed when it was fetched
    disk,     \* the four files of the cache
    loaded,   \* the binary in the runner
    pc,       \* where the operation is that holds Manager.mu
    kind,     \* which operation it is
    want,     \* the version it is to load
    got,      \* the binary and the signature it has read
    file,     \* the file it writes
    budget

op   == <<kind, want, got, file>>
vars == <<remote, manifest, disk, loaded, pc, op, budget>>

File   == {"wasm", "sig", "version", "sha256"}
Listed == Version \cup {None}
Remote == [wasm : Version, sig : Version, listed : Listed]
Got    == [wasm : Binary \cup {None}, sig : Binary \cup {None}]

Steps == {"idle", "lookup", "compare", "cache", "sha", "tag", "tagged", "fallback",
          "rollback", "wasm", "sig", "write", "load"}

Disk == [wasm : Binary \cup {None, Torn}, sig : Binary \cup {None, Torn},
         version : Version \cup {None, Torn}, sha256 : Binary \cup {None, Torn}]

TypeOK ==
    /\ remote \in Remote
    /\ manifest \in Listed \cup {Unknown}
    /\ disk \in Disk
    /\ loaded \in Binary \cup {None}
    /\ pc \in Steps
    /\ kind \in {"ensure", "check"}
    /\ want \in Version
    /\ got \in Got
    /\ file \in File
    /\ budget \in [Sources -> Nat]

Empty == [f \in File |-> None]

Init ==
    /\ remote = [wasm |-> 1, sig |-> 1, listed |-> 1]
    /\ manifest = Unknown
    /\ disk = Empty
    /\ loaded = None
    /\ pc = "idle"
    /\ kind = "ensure"
    /\ want = 1
    /\ got = [wasm |-> None, sig |-> None]
    /\ file = "wasm"
    /\ budget = Budget

Spend(k) ==
    /\ budget[k] > 0 /\ budget["total"] > 0
    /\ budget' = [budget EXCEPT ![k] = @ - 1, !["total"] = @ - 1]

-----------------------------------------------------------------------------
FetchManifest == manifest' = remote.listed

(* An operation that ends here: done, or with an error that is logged. *)
End == pc' = "idle" /\ UNCHANGED op

Manifests ==
    /\ pc = "idle" /\ manifest = Unknown
    /\ FetchManifest
    /\ UNCHANGED <<remote, disk, loaded, pc, op, budget>>

EnsurePlugin ==
    /\ pc = "idle"
    /\ Spend("ensure")
    /\ pc' = "lookup" /\ kind' = "ensure"
    /\ UNCHANGED <<remote, manifest, disk, loaded, want, got, file>>

CheckForUpdates ==
    /\ pc = "idle"
    /\ pc' = "lookup" /\ kind' = "check"
    /\ UNCHANGED <<remote, manifest, disk, loaded, want, got, file, budget>>

(* EnsurePlugin believes the manifest it has, if the plugin is in it; ... *)
Known == kind = "ensure" /\ manifest \in Version

(* Mutant of Resolve: a check believes the manifest it has. *)
ResolveOnce ==
    /\ pc = "lookup"
    /\ IF manifest \in Version THEN UNCHANGED manifest ELSE FetchManifest
    /\ IF manifest' = None
       THEN pc' = (IF kind = "ensure" THEN "fallback" ELSE "idle") /\ UNCHANGED want
       ELSE pc' = (IF kind = "ensure" THEN "cache" ELSE "compare") /\ want' = manifest'
    /\ UNCHANGED <<remote, disk, loaded, kind, got, file, budget>>

(* ... otherwise the manifest is fetched.  A plugin that is in neither may   *)
(* still be in the cache.                                                   *)
Resolve ==
    /\ pc = "lookup"
    /\ IF Known THEN UNCHANGED manifest ELSE FetchManifest
    /\ IF manifest' = None
       THEN pc' = (IF kind = "ensure" THEN "fallback" ELSE "idle") /\ UNCHANGED want
       ELSE pc' = (IF kind = "ensure" THEN "cache" ELSE "compare") /\ want' = manifest'
    /\ UNCHANGED <<remote, disk, loaded, kind, got, file, budget>>

FetchFails ==
    /\ pc = "lookup" /\ ~Known
    /\ Spend("net")
    /\ End
    /\ UNCHANGED <<remote, manifest, disk, loaded>>

-----------------------------------------------------------------------------
(* The cache. *)

(* Cache.Read succeeds, whatever the files hold. *)
Readable == None \notin {disk.wasm, disk.sig, disk.version}

Verified(f, b) == f.wasm = b /\ f.sig = b

Goto(p) == pc' = p /\ UNCHANGED op

Load == pc' = "load" /\ got' = [wasm |-> disk.wasm, sig |-> disk.sig]
        /\ UNCHANGED <<kind, want, file>>

(* CheckForUpdates leaves a plugin alone whose version is the manifest's, or *)
(* that is not in the cache.                                                *)
Compare ==
    /\ pc = "compare"
    /\ Goto(IF disk.version = want \/ ~Readable THEN "idle" ELSE "sha")
    /\ UNCHANGED <<remote, manifest, disk, loaded, budget>>

(* Mutant of LoadFromCache: what does not verify is loaded. *)
LoadFromCacheUnverified ==
    /\ pc = "tagged" \/ (pc = "cache" /\ disk.version = want)
    /\ IF ~Readable THEN Goto(IF pc = "cache" THEN "sha" ELSE "rollback") ELSE Load
    /\ UNCHANGED <<remote, manifest, disk, loaded, budget>>

(* loadFromCache: read, verify, load; what does not verify is evicted. *)
LoadFromCache ==
    /\ pc = "tagged" \/ (pc = "cache" /\ disk.version = want)
    /\ IF ~Readable THEN Goto(IF pc = "cache" THEN "sha" ELSE "rollback") /\ UNCHANGED disk
       ELSE IF Verified(disk, Build[want]) THEN Load /\ UNCHANGED disk
       ELSE Goto("rollback") /\ disk' = Empty
    /\ UNCHANGED <<remote, manifest, loaded, budget>>

OtherVersion ==
    /\ pc = "cache" /\ disk.version # want
    /\ Goto("sha")
    /\ UNCHANGED <<remote, manifest, disk, loaded, budget>>

(* loadCachedManifestFallback *)
LoadCachedManifestFallback ==
    /\ pc = "fallback"
    /\ IF Readable /\ disk.sha256 \in Binary /\ Verified(disk, disk.sha256)
       THEN Load ELSE End
    /\ UNCHANGED <<remote, manifest, disk, loaded, budget>>

(* Mutant of SameBinary: any hash will do. *)
SameBinaryAnyHash ==
    /\ pc = "sha"
    /\ IF disk.sha256 # None
       THEN pc' = "tag" /\ file' = "version" ELSE pc' = "rollback" /\ UNCHANGED file
    /\ UNCHANGED <<remote, manifest, disk, loaded, kind, want, got, budget>>

(* The binary is the one that is wanted, under another version. *)
SameBinary ==
    /\ pc = "sha"
    /\ IF disk.sha256 = Build[want]
       THEN pc' = "tag" /\ file' = "version" ELSE pc' = "rollback" /\ UNCHANGED file
    /\ UNCHANGED <<remote, manifest, disk, loaded, kind, want, got, budget>>

Rollback ==
    Readable /\ disk.sha256 # Build[want] /\ disk.version > want

(* Mutant of IsRollback: what is listed is downloaded. *)
IsRollbackIgnored ==
    /\ pc = "rollback"
    /\ Goto("wasm")
    /\ UNCHANGED <<remote, manifest, disk, loaded, budget>>

IsRollback ==
    /\ pc = "rollback"
    /\ Goto(IF Rollback THEN "idle" ELSE "wasm")
    /\ UNCHANGED <<remote, manifest, disk, loaded, budget>>

-----------------------------------------------------------------------------
(* A download, in two requests for files the registry overwrites. *)

DownloadWasm ==
    /\ pc = "wasm"
    /\ got' = [got EXCEPT !.wasm = Build[remote.wasm]]
    /\ pc' = "sig"
    /\ UNCHANGED <<remote, manifest, disk, loaded, kind, want, file, budget>>

DownloadSig ==
    /\ pc = "sig"
    /\ LET g == [got EXCEPT !.sig = Build[remote.sig]]
       IN  IF Verified(g, Build[want])
           THEN got' = g /\ file' = "wasm" /\ pc' = "write" /\ UNCHANGED <<kind, want>>
           ELSE End
    /\ UNCHANGED <<remote, manifest, disk, loaded, budget>>

DownloadFails ==
    /\ pc \in {"wasm", "sig"}
    /\ Spend("net")
    /\ End
    /\ UNCHANGED <<remote, manifest, disk, loaded>>

(* Cache.Write and Cache.UpdateVersion: each file is truncated, ... *)
Truncate ==
    /\ pc \in {"write", "tag"} /\ disk[file] # Torn
    /\ disk' = [disk EXCEPT ![file] = Torn]
    /\ UNCHANGED <<remote, manifest, loaded, pc, op, budget>>

Content ==
    [wasm |-> got.wasm, sig |-> got.sig, version |-> want, sha256 |-> Build[want]]

Following == [wasm |-> "sig", sig |-> "version", version |-> "sha256"]

(* Every file is written: a download is loaded; what was only given another  *)
(* version is loaded from the cache, or is loaded already.                   *)
Written ==
    IF pc = "write" THEN "load" ELSE IF kind = "ensure" THEN "tagged" ELSE "idle"

(* ... then written. *)
WriteFile ==
    /\ pc \in {"write", "tag"} /\ disk[file] = Torn
    /\ disk' = [disk EXCEPT ![file] = Content[file]]
    /\ IF file = "sha256" THEN pc' = Written /\ UNCHANGED file
                          ELSE file' = Following[file] /\ UNCHANGED pc
    /\ UNCHANGED <<remote, manifest, loaded, kind, want, got, budget>>

(* The disk is full: EnsurePlugin loads what it downloaded all the same. *)
WriteFails ==
    /\ pc \in {"write", "tag"}
    /\ Spend("disk")
    /\ Goto(IF pc = "tag" THEN "rollback" ELSE IF kind = "ensure" THEN "load" ELSE "idle")
    /\ UNCHANGED <<remote, manifest, disk, loaded>>

LoadPlugin ==
    /\ pc = "load"
    /\ loaded' = got.wasm
    /\ End
    /\ UNCHANGED <<remote, manifest, disk, budget>>

LoadFails ==
    /\ pc = "load"
    /\ Spend("load")
    /\ End
    /\ UNCHANGED <<remote, manifest, disk, loaded>>

-----------------------------------------------------------------------------
(* The environment: a deployment uploads the binary, the signature and the   *)
(* manifest one by one.                                                     *)

Deployed == remote.sig = remote.wasm /\ remote.listed \in {None, remote.wasm}

PublishWasm ==
    /\ Deployed /\ remote.wasm < MaxVersion
    /\ Spend("publish")
    /\ remote' = [remote EXCEPT !.wasm = @ + 1]
    /\ UNCHANGED <<manifest, disk, loaded, pc, op>>

(* An older version is put back, or replayed by what is on the way. *)
Revert ==
    /\ Deployed
    /\ Spend("revert")
    /\ \E v \in 1 .. remote.wasm - 1 : remote' = [remote EXCEPT !.wasm = v]
    /\ UNCHANGED <<manifest, disk, loaded, pc, op>>

PublishSig ==
    /\ remote.sig # remote.wasm
    /\ remote' = [remote EXCEPT !.sig = remote.wasm]
    /\ UNCHANGED <<manifest, disk, loaded, pc, op, budget>>

PublishManifest ==
    /\ remote.listed # remote.wasm
    /\ remote' = [remote EXCEPT !.listed = remote.wasm]
    /\ UNCHANGED <<manifest, disk, loaded, pc, op, budget>>

Unlist ==
    /\ remote.listed # None
    /\ Spend("unlist")
    /\ remote' = [remote EXCEPT !.listed = None]
    /\ UNCHANGED <<manifest, disk, loaded, pc, op>>

Crash ==
    /\ Spend("crash")
    /\ manifest' = Unknown
    /\ loaded' = None
    /\ End
    /\ UNCHANGED <<remote, disk>>

-----------------------------------------------------------------------------
Step ==
    \/ Resolve \/ Compare \/ LoadFromCache \/ OtherVersion \/ LoadCachedManifestFallback
    \/ SameBinary \/ IsRollback \/ DownloadWasm \/ DownloadSig \/ Truncate \/ WriteFile
    \/ LoadPlugin

Fault == FetchFails \/ DownloadFails \/ WriteFails \/ LoadFails \/ Crash

Next ==
    \/ Manifests \/ EnsurePlugin \/ CheckForUpdates \/ Step \/ Fault
    \/ PublishWasm \/ Revert \/ PublishSig \/ PublishManifest \/ Unlist

Spec == Init /\ [][Next]_vars

(* An operation goes on, the ticker fires, a deployment is finished.  Nobody *)
(* has to call EnsurePlugin.                                                *)
FairSpec ==
    /\ Spec
    /\ WF_vars(Step) /\ WF_vars(CheckForUpdates)
    /\ WF_vars(PublishSig) /\ WF_vars(PublishManifest)

-----------------------------------------------------------------------------
(* No file of the cache failed to be written, no plugin to be loaded. *)
Sound == \A k \in {"disk", "load"} : budget[k] = Budget[k]

(* No version was put back. *)
Forward == budget["revert"] = Budget["revert"]

(* What runs is what the disk holds, whole, under a version it was built from *)
(* or one that is torn, although the four files are written one by one and    *)
(* the daemon may die in between: the next start finds the same plugin.       *)
(* (Unless an older version is put back: a hash left over from the version      *)
(* before, when the daemon died before it was written, then gives the new      *)
(* binary that version.)                                                     *)
CacheMirrorsLoaded ==
    pc = "idle" /\ loaded # None /\ Sound /\ Forward =>
      /\ Verified(disk, loaded)
      /\ disk.version \in {Torn} \cup {v \in Version : Build[v] = loaded}

(* A running plugin is not replaced by an older one, though the registry      *)
(* offers one, unless the daemon died once: the hash left over as above then  *)
(* makes it forget the newer version, and it is evicted for the older.        *)
NoDowngrade ==
    [][Sound' /\ budget["crash"] = Budget["crash"] /\ loaded # None /\ loaded' # None
         => loaded' >= loaded]_vars

(* A plugin that runs ends up the one the registry lists, after failed       *)
(* downloads, mixed downloads and crashes.                                   *)
EventuallyCurrent ==
    <>[](Sound /\ Forward /\ loaded # None /\ remote.listed # None => loaded = Build[remote.listed])
=============================================================================
