----------------------------- MODULE SelfUpdate -----------------------------
(***************************************************************************)
(* How a daemon replaces itself and its tray application by a newer release *)
(* and is started again: the checks and the two ways to apply their result   *)
(* (src/internal/daemon/daemon.go), the replacement of a binary             *)
(* (src/internal/selfupdate), the restart of the local API                  *)
(* (src/cmd/savecraftd/cmd/run.go) and the tray's supervisor                *)
(* (src/cmd/savecraft-tray/supervisor.go).                                  *)
(*                                                                         *)
(* Callers of applyDaemonUpdate: the event loop, for a release the server    *)
(* announces; the timer armed by a check; a request to POST /restart.        *)
(* A binary is the version compiled into it; the version a release is        *)
(* announced as is another thing, and the only one Apply compares.  What a   *)
(* process holds is lost when it dies; the files are not.                    *)
(***************************************************************************)
EXTENDS Integers, FiniteSets

CONSTANTS MaxVersion, \* how many releases there are
          Built,      \* the version of the binaries that are released as a version
          Budget      \* how often the environment does each thing, and in total

Sources == {"publish", "push", "restart", "crash", "net", "disk", "chmod", "script", "total"}

Callers == {"loop", "timer", "restart"}
Binary  == {"daemon", "tray"}
Version == 1 .. MaxVersion

ASSUME UpdateAssumption ==
    /\ MaxVersion \in Nat \ {0}
    /\ Built \in [Version -> Version]
    /\ Budget \in [Sources -> Nat]

None    == 0   \* no file, no version
Partial == -1  \* a copy that is not finished

VARIABLES
    windows,   \* the platform
    published, \* the latest release
    exe,       \* the file at the path of a binary
    aside,     \* the .old file beside it
    staged,    \* the .new file beside it
    up,        \* the daemon runs
    running,   \* its version
    pending,   \* Daemon.pendingUpdate
    flight,    \* Daemon.updateInFlight
    pc,        \* where each caller is
    job,       \* the version it installs, and whether the tray's too
    item,      \* the binary it is at
    script,    \* a restart script waits for the daemon to exit
    trayUp,    \* the tray application runs
    budget

files  == <<exe, aside, staged>>
daemon == <<up, running, pending>>
apply  == <<flight, pc, job, item>>
vars   == <<windows, published, files, daemon, apply, script, trayUp, budget>>

Job == [version : Version, tray : BOOLEAN]

Replacing == {"fetch", "copy", "staged", "cleared", "moved"}

TypeOK ==
    /\ windows \in BOOLEAN
    /\ published \in Version
    /\ exe \in [Binary -> Version \cup {None}]
    /\ aside \in [Binary -> Version \cup {None}]
    /\ staged \in [Binary -> Version \cup {None, Partial}]
    /\ {up, flight, script, trayUp} \subseteq BOOLEAN
    /\ running \in Version
    /\ pending \in Version \cup {None}
    /\ pc \in [Callers -> Replacing \cup {"idle", "exit", "plain", "exiting"}]
    /\ job \in [Callers -> Job]
    /\ item \in [Callers -> Binary]
    /\ budget \in [Sources -> Nat]
    /\ \A c \in Callers : pc[c] # "idle" => up
    /\ \A c \in Callers : pc[c] \in {"cleared", "moved"} => windows

Init ==
    /\ windows \in BOOLEAN
    /\ published = 1
    /\ exe = [b \in Binary |-> 1]
    /\ aside = [b \in Binary |-> None]
    /\ staged = [b \in Binary |-> None]
    /\ up = TRUE /\ running = 1
    /\ pending = None
    /\ flight = FALSE
    /\ pc = [c \in Callers |-> "idle"]
    /\ job = [c \in Callers |-> [version |-> 1, tray |-> FALSE]]
    /\ item = [c \in Callers |-> "daemon"]
    /\ script = FALSE
    /\ trayUp = TRUE
    /\ budget = Budget

Spend(k) ==
    /\ budget[k] > 0 /\ budget["total"] > 0
    /\ budget' = [budget EXCEPT ![k] = @ - 1, !["total"] = @ - 1]

Goto(c, p) == pc' = [pc EXCEPT ![c] = p]
Set(f, b, v) == [f EXCEPT ![b] = v]

-----------------------------------------------------------------------------
(* applyDaemonUpdate *)

(* Where a caller goes on when nothing was replaced: the local API restarts  *)
(* the daemon nevertheless.                                                 *)
Return(c) == Goto(c, IF c = "restart" THEN "plain" ELSE "idle")

(* Mutant: a caller does not look whether another one applies an update. *)
EnterAnyway(c, v, t) ==
    /\ flight' = TRUE
    /\ Goto(c, "fetch")
    /\ job' = [job EXCEPT ![c] = [version |-> v, tray |-> t]]
    /\ item' = [item EXCEPT ![c] = "daemon"]

(* Only one caller at a time: the others return. *)
Enter(c, v, t) ==
    IF flight
    THEN Return(c) /\ UNCHANGED <<flight, job, item>>
    ELSE /\ flight' = TRUE
         /\ Goto(c, "fetch")
         /\ job' = [job EXCEPT ![c] = [version |-> v, tray |-> t]]
         /\ item' = [item EXCEPT ![c] = "daemon"]

(* HTTPUpdater.Apply returned nil, ... *)
Installed(c) ==
    /\ IF item[c] = "daemon" /\ job[c].tray
       THEN Goto(c, "fetch") /\ item' = [item EXCEPT ![c] = "tray"]
       ELSE Goto(c, "exit") /\ UNCHANGED item
    /\ UNCHANGED <<flight, job>>

(* Mutant: updateInFlight is not reset after an error. *)
FailedInFlight(c) ==
    /\ IF item[c] = "daemon" THEN Return(c) ELSE Goto(c, "exit")
    /\ UNCHANGED <<flight, job, item>>

(* ... or an error, which does not matter for the tray. *)
Failed(c) ==
    /\ IF item[c] = "daemon" THEN Return(c) /\ flight' = FALSE
                             ELSE Goto(c, "exit") /\ UNCHANGED flight
    /\ UNCHANGED <<job, item>>

(* The process ends. *)
Down ==
    /\ up' = FALSE
    /\ pending' = None
    /\ flight' = FALSE
    /\ pc' = [c \in Callers |-> "idle"]
    /\ UNCHANGED <<running, job, item>>

-----------------------------------------------------------------------------
(* HTTPUpdater.Apply *)

Refuse(c) ==
    /\ pc[c] = "fetch" /\ job[c].version <= running
    /\ Failed(c)
    /\ UNCHANGED <<windows, published, files, daemon, script, trayUp, budget>>

FetchFails(c) ==
    /\ pc[c] = "fetch" /\ job[c].version > running
    /\ Spend("net")
    /\ Failed(c)
    /\ UNCHANGED <<windows, published, files, daemon, script, trayUp>>

(* Mutant: any version that is not the running one will do. *)
FetchAny(c) ==
    /\ pc[c] = "fetch" /\ job[c].version # running
    /\ staged' = Set(staged, item[c], Partial)
    /\ Goto(c, "copy")
    /\ UNCHANGED <<windows, published, exe, aside, daemon, flight, job, item, script,
                   trayUp, budget>>

(* Downloaded, verified; stageBesideTarget begins to copy. *)
Fetch(c) ==
    /\ pc[c] = "fetch" /\ job[c].version > running
    /\ staged' = Set(staged, item[c], Partial)
    /\ Goto(c, "copy")
    /\ UNCHANGED <<windows, published, exe, aside, daemon, flight, job, item, script,
                   trayUp, budget>>

Copy(c) ==
    /\ pc[c] = "copy"
    /\ staged' = Set(staged, item[c], Built[job[c].version])
    /\ Goto(c, "staged")
    /\ UNCHANGED <<windows, published, exe, aside, daemon, flight, job, item, script,
                   trayUp, budget>>

(* A copy or a rename fails: the staged file is removed. *)
Cleanup(c) ==
    /\ Spend("disk")
    /\ staged' = Set(staged, item[c], None)
    /\ Failed(c)

ReplaceFails(c) ==
    /\ pc[c] \in {"copy", "cleared"} \/ (pc[c] = "staged" /\ ~windows)
    /\ Cleanup(c)
    /\ UNCHANGED <<windows, published, exe, aside, daemon, script, trayUp>>

(* Mutant: the rename does not wait for the copy to be complete. *)
RenameEarly(c) ==
    /\ pc[c] \in {"copy", "staged"} /\ ~windows
    /\ exe' = Set(exe, item[c], staged[item[c]])
    /\ staged' = Set(staged, item[c], None)
    /\ Installed(c)
    /\ UNCHANGED <<windows, published, aside, daemon, script, trayUp, budget>>

(* Elsewhere than on Windows: an atomic rename. *)
Rename(c) ==
    /\ pc[c] = "staged" /\ ~windows
    /\ exe' = Set(exe, item[c], staged[item[c]])
    /\ staged' = Set(staged, item[c], None)
    /\ Installed(c)
    /\ UNCHANGED <<windows, published, aside, daemon, script, trayUp, budget>>

(* The chmod after it fails: an error, though the new file is in place. *)
ChmodFails(c) ==
    /\ pc[c] = "staged" /\ ~windows
    /\ Spend("chmod")
    /\ exe' = Set(exe, item[c], staged[item[c]])
    /\ staged' = Set(staged, item[c], None)
    /\ Failed(c)
    /\ UNCHANGED <<windows, published, aside, daemon, script, trayUp>>

(* On Windows: the file put aside by an earlier update is removed, ... *)
RemoveOld(c) ==
    /\ pc[c] = "staged" /\ windows
    /\ aside' = Set(aside, item[c], None)
    /\ Goto(c, "cleared")
    /\ UNCHANGED <<windows, published, exe, staged, daemon, flight, job, item, script,
                   trayUp, budget>>

(* Mutant: the binary is removed. *)
MoveAsideRemoves(c) ==
    /\ pc[c] = "cleared"
    /\ exe' = Set(exe, item[c], None)
    /\ Goto(c, "moved")
    /\ UNCHANGED <<windows, published, aside, staged, daemon, flight, job, item, script,
                   trayUp, budget>>

(* ... the binary is put aside, if there is one, ... *)
MoveAside(c) ==
    /\ pc[c] = "cleared"
    /\ aside' = Set(aside, item[c], exe[item[c]])
    /\ exe' = Set(exe, item[c], None)
    /\ Goto(c, "moved")
    /\ UNCHANGED <<windows, published, staged, daemon, flight, job, item, script, trayUp,
                   budget>>

(* ... the staged copy takes its place, the old one is removed if it can be, *)
MoveIn(c) ==
    /\ pc[c] = "moved"
    /\ exe' = Set(exe, item[c], staged[item[c]])
    /\ staged' = Set(staged, item[c], None)
    /\ aside' \in {aside, Set(aside, item[c], None)}
    /\ Installed(c)
    /\ UNCHANGED <<windows, published, daemon, script, trayUp, budget>>

(* ... and if it cannot, the old one is put back. *)
Restore(c) ==
    /\ pc[c] = "moved"
    /\ exe' = Set(exe, item[c], aside[item[c]])
    /\ aside' = Set(aside, item[c], None)
    /\ Cleanup(c)
    /\ UNCHANGED <<windows, published, daemon, script, trayUp>>

-----------------------------------------------------------------------------
(* The event loop. *)

Idle == up /\ pc["loop"] = "idle"

(* checkSelfUpdate: a newer release becomes pending, a timer is armed. *)
CheckSelfUpdate ==
    /\ Idle
    /\ published > running
    /\ pending' = published
    /\ UNCHANGED <<windows, published, files, up, running, apply, script, trayUp, budget>>

(* SourceUpdateAvailable says nothing of the tray. *)
HandleUpdateAvailable(v) ==
    /\ Idle
    /\ Spend("push")
    /\ v <= published
    /\ Enter("loop", v, FALSE)
    /\ UNCHANGED <<windows, published, files, daemon, script, trayUp>>

-----------------------------------------------------------------------------
(* ApplyPendingUpdate takes the pending update: the timer, ... *)
AutoApply ==
    /\ up /\ pc["timer"] = "idle" /\ pending # None
    /\ pending' = None
    /\ Enter("timer", pending, TRUE)
    /\ UNCHANGED <<windows, published, files, up, running, script, trayUp, budget>>

(* ... or POST /restart. *)
HandleRestart ==
    /\ up /\ pc["restart"] = "idle"
    /\ Spend("restart")
    /\ pending' = None
    /\ IF pending = None
       THEN Return("restart") /\ UNCHANGED <<flight, job, item>>
       ELSE Enter("restart", pending, TRUE)
    /\ UNCHANGED <<windows, published, files, up, running, script, trayUp>>

(* RestartDaemon on Windows: a script kills the tray and waits. *)
RestartDaemon ==
    IF windows THEN script' = TRUE /\ trayUp' = FALSE ELSE UNCHANGED <<script, trayUp>>

(* The new daemon is installed: restartFunc and exit, whatever restartFunc said. *)
Exit(c) ==
    /\ pc[c] = "exit"
    /\ \/ RestartDaemon /\ UNCHANGED budget
       \/ windows /\ Spend("script") /\ UNCHANGED <<script, trayUp>>
    /\ Down
    /\ UNCHANGED <<windows, published, files>>

(* A plain restart: by the script, or by the service manager. *)
PlainRestart ==
    /\ pc["restart"] = "plain"
    /\ \/ RestartDaemon /\ Goto("restart", "exiting") /\ UNCHANGED budget
       \/ Spend("script") /\ Goto("restart", "idle") /\ UNCHANGED <<script, trayUp>>
    /\ UNCHANGED <<windows, published, files, daemon, flight, job, item>>

(* A moment later the process is gone, whatever the other callers do. *)
PlainExit ==
    /\ pc["restart"] = "exiting"
    /\ Down
    /\ UNCHANGED <<windows, published, files, script, trayUp, budget>>

-----------------------------------------------------------------------------
(* Whoever starts the daemon. *)

Start ==
    /\ up' = TRUE
    /\ running' = exe["daemon"]
    /\ UNCHANGED <<windows, published, files, pending, apply, budget>>

(* systemd and launchd, when the process is gone. *)
ServiceManager ==
    /\ ~windows /\ ~up /\ exe["daemon"] # None
    /\ Start
    /\ UNCHANGED <<script, trayUp>>

(* The script starts the daemon and the tray, as far as they are there. *)
RunScript ==
    /\ script /\ ~up
    /\ script' = FALSE
    /\ trayUp' = (exe["tray"] # None)
    /\ IF exe["daemon"] # None THEN Start
       ELSE UNCHANGED <<windows, published, files, daemon, apply, budget>>

(* The tray polls /boot in vain: onDaemonUnreachable. *)
OnDaemonUnreachable ==
    /\ trayUp /\ ~up /\ exe["daemon"] # None
    /\ Start
    /\ UNCHANGED <<script, trayUp>>

-----------------------------------------------------------------------------
(* The environment. *)

Publish ==
    /\ published < MaxVersion
    /\ Spend("publish")
    /\ published' = published + 1
    /\ UNCHANGED <<windows, files, daemon, apply, script, trayUp>>

Crash ==
    /\ up
    /\ Spend("crash")
    /\ Down
    /\ UNCHANGED <<windows, published, files, script, trayUp>>

-----------------------------------------------------------------------------
Apply(c) ==
    \/ Refuse(c) \/ FetchFails(c) \/ Fetch(c) \/ Copy(c) \/ ReplaceFails(c)
    \/ Rename(c) \/ ChmodFails(c) \/ RemoveOld(c) \/ MoveAside(c) \/ MoveIn(c)
    \/ Restore(c) \/ Exit(c)

Next ==
    \/ \E c \in Callers : Apply(c)
    \/ CheckSelfUpdate \/ (\E v \in Version : HandleUpdateAvailable(v))
    \/ AutoApply \/ HandleRestart \/ PlainRestart \/ PlainExit
    \/ ServiceManager \/ RunScript \/ OnDaemonUnreachable
    \/ Publish \/ Crash

Spec == Init /\ [][Next]_vars

(* A caller goes on, the tickers and timers fire, and whoever starts the     *)
(* daemon does.  Downloads and renames fail only as often as Budget says.    *)
FairSpec ==
    /\ Spec
    /\ \A c \in Callers : WF_vars(Apply(c))
    /\ SF_vars(CheckSelfUpdate) /\ SF_vars(AutoApply)
    /\ WF_vars(PlainRestart) /\ WF_vars(PlainExit)
    /\ WF_vars(ServiceManager) /\ WF_vars(RunScript) /\ WF_vars(OnDaemonUnreachable)

-----------------------------------------------------------------------------
(* What a caller is about to put in place is what it verified: no other      *)
(* caller works on the same files, though three goroutines may apply an      *)
(* update, and restarts and crashes come at any time.                        *)
InstalledAsVerified ==
    \A c \in Callers :
      pc[c] \in {"staged", "cleared", "moved"} => staged[item[c]] = Built[job[c].version]

(* There is always a whole daemon at its path, or, on Windows, beside it:    *)
(* no failure, crash or restart in the middle of a replacement leaves        *)
(* nothing to go back to.                                                   *)
BinaryKept ==
    exe["daemon"] # None \/ (windows /\ aside["daemon"] # None)

(* A binary is never replaced by an older one, whatever the server           *)
(* announces and whoever applies it, as long as no chmod failed: after that  *)
(* the process runs on beside a newer file, and Apply compares with the      *)
(* version that runs (updater.go:185).  It takes that binaries are released  *)
(* as the version they were built as, Built[v] = v, which Apply cannot see.  *)
NoDowngrade ==
    [][budget'["chmod"] = Budget["chmod"] =>
         \A b \in Binary : exe[b] # None /\ exe'[b] # None => exe'[b] >= exe[b]]_vars

(* The same after a failed chmod too, which the code does not have.          *)
NeverDowngraded ==
    [][\A b \in Binary : exe[b] # None /\ exe'[b] # None => exe'[b] >= exe[b]]_vars

(* Windows, and a crash between the two renames: no daemon is left to start, *)
(* or no tray to start it.                                                  *)
Stranded == windows /\ ~up /\ ~script /\ (exe["daemon"] = None \/ ~trayUp)

(* In the end the latest release runs, after failed downloads, failed        *)
(* renames and chmods, duplicate requests and crashes.                       *)
EventuallyUpdated == <>[](Stranded \/ (up /\ running = published))

(* src/internal/daemon/daemon.go:2173: "The tray will update on the next     *)
(* poll-based manifest check."                                              *)
TrayFollows == <>[](Stranded \/ exe["tray"] = published)
=============================================================================
