----------------------------- MODULE GameConfig -----------------------------
(***************************************************************************)
(* The configuration of games: updates from the server, the directories    *)
(* they make the daemon watch, the copy of the configuration on disk, and   *)
(* restarts (src/internal/daemon/daemon.go, configcache.go, pathexpand.go). *)
(*                                                                         *)
(* The event loop is one thread, so a handler runs to its end, but the      *)
(* disk changes at every point at which the handler looks at it, and the    *)
(* process may die anywhere.  A save is a file with a version; `pushed' is  *)
(* what the daemon remembers of its last push of the file.  Whether a push  *)
(* reaches the server is the subject of SaveSync; here it does, and the     *)
(* server answers a push for a game it does not have.                       *)
(***************************************************************************)
EXTENDS Naturals, Sequences, FiniteSets

CONSTANTS Game, Dir, File, Path, Template,
          None,       \* no game, no configuration, no scan, no push
          Torn,       \* a cache file that does not parse
          DirOf,      \* the directory of a file
          Matches,    \* the directories a path names, if they exist
          Glob,       \* the paths with glob characters
          Candidates, \* the paths a template expands to, the preferred first
          Allowed,    \* the paths inside the save roots
          Wanted,     \* the templates a user gives a game
          Exists0,    \* the directories there are at first, each with its files
          Budget      \* how often the environment does each thing, and in total

Sources == {"user", "write", "delete", "rmdir", "mkdir", "late", "crash",
            "connect", "rescan", "plugin", "total"}

ASSUME ConfigAssumption ==
    /\ DirOf \in [File -> Dir]
    /\ Matches \in [Path -> SUBSET Dir]
    /\ Glob \subseteq Path
    /\ \A p \in Path \ Glob : Cardinality(Matches[p]) = 1
    /\ Candidates \in [Template -> Seq(Path) \ {<<>>}]
    /\ Allowed \subseteq Path
    /\ Wanted \in [Game -> SUBSET Template]
    /\ Exists0 \subseteq Dir
    /\ Budget \in [Sources -> Nat]

VARIABLES
    server,      \* the configuration the user made on the server
    inbox,       \* what the server sent and the loop has not read
    cfg,         \* cfg.Games
    watchedDirs, \* watchedDirs: directory to game
    inotify,     \* the directories the kernel watches
    exists,      \* the directories there are
    disk,        \* the version of each save file, 0: no file
    dirty,       \* files whose change the watcher has still to report
    events,      \* its channel: files, each with the content it was read with
    stale,       \* history: files of which an event was in the channel when
                 \* their directory was last watched anew
    pushed,      \* lastPushedSectionHashes: game and version
    report,      \* the last status message about a game's directories
    results,     \* the last ConfigResult
    cache,       \* config_cache.json
    task,        \* the handler the loop runs
    scan,        \* the scanGame it is in
    signal,      \* the Connected channel holds a signal
    announced,   \* hasAnnounced
    budget       \* what the environment may still do

channel == <<dirty, events, stale>>
world  == <<exists, disk, inotify, channel>>
memory == <<cfg, watchedDirs, pushed, announced>>
told   == <<report, results>>
vars   == <<server, inbox, world, memory, told, cache, task, scan, signal, budget>>

(* A game's entry in a ConfigUpdate and in cfg.Games. *)
Wish    == [template : Template, enabled : BOOLEAN]
Entry   == [path : Path, enabled : BOOLEAN]
Message == [kind : {"config"}, games : [Game -> Wish \cup {None}]]
             \cup [kind : {"removed", "rescan"}, game : Game]
Idle    == [kind |-> "idle"]
Down    == [kind |-> "down"]
Tasks   == {Idle, Down, [kind |-> "truncate"], [kind |-> "write"], [kind |-> "rescan"]}
             \cup [kind : {"config"}, update : [Game -> Wish \cup {None}],
                   left : SUBSET Game, results : [Game -> {"none", "ok", "error"}]]
             \cup [kind : {"announce"}, left : SUBSET Game]
Event   == [file : File, version : Nat]
Scans   == [game : Game, path : Path, stage : {"list", "watch", "parse"},
            found : SUBSET File, quiet : BOOLEAN]

(* None and Torn are nothing else. *)
ASSUME NoneAssumption ==
    /\ None \notin Game /\ None \notin Wish /\ None \notin Entry
    /\ None \notin Scans /\ None \notin Game \X Nat
    /\ Torn \notin [Game -> Entry \cup {None}]

TypeOK ==
    /\ server \in [Game -> Wish \cup {None}]
    /\ inbox \in Seq(Message)
    /\ cfg \in [Game -> Entry \cup {None}]
    /\ watchedDirs \in [Dir -> Game \cup {None}]
    /\ inotify \subseteq exists
    /\ exists \subseteq Dir
    /\ disk \in [File -> Nat]
    /\ dirty \subseteq File /\ stale \subseteq File
    /\ events \in Seq(Event)
    /\ pushed \in [File -> (Game \X Nat) \cup {None}]
    /\ report \in [Game -> {"none", "watching", "notFound", "pluginFailed"}]
    /\ results \in [Game -> {"none", "ok", "error"}]
    /\ cache \in [Game -> Entry \cup {None}] \cup {Torn}
    /\ task \in Tasks
    /\ scan \in Scans \cup {None}
    /\ signal \in BOOLEAN
    /\ announced \in BOOLEAN
    /\ budget \in [Sources -> Nat]

NoGames == [g \in Game |-> None]

Init ==
    /\ server = NoGames
    /\ inbox = <<>>
    /\ cfg = NoGames
    /\ watchedDirs = [d \in Dir |-> None]
    /\ inotify = {}
    /\ exists = Exists0
    /\ disk = [f \in File |-> IF DirOf[f] \in Exists0 THEN 1 ELSE 0]
    /\ dirty = {} /\ events = <<>> /\ stale = {}
    /\ pushed = [f \in File |-> None]
    /\ report = [g \in Game |-> "none"]
    /\ results = [g \in Game |-> "none"]
    /\ cache = NoGames
    /\ task = Idle
    /\ scan = None
    /\ signal = TRUE
    /\ announced = FALSE
    /\ budget = Budget

Spend(k) ==
    /\ budget[k] > 0 /\ budget["total"] > 0
    /\ budget' = [budget EXCEPT ![k] = @ - 1, !["total"] = @ - 1]

-----------------------------------------------------------------------------
(* Paths. *)

(* The directories a path resolves to now (resolveGlob). *)
Resolve(p) == IF p \in Glob THEN Matches[p] \cap exists ELSE Matches[p]

Usable(p) == Resolve(p) \cap exists # {}

(* resolveFirstValid: the first candidate with a directory, else the first. *)
FirstValid(t) ==
    LET ps == Candidates[t]
        ok == {i \in 1..Len(ps) : Usable(ps[i])}
    IN  IF ok = {} THEN ps[1] ELSE ps[CHOOSE i \in ok : \A j \in ok : i <= j]

Enabled(g) == cfg[g] # None /\ cfg[g].enabled

Saves(dirs) == {f \in File : DirOf[f] \in dirs \cap exists /\ disk[f] > 0}

-----------------------------------------------------------------------------
(* The environment: the user, the game that saves, the process. *)

(* The user changes the settings of a game; the server sends all of them,   *)
(* if the daemon is there to receive them.                                  *)
ChangeSettings(g) ==
    /\ Spend("user")
    /\ \E w \in [template : Wanted[g], enabled : BOOLEAN] \cup {None} :
         /\ w # server[g]
         /\ server' = [server EXCEPT ![g] = w]
         /\ inbox' = IF task = Down THEN inbox
                     ELSE Append(inbox, [kind |-> "config", games |-> server'])
    /\ UNCHANGED <<world, memory, told, cache, task, scan, signal>>

(* The user asks for a rescan of a game that is enabled on the server. *)
RequestRescan(g) ==
    /\ task # Down
    /\ server[g] # None /\ server[g].enabled
    /\ Spend("rescan")
    /\ inbox' = Append(inbox, [kind |-> "rescan", game |-> g])
    /\ UNCHANGED <<server, world, memory, told, cache, task, scan, signal>>

Write(f) ==
    /\ DirOf[f] \in exists /\ disk[f] > 0
    /\ Spend("write")
    /\ disk' = [disk EXCEPT ![f] = @ + 1]
    /\ dirty' = IF DirOf[f] \in inotify THEN dirty \cup {f} ELSE dirty
    /\ UNCHANGED <<server, inbox, exists, inotify, events, stale, memory, told, cache, task, scan, signal>>

Delete(f) ==
    /\ disk[f] > 0
    /\ Spend("delete")
    /\ disk' = [disk EXCEPT ![f] = 0]
    /\ dirty' = dirty \ {f}
    /\ UNCHANGED <<server, inbox, exists, inotify, events, stale, memory, told, cache, task, scan, signal>>

(* A directory disappears with its files, and with it the kernel's watch. *)
RemoveDir(d) ==
    /\ d \in exists
    /\ Spend("rmdir")
    /\ exists' = exists \ {d}
    /\ inotify' = inotify \ {d}
    /\ disk' = [f \in File |-> IF DirOf[f] = d THEN 0 ELSE disk[f]]
    /\ dirty' = {f \in dirty : DirOf[f] # d}
    /\ UNCHANGED <<server, inbox, events, stale, memory, told, cache, task, scan, signal>>

Covered(d) == \/ watchedDirs[d] # None
              \/ \E g \in Game : cfg[g] # None /\ d \in Matches[cfg[g].path]

(* A directory with a save appears.  Where a configured game already looked *)
(* for it nothing but a later scan notices: that is the source "late".      *)
MakeDir(f) ==
    LET d == DirOf[f] IN
    /\ d \notin exists
    /\ Spend(IF Covered(d) THEN "late" ELSE "mkdir")
    /\ exists' = exists \cup {d}
    /\ disk' = [disk EXCEPT ![f] = 1]
    /\ UNCHANGED <<server, inbox, inotify, channel, memory, told, cache, task, scan, signal>>

(* The connection was lost and is there again. *)
Reconnect ==
    /\ task # Down /\ ~signal
    /\ Spend("connect")
    /\ signal' = TRUE
    /\ UNCHANGED <<server, inbox, world, memory, told, cache, task, scan>>

(* Everything but the disk is lost. *)
Crash ==
    /\ task # Down
    /\ Spend("crash")
    /\ task' = Down
    /\ scan' = None
    /\ inbox' = <<>> /\ inotify' = {} /\ signal' = FALSE
    /\ dirty' = {} /\ events' = <<>> /\ stale' = {}
    /\ UNCHANGED <<server, exists, disk, memory, told, cache>>

(* Mutant of Boot: a cache that does not parse is used. *)
BootUnchecked ==
    /\ task = Down
    /\ task' = Idle
    /\ cfg' = cache
    /\ watchedDirs' = [d \in Dir |-> None]
    /\ pushed' = [f \in File |-> None]
    /\ announced' = FALSE
    /\ signal' = TRUE
    /\ report' = [g \in Game |-> "none"]
    /\ UNCHANGED <<server, inbox, world, results, cache, scan, budget>>

(* A new process: loadCachedConfig, then the connection. *)
Boot ==
    /\ task = Down
    /\ task' = Idle
    /\ cfg' = IF cache = Torn THEN NoGames ELSE cache
    /\ watchedDirs' = [d \in Dir |-> None]
    /\ pushed' = [f \in File |-> None]
    /\ announced' = FALSE
    /\ signal' = TRUE
    /\ report' = [g \in Game |-> "none"]
    /\ UNCHANGED <<server, inbox, world, results, cache, scan, budget>>

-----------------------------------------------------------------------------
(* The watcher (module FSWatcher has its steps): the debounce timer of a    *)
(* changed file fires, and what the file holds then goes into the channel.  *)
HasEvent(f) == \E i \in 1..Len(events) : events[i].file = f

Report(f) ==
    /\ f \in dirty
    /\ dirty' = dirty \ {f}
    /\ IF disk[f] = 0 THEN UNCHANGED <<events, stale>>
       ELSE /\ events' = Append(events, [file |-> f, version |-> disk[f]])
            /\ stale' = stale \ {f}
    /\ UNCHANGED <<server, inbox, exists, disk, inotify, memory, told, cache, task, scan,
                   signal, budget>>

-----------------------------------------------------------------------------
(* Unwatching and scanning. *)

(* unwatchGame for a set of paths: what they resolve to now is forgotten,   *)
(* whichever game watches it, and the timers of its files are stopped.      *)
(* Events in the channel stay: they are ignored, or belong to whoever       *)
(* watches the directory next.                                              *)
Unwatch(paths) ==
    LET dirs == UNION {Resolve(p) : p \in paths}
        gone == {d \in dirs : watchedDirs[d] # None}
    IN
    /\ watchedDirs' = [d \in Dir |-> IF d \in dirs THEN None ELSE watchedDirs[d]]
    /\ inotify' = inotify \ gone
    /\ dirty' = {f \in dirty : DirOf[f] \notin gone}
    /\ pushed' = [f \in File |-> IF DirOf[f] \in dirs THEN None ELSE pushed[f]]

StartScan(g, p, quiet) ==
    scan' = [game |-> g, path |-> p, stage |-> "list", found |-> {}, quiet |-> quiet]

(* What follows scanGame: in handleConfigUpdate, buildGameResult. *)
EndScan(g, status) ==
    /\ scan' = None
    /\ report' = [report EXCEPT ![g] = status]
    /\ task' = CASE task.kind = "config" ->
                      [task EXCEPT !.results[g] = IF Usable(scan.path) THEN "ok" ELSE "error"]
                 [] task.kind = "rescan" -> Idle
                 [] OTHER -> task

(* rescanQuiet: a game of which some directory counts as watched is parsed  *)
(* again, and nothing is watched anew.                                      *)
RescanQuiet ==
    /\ scan # None /\ scan.stage = "list" /\ scan.quiet
    /\ \E d \in Resolve(scan.path) : watchedDirs[d] # None
    /\ scan' = [scan EXCEPT !.stage = "parse", !.found = Saves(Resolve(scan.path))]
    /\ UNCHANGED <<server, inbox, world, memory, told, cache, task, signal, budget>>

(* scanGame up to the end of collectSaveFiles. *)
ListSaves ==
    LET dirs  == Resolve(scan.path)
        found == Saves(dirs)
    IN  /\ scan # None /\ scan.stage = "list"
        /\ scan.quiet => \A d \in dirs : watchedDirs[d] = None
        /\ IF found = {} THEN EndScan(scan.game, "notFound")
           ELSE /\ scan' = [scan EXCEPT !.stage = "watch", !.found = found, !.quiet = FALSE]
                /\ UNCHANGED <<report, task>>
        /\ UNCHANGED <<server, inbox, world, memory, results, cache, signal, budget>>

(* Directories get a watch: what the channel holds of their files was read  *)
(* before, and will be handled after the scan.                              *)
Renew(dirs) ==
    stale' = {f \in File : IF DirOf[f] \in dirs \ inotify THEN HasEvent(f) ELSE f \in stale}

(* Mutant of AddWatches: the loop ends with the first directory. *)
AddWatchesFirst ==
    LET dirs == {DirOf[f] : f \in scan.found} \cap exists
        one  == IF dirs = {} THEN {} ELSE {CHOOSE d \in dirs : TRUE}
    IN  /\ scan # None /\ scan.stage = "watch"
        /\ inotify' = inotify \cup one
        /\ watchedDirs' = [d \in Dir |-> IF d \in one THEN scan.game ELSE watchedDirs[d]]
        /\ Renew(one)
        /\ scan' = [scan EXCEPT !.stage = "parse"]
        /\ UNCHANGED <<server, inbox, exists, disk, dirty, events, cfg, pushed, announced,
                       told, cache, task, signal, budget>>

(* Every directory with a save is watched; one that has gone is passed over. *)
AddWatches ==
    LET dirs == {DirOf[f] : f \in scan.found} \cap exists IN
    /\ scan # None /\ scan.stage = "watch"
    /\ inotify' = inotify \cup dirs
    /\ watchedDirs' = [d \in Dir |-> IF d \in dirs THEN scan.game ELSE watchedDirs[d]]
    /\ Renew(dirs)
    /\ scan' = [scan EXCEPT !.stage = "parse"]
    /\ UNCHANGED <<server, inbox, exists, disk, dirty, events, cfg, pushed, announced,
                   told, cache, task, signal, budget>>

(* parseAndPush of files of a game with the content read of each: what is   *)
(* there and not known as pushed is pushed, and a server without the game   *)
(* says so.                                                                 *)
ParseAndPush(g, data) ==
    LET fresh == {f \in DOMAIN data : data[f] > 0 /\ pushed[f] # <<g, data[f]>>} IN
    /\ pushed' = [f \in File |-> IF f \in fresh THEN <<g, data[f]>> ELSE pushed[f]]
    /\ inbox' = IF fresh # {} /\ server[g] = None
                THEN Append(inbox, [kind |-> "removed", game |-> g])
                ELSE inbox

ParseSaves ==
    /\ scan # None /\ scan.stage = "parse"
    /\ ParseAndPush(scan.game, [f \in scan.found |-> disk[f]])
    /\ EndScan(scan.game, IF scan.quiet THEN report[scan.game] ELSE "watching")
    /\ UNCHANGED <<server, world, cfg, watchedDirs, announced, results, cache, signal, budget>>

-----------------------------------------------------------------------------
(* The handlers of the event loop. *)

(* Mutant of ReceiveConfig: stale games are deleted, their watches stay. *)
ReceiveConfigKeepWatches ==
    /\ task = Idle /\ inbox # <<>> /\ Head(inbox).kind = "config"
    /\ LET games == Head(inbox).games IN
         /\ cfg' = [g \in Game |-> IF games[g] = None THEN None ELSE cfg[g]]
         /\ task' = [kind |-> "config", update |-> games,
                     left |-> {g \in Game : games[g] # None},
                     results |-> [g \in Game |-> "none"]]
    /\ inbox' = Tail(inbox)
    /\ UNCHANGED <<server, world, watchedDirs, pushed, announced, told, cache, scan,
                   signal, budget>>

(* handleConfigUpdate starts with removeStaleGames. *)
ReceiveConfig ==
    /\ task = Idle /\ inbox # <<>> /\ Head(inbox).kind = "config"
    /\ LET games == Head(inbox).games
           lost  == {g \in Game : cfg[g] # None /\ games[g] = None}
       IN  /\ cfg' = [g \in Game |-> IF g \in lost THEN None ELSE cfg[g]]
           /\ Unwatch({cfg[g].path : g \in lost})
           /\ task' = [kind |-> "config", update |-> games,
                       left |-> {g \in Game : games[g] # None},
                       results |-> [g \in Game |-> "none"]]
    /\ inbox' = Tail(inbox)
    /\ UNCHANGED <<server, exists, disk, events, stale, announced, told, cache, scan, signal,
                   budget>>

(* The loop of handleConfigUpdate takes the games in no particular order. *)
Turn(g) == task.kind = "config" /\ scan = None /\ g \in task.left

Done(g, result) == task' = [task EXCEPT !.left = @ \ {g}, !.results[g] = result]

NewPath(g) == FirstValid(task.update[g].template)

(* A path outside the save roots: whatever was configured before stays. *)
RefuseGame(g) ==
    /\ Turn(g)
    /\ NewPath(g) \notin Allowed
    /\ Done(g, "error")
    /\ UNCHANGED <<server, inbox, world, memory, told, cache, scan, signal, budget>>

StoreGame(g) ==
    cfg' = [cfg EXCEPT ![g] = [path |-> NewPath(g), enabled |-> task.update[g].enabled]]

DisableGame(g) ==
    /\ Turn(g)
    /\ NewPath(g) \in Allowed
    /\ ~task.update[g].enabled
    /\ StoreGame(g)
    /\ Unwatch(IF cfg[g] = None THEN {} ELSE {cfg[g].path})
    /\ Done(g, "ok")
    /\ UNCHANGED <<server, inbox, exists, disk, events, stale, announced, told, cache, scan,
                   signal, budget>>

KeepGame(g) ==
    /\ Turn(g)
    /\ NewPath(g) \in Allowed
    /\ task.update[g].enabled
    /\ Enabled(g) /\ cfg[g].path = NewPath(g)
    /\ Done(g, "ok")
    /\ UNCHANGED <<server, inbox, world, memory, told, cache, scan, signal, budget>>

(* A game that is new, was disabled, or has another path: its old path, if  *)
(* it was watched, is given up, then the plugin is fetched.                 *)
Renewed(g) ==
    /\ Turn(g)
    /\ NewPath(g) \in Allowed
    /\ task.update[g].enabled
    /\ ~(Enabled(g) /\ cfg[g].path = NewPath(g))
    /\ Unwatch(IF Enabled(g) THEN {cfg[g].path} ELSE {})

ConfigureGame(g) ==
    /\ Renewed(g)
    /\ StoreGame(g)
    /\ StartScan(g, NewPath(g), FALSE)
    /\ task' = [task EXCEPT !.left = @ \ {g}]
    /\ UNCHANGED <<server, inbox, exists, disk, events, stale, announced, told, cache, signal,
                   budget>>

(* EnsurePlugin fails: the game is deleted again. *)
DropGame(g) ==
    /\ Renewed(g)
    /\ Spend("plugin")
    /\ cfg' = [cfg EXCEPT ![g] = None]
    /\ report' = [report EXCEPT ![g] = "pluginFailed"]
    /\ Done(g, "error")
    /\ UNCHANGED <<server, inbox, exists, disk, events, stale, announced, results, cache, scan,
                   signal>>

(* The ConfigResult is sent; then saveConfigCache truncates the file ... *)
SendResults ==
    /\ task.kind = "config" /\ task.left = {} /\ scan = None
    /\ results' = task.results
    /\ task' = [kind |-> "truncate"]
    /\ UNCHANGED <<server, inbox, world, memory, report, cache, scan, signal, budget>>

TruncateCache ==
    /\ task.kind = "truncate"
    /\ cache' = Torn
    /\ task' = [kind |-> "write"]
    /\ UNCHANGED <<server, inbox, world, memory, told, scan, signal, budget>>

(* Mutant of WriteCache: only enabled games are written. *)
WriteCacheEnabled ==
    /\ task.kind = "write"
    /\ cache' = [g \in Game |-> IF Enabled(g) THEN cfg[g] ELSE None]
    /\ task' = Idle
    /\ UNCHANGED <<server, inbox, world, memory, told, scan, signal, budget>>

(* ... and writes it. *)
WriteCache ==
    /\ task.kind = "write"
    /\ cache' = cfg
    /\ task' = Idle
    /\ UNCHANGED <<server, inbox, world, memory, told, scan, signal, budget>>

(* Mutant of ReceiveRemoved: the game's directories stay watched. *)
ReceiveRemovedWatched ==
    /\ task = Idle /\ inbox # <<>> /\ Head(inbox).kind = "removed"
    /\ cfg' = [cfg EXCEPT ![Head(inbox).game] = None]
    /\ inbox' = Tail(inbox)
    /\ UNCHANGED <<server, world, watchedDirs, pushed, announced, told, cache, task, scan,
                   signal, budget>>

(* handlePushSaveResult with GAME_REMOVED. *)
ReceiveRemoved ==
    /\ task = Idle /\ inbox # <<>> /\ Head(inbox).kind = "removed"
    /\ LET g == Head(inbox).game IN
         /\ cfg' = [cfg EXCEPT ![g] = None]
         /\ Unwatch(IF cfg[g] = None THEN {} ELSE {cfg[g].path})
    /\ inbox' = Tail(inbox)
    /\ UNCHANGED <<server, exists, disk, events, stale, announced, told, cache, task, scan,
                   signal, budget>>

(* handleCommand with RescanGame: the game need not be enabled. *)
ReceiveRescan ==
    /\ task = Idle /\ inbox # <<>> /\ Head(inbox).kind = "rescan"
    /\ LET g == Head(inbox).game IN
         IF cfg[g] = None THEN UNCHANGED <<task, scan>>
         ELSE /\ StartScan(g, cfg[g].path, FALSE)
              /\ task' = [kind |-> "rescan"]
    /\ inbox' = Tail(inbox)
    /\ UNCHANGED <<server, world, memory, told, cache, signal, budget>>

(* announceOnline: every enabled game in turn; quiet after the first time. *)
AnnounceOnline ==
    /\ task = Idle /\ signal
    /\ signal' = FALSE
    /\ task' = [kind |-> "announce", left |-> {g \in Game : Enabled(g)}]
    /\ UNCHANGED <<server, inbox, world, memory, told, cache, scan, budget>>

AnnounceGame(g) ==
    /\ task.kind = "announce" /\ scan = None /\ g \in task.left
    /\ task' = [task EXCEPT !.left = @ \ {g}]
    /\ \/ /\ StartScan(g, cfg[g].path, announced)
          /\ UNCHANGED <<report, budget>>
       \/ /\ Spend("plugin")
          /\ report' = [report EXCEPT ![g] = "pluginFailed"]
          /\ UNCHANGED scan
    /\ UNCHANGED <<server, inbox, world, memory, results, cache, signal>>

FinishAnnounce ==
    /\ task.kind = "announce" /\ scan = None /\ task.left = {}
    /\ announced' = TRUE
    /\ task' = Idle
    /\ UNCHANGED <<server, inbox, world, cfg, watchedDirs, pushed, told, cache, scan, signal, budget>>

(* Mutant of HandleFileEvent: a file already pushed is not pushed again. *)
HandleFileEventOnce ==
    /\ task = Idle /\ events # <<>>
    /\ events' = Tail(events)
    /\ LET f == Head(events).file
           g == watchedDirs[DirOf[f]]
       IN  IF g = None \/ pushed[f] # None THEN UNCHANGED <<pushed, inbox>>
           ELSE ParseAndPush(g, [e \in {f} |-> Head(events).version])
    /\ UNCHANGED <<server, exists, disk, inotify, dirty, stale, cfg, watchedDirs, announced,
                   told, cache, task, scan, signal, budget>>

(* handleFileEvent: the content is that of the event (ev.Data). *)
HandleFileEvent ==
    /\ task = Idle /\ events # <<>>
    /\ events' = Tail(events)
    /\ LET f == Head(events).file
           g == watchedDirs[DirOf[f]]
       IN  IF g = None THEN UNCHANGED <<pushed, inbox>>
           ELSE ParseAndPush(g, [e \in {f} |-> Head(events).version])
    /\ UNCHANGED <<server, exists, disk, inotify, dirty, stale, cfg, watchedDirs, announced,
                   told, cache, task, scan, signal, budget>>

-----------------------------------------------------------------------------
Environment ==
    \/ \E g \in Game : ChangeSettings(g) \/ RequestRescan(g)
    \/ \E f \in File : Write(f) \/ Delete(f) \/ MakeDir(f)
    \/ \E d \in Dir : RemoveDir(d)
    \/ Reconnect
    \/ Crash

ScanStep == RescanQuiet \/ ListSaves \/ AddWatches \/ ParseSaves

ConfigStep ==
    \/ ReceiveConfig
    \/ \E g \in Game : \/ RefuseGame(g) \/ DisableGame(g) \/ KeepGame(g)
                       \/ ConfigureGame(g) \/ DropGame(g)
    \/ SendResults \/ TruncateCache \/ WriteCache

AnnounceStep == AnnounceOnline \/ FinishAnnounce \/ \E g \in Game : AnnounceGame(g)

Daemon ==
    \/ Boot
    \/ ScanStep
    \/ ConfigStep
    \/ AnnounceStep
    \/ ReceiveRemoved
    \/ ReceiveRescan
    \/ HandleFileEvent

Next == Environment \/ Daemon \/ \E f \in File : Report(f)

Spec == Init /\ [][Next]_vars

(* The loop goes on while there is something to do, timers fire, and a      *)
(* process that died is started again by the service manager.               *)
FairSpec == Spec /\ WF_vars(Daemon) /\ WF_vars(\E f \in File : Report(f))

-----------------------------------------------------------------------------
AtRest == task = Idle /\ inbox = <<>> /\ dirty = {} /\ events = <<>> /\ ~signal

(* The daemon cannot be asked to rescan a game it has disabled: nobody asked *)
(* for a rescan, or the daemon has followed every setting of the game, having *)
(* refused none of its paths and lost no message in a crash.                 *)
Followed(g) ==
    \/ budget["rescan"] = Budget["rescan"]
    \/ /\ budget["crash"] = Budget["crash"]
       /\ \A t \in Wanted[g] : \A i \in 1..Len(Candidates[t]) : Candidates[t][i] \in Allowed

(* The kernel watches only directories of games that are configured and     *)
(* enabled, whatever became of their paths, plugins and directories         *)
(* (unwatchGame, removeStaleGames, handlePushSaveResult).  A rescan watches  *)
(* the directories of a disabled game too, and when that game is enabled     *)
(* again with another path they are not given up (case !oldCfg.Enabled of    *)
(* handleConfigUpdate).                                                      *)
WatchesConfigured ==
    \A d \in inotify : \E g \in Game :
        /\ watchedDirs[d] = g
        /\ Followed(g) => Enabled(g) /\ d \in Matches[cfg[g].path]

(* A game the server was told is watched has every save it has pushed, once *)
(* there is nothing left to do: a write during a scan, between the listing  *)
(* and the watch or during another game's update, is not missed.  The       *)
(* exception is a file of which an older event was in the channel when its  *)
(* directory was watched again: it is pushed after the scan's newer content *)
(* (ev.Data in handleFileEvent), and stays until the file changes again.    *)
AllPushed ==
    \A g \in Game : Enabled(g) /\ report[g] = "watching" =>
        \A f \in Saves(Resolve(cfg[g].path)) \ stale : pushed[f] = <<g, disk[f]>>
SavesPushed == AtRest => AllPushed

(* The same without the exception, which the code does not have.            *)
RewatchPushed ==
    AtRest => \A g \in Game : Enabled(g) /\ report[g] = "watching" =>
        \A f \in Saves(Resolve(cfg[g].path)) : pushed[f] = <<g, disk[f]>>

(* Between handlers a restart finds every configured game in the cache as   *)
(* it is configured (saveConfigCache, loadConfigCache).                     *)
RestartKeepsConfig ==
    task = Idle => \A g \in Game : cfg[g] # None => cache # Torn /\ cache[g] = cfg[g]

(* A game the server does not have, because the user removed it while the   *)
(* daemon was down or an update died with it, is no longer watched once     *)
(* something of it was pushed (PushSaveResult with GAME_REMOVED).           *)
UnknownGamesStop ==
    AtRest => \A d \in inotify : LET g == watchedDirs[d] IN
        Followed(g) /\ server[g] = None =>
            \A f \in File : DirOf[f] = d => pushed[f] = None \/ pushed[f][1] # g

(* Whatever the user, the disk and the network did, in the end every save   *)
(* of every watched game is pushed, for good.                               *)
EventuallyPushed == <>[]AllPushed

(* A ConfigResult that names a path as the one that is watched              *)
(* (protocol.proto, GameConfigResult.resolved_path) is true of its saves.   *)
ResultsTrue ==
    AtRest => \A g \in Game : Enabled(g) /\ results[g] = "ok" =>
        \A f \in Saves(Resolve(cfg[g].path)) :
            watchedDirs[DirOf[f]] = g /\ DirOf[f] \in inotify

(* The path a game no longer has is not watched, and its last events are    *)
(* not taken for those of the new one (daemon_test.go, a change of the      *)
(* path): what is watched for a configured game lies where its              *)
(* configuration says.                                                      *)
OldPathUnwatched ==
    AtRest => \A d \in inotify : LET g == watchedDirs[d] IN
        cfg[g] # None => d \in Matches[cfg[g].path]
=============================================================================
