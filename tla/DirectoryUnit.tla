--------------------------- MODULE DirectoryUnit ----------------------------
(***************************************************************************)
(* A directory unit: a save that is a whole directory tree (one archive    *)
(* per save).  Modelled are the watcher's part (AddDirectoryUnit, dynamic  *)
(* subdirectories and the quiescence timer of internal/watcher/watcher.go) *)
(* and the event loop's (scanDirectoryUnitGame, dispatchDirectoryUnit and  *)
(* the aggregate hash of internal/daemon/daemon.go), for one save root.    *)
(*                                                                         *)
(* A snapshot stands for its aggregate hash and its archive; every         *)
(* directory holds at most one member file.  Parsing and pushing an        *)
(* archive is one step here: module SaveSync has its steps.                *)
(***************************************************************************)
EXTENDS Naturals, Sequences

CONSTANTS
  Dir,         \* directories that may exist
  Root,        \* the save root, which always does
  Parent,      \* the parent of the others
  Content,     \* contents of member files
  None,        \* nothing there, or nothing in hand
  EventCap,    \* capacity of the watcher's event channel
  MaxChanges,  \* bound on the game's changes
  MaxScans,    \* bound on scans and plugin changes
  Timing       \* what is not ruled out: "gap", the tree changes between a
               \* walk over it and the watches; "brief", a directory goes before
               \* the watcher has read that it came; "leftover", a fire survives
               \* Remove; "write", writing to the connection fails

Sub == Dir \ {Root}
Tree == [Dir -> Content \cup {None}]
Work == [stage : {"listed", "read"}, dirs : SUBSET Dir, todo : SUBSET Dir,
         listed : SUBSET Dir, got : Tree]

ASSUME UnitAssumption ==
  /\ Root \in Dir
  /\ Parent \in [Sub -> Dir]
  /\ \A S \in SUBSET Sub : S # {} => \E d \in S : Parent[d] \notin S   \* a tree
  /\ None \notin Content /\ None \notin Tree /\ None \notin Work
  /\ None \notin Nat \X Nat
  /\ EventCap \in Nat \ {0}
  /\ MaxChanges \in Nat /\ MaxScans \in Nat
  /\ Timing \subseteq {"gap", "brief", "leftover", "write"}

VARIABLES
  exists,      \* directories on disk
  member,      \* content of each directory's member file
  changes,     \* changes so far
  inotify,     \* directories with an inotify watch
  notices,     \* fsnotify events waiting for the watcher's loop
  walk,        \* directories handleDirUnitSubdirCreate has walked, to watch
  known,       \* dirUnitRootOf: directories that belong to the unit
  debounce,    \* directories whose member file has an armed debounce timer
  gen,         \* dirUnitGenerations of the root
  entry,       \* the timer in dirUnitTimers: its generation and registration
  running,     \* quiescence timers that have not fired
  locking,     \* fired ones that wait for FSWatcher.mu
  emitting,    \* fired ones that wait for the channel
  events,      \* events of the root in the channel
  registered,  \* watchedDirs holds the root
  scans,       \* scans and plugin changes so far; tells registrations apart
  job,         \* the dispatch the event loop is busy with
  snapHash,    \* dirUnitSnapshotHashes of the root
  offline,     \* the connection broke; announceOnline will rescan
  server,      \* external: the snapshot of the last push
  unsent,      \* history: the snapshot of a push that failed, None if a later
               \* one succeeded
  missed       \* history: directories whose member the dispatch at hand, or the
               \* last one, could not read and takes for gone

diskVars == <<exists, member, changes>>
watchVars == <<inotify, notices, walk, known, debounce>>
timerVars == <<gen, entry, running, locking, emitting, events>>
daemonVars == <<registered, scans, job, snapHash, offline, server, unsent,
                missed>>
vars == <<diskVars, watchVars, timerVars, daemonVars>>

Members == {d \in exists : member[d] # None}
Nothing == [d \in Dir |-> None]

\* d and the existing directories below it: what is in every set that holds d
\* and, with a directory, its children.
Below(d) ==
  {e \in exists : \A S \in SUBSET exists :
     d \in S /\ (\A c \in exists \cap Sub : Parent[c] \in S => c \in S) => e \in S}

\* The tree may not change under a walk that has still to be followed by its
\* watches, nor lose a file nobody watches yet, unless "gap" allows it.
Still(d) ==
  "gap" \in Timing \/ /\ d \notin walk
                      /\ job # None => job.stage # "listed"

Init ==
  /\ exists \in {e \in SUBSET Dir : Root \in e /\
                   \A d \in e \cap Sub : Parent[d] \in e}
  /\ member \in {m \in Tree : \A d \in Dir \ exists : m[d] = None}
  /\ changes = 0
  /\ inotify = {} /\ notices = <<>> /\ walk = {} /\ known = {}
  /\ debounce = {}
  /\ gen = 0 /\ entry = None /\ running = {} /\ locking = {}
  /\ emitting = 0 /\ events = 0
  /\ registered = FALSE /\ scans = 0 /\ job = None /\ snapHash = None
  /\ offline = FALSE /\ server = Nothing /\ unsent = None
  /\ missed = {}

-----------------------------------------------------------------------------
(* The game.                                                               *)

Notify(watched, op, d) ==
  notices' = IF watched THEN Append(notices, <<op, d>>) ELSE notices

WriteMember(d) ==
  /\ changes < MaxChanges
  /\ d \in exists
  /\ member[d] = None => Still(d)
  /\ \E c \in Content \ {member[d]} : member' = [member EXCEPT ![d] = c]
  /\ changes' = changes + 1
  /\ Notify(d \in inotify, "write", d)
  /\ UNCHANGED <<exists, inotify, walk, known, debounce, timerVars, daemonVars>>

DeleteMember(d) ==
  /\ changes < MaxChanges
  /\ d \in Members
  /\ "gap" \in Timing \/ (registered => d \in inotify)
  /\ Still(d)
  /\ member' = [member EXCEPT ![d] = None]
  /\ changes' = changes + 1
  /\ Notify(d \in inotify, "delete", d)
  /\ UNCHANGED <<exists, inotify, walk, known, debounce, timerVars, daemonVars>>

Mkdir(d) ==
  /\ changes < MaxChanges
  /\ d \notin exists /\ Parent[d] \in exists
  /\ Still(Parent[d])
  /\ exists' = exists \cup {d}
  /\ changes' = changes + 1
  /\ Notify(Parent[d] \in inotify, "mkdir", d)
  /\ UNCHANGED <<member, inotify, walk, known, debounce, timerVars, daemonVars>>

Rmdir(d) ==
  /\ changes < MaxChanges
  /\ d \in exists \ Members
  /\ \A e \in exists \cap Sub : Parent[e] # d
  /\ Still(d)
  /\ "brief" \in Timing \/ \A i \in 1..Len(notices) : notices[i] # <<"mkdir", d>>
  /\ exists' = exists \ {d}
  /\ inotify' = inotify \ {d}
  /\ changes' = changes + 1
  /\ Notify({d, Parent[d]} \cap inotify # {}, "rmdir", d)
  /\ UNCHANGED <<member, walk, known, debounce, timerVars, daemonVars>>

-----------------------------------------------------------------------------
(* The watcher: the loop that reads fsnotify, and the timers.              *)

\* Mistake: a fired timer is reset, its fire in flight stays valid.
ScheduleSameGeneration ==
  IF entry # None /\ gen # 0
  THEN /\ running' = running \cup {entry}
       /\ UNCHANGED <<gen, entry>>
  ELSE /\ gen' = gen + 1
       /\ entry' = <<gen + 1, scans>>
       /\ running' = running \cup {<<gen + 1, scans>>}

\* scheduleDirectoryUnitEvent: a running timer is reset; one that has fired
\* is superseded by a new timer of the next generation.
ScheduleUnit ==
  IF entry # None /\ entry \in running
  THEN UNCHANGED <<gen, entry, running>>
  ELSE /\ gen' = gen + 1
       /\ entry' = <<gen + 1, scans>>
       /\ running' = running \cup {<<gen + 1, scans>>}

\* emitChange for a path in directory d: without the unit's bookkeeping it is
\* an event of a directory the daemon does not watch, which it ignores.
EmitChange(d) ==
  IF d \in known THEN ScheduleUnit ELSE UNCHANGED <<gen, entry, running>>

Receive(op, d) ==
  /\ walk = {}
  /\ notices # <<>>
  /\ Head(notices) = <<op, d>>
  /\ notices' = Tail(notices)

HandleWrite(d) ==
  /\ Receive("write", d)
  /\ debounce' = debounce \cup {d}
  /\ UNCHANGED <<diskVars, inotify, walk, known, timerVars, daemonVars>>

\* Mistake: only a change of a member schedules the root's event.
HandleDeleteSilent(d) ==
  /\ Receive("delete", d)
  /\ debounce' = debounce \ {d}
  /\ UNCHANGED <<diskVars, inotify, walk, known, timerVars, daemonVars>>

\* handleRemove of a member file ...
HandleDelete(d) ==
  /\ Receive("delete", d)
  /\ debounce' = debounce \ {d}
  /\ EmitChange(d)
  /\ UNCHANGED <<diskVars, inotify, walk, known, locking, emitting, events,
                 daemonVars>>

\* Mistake: the bookkeeping of a directory outlives it.
HandleRmdirKept(d) ==
  /\ Receive("rmdir", d)
  /\ EmitChange(Parent[d])
  /\ UNCHANGED <<diskVars, inotify, walk, known, debounce, locking, emitting,
                 events, daemonVars>>

\* ... and of a directory.
HandleRmdir(d) ==
  /\ Receive("rmdir", d)
  /\ known' = known \ {d}
  /\ EmitChange(Parent[d])
  /\ UNCHANGED <<diskVars, inotify, walk, debounce, locking, emitting, events,
                 daemonVars>>

\* handleDirUnitSubdirCreate, up to its walk; a path that is gone again is
\* treated like a member file of the parent.
HandleMkdir(d) ==
  /\ Receive("mkdir", d)
  /\ walk' = IF d \in exists \ known /\ Parent[d] \in known THEN Below(d)
             ELSE {}
  /\ debounce' = IF d \in exists THEN debounce ELSE debounce \cup {Parent[d]}
  /\ UNCHANGED <<diskVars, inotify, known, timerVars, daemonVars>>

\* Mistake: member files already in the new directory wait for an event.
AttachNoReplay ==
  /\ walk # {}
  /\ walk' = {}
  /\ IF walk \subseteq exists
     THEN inotify' = inotify \cup walk /\ known' = known \cup walk
     ELSE UNCHANGED <<inotify, known>>
  /\ UNCHANGED <<diskVars, notices, debounce, timerVars, daemonVars>>

\* The rest of it: watch the directories, or none if one is gone, and replay
\* the member files already there.
Attach ==
  /\ walk # {}
  /\ walk' = {}
  /\ IF walk \subseteq exists
     THEN /\ inotify' = inotify \cup walk
          /\ known' = known \cup walk
          /\ debounce' = debounce \cup (walk \cap Members)
     ELSE UNCHANGED <<inotify, known, debounce>>
  /\ UNCHANGED <<diskVars, notices, timerVars, daemonVars>>

\* The debounce timer of a member file: fireDebounced goes straight to the
\* root's quiescence timer.
FireMember(d) ==
  /\ d \in debounce
  /\ debounce' = debounce \ {d}
  /\ EmitChange(d)
  /\ UNCHANGED <<diskVars, inotify, notices, walk, known, locking, emitting,
                 events, daemonVars>>

Expire(t) ==
  /\ t \in running
  /\ running' = running \ {t}
  /\ locking' = locking \cup {t}
  /\ UNCHANGED <<diskVars, watchVars, gen, entry, emitting, events, daemonVars>>

\* Mistake: a timer that has fired stays in the map.
FireUnitKept(t) ==
  /\ t \in locking
  /\ locking' = locking \ {t}
  /\ emitting' = IF t[1] = gen THEN emitting + 1 ELSE emitting
  /\ UNCHANGED <<diskVars, watchVars, gen, entry, running, events, daemonVars>>

\* fireDirectoryUnitEvent: unless superseded, drop the map's entry ...
FireUnit(t) ==
  /\ t \in locking
  /\ locking' = locking \ {t}
  /\ IF t[1] = gen THEN entry' = None /\ emitting' = emitting + 1
     ELSE UNCHANGED <<entry, emitting>>
  /\ UNCHANGED <<diskVars, watchVars, gen, running, events, daemonVars>>

\* ... and queue the event.
EmitUnit ==
  /\ emitting > 0 /\ events < EventCap
  /\ emitting' = emitting - 1
  /\ events' = events + 1
  /\ UNCHANGED <<diskVars, watchVars, gen, entry, running, locking, daemonVars>>

-----------------------------------------------------------------------------
(* The daemon's event loop.                                                *)

Listing(stage) == [stage |-> stage, dirs |-> exists, todo |-> Members,
                   listed |-> Members, got |-> Nothing]

\* handleFileEvent for the root.
HandleUnitEvent ==
  /\ job = None /\ events > 0
  /\ events' = events - 1
  /\ job' = IF registered THEN Listing("read") ELSE None
  /\ missed' = {}
  /\ UNCHANGED <<diskVars, watchVars, gen, entry, running, locking, emitting,
                 registered, scans, snapHash, offline, server, unsent>>

\* scanDirectoryUnitGame lists the members and the directories ...
Scan ==
  /\ job = None /\ ~offline
  /\ scans < MaxScans
  /\ Members # {}
  /\ scans' = scans + 1
  /\ job' = Listing("listed")
  /\ missed' = {}
  /\ UNCHANGED <<diskVars, watchVars, timerVars, registered, snapHash, offline,
                 server, unsent>>

\* ... and watches them (AddDirectoryUnit); a directory that is gone by then
\* undoes the watches, and the dispatch goes on without.
AddDirectoryUnit ==
  /\ job # None /\ job.stage = "listed"
  /\ IF job.dirs \subseteq exists
     THEN /\ inotify' = (inotify \ known) \cup job.dirs
          /\ known' = job.dirs
          /\ registered' = TRUE
     ELSE /\ inotify' = inotify \ job.dirs
          /\ UNCHANGED <<known, registered>>
  /\ job' = [job EXCEPT !.stage = "read"]
  /\ UNCHANGED <<diskVars, notices, walk, debounce, timerVars, scans, snapHash,
                 offline, server, unsent, missed>>

\* rescanQuietDirectoryUnit after a reconnect, and in pluginChanged, which
\* forgets the aggregate hash first.
Reconnect ==
  /\ job = None /\ offline
  /\ offline' = FALSE
  /\ job' = IF registered THEN Listing("read") ELSE None
  /\ missed' = {}
  /\ UNCHANGED <<diskVars, watchVars, timerVars, registered, scans, snapHash,
                 server, unsent>>

PluginChanged ==
  /\ job = None /\ registered
  /\ scans < MaxScans
  /\ scans' = scans + 1
  /\ snapHash' = None
  /\ job' = Listing("read")
  /\ missed' = {}
  /\ UNCHANGED <<diskVars, watchVars, timerVars, registered, offline, server,
                 unsent>>

\* readDirectoryUnitMembers, one member at a time while the game may write; one
\* that is gone, unreadable (the game has it open) or too large is skipped ...
ReadMember(d) ==
  /\ job # None /\ job.stage = "read" /\ d \in job.todo
  /\ \/ /\ job' = [job EXCEPT !.todo = @ \ {d}, !.got[d] = member[d]]
        /\ UNCHANGED missed
     \/ /\ member[d] # None
        /\ job' = [job EXCEPT !.todo = @ \ {d}]
        /\ missed' = missed \cup {d}
  /\ UNCHANGED <<diskVars, watchVars, timerVars, registered, scans, snapHash,
                 offline, server, unsent>>

\* ... and the dispatch gives up when those read so far exceed the total cap.
ExceedCap(d) ==
  /\ job # None /\ job.stage = "read" /\ d \in job.todo
  /\ member[d] # None
  /\ missed' = Dir
  /\ job' = None
  /\ UNCHANGED <<diskVars, watchVars, timerVars, registered, scans, snapHash,
                 offline, server, unsent>>

ReadAll == job # None /\ job.stage = "read" /\ job.todo = {}

\* What the server is not told of: the members that were skipped, or the whole
\* tree when there was nothing left to send.
Skipped == IF job.got = Nothing /\ missed # {} THEN Dir ELSE missed

\* dispatchDirectoryUnit gives up when no listed member could be read, or when
\* the snapshot is the one it dispatched last.
SkipDispatch ==
  /\ ReadAll
  /\ \/ job.listed # {} /\ job.got = Nothing
     \/ job.got = snapHash
  /\ missed' = Skipped
  /\ job' = None
  /\ UNCHANGED <<diskVars, watchVars, timerVars, registered, scans, snapHash,
                 offline, server, unsent>>

\* Otherwise it remembers the hash, then parses and pushes; an archive without
\* members does not parse.  The push may fail, and is dropped while there
\* is no connection.
Dispatch ==
  /\ ReadAll
  /\ job.got # snapHash /\ (job.listed # {} => job.got # Nothing)
  /\ snapHash' = job.got
  /\ \/ job.got = Nothing /\ UNCHANGED <<offline, server, unsent>>
     \/ /\ job.got # Nothing /\ ~offline
        /\ server' = job.got /\ unsent' = None
        /\ UNCHANGED offline
     \/ /\ job.got # Nothing /\ (offline \/ "write" \in Timing)
        /\ offline' = TRUE /\ unsent' = job.got
        /\ UNCHANGED server
  /\ missed' = Skipped
  /\ job' = None
  /\ UNCHANGED <<diskVars, watchVars, timerVars, registered, scans>>

\* unwatchGame and Remove: the watches, the timers in the maps, the counter
\* and the aggregate hash go.
Remove ==
  /\ job = None /\ registered
  /\ \/ "leftover" \in Timing
     \/ walk = {} /\ locking = {} /\ notices = <<>> /\ emitting = 0
  /\ registered' = FALSE
  /\ inotify' = inotify \ known
  /\ known' = {}
  /\ debounce' = debounce \ known
  /\ gen' = 0
  /\ running' = running \ {entry}
  /\ entry' = None
  /\ snapHash' = None
  /\ UNCHANGED <<diskVars, notices, walk, locking, emitting, events, scans, job,
                 offline, server, unsent, missed>>

-----------------------------------------------------------------------------
Loop == \/ \E d \in Dir : HandleWrite(d) \/ HandleDelete(d)
        \/ \E d \in Sub : HandleMkdir(d) \/ HandleRmdir(d)
        \/ Attach

Timers == \/ \E t \in running : Expire(t)
          \/ \E t \in locking : FireUnit(t)
          \/ EmitUnit

Daemon == \/ HandleUnitEvent \/ Reconnect \/ AddDirectoryUnit
          \/ \E d \in Dir : ReadMember(d) \/ ExceedCap(d)
          \/ SkipDispatch \/ Dispatch

Next ==
  \/ \E d \in Dir : WriteMember(d) \/ DeleteMember(d) \/ FireMember(d)
  \/ \E d \in Sub : Mkdir(d) \/ Rmdir(d)
  \/ Loop \/ Timers \/ Daemon
  \/ Scan \/ PluginChanged \/ Remove

Spec == Init /\ [][Next]_vars

\* Goroutines run and timers fire; scans and the game are not obliged.
FairSpec ==
  /\ Spec
  /\ WF_vars(Loop) /\ WF_vars(Timers) /\ WF_vars(Daemon)
  /\ \A d \in Dir : WF_vars(FireMember(d))

-----------------------------------------------------------------------------
(* Properties.                                                             *)

Timer == Nat \X Nat

\* Every variable has its type; a directory that is gone holds nothing, and
\* the timer in the map is of the last generation and not handled yet.
TypeOK ==
  /\ exists \subseteq Dir /\ Root \in exists
  /\ member \in Tree /\ \A d \in Dir \ exists : member[d] = None
  /\ changes \in Nat /\ scans \in Nat
  /\ inotify \subseteq exists /\ known \subseteq Dir /\ debounce \subseteq Dir
  /\ notices \in Seq({"write", "delete", "mkdir", "rmdir"} \X Dir)
  /\ walk \subseteq Dir
  /\ gen \in Nat /\ emitting \in Nat /\ events \in 0..EventCap
  /\ entry \in running \cup locking \cup {None}
  /\ entry # None => entry[1] = gen
  /\ running \subseteq Timer /\ locking \subseteq Timer
  /\ registered \in BOOLEAN /\ offline \in BOOLEAN
  /\ job \in Work \cup {None}
  /\ snapHash \in Tree \cup {None} /\ unsent \in Tree \cup {None}
  /\ server \in Tree /\ missed \subseteq Dir

\* At most one fire may emit, that of the timer in the map: one that was
\* superseded finds its generation gone (the comment of
\* dirUnitGenerations).
SupersededFiresSilent ==
  \A t \in locking : t[1] = gen => t = entry /\ t \notin running

\* Nothing is left to do for the watcher and the event loop.
Quiescent ==
  /\ notices = <<>> /\ walk = {} /\ debounce = {}
  /\ running = {} /\ locking = {} /\ emitting = 0 /\ events = 0
  /\ job = None /\ ~offline

\* Every directory of a watched unit is watched and known as part of it, once
\* the loop has caught up (the comments of AddDirectoryUnit and
\* handleDirUnitSubdirCreate).
TreeWatched ==
  registered /\ notices = <<>> /\ walk = {} /\ job = None =>
    inotify = exists /\ known = exists

\* A snapshot is the tree on disk, but for the members the last dispatch could
\* not read.
Agrees(tree) == \A d \in Dir \ missed : tree[d] = member[d]

\* The server's copy agrees with the tree on disk whenever everything has
\* settled, except for a snapshot whose push failed: files written while they
\* are read, directories that come with files in them and go again, resets of
\* timers that have fired, none of it leaves a change unnoticed, and a member
\* that could not be read costs the snapshot no other one.
SnapshotCurrent ==
  registered /\ Quiescent /\ Members # {} =>
    Agrees(server) \/ (unsent # None /\ Agrees(unsent))

\* A failed push is repeated after the reconnect (docs/daemon.md on the
\* rescan that pushes what changed), and a member that could not be read is
\* read again.  The code has neither: the aggregate hash is remembered first.
ReconnectRepairs ==
  registered /\ Quiescent /\ Members # {} => Agrees(server)

SkippedRepaired ==
  registered /\ Quiescent /\ Members # {} => server = member \/ unsent = member

\* A change to a watched unit reaches the server in the end, members that could
\* not be read left out; a dispatch that is reading may still find some.
EventuallyPushed ==
  <>[](registered /\ Members # {} /\ job = None =>
         Agrees(server) \/ (unsent # None /\ Agrees(unsent)))
=============================================================================
