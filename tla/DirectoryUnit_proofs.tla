------------------------ MODULE DirectoryUnit_proofs ------------------------
(***************************************************************************)
(* Proofs about DirectoryUnit for any tree of directories, any contents    *)
(* and any channel capacity: its type invariant; that of the quiescence    *)
(* timers that have fired at most the one in the map may emit; and, while  *)
(* the watcher keeps up with the tree (Prompt), that every directory of    *)
(* the unit comes to be watched and that its last snapshot is the tree.    *)
(***************************************************************************)
EXTENDS DirectoryUnit, TLAPS

USE UnitAssumption

-----------------------------------------------------------------------------
(* Types.                                                                  *)

\* A notification in the queue.
Notice == {"write", "delete", "mkdir", "rmdir"} \X Dir

LEMMA NotifyType ==
  ASSUME TypeOK, NEW op \in {"write", "delete", "mkdir", "rmdir"},
         NEW d \in Dir, NEW watched \in BOOLEAN, Notify(watched, op, d)
  PROVE  notices' \in Seq(Notice)
<1>1. <<op, d>> \in Notice
  BY DEF Notice
<1>2. notices \in Seq(Notice)
  BY DEF TypeOK, Notice
<1> QED BY <1>1, <1>2 DEF Notify

LEMMA ReceiveType ==
  ASSUME TypeOK, NEW op, NEW d, Receive(op, d)
  PROVE  notices' \in Seq(Notice)
<1>1. notices \in Seq(Notice)
  BY DEF TypeOK, Notice
<1> QED BY <1>1 DEF Receive

\* The two outcomes of scheduling the root's quiescence timer.
TimersType ==
  /\ gen \in Nat
  /\ running \subseteq Timer
  /\ entry \in running \cup locking \cup {None}
  /\ entry # None => entry[1] = gen

LEMMA ScheduleType ==
  ASSUME TypeOK, ScheduleUnit, UNCHANGED locking
  PROVE  TimersType'
<1>1. CASE entry # None /\ entry \in running
  BY <1>1 DEF ScheduleUnit, TypeOK, TimersType
<1>2. CASE ~(entry # None /\ entry \in running)
  <2> DEFINE t == <<gen + 1, scans>>
  <2>1. t \in Timer /\ t[1] = gen + 1 /\ gen + 1 \in Nat
    BY DEF Timer, TypeOK
  <2>2. gen' = gen + 1 /\ entry' = t /\ running' = running \cup {t}
    BY <1>2 DEF ScheduleUnit
  <2> HIDE DEF t
  <2> QED BY <2>1, <2>2 DEF TypeOK, TimersType
<1> QED BY <1>1, <1>2

LEMMA EmitChangeType ==
  ASSUME TypeOK, NEW d, EmitChange(d), UNCHANGED locking
  PROVE  TimersType'
<1>1. CASE d \in known
  BY <1>1, ScheduleType DEF EmitChange
<1>2. CASE d \notin known
  BY <1>2 DEF EmitChange, TypeOK, TimersType
<1> QED BY <1>1, <1>2

LEMMA ListingType ==
  ASSUME TypeOK, NEW stage \in {"listed", "read"}
  PROVE  Listing(stage) \in Work
<1>1. exists \subseteq Dir /\ Members \subseteq Dir
  BY DEF TypeOK, Members
<1>2. Nothing \in Tree
  BY DEF Nothing, Tree
<1> QED BY <1>1, <1>2 DEF Listing, Work

LEMMA ReadType ==
  ASSUME TypeOK, NEW d \in Dir, ReadMember(d)
  PROVE  job' \in Work
<1>1. job \in Work /\ member \in Tree
  BY DEF ReadMember, TypeOK
<1>2. CASE job' = [job EXCEPT !.todo = @ \ {d}, !.got[d] = member[d]]
  BY <1>1, <1>2 DEF Work, Tree
<1>3. CASE job' = [job EXCEPT !.todo = @ \ {d}]
  BY ONLY <1>1, <1>3 DEF Work
<1> QED BY <1>2, <1>3 DEF ReadMember

LEMMA InitUnitType == Init => TypeOK
<1> SUFFICES ASSUME Init PROVE TypeOK
  OBVIOUS
<1>1. Nothing \in Tree
  BY DEF Nothing, Tree
<1>2. notices \in Seq(Notice)
  BY DEF Init
<1>3. /\ exists \subseteq Dir /\ Root \in exists
      /\ member \in Tree /\ \A d \in Dir \ exists : member[d] = None
      /\ inotify = {} /\ known = {} /\ debounce = {} /\ walk = {}
  BY DEF Init
<1>4. /\ changes \in Nat /\ scans \in Nat /\ gen \in Nat /\ emitting \in Nat
      /\ events \in 0..EventCap
  BY DEF Init
<1>5. entry = None /\ running = {} /\ locking = {}
  BY DEF Init
<1>6. /\ registered \in BOOLEAN /\ offline \in BOOLEAN
      /\ job = None /\ snapHash = None /\ unsent = None /\ server = Nothing
      /\ missed = {}
  BY DEF Init
<1> QED BY <1>1, <1>2, <1>3, <1>4, <1>5, <1>6 DEF TypeOK, Notice

\* The parts of TypeOK an action leaves alone together.
DiskType ==
  /\ exists \subseteq Dir /\ Root \in exists
  /\ member \in Tree /\ \A d \in Dir \ exists : member[d] = None
  /\ changes \in Nat

WatchType ==
  /\ inotify \subseteq exists /\ known \subseteq Dir /\ debounce \subseteq Dir
  /\ walk \subseteq Dir
  /\ notices \in Seq(Notice)

QueueType ==
  /\ emitting \in Nat /\ events \in 0..EventCap
  /\ running \subseteq Timer /\ locking \subseteq Timer

DaemonType ==
  /\ registered \in BOOLEAN /\ offline \in BOOLEAN /\ scans \in Nat
  /\ job \in Work \cup {None}
  /\ snapHash \in Tree \cup {None} /\ unsent \in Tree \cup {None}
  /\ server \in Tree /\ missed \subseteq Dir

LEMMA TypeParts ==
  TypeOK <=> DiskType /\ WatchType /\ TimersType /\ QueueType /\ DaemonType
BY DEF TypeOK, DiskType, WatchType, TimersType, QueueType, DaemonType, Notice

LEMMA TypePartsNext ==
  DiskType' /\ WatchType' /\ TimersType' /\ QueueType' /\ DaemonType' => TypeOK'
BY DEF TypeOK, DiskType, WatchType, TimersType, QueueType, DaemonType, Notice

LEMMA DiskSame == DiskType /\ UNCHANGED diskVars => DiskType'
BY DEF DiskType, diskVars

LEMMA WatchSame == WatchType /\ UNCHANGED watchVars /\ UNCHANGED exists => WatchType'
BY DEF WatchType, watchVars

LEMMA TimerSame ==
  TimersType /\ QueueType /\ UNCHANGED timerVars => TimersType' /\ QueueType'
BY DEF TimersType, QueueType, timerVars

LEMMA DaemonSame == DaemonType /\ UNCHANGED daemonVars => DaemonType'
BY DEF DaemonType, daemonVars

LEMMA EmitChangeQueue ==
  ASSUME TypeOK, NEW d, EmitChange(d), UNCHANGED <<locking, emitting, events>>
  PROVE  QueueType'
<1>1. <<gen + 1, scans>> \in Timer
  BY DEF Timer, TypeOK
<1>2. running' \in {running, running \cup {<<gen + 1, scans>>}}
  BY DEF EmitChange, ScheduleUnit
<1> QED BY <1>1, <1>2 DEF QueueType, TypeOK

\* The game.
LEMMA GameType ==
  ASSUME TypeOK, NEW d \in Dir,
         \/ WriteMember(d) \/ DeleteMember(d)
         \/ d \in Sub /\ (Mkdir(d) \/ Rmdir(d))
  PROVE  TypeOK'
<1> USE TypeParts, TypePartsNext
<1>1. timerVars' = timerVars /\ daemonVars' = daemonVars
  BY DEF WriteMember, DeleteMember, Mkdir, Rmdir
<1>2. /\ walk' = walk /\ known' = known /\ debounce' = debounce
      /\ inotify' \subseteq exists' /\ notices' \in Seq(Notice)
  <2>1. CASE WriteMember(d)
    <3>1. /\ Notify(d \in inotify, "write", d)
          /\ UNCHANGED <<exists, inotify, walk, known, debounce>>
      BY <2>1 DEF WriteMember
    <3>2. notices' \in Seq(Notice)
      BY <3>1, NotifyType, (d \in inotify) \in BOOLEAN
    <3> QED BY <3>1, <3>2 DEF TypeOK
  <2>2. CASE DeleteMember(d)
    <3>1. /\ Notify(d \in inotify, "delete", d)
          /\ UNCHANGED <<exists, inotify, walk, known, debounce>>
      BY <2>2 DEF DeleteMember
    <3>2. notices' \in Seq(Notice)
      BY <3>1, NotifyType, (d \in inotify) \in BOOLEAN
    <3> QED BY <3>1, <3>2 DEF TypeOK
  <2>3. CASE Mkdir(d)
    <3>1. /\ Notify(Parent[d] \in inotify, "mkdir", d)
          /\ exists' = exists \cup {d}
          /\ UNCHANGED <<inotify, walk, known, debounce>>
      BY <2>3 DEF Mkdir
    <3>2. notices' \in Seq(Notice)
      BY <3>1, NotifyType, (Parent[d] \in inotify) \in BOOLEAN
    <3> QED BY <3>1, <3>2 DEF TypeOK
  <2>4. CASE Rmdir(d)
    BY <2>4, NotifyType, ({d, Parent[d]} \cap inotify # {}) \in BOOLEAN
       DEF Rmdir, TypeOK
  <2> QED BY <2>1, <2>2, <2>3, <2>4
<1>3. DiskType'
  <2>1. CASE WriteMember(d)
    <3>1. PICK c \in Content : member' = [member EXCEPT ![d] = c]
      BY <2>1 DEF WriteMember
    <3>2. d \in exists /\ exists' = exists /\ changes' = changes + 1
      BY <2>1 DEF WriteMember
    <3> QED BY <3>1, <3>2 DEF TypeOK, DiskType, Tree
  <2>2. CASE DeleteMember(d)
    <3>1. member' = [member EXCEPT ![d] = None]
      BY <2>2 DEF DeleteMember
    <3>2. exists' = exists /\ changes' = changes + 1
      BY <2>2 DEF DeleteMember
    <3> QED BY <3>1, <3>2 DEF TypeOK, DiskType, Tree
  <2>3. CASE Mkdir(d)
    <3>1. exists' = exists \cup {d} /\ member' = member /\ changes' = changes + 1
      BY <2>3 DEF Mkdir
    <3>2. DiskType
      BY TypeParts
    <3> QED BY ONLY <3>1, <3>2, d \in Dir DEF DiskType
  <2>4. CASE d \in Sub /\ Rmdir(d)
    <3>1. member[d] = None /\ d # Root
      BY <2>4 DEF Rmdir, Members, Sub
    <3>2. exists' = exists \ {d} /\ member' = member /\ changes' = changes + 1
      BY <2>4 DEF Rmdir
    <3>3. DiskType
      BY TypeParts
    <3> QED BY ONLY <3>1, <3>2, <3>3 DEF DiskType
  <2> QED BY <2>1, <2>2, <2>3, <2>4
<1>4. WatchType'
  BY <1>2 DEF WatchType
<1> QED BY <1>1, <1>3, <1>4, TimerSame, DaemonSame

\* A path below a directory is a directory.
LEMMA BelowType ==
  ASSUME TypeOK, NEW d PROVE Below(d) \subseteq Dir
BY DEF Below, TypeOK

\* The watcher's loop.
LEMMA LoopType ==
  ASSUME TypeOK, Loop PROVE TypeOK'
<1> USE TypeParts, TypePartsNext
<1>1. CASE \E d \in Dir : HandleWrite(d)
  <2>1. PICK d \in Dir : HandleWrite(d)
    BY <1>1
  <2>2. notices' \in Seq(Notice)
    BY <2>1, ReceiveType DEF HandleWrite
  <2>3. WatchType'
    BY <2>1, <2>2 DEF HandleWrite, WatchType, diskVars
  <2> QED BY <2>1, <2>3, DiskSame, TimerSame, DaemonSame DEF HandleWrite
<1>2. CASE \E d \in Dir : HandleDelete(d)
  <2>1. PICK d \in Dir : HandleDelete(d)
    BY <1>2
  <2>2. notices' \in Seq(Notice)
    BY <2>1, ReceiveType DEF HandleDelete
  <2>3. WatchType'
    BY <2>1, <2>2 DEF HandleDelete, WatchType, diskVars
  <2>4. TimersType'
    BY <2>1, EmitChangeType DEF HandleDelete
  <2>5. QueueType'
    BY <2>1, EmitChangeQueue DEF HandleDelete
  <2> QED BY <2>1, <2>3, <2>4, <2>5, DiskSame, DaemonSame DEF HandleDelete
<1>3. CASE \E d \in Sub : HandleRmdir(d)
  <2>1. PICK d \in Sub : HandleRmdir(d)
    BY <1>3
  <2>2. notices' \in Seq(Notice)
    BY <2>1, ReceiveType DEF HandleRmdir
  <2>3. WatchType'
    BY <2>1, <2>2 DEF HandleRmdir, WatchType, diskVars
  <2>4. TimersType'
    BY <2>1, EmitChangeType DEF HandleRmdir
  <2>5. QueueType'
    BY <2>1, EmitChangeQueue DEF HandleRmdir
  <2> QED BY <2>1, <2>3, <2>4, <2>5, DiskSame, DaemonSame DEF HandleRmdir
<1>4. CASE \E d \in Sub : HandleMkdir(d)
  <2>1. PICK d \in Sub : HandleMkdir(d)
    BY <1>4
  <2>2. notices' \in Seq(Notice)
    BY <2>1, ReceiveType DEF HandleMkdir
  <2>3. Parent[d] \in Dir
    BY <2>1
  <2>4. WatchType'
    BY <2>1, <2>2, <2>3, BelowType DEF HandleMkdir, WatchType, diskVars
  <2> QED BY <2>1, <2>4, DiskSame, TimerSame, DaemonSame DEF HandleMkdir
<1>5. CASE Attach
  <2>1. WatchType'
    BY <1>5 DEF Attach, WatchType, diskVars
  <2> QED BY <1>5, <2>1, DiskSame, TimerSame, DaemonSame DEF Attach
<1> QED BY <1>1, <1>2, <1>3, <1>4, <1>5 DEF Loop

\* The debounce timers of member files and the quiescence timers.
LEMMA TimersStepType ==
  ASSUME TypeOK, (\E d \in Dir : FireMember(d)) \/ Timers PROVE TypeOK'
<1> USE TypeParts, TypePartsNext
<1>1. CASE \E d \in Dir : FireMember(d)
  <2>1. PICK d \in Dir : FireMember(d)
    BY <1>1
  <2>2. WatchType'
    BY <2>1 DEF FireMember, WatchType, diskVars
  <2>3. TimersType'
    BY <2>1, EmitChangeType DEF FireMember
  <2>4. QueueType'
    BY <2>1, EmitChangeQueue DEF FireMember
  <2> QED BY <2>1, <2>2, <2>3, <2>4, DiskSame, DaemonSame DEF FireMember
<1>2. CASE \E t \in running : Expire(t)
  <2>1. TimersType' /\ QueueType'
    BY <1>2 DEF Expire, TimersType, QueueType
  <2> QED BY <1>2, <2>1, DiskSame, WatchSame, DaemonSame DEF Expire, diskVars
<1>3. CASE \E t \in locking : FireUnit(t)
  <2>1. TimersType'
    BY <1>3 DEF FireUnit, TimersType
  <2>2. QueueType'
    BY <1>3 DEF FireUnit, QueueType
  <2> QED BY <1>3, <2>1, <2>2, DiskSame, WatchSame, DaemonSame
          DEF FireUnit, diskVars
<1>4. CASE EmitUnit
  <2>1. TimersType'
    BY <1>4 DEF EmitUnit, TimersType
  <2>2. QueueType'
    BY <1>4 DEF EmitUnit, QueueType
  <2> QED BY <1>4, <2>1, <2>2, DiskSame, WatchSame, DaemonSame
          DEF EmitUnit, diskVars
<1> QED BY <1>1, <1>2, <1>3, <1>4 DEF Timers

\* The event loop and the scans, plugin changes and removals it serves.
LEMMA DaemonStepType ==
  ASSUME TypeOK, Daemon \/ Scan \/ PluginChanged \/ Remove PROVE TypeOK'
<1> USE TypeParts, TypePartsNext
<1>1. CASE HandleUnitEvent
  <2>1. TimersType'
    BY <1>1 DEF HandleUnitEvent, TimersType
  <2>2. QueueType'
    BY <1>1 DEF HandleUnitEvent, QueueType
  <2>3. job' \in Work \cup {None}
    BY <1>1, ListingType DEF HandleUnitEvent
  <2>4. DaemonType'
    BY <1>1, <2>3 DEF HandleUnitEvent, DaemonType
  <2> QED BY <1>1, <2>1, <2>2, <2>4, DiskSame, WatchSame
          DEF HandleUnitEvent, diskVars
<1>2. CASE Reconnect
  <2>1. job' \in Work \cup {None}
    BY <1>2, ListingType DEF Reconnect
  <2>2. DaemonType'
    BY <1>2, <2>1 DEF Reconnect, DaemonType
  <2> QED BY <1>2, <2>2, DiskSame, WatchSame, TimerSame DEF Reconnect, diskVars
<1>3. CASE AddDirectoryUnit
  <2>1. job \in Work
    BY <1>3 DEF AddDirectoryUnit, DaemonType
  <2>2. job.dirs \subseteq Dir /\ job' \in Work
    BY <1>3, <2>1 DEF AddDirectoryUnit, Work
  <2>3. DaemonType'
    BY <1>3, <2>2 DEF AddDirectoryUnit, DaemonType
  <2>4. /\ inotify' \subseteq exists' /\ known' \subseteq Dir
        /\ UNCHANGED <<debounce, walk, notices>>
    BY <1>3, <2>2 DEF AddDirectoryUnit, WatchType, diskVars
  <2>5. WatchType'
    BY <2>4 DEF WatchType
  <2> QED BY <1>3, <2>3, <2>5, DiskSame, TimerSame DEF AddDirectoryUnit
<1>4. CASE \E d \in Dir : ReadMember(d)
  <2>1. PICK d \in Dir : ReadMember(d)
    BY <1>4
  <2>4. job' \in Work
    BY <2>1, ReadType
  <2>5. missed' \subseteq Dir
    BY <2>1 DEF ReadMember, DaemonType
  <2>6. DaemonType'
    BY <2>1, <2>4, <2>5 DEF ReadMember, DaemonType
  <2> QED BY <2>1, <2>6, DiskSame, WatchSame, TimerSame DEF ReadMember, diskVars
<1>10. CASE \E d \in Dir : ExceedCap(d)
  <2>1. PICK d \in Dir : ExceedCap(d)
    BY <1>10
  <2>2. DaemonType'
    BY <2>1 DEF ExceedCap, DaemonType
  <2> QED BY <2>1, <2>2, DiskSame, WatchSame, TimerSame DEF ExceedCap, diskVars
<1>5. CASE SkipDispatch
  <2>1. DaemonType'
    BY <1>5 DEF SkipDispatch, Skipped, DaemonType
  <2> QED BY <1>5, <2>1, DiskSame, WatchSame, TimerSame
          DEF SkipDispatch, diskVars
<1>6. CASE Dispatch
  <2>1. job.got \in Tree
    BY <1>6 DEF Dispatch, ReadAll, DaemonType, Work
  <2>2. /\ snapHash' \in Tree \cup {None} /\ unsent' \in Tree \cup {None}
        /\ server' \in Tree /\ offline' \in BOOLEAN
        /\ job' = None /\ UNCHANGED <<registered, scans>>
        /\ missed' \subseteq Dir
    BY <1>6, <2>1 DEF Dispatch, Skipped, DaemonType
  <2>3. DaemonType'
    BY <2>2 DEF DaemonType
  <2> QED BY <1>6, <2>3, DiskSame, WatchSame, TimerSame DEF Dispatch, diskVars
<1>7. CASE Scan
  <2>1. job' \in Work
    BY <1>7, ListingType DEF Scan
  <2>2. DaemonType'
    BY <1>7, <2>1 DEF Scan, DaemonType
  <2> QED BY <1>7, <2>2, DiskSame, WatchSame, TimerSame DEF Scan, diskVars
<1>8. CASE PluginChanged
  <2>1. job' \in Work
    BY <1>8, ListingType DEF PluginChanged
  <2>2. DaemonType'
    BY <1>8, <2>1 DEF PluginChanged, DaemonType
  <2> QED BY <1>8, <2>2, DiskSame, WatchSame, TimerSame
          DEF PluginChanged, diskVars
<1>9. CASE Remove
  <2>1. WatchType'
    BY <1>9 DEF Remove, WatchType, diskVars
  <2>2. TimersType'
    BY <1>9 DEF Remove, TimersType
  <2>3. QueueType'
    BY <1>9 DEF Remove, QueueType
  <2>4. DaemonType'
    BY <1>9 DEF Remove, DaemonType
  <2> QED BY <1>9, <2>1, <2>2, <2>3, <2>4, DiskSame DEF Remove
<1> QED BY <1>1, <1>2, <1>3, <1>4, <1>5, <1>6, <1>7, <1>8, <1>9,
          <1>10 DEF Daemon

LEMMA NextUnitType == TypeOK /\ [Next]_vars => TypeOK'
<1> SUFFICES ASSUME TypeOK, [Next]_vars PROVE TypeOK'
  OBVIOUS
<1>1. CASE \E d \in Dir : WriteMember(d) \/ DeleteMember(d)
  BY <1>1, GameType
<1>2. CASE \E d \in Sub : Mkdir(d) \/ Rmdir(d)
  BY <1>2, GameType DEF Sub
<1>3. CASE Loop
  BY <1>3, LoopType
<1>4. CASE (\E d \in Dir : FireMember(d)) \/ Timers
  BY <1>4, TimersStepType
<1>5. CASE Daemon \/ Scan \/ PluginChanged \/ Remove
  BY <1>5, DaemonStepType
<1>6. CASE UNCHANGED vars
  BY <1>6, TypeParts, TypePartsNext, DiskSame, WatchSame, TimerSame, DaemonSame
     DEF vars, diskVars
<1> QED BY <1>1, <1>2, <1>3, <1>4, <1>5, <1>6 DEF Next

\* The type invariant of the watcher, the timers and the event loop of a
\* directory unit, with what it says of directories that are gone and of the
\* timer in dirUnitTimers.
THEOREM UnitTypeCorrect == Spec => []TypeOK
BY InitUnitType, NextUnitType, PTL DEF Spec

-----------------------------------------------------------------------------
(* The generations of the quiescence timer.                                *)

\* Only the timer in the map runs, and no fire is of a later generation than
\* the counter.  Without the last part a new timer could take the generation
\* of a fire that waits for the lock.
TimerInv ==
  /\ running \subseteq {entry}
  /\ \A t \in locking : t[1] <= gen
  /\ SupersededFiresSilent

LEMMA ScheduleInv ==
  ASSUME TypeOK, TimerInv, ScheduleUnit, UNCHANGED locking
  PROVE  TimerInv'
<1>1. CASE entry # None /\ entry \in running
  BY <1>1 DEF ScheduleUnit, TimerInv, SupersededFiresSilent
<1>2. CASE ~(entry # None /\ entry \in running)
  <2> DEFINE new == <<gen + 1, scans>>
  <2>1. gen' = gen + 1 /\ entry' = new /\ running' = running \cup {new}
    BY <1>2 DEF ScheduleUnit
  <2>2. running = {}
    BY <1>2 DEF TimerInv, TypeOK, Timer
  <2>3. \A t \in locking : t[1] \in Nat /\ t[1] <= gen
    BY DEF TimerInv, TypeOK, Timer
  <2>4. \A t \in locking : t[1] <= gen + 1 /\ t[1] # gen + 1
    BY <2>3 DEF TypeOK
  <2> HIDE DEF new
  <2> QED BY <2>1, <2>2, <2>4 DEF TimerInv, SupersededFiresSilent
<1> QED BY <1>1, <1>2

LEMMA EmitChangeInv ==
  ASSUME TypeOK, TimerInv, NEW d, EmitChange(d), UNCHANGED locking
  PROVE  TimerInv'
<1>1. CASE d \in known
  BY <1>1, ScheduleInv DEF EmitChange
<1>2. CASE d \notin known
  BY <1>2 DEF EmitChange, TimerInv, SupersededFiresSilent
<1> QED BY <1>1, <1>2

LEMMA TimerInvSame ==
  TimerInv /\ UNCHANGED <<gen, entry, running, locking>> => TimerInv'
BY DEF TimerInv, SupersededFiresSilent

LEMMA NextTimerInv ==
  ASSUME "leftover" \notin Timing, TypeOK, TimerInv, [Next]_vars
  PROVE  TimerInv'
<1>1. CASE \E d \in Dir : HandleDelete(d) \/ FireMember(d)
  BY <1>1, EmitChangeInv DEF HandleDelete, FireMember
<1>2. CASE \E d \in Sub : HandleRmdir(d)
  BY <1>2, EmitChangeInv DEF HandleRmdir
<1>3. CASE \E t \in running : Expire(t)
  <2>1. PICK t \in running : Expire(t)
    BY <1>3
  <2>2. t = entry /\ t[1] = gen /\ gen \in Nat
    BY <2>1 DEF TimerInv, TypeOK, Timer
  <2>3. /\ running' = {} /\ locking' = locking \cup {t}
        /\ UNCHANGED <<gen, entry>>
    BY <2>1 DEF Expire, TimerInv
  <2> QED BY <2>2, <2>3 DEF TimerInv, SupersededFiresSilent
<1>4. CASE \E t \in locking : FireUnit(t)
  <2>1. PICK t \in locking : FireUnit(t)
    BY <1>4
  <2>2. locking' = locking \ {t} /\ UNCHANGED <<gen, running>>
    BY <2>1 DEF FireUnit
  <2>3. CASE t[1] = gen
    <3>1. t = entry /\ running = {}
      BY <2>1, <2>3 DEF TimerInv, SupersededFiresSilent
    <3>2. \A u \in locking' : u[1] <= gen /\ u[1] # gen
      BY <2>2, <2>3, <3>1 DEF TimerInv, SupersededFiresSilent
    <3> QED BY <2>2, <3>1, <3>2 DEF TimerInv, SupersededFiresSilent
  <2>4. CASE t[1] # gen
    <3>1. entry' = entry
      BY <2>1, <2>4 DEF FireUnit
    <3> QED BY <2>2, <3>1 DEF TimerInv, SupersededFiresSilent
  <2> QED BY <2>3, <2>4
<1>5. CASE Remove
  <2>1. locking' = {} /\ running' = {}
    BY <1>5 DEF Remove, TimerInv
  <2> QED BY <2>1 DEF TimerInv, SupersededFiresSilent
<1>6. CASE \E d \in Dir : WriteMember(d) \/ DeleteMember(d)
  BY <1>6, TimerInvSame DEF WriteMember, DeleteMember, timerVars
<1>7. CASE \E d \in Sub : Mkdir(d) \/ Rmdir(d)
  BY <1>7, TimerInvSame DEF Mkdir, Rmdir, timerVars
<1>8. CASE (\E d \in Dir : HandleWrite(d)) \/ (\E d \in Sub : HandleMkdir(d)) \/ Attach
  BY <1>8, TimerInvSame DEF HandleWrite, HandleMkdir, Attach, timerVars
<1>9. CASE EmitUnit \/ HandleUnitEvent \/ Reconnect \/ AddDirectoryUnit
  BY <1>9, TimerInvSame
     DEF EmitUnit, HandleUnitEvent, Reconnect, AddDirectoryUnit, timerVars
<1>10. CASE (\E d \in Dir : ReadMember(d) \/ ExceedCap(d)) \/ SkipDispatch \/ Dispatch
  BY <1>10, TimerInvSame DEF ReadMember, ExceedCap, SkipDispatch, Dispatch, timerVars
<1>11. CASE Scan \/ PluginChanged
  BY <1>11, TimerInvSame DEF Scan, PluginChanged, timerVars
<1>12. CASE UNCHANGED vars
  BY <1>12, TimerInvSame DEF vars, timerVars
<1> QED BY <1>1, <1>2, <1>3, <1>4, <1>5, <1>6, <1>7, <1>8, <1>9, <1>10,
           <1>11, <1>12
        DEF Next, Loop, Timers, Daemon

\* Of the quiescence timers that have fired and wait for the watcher's lock,
\* at most the one in dirUnitTimers emits the root's event, whatever the tree
\* and however often the timer is reset, as long as no fire outlives Remove.
THEOREM SupersededSilent ==
  ASSUME "leftover" \notin Timing PROVE Spec => []SupersededFiresSilent
<1>1. Init => TimerInv
  BY DEF Init, TimerInv, SupersededFiresSilent
<1>2. TypeOK /\ TimerInv /\ [Next]_vars => TimerInv'
  BY NextTimerInv
<1>3. TimerInv => SupersededFiresSilent
  BY DEF TimerInv
<1> QED BY <1>1, <1>2, <1>3, UnitTypeCorrect, PTL DEF Spec

-----------------------------------------------------------------------------
(* The queue of notifications.  A step appends one, takes the first, or     *)
(* leaves the queue alone.                                                  *)

Pending(op, d) == \E i \in 1..Len(notices) : notices[i] = <<op, d>>
After(i, op, d) == \E k \in i+1..Len(notices) : notices[k] = <<op, d>>

\* The last that happened to d is that it was made.
Fresh(d) ==
  \E i \in 1..Len(notices) :
    notices[i] = <<"mkdir", d>> /\ \A k \in i+1..Len(notices) : notices[k] # <<"rmdir", d>>

Appended(n) ==
  /\ Len(notices) \in Nat /\ Len(notices') = Len(notices) + 1
  /\ \A i \in 1..Len(notices) : notices'[i] = notices[i]
  /\ notices'[Len(notices) + 1] = n

Taken(n) ==
  /\ Len(notices) \in Nat \ {0} /\ Len(notices') = Len(notices) - 1
  /\ \A i \in 1..Len(notices') : notices'[i] = notices[i + 1]
  /\ notices[1] = n

Queued(n) == Appended(n) \/ Taken(n) \/ (Len(notices) \in Nat /\ notices' = notices)

LEMMA NotifyQueue ==
  ASSUME TypeOK, NEW op \in {"write", "delete", "mkdir", "rmdir"},
         NEW d \in Dir, NEW watched \in BOOLEAN, Notify(watched, op, d)
  PROVE  /\ watched => Appended(<<op, d>>)
         /\ ~watched => notices' = notices
         /\ Queued(<<op, d>>)
<1>1. notices \in Seq(Notice) /\ <<op, d>> \in Notice
  BY DEF TypeOK, Notice
<1>2. Len(notices) \in Nat
  BY <1>1
<1>3. CASE watched
  <2> DEFINE n == <<op, d>>
  <2>1. notices' = Append(notices, n) /\ n \in Notice
    BY <1>1, <1>3 DEF Notify
  <2> HIDE DEF n
  <2>2. Appended(n)
    BY <1>1, <1>2, <2>1 DEF Appended
  <2> QED BY <1>3, <2>2 DEF Queued, n
<1>4. CASE ~watched
  BY <1>2, <1>4 DEF Notify, Queued
<1> QED BY <1>3, <1>4

LEMMA ReceiveQueue ==
  ASSUME TypeOK, NEW op, NEW d, Receive(op, d)
  PROVE  Taken(<<op, d>>) /\ Queued(<<op, d>>) /\ walk = {}
<1>1. notices \in Seq(Notice) /\ notices # <<>>
  BY DEF TypeOK, Notice, Receive
<1>2. notices' = Tail(notices) /\ Head(notices) = <<op, d>> /\ walk = {}
  BY DEF Receive
<1>3. Len(notices) \in Nat \ {0} /\ Head(notices) = notices[1]
  BY <1>1
<1>4. Len(notices') = Len(notices) - 1
      /\ \A i \in 1..Len(notices') : notices'[i] = notices[i + 1]
  BY <1>1, <1>2, <1>3
<1> QED BY <1>2, <1>3, <1>4 DEF Taken, Queued

LEMMA QueueSame ==
  ASSUME TypeOK, notices' = notices, NEW n PROVE Queued(n)
<1>1. Len(notices) \in Nat
  BY DEF TypeOK
<1> QED BY <1>1 DEF Queued

\* What is pending after a step.
LEMMA PendingStep ==
  ASSUME NEW n, Queued(n), NEW op, NEW d
  PROVE  /\ Pending(op, d) => Pending(op, d)' \/ (Taken(n) /\ n = <<op, d>>)
         /\ Pending(op, d)' => Pending(op, d) \/ (Appended(n) /\ n = <<op, d>>)
         /\ Appended(n) => Pending(n[1], n[2])' \/ n # <<n[1], n[2]>>
<1>1. CASE Appended(n)
  <2>1. Len(notices) + 1 \in 1..Len(notices')
    BY <1>1 DEF Appended
  <2>2. \A i \in 1..Len(notices) : i \in 1..Len(notices')
    BY <1>1 DEF Appended
  <2>3. \A i \in 1..Len(notices') : i \in 1..Len(notices) \/ i = Len(notices) + 1
    BY <1>1 DEF Appended
  <2> QED BY <1>1, <2>1, <2>2, <2>3 DEF Appended, Pending
<1>2. CASE Taken(n)
  <2>1. ASSUME NEW i \in 1..Len(notices), i # 1
        PROVE  i - 1 \in 1..Len(notices') /\ notices'[i - 1] = notices[i]
    BY <1>2, <2>1 DEF Taken
  <2>2. \A i \in 1..Len(notices') : i + 1 \in 1..Len(notices)
    BY <1>2 DEF Taken
  <2>3. ~Appended(n)
    BY <1>2 DEF Taken, Appended
  <2>4. Pending(op, d)' => Pending(op, d)
    BY <1>2, <2>2 DEF Taken, Pending
  <2>5. ASSUME Pending(op, d), n # <<op, d>> PROVE Pending(op, d)'
    <3>1. PICK i \in 1..Len(notices) : notices[i] = <<op, d>>
      BY <2>5 DEF Pending
    <3>2. i # 1
      BY <1>2, <2>5, <3>1 DEF Taken
    <3> QED BY <2>1, <3>1, <3>2 DEF Pending
  <2> QED BY <1>2, <2>3, <2>4, <2>5
<1>3. CASE Len(notices) \in Nat /\ notices' = notices
  <2>1. ~Appended(n)
    BY <1>3 DEF Appended
  <2> QED BY <1>3, <2>1 DEF Pending
<1> QED BY <1>1, <1>2, <1>3 DEF Queued

\* What happened last to a directory that was made, after a step.
LEMMA FreshStep ==
  ASSUME NEW n, Queued(n), NEW d
  PROVE  /\ Fresh(d) => \/ Fresh(d)'
                        \/ Appended(n) /\ n = <<"rmdir", d>>
                        \/ Taken(n) /\ n = <<"mkdir", d>> /\ ~Pending("rmdir", d)'
         /\ Appended(n) /\ n = <<"mkdir", d>> => Fresh(d)'
<1>1. CASE Appended(n)
  <2>1. ASSUME Fresh(d), n # <<"rmdir", d>> PROVE Fresh(d)'
    <3>1. PICK i \in 1..Len(notices) :
            notices[i] = <<"mkdir", d>> /\ \A k \in i+1..Len(notices) : notices[k] # <<"rmdir", d>>
      BY <2>1 DEF Fresh
    <3>2. i \in 1..Len(notices') /\ notices'[i] = <<"mkdir", d>>
      BY <1>1, <3>1 DEF Appended
    <3>3. \A k \in i+1..Len(notices') : k \in i+1..Len(notices) \/ k = Len(notices) + 1
      BY <1>1 DEF Appended
    <3>4. \A k \in i+1..Len(notices) : notices'[k] = notices[k]
      BY <1>1 DEF Appended
    <3>5. notices'[Len(notices) + 1] # <<"rmdir", d>>
      BY <1>1, <2>1 DEF Appended
    <3>6. \A k \in i+1..Len(notices') : notices'[k] # <<"rmdir", d>>
      BY <3>1, <3>3, <3>4, <3>5
    <3> QED BY <3>2, <3>6 DEF Fresh
  <2>2. ASSUME n = <<"mkdir", d>> PROVE Fresh(d)'
    <3>1. Len(notices) + 1 \in 1..Len(notices') /\ notices'[Len(notices) + 1] = <<"mkdir", d>>
      BY <1>1, <2>2 DEF Appended
    <3>2. \A k \in Len(notices) + 1 + 1..Len(notices') : FALSE
      BY <1>1 DEF Appended
    <3> QED BY <3>1, <3>2 DEF Fresh
  <2> QED BY <1>1, <2>1, <2>2
<1>2. CASE Taken(n)
  <2>1. ASSUME Fresh(d) PROVE Fresh(d)' \/ (n = <<"mkdir", d>> /\ ~Pending("rmdir", d)')
    <3>1. PICK i \in 1..Len(notices) :
            notices[i] = <<"mkdir", d>> /\ \A k \in i+1..Len(notices) : notices[k] # <<"rmdir", d>>
      BY <2>1 DEF Fresh
    <3>2. CASE i = 1
      <4>1. n = <<"mkdir", d>>
        BY <1>2, <3>1, <3>2 DEF Taken
      <4>2. \A k \in 1..Len(notices') : k + 1 \in i+1..Len(notices) /\ notices'[k] = notices[k + 1]
        BY <1>2, <3>2 DEF Taken
      <4> QED BY <3>1, <4>1, <4>2 DEF Pending
    <3>3. CASE i # 1
      <4>1. i - 1 \in 1..Len(notices') /\ notices'[i - 1] = <<"mkdir", d>>
        BY <1>2, <3>1, <3>3 DEF Taken
      <4>2. \A k \in i - 1 + 1..Len(notices') :
               k + 1 \in i+1..Len(notices) /\ notices'[k] = notices[k + 1]
        BY <1>2, <3>3 DEF Taken
      <4> QED BY <3>1, <4>1, <4>2 DEF Fresh
    <3> QED BY <3>2, <3>3
  <2>2. ~Appended(n)
    BY <1>2 DEF Taken, Appended
  <2> QED BY <1>2, <2>1, <2>2
<1>3. CASE Len(notices) \in Nat /\ notices' = notices
  <2>1. ~Appended(n)
    BY <1>3 DEF Appended
  <2> QED BY <1>3, <2>1 DEF Fresh
<1> QED BY <1>1, <1>2, <1>3 DEF Queued

\* A place in the queue after a step is one from before, with what followed
\* it, or that of the new notification.
LEMMA PlaceStep ==
  ASSUME NEW n, Queued(n), NEW j \in 1..Len(notices')
  PROVE  \/ Appended(n) /\ j = Len(notices') /\ notices'[j] = n
         \/ \E i \in 1..Len(notices) :
              /\ notices'[j] = notices[i]
              /\ Taken(n) => i # 1
              /\ \A op, d : After(i, op, d) => After(j, op, d)'
              /\ Appended(n) => After(j, n[1], n[2])' \/ n # <<n[1], n[2]>>
<1>1. CASE Appended(n)
  <2>1. CASE j = Len(notices) + 1
    BY <1>1, <2>1 DEF Appended
  <2>2. CASE j # Len(notices) + 1
    <3>1. j \in 1..Len(notices) /\ notices'[j] = notices[j]
      BY <1>1, <2>2 DEF Appended
    <3>2. \A k \in j+1..Len(notices) : k \in j+1..Len(notices') /\ notices'[k] = notices[k]
      BY <1>1 DEF Appended
    <3>3. Len(notices) + 1 \in j+1..Len(notices') /\ notices'[Len(notices) + 1] = n
      BY <1>1, <3>1 DEF Appended
    <3>4. \A op, d : After(j, op, d) => After(j, op, d)'
      BY <3>2 DEF After
    <3>5. After(j, n[1], n[2])' \/ n # <<n[1], n[2]>>
      BY <3>3 DEF After
    <3>6. ~Taken(n)
      BY <1>1 DEF Taken, Appended
    <3> QED BY <3>1, <3>4, <3>5, <3>6
  <2> QED BY <2>1, <2>2
<1>2. CASE Taken(n)
  <2>1. j + 1 \in 1..Len(notices) /\ notices'[j] = notices[j + 1] /\ j + 1 # 1
    BY <1>2 DEF Taken
  <2>2. \A k \in j+1+1..Len(notices) : k - 1 \in j+1..Len(notices') /\ notices'[k - 1] = notices[k]
    BY <1>2 DEF Taken
  <2>3. \A op, d : After(j + 1, op, d) => After(j, op, d)'
    BY <2>2 DEF After
  <2>4. ~Appended(n)
    BY <1>2 DEF Taken, Appended
  <2> QED BY <2>1, <2>3, <2>4
<1>3. CASE Len(notices) \in Nat /\ notices' = notices
  <2>1. ~Appended(n) /\ ~Taken(n)
    BY <1>3 DEF Appended, Taken
  <2>2. \A op, d : After(j, op, d) => After(j, op, d)'
    BY <1>3 DEF After
  <2> QED BY <1>3, <2>1, <2>2
<1> QED BY <1>1, <1>2, <1>3 DEF Queued

LEMMA RmdirPlace ==
  ASSUME NEW n, Queued(n), NEW d \in Dir, NEW j \in 1..Len(notices'),
         notices'[j] = <<"rmdir", d>>
  PROVE  \/ Appended(n) /\ n = <<"rmdir", d>>
         \/ \E i \in 1..Len(notices) :
              /\ notices[i] = <<"rmdir", d>>
              /\ Taken(n) => i # 1
              /\ \A e \in Dir : After(i, "rmdir", e) => After(j, "rmdir", e)'
              /\ \A e \in Dir : Appended(n) /\ n = <<"rmdir", e>> => After(j, "rmdir", e)'
<1>1. \/ Appended(n) /\ j = Len(notices') /\ notices'[j] = n
      \/ \E i \in 1..Len(notices) :
           /\ notices'[j] = notices[i]
           /\ Taken(n) => i # 1
           /\ \A o, c : After(i, o, c) => After(j, o, c)'
           /\ Appended(n) => After(j, n[1], n[2])' \/ n # <<n[1], n[2]>>
  BY PlaceStep
<1>2. ASSUME NEW e \in Dir, n = <<"rmdir", e>> PROVE n[1] = "rmdir" /\ n[2] = e
  BY <1>2
<1> QED BY <1>1, <1>2

-----------------------------------------------------------------------------
(* The tree of watched directories.                                         *)

\* What this section and the next exclude: a tree that changes under a walk, a
\* fire that outlives Remove, and, unless no directory is nested in another
\* below the root, one that goes before the watcher has read that it came.
Prompt ==
  /\ "gap" \notin Timing /\ "leftover" \notin Timing
  /\ "brief" \notin Timing \/ \A d \in Sub : Parent[d] = Root

\* Not watched as part of the unit; about to be so, or no longer.
Adrift(d) == d \notin walk /\ (d \notin inotify \/ d \notin known)
Loose(d) == Pending("rmdir", d) \/ Adrift(d)

DiskInv == \A d \in exists \cap Sub : Parent[d] \in exists

RootInv ==
  /\ registered => Root \in inotify /\ Root \in known
  /\ ~Pending("mkdir", Root) /\ ~Pending("rmdir", Root)

\* Whoever reported a new directory is still watched.
MadeInv ==
  \A d \in Sub : Pending("mkdir", d) =>
    Parent[d] \in inotify /\ ("brief" \in Timing \/ d \in exists)

\* The watches form a tree, with those that a walk leads to.
UpInv == \A d \in inotify \cap Sub : Parent[d] \in inotify
WalkInv ==
  walk \subseteq exists /\ \A d \in walk \cap Sub : Parent[d] \in walk \cup inotify

\* The bookkeeping outlives a watch until the removal is read.
KnownInv == \A d \in known : d \notin inotify => Pending("rmdir", d)

\* A directory made again after its removal, which is still to be read, was
\* reported; if not, its parent was removed too.
SilentInv ==
  \A d \in Sub : \A j \in 1..Len(notices) : notices[j] = <<"rmdir", d>> =>
    Parent[d] \in inotify \/ After(j, "rmdir", Parent[d])
RemadeInv ==
  \A d \in exists \cap Sub : \A j \in 1..Len(notices) : notices[j] = <<"rmdir", d>> =>
    Fresh(d) \/ After(j, "rmdir", Parent[d])

\* A directory that is adrift was reported, or its parent is loose: the report
\* of the topmost of them brings them all in.
LooseInv ==
  registered =>
    \A d \in exists \cap Sub : Adrift(d) => Fresh(d) \/ Loose(Parent[d])

Shape == /\ DiskInv /\ RootInv /\ MadeInv /\ UpInv /\ WalkInv /\ KnownInv
         /\ SilentInv /\ RemadeInv /\ LooseInv

\* A step of members or contents, or of no notification at all.
LEMMA QuietShape ==
  ASSUME TypeOK, NEW op \in {"write", "delete"}, NEW d, Queued(<<op, d>>), Shape,
         UNCHANGED <<exists, inotify, walk, known, registered>>
  PROVE  Shape'
<1> DEFINE n == <<op, d>>
<1>0. Queued(n)
  OBVIOUS
<1>1. \A o \in {"mkdir", "rmdir"}, e \in Dir : n # <<o, e>>
  OBVIOUS
<1> HIDE DEF n
<1>2. \A o \in {"mkdir", "rmdir"}, e \in Dir : Pending(o, e)' <=> Pending(o, e)
  BY <1>0, <1>1, PendingStep
<1>3. \A e \in Dir : Fresh(e) => Fresh(e)'
  BY <1>0, <1>1, FreshStep
<1>4. ASSUME NEW e \in Dir, NEW j \in 1..Len(notices'), notices'[j] = <<"rmdir", e>>
      PROVE  \E i \in 1..Len(notices) :
               notices[i] = <<"rmdir", e>>
               /\ \A c \in Dir : After(i, "rmdir", c) => After(j, "rmdir", c)'
  BY <1>0, <1>1, <1>4, RmdirPlace
<1>5. \A e \in Dir : Loose(e)' <=> Loose(e)
  BY <1>2 DEF Loose, Adrift
<1>6. \A e \in Sub : e \in Dir /\ Parent[e] \in Dir
  BY DEF Sub
<1>7. DiskInv' /\ UpInv' /\ WalkInv'
  BY DEF Shape, DiskInv, UpInv, WalkInv
<1>8. RootInv' /\ MadeInv' /\ KnownInv'
  BY <1>2, <1>6 DEF Shape, RootInv, MadeInv, KnownInv, TypeOK
<1>9. SilentInv'
  <2> SUFFICES ASSUME NEW e \in Sub, NEW j \in 1..Len(notices'), notices'[j] = <<"rmdir", e>>
               PROVE  Parent[e] \in inotify' \/ After(j, "rmdir", Parent[e])'
    BY DEF SilentInv
  <2> QED BY <1>4, <1>6 DEF Shape, SilentInv
<1>10. RemadeInv'
  <2> SUFFICES ASSUME NEW e \in exists \cap Sub, NEW j \in 1..Len(notices'),
                      notices'[j] = <<"rmdir", e>>
               PROVE  Fresh(e)' \/ After(j, "rmdir", Parent[e])'
    BY DEF RemadeInv
  <2> QED BY <1>3, <1>4, <1>6 DEF Shape, RemadeInv
<1>11. LooseInv'
  BY <1>3, <1>5, <1>6 DEF Shape, LooseInv, Adrift
<1> QED BY <1>7, <1>8, <1>9, <1>10, <1>11 DEF Shape

\* What lies below a directory: itself, and with a directory its children and
\* nothing from elsewhere.
LEMMA BelowTree ==
  ASSUME TypeOK, NEW d \in exists
  PROVE  /\ d \in Below(d) /\ Below(d) \subseteq exists
         /\ \A e \in exists \cap Sub : Parent[e] \in Below(d) => e \in Below(d)
         /\ \A e \in Below(d) \cap Sub : e = d \/ Parent[e] \in Below(d)
<1>1. d \in Below(d) /\ Below(d) \subseteq exists
  BY DEF Below
<1>2. ASSUME NEW e \in exists \cap Sub, Parent[e] \in Below(d) PROVE e \in Below(d)
  <2>1. ASSUME NEW S \in SUBSET exists, d \in S,
               \A c \in exists \cap Sub : Parent[c] \in S => c \in S
        PROVE  e \in S
    <3>1. Parent[e] \in S
      BY <1>2, <2>1 DEF Below
    <3> QED BY <1>2, <2>1, <3>1
  <2> QED BY <2>1 DEF Below
<1>3. ASSUME NEW e \in Below(d) \cap Sub, e # d PROVE Parent[e] \in Below(d)
  <2> DEFINE S == {c \in Below(d) : c = d \/ (c \in Sub /\ Parent[c] \in Below(d))}
  <2>1. S \in SUBSET exists /\ d \in S
    BY <1>1
  <2>2. ASSUME NEW c \in exists \cap Sub, Parent[c] \in S PROVE c \in S
    BY <1>2, <2>2
  <2>3. e \in S
    BY <1>3, <2>1, <2>2 DEF Below
  <2> QED BY <1>3, <2>3
<1> QED BY <1>1, <1>2, <1>3

LEMMA MkdirShape ==
  ASSUME TypeOK, Prompt, Shape, NEW d \in Sub, Mkdir(d)
  PROVE  Shape'
<1> DEFINE n == <<"mkdir", d>>
           seen == Parent[d] \in inotify
<1>0. d \in Dir /\ Parent[d] \in exists /\ d \notin exists /\ Parent[d] \notin walk
      /\ \A e \in Sub : e \in Dir /\ Parent[e] \in Dir
  BY DEF Mkdir, Still, Prompt, Sub
<1>1. exists' = exists \cup {d} /\ UNCHANGED <<inotify, walk, known, registered>>
  BY DEF Mkdir, daemonVars
<1>2. /\ seen => Appended(n)
      /\ ~seen => notices' = notices
      /\ Queued(n)
  <2>1. Notify(seen, "mkdir", d) /\ seen \in BOOLEAN
    BY DEF Mkdir
  <2> HIDE DEF seen
  <2> QED BY <1>0, <2>1, NotifyQueue
<1>3. n = <<"mkdir", d>> /\ \A e \in Dir : n # <<"rmdir", e>>
  OBVIOUS
<1> HIDE DEF n
<1>4. \A e \in Dir : Pending("rmdir", e)' <=> Pending("rmdir", e)
  BY <1>2, <1>3, PendingStep DEF Taken, Appended
<1>5. \A e \in Dir : Pending("mkdir", e)' => Pending("mkdir", e) \/ (e = d /\ seen)
  <2>1. ASSUME NEW e \in Dir, Pending("mkdir", e)', e # d PROVE Pending("mkdir", e)
    <3>1. n # <<"mkdir", e>>
      BY <1>3, <2>1
    <3> QED BY <1>2, <2>1, <3>1, PendingStep
  <2>2. ASSUME Pending("mkdir", d)', ~seen PROVE Pending("mkdir", d)
    BY <1>2, <2>2 DEF Pending
  <2> QED BY <2>1, <2>2
<1>6. \A e \in Dir : Fresh(e) => Fresh(e)'
  <2>1. CASE seen
    <3>1. ~Taken(n)
      BY <1>2, <2>1 DEF Taken, Appended
    <3> QED BY <1>2, <1>3, <3>1, FreshStep
  <2>2. CASE ~seen
    BY <1>2, <2>2 DEF Fresh
  <2> QED BY <2>1, <2>2
<1>7. seen => Fresh(d)'
  BY <1>0, <1>2, <1>3, FreshStep
<1>8. ASSUME NEW e \in Dir, NEW j \in 1..Len(notices'), notices'[j] = <<"rmdir", e>>
      PROVE  \E i \in 1..Len(notices) :
               notices[i] = <<"rmdir", e>>
               /\ \A c \in Dir : After(i, "rmdir", c) => After(j, "rmdir", c)'
  BY <1>2, <1>3, <1>8, RmdirPlace
<1>9. \A e \in Dir : Loose(e) => Loose(e)'
  BY <1>1, <1>4 DEF Loose, Adrift
<1>10. DiskInv' /\ UpInv' /\ WalkInv'
  BY <1>0, <1>1 DEF Shape, DiskInv, UpInv, WalkInv
<1>11. RootInv'
  <2>1. d # Root /\ Root \in Dir
    BY DEF Sub
  <2> QED BY <1>1, <1>4, <1>5, <2>1 DEF Shape, RootInv
<1>12. MadeInv' /\ KnownInv'
  BY <1>0, <1>1, <1>4, <1>5 DEF Shape, MadeInv, KnownInv, TypeOK
<1>13. SilentInv'
  <2> SUFFICES ASSUME NEW e \in Sub, NEW j \in 1..Len(notices'), notices'[j] = <<"rmdir", e>>
               PROVE  Parent[e] \in inotify' \/ After(j, "rmdir", Parent[e])'
    BY DEF SilentInv
  <2> QED BY <1>0, <1>1, <1>8 DEF Shape, SilentInv
<1>14. RemadeInv'
  <2> SUFFICES ASSUME NEW e \in exists' \cap Sub, NEW j \in 1..Len(notices'),
                      notices'[j] = <<"rmdir", e>>
               PROVE  Fresh(e)' \/ After(j, "rmdir", Parent[e])'
    BY DEF RemadeInv
  <2>1. PICK i \in 1..Len(notices) :
          notices[i] = <<"rmdir", e>>
          /\ \A c \in Dir : After(i, "rmdir", c) => After(j, "rmdir", c)'
    BY <1>0, <1>8
  <2>2. CASE e = d
    BY <1>0, <1>7, <2>1, <2>2 DEF Shape, SilentInv
  <2>3. CASE e # d
    <3>1. Fresh(e) \/ After(i, "rmdir", Parent[e])
      BY <1>1, <2>1, <2>3 DEF Shape, RemadeInv
    <3> QED BY <1>0, <1>6, <2>1, <3>1
  <2> QED BY <2>2, <2>3
<1>15. LooseInv'
  <2> SUFFICES ASSUME registered, NEW e \in exists' \cap Sub, Adrift(e)'
               PROVE  Fresh(e)' \/ Loose(Parent[e])'
    BY <1>1 DEF LooseInv
  <2>1. CASE e = d
    <3>1. ~seen => Adrift(Parent[d])'
      BY <1>0, <1>1 DEF Adrift
    <3> QED BY <1>7, <2>1, <3>1 DEF Loose
  <2>2. CASE e # d
    <3>1. Fresh(e) \/ Loose(Parent[e])
      BY <1>1, <2>2 DEF Shape, LooseInv, Adrift
    <3> QED BY <1>0, <1>6, <1>9, <3>1
  <2> QED BY <2>1, <2>2
<1> QED BY <1>10, <1>11, <1>12, <1>13, <1>14, <1>15 DEF Shape

LEMMA RmdirShape ==
  ASSUME TypeOK, Prompt, Shape, NEW d \in Sub, Rmdir(d)
  PROVE  Shape'
<1> DEFINE n == <<"rmdir", d>>
           seen == {d, Parent[d]} \cap inotify # {}
<1>0. /\ d \in Dir /\ d # Root /\ d \in exists /\ d \notin walk
      /\ \A e \in exists \cap Sub : Parent[e] # d
      /\ \A e \in Sub : e \in Dir /\ Parent[e] \in Dir
      /\ inotify \subseteq exists
  BY DEF Rmdir, Still, Prompt, Sub, TypeOK
<1>1. exists' = exists \ {d} /\ inotify' = inotify \ {d} /\ UNCHANGED <<walk, known, registered>>
  BY DEF Rmdir, daemonVars
<1>2. /\ seen => Appended(n)
      /\ ~seen => notices' = notices
      /\ Queued(n)
  <2>1. Notify(seen, "rmdir", d) /\ seen \in BOOLEAN
    BY DEF Rmdir
  <2> HIDE DEF seen
  <2> QED BY <1>0, <2>1, NotifyQueue
<1>3. n = <<"rmdir", d>> /\ (\A e \in Dir : n # <<"mkdir", e>>)
      /\ \A e \in Dir : e # d => n # <<"rmdir", e>>
  OBVIOUS
<1> HIDE DEF n
<1>4. \A e \in Dir : Pending("rmdir", e) => Pending("rmdir", e)'
  BY <1>2, <1>3, PendingStep DEF Taken, Appended
<1>5. \A e \in Dir : Pending("mkdir", e)' => Pending("mkdir", e)
  BY <1>2, <1>3, PendingStep
<1>6. \A e \in Dir : Pending("rmdir", e)' => Pending("rmdir", e) \/ e = d
  BY <1>2, <1>3, PendingStep
<1>7. seen => Pending("rmdir", d)'
  <2>1. ASSUME Appended(n) PROVE Pending("rmdir", d)'
    <3>1. Len(notices) + 1 \in 1..Len(notices') /\ notices'[Len(notices) + 1] = <<"rmdir", d>>
      BY <1>3, <2>1 DEF Appended
    <3> QED BY <3>1 DEF Pending
  <2> QED BY <1>2, <2>1
<1>8. \A e \in Dir : e # d /\ Fresh(e) => Fresh(e)'
  <2>1. CASE seen
    <3>1. ~Taken(n)
      BY <1>2, <2>1 DEF Taken, Appended
    <3> QED BY <1>2, <1>3, <3>1, FreshStep
  <2>2. CASE ~seen
    BY <1>2, <2>2 DEF Fresh
  <2> QED BY <2>1, <2>2
<1>9. ASSUME NEW e \in Dir, NEW j \in 1..Len(notices'), notices'[j] = <<"rmdir", e>>
      PROVE  \/ e = d /\ Appended(n)
             \/ \E i \in 1..Len(notices) :
                  /\ notices[i] = <<"rmdir", e>>
                  /\ \A c \in Dir : After(i, "rmdir", c) => After(j, "rmdir", c)'
                  /\ Appended(n) => After(j, "rmdir", d)'
  <2>1. \/ Appended(n) /\ n = <<"rmdir", e>>
        \/ \E i \in 1..Len(notices) :
             /\ notices[i] = <<"rmdir", e>>
             /\ Taken(n) => i # 1
             /\ \A c \in Dir : After(i, "rmdir", c) => After(j, "rmdir", c)'
             /\ \A c \in Dir : Appended(n) /\ n = <<"rmdir", c>> => After(j, "rmdir", c)'
    BY <1>2, <1>9, RmdirPlace
  <2> QED BY <1>0, <1>3, <2>1
<1>10. \A e \in Dir : Loose(e) => Loose(e)'
  BY <1>1, <1>4 DEF Loose, Adrift
<1>11. DiskInv' /\ UpInv' /\ WalkInv'
  BY <1>0, <1>1 DEF Shape, DiskInv, UpInv, WalkInv
<1>12. RootInv'
  <2>1. Root \in Dir
    OBVIOUS
  <2> QED BY <1>0, <1>1, <1>5, <1>6, <2>1 DEF Shape, RootInv
<1>13. MadeInv'
  <2> SUFFICES ASSUME NEW e \in Sub, Pending("mkdir", e)'
               PROVE  Parent[e] \in inotify' /\ ("brief" \in Timing \/ e \in exists')
    BY DEF MadeInv
  <2>1. Pending("mkdir", e) /\ Parent[e] \in inotify /\ ("brief" \in Timing \/ e \in exists)
    BY <1>0, <1>5 DEF Shape, MadeInv
  <2>2. CASE "brief" \in Timing
    <3>1. Parent[e] = Root
      BY <2>2 DEF Prompt
    <3> QED BY <1>0, <1>1, <2>1, <2>2, <3>1
  <2>3. CASE "brief" \notin Timing
    <3>1. ~Pending("mkdir", d)
      BY <2>3 DEF Rmdir, Pending
    <3> QED BY <1>0, <1>1, <2>1, <2>3, <3>1
  <2> QED BY <2>2, <2>3
<1>14. KnownInv'
  <2> SUFFICES ASSUME NEW e \in known, e \notin inotify \ {d} PROVE Pending("rmdir", e)'
    BY <1>1 DEF KnownInv
  <2>1. CASE e = d /\ d \in inotify
    BY <1>7, <2>1
  <2>2. CASE ~(e = d /\ d \in inotify)
    <3>1. e \in Dir /\ Pending("rmdir", e)
      BY <2>2 DEF Shape, KnownInv, TypeOK
    <3> QED BY <1>4, <3>1
  <2> QED BY <2>1, <2>2
<1>15. Parent[d] # d /\ \A e \in exists' \cap Sub : e # d /\ Parent[e] # d
  BY <1>0, <1>1
<1>16. SilentInv'
  <2> SUFFICES ASSUME NEW e \in Sub, NEW j \in 1..Len(notices'), notices'[j] = <<"rmdir", e>>
               PROVE  Parent[e] \in inotify' \/ After(j, "rmdir", Parent[e])'
    BY DEF SilentInv
  <2>1. CASE e = d /\ Appended(n)
    <3>1. seen
      BY <1>2, <2>1 DEF Appended
    <3>2. Parent[d] \in inotify
      BY <1>0, <3>1 DEF Shape, UpInv
    <3> QED BY <1>1, <1>15, <2>1, <3>2
  <2>2. ASSUME NEW i \in 1..Len(notices),
               /\ notices[i] = <<"rmdir", e>>
               /\ \A c \in Dir : After(i, "rmdir", c) => After(j, "rmdir", c)'
               /\ Appended(n) => After(j, "rmdir", d)'
        PROVE  Parent[e] \in inotify' \/ After(j, "rmdir", Parent[e])'
    <3>1. Parent[e] \in inotify \/ After(i, "rmdir", Parent[e])
      BY <2>2 DEF Shape, SilentInv
    <3>2. CASE Parent[e] = d /\ d \in inotify
      <4>1. seen
        BY <3>2
      <4> QED BY <1>2, <2>2, <3>2, <4>1
    <3>3. CASE ~(Parent[e] = d /\ d \in inotify)
      BY <1>0, <1>1, <2>2, <3>1, <3>3
    <3> QED BY <3>2, <3>3
  <2> QED BY <1>0, <1>9, <2>1, <2>2
<1>17. RemadeInv'
  <2> SUFFICES ASSUME NEW e \in exists' \cap Sub, NEW j \in 1..Len(notices'),
                      notices'[j] = <<"rmdir", e>>
               PROVE  Fresh(e)' \/ After(j, "rmdir", Parent[e])'
    BY DEF RemadeInv
  <2>1. PICK i \in 1..Len(notices) :
          notices[i] = <<"rmdir", e>>
          /\ \A c \in Dir : After(i, "rmdir", c) => After(j, "rmdir", c)'
    BY <1>0, <1>9, <1>15
  <2>2. Fresh(e) \/ After(i, "rmdir", Parent[e])
    BY <1>1, <2>1 DEF Shape, RemadeInv
  <2> QED BY <1>0, <1>8, <1>15, <2>1, <2>2
<1>18. LooseInv'
  <2> SUFFICES ASSUME registered, NEW e \in exists' \cap Sub, Adrift(e)'
               PROVE  Fresh(e)' \/ Loose(Parent[e])'
    BY <1>1 DEF LooseInv
  <2>1. Fresh(e) \/ Loose(Parent[e])
    BY <1>1, <1>15 DEF Shape, LooseInv, Adrift
  <2> QED BY <1>0, <1>8, <1>10, <1>15, <2>1
<1> QED BY <1>11, <1>12, <1>13, <1>14, <1>16, <1>17, <1>18 DEF Shape

LEMMA HandleMkdirShape ==
  ASSUME TypeOK, Shape, NEW d \in Sub, HandleMkdir(d)
  PROVE  Shape'
<1> DEFINE n == <<"mkdir", d>>
           new == d \in exists \ known /\ Parent[d] \in known
<1>0. d \in Dir /\ \A e \in Sub : e \in Dir /\ Parent[e] \in Dir
  BY DEF Sub
<1>1. /\ walk' = IF new THEN Below(d) ELSE {}
      /\ UNCHANGED <<exists, inotify, known, registered>>
  BY DEF HandleMkdir, diskVars, daemonVars
<1>2. Taken(n) /\ Queued(n) /\ walk = {}
  BY ReceiveQueue DEF HandleMkdir
<1>3. n = <<"mkdir", d>> /\ (\A e \in Dir : n # <<"rmdir", e>>)
      /\ \A e \in Dir : e # d => n # <<"mkdir", e>>
  OBVIOUS
<1> HIDE DEF n
<1>4. \A e \in Dir : Pending("rmdir", e)' <=> Pending("rmdir", e)
  BY <1>2, <1>3, PendingStep DEF Taken, Appended
<1>5. \A e \in Dir : Pending("mkdir", e)' => Pending("mkdir", e)
  BY <1>2, <1>3, PendingStep DEF Taken, Appended
<1>6. \A e \in Dir : Fresh(e) => Fresh(e)' \/ (e = d /\ ~Pending("rmdir", d)')
  <2>1. ~Appended(n)
    BY <1>2 DEF Taken, Appended
  <2> QED BY <1>2, <1>3, <2>1, FreshStep
<1>7. ASSUME NEW e \in Dir, NEW j \in 1..Len(notices'), notices'[j] = <<"rmdir", e>>
      PROVE  /\ \E i \in 1..Len(notices) :
                  notices[i] = <<"rmdir", e>>
                  /\ \A c \in Dir : After(i, "rmdir", c) => After(j, "rmdir", c)'
             /\ Pending("rmdir", e)'
  BY <1>2, <1>3, <1>7, RmdirPlace DEF Pending
<1>8. Pending("mkdir", d)
  BY <1>2, <1>3 DEF Taken, Pending
<1>9. DiskInv' /\ RootInv' /\ MadeInv' /\ UpInv' /\ KnownInv'
  <2>1. DiskInv' /\ UpInv'
    BY <1>1 DEF Shape, DiskInv, UpInv
  <2>2. RootInv' /\ MadeInv'
    BY <1>0, <1>1, <1>4, <1>5 DEF Shape, RootInv, MadeInv
  <2>3. KnownInv'
    BY <1>1, <1>4 DEF Shape, KnownInv, TypeOK
  <2> QED BY <2>1, <2>2, <2>3
<1>10. WalkInv'
  <2>1. CASE new
    <3>1. Parent[d] \in inotify
      BY <1>8 DEF Shape, MadeInv
    <3> QED BY <1>1, <2>1, <3>1, BelowTree DEF WalkInv
  <2>2. CASE ~new
    BY <1>1, <2>2 DEF WalkInv
  <2> QED BY <2>1, <2>2
<1>11. SilentInv'
  <2> SUFFICES ASSUME NEW e \in Sub, NEW j \in 1..Len(notices'), notices'[j] = <<"rmdir", e>>
               PROVE  Parent[e] \in inotify' \/ After(j, "rmdir", Parent[e])'
    BY DEF SilentInv
  <2> QED BY <1>0, <1>1, <1>7 DEF Shape, SilentInv
<1>12. RemadeInv'
  <2> SUFFICES ASSUME NEW e \in exists \cap Sub, NEW j \in 1..Len(notices'),
                      notices'[j] = <<"rmdir", e>>
               PROVE  Fresh(e)' \/ After(j, "rmdir", Parent[e])'
    BY <1>1 DEF RemadeInv
  <2>1. Pending("rmdir", e)'
    BY <1>0, <1>7
  <2>2. PICK i \in 1..Len(notices) :
          notices[i] = <<"rmdir", e>>
          /\ \A c \in Dir : After(i, "rmdir", c) => After(j, "rmdir", c)'
    BY <1>0, <1>7
  <2>3. Fresh(e) \/ After(i, "rmdir", Parent[e])
    BY <2>2 DEF Shape, RemadeInv
  <2> QED BY <1>0, <1>6, <2>1, <2>2, <2>3
<1>13. LooseInv'
  <2> SUFFICES ASSUME registered, NEW e \in exists \cap Sub, Adrift(e)'
               PROVE  Fresh(e)' \/ Loose(Parent[e])'
    BY <1>1 DEF LooseInv
  <2>1. Adrift(e) /\ e \in Dir /\ Parent[e] \in Dir
    BY <1>1, <1>2 DEF Adrift, Sub
  <2>2. Fresh(e) \/ Loose(Parent[e])
    BY <2>1 DEF Shape, LooseInv
  <2>3. CASE new
    <3>1. e # d /\ Parent[e] \notin Below(d)
      BY <1>1, <2>1, <2>3, BelowTree DEF Adrift
    <3>2. Loose(Parent[e]) => Loose(Parent[e])'
      BY <1>1, <1>4, <2>1, <2>3, <3>1 DEF Loose, Adrift
    <3> QED BY <1>6, <2>1, <2>2, <3>1, <3>2
  <2>4. CASE ~new
    <3>1. \A c \in Dir : Loose(c) => Loose(c)'
      BY <1>1, <1>2, <1>4, <2>4 DEF Loose, Adrift
    <3>2. CASE e # d \/ Fresh(d)' \/ ~Fresh(d)
      BY <1>6, <2>1, <2>2, <3>1, <3>2
    <3>3. CASE e = d /\ ~Fresh(d)' /\ Fresh(d)
      <4>1. CASE Parent[d] \notin known
        BY <1>1, <2>1, <2>4, <3>3, <4>1 DEF Loose, Adrift
      <4>2. CASE Parent[d] \in known
        <5>1. d \in known /\ d \notin inotify
          BY <2>1, <2>4, <3>3, <4>2 DEF Adrift
        <5>2. Pending("rmdir", d)'
          BY <1>0, <1>4, <5>1 DEF Shape, KnownInv
        <5> QED BY <1>0, <1>6, <3>3, <5>2
      <4> QED BY <4>1, <4>2
    <3> QED BY <3>2, <3>3
  <2> QED BY <2>3, <2>4
<1> QED BY <1>9, <1>10, <1>11, <1>12, <1>13 DEF Shape

LEMMA HandleRmdirShape ==
  ASSUME TypeOK, Shape, NEW d \in Sub, HandleRmdir(d)
  PROVE  Shape'
<1> DEFINE n == <<"rmdir", d>>
<1>0. d \in Dir /\ d # Root /\ \A e \in Sub : e \in Dir /\ Parent[e] \in Dir
  BY DEF Sub
<1>1. known' = known \ {d} /\ UNCHANGED <<exists, inotify, walk, registered>>
  BY DEF HandleRmdir, diskVars, daemonVars
<1>2. Taken(n) /\ Queued(n) /\ walk = {}
  BY ReceiveQueue DEF HandleRmdir
<1>3. n = <<"rmdir", d>> /\ (\A e \in Dir : n # <<"mkdir", e>>)
      /\ \A e \in Dir : e # d => n # <<"rmdir", e>>
  OBVIOUS
<1> HIDE DEF n
<1>4. ~Appended(n)
  BY <1>2 DEF Taken, Appended
<1>5. \A e \in Dir : /\ e # d /\ Pending("rmdir", e) => Pending("rmdir", e)'
                     /\ Pending("rmdir", e)' => Pending("rmdir", e)
                     /\ Pending("mkdir", e)' => Pending("mkdir", e)
  BY <1>2, <1>3, <1>4, PendingStep
<1>6. \A e \in Dir : Fresh(e) => Fresh(e)'
  BY <1>2, <1>3, <1>4, FreshStep
<1>7. ASSUME NEW e \in Dir, NEW j \in 1..Len(notices'), notices'[j] = <<"rmdir", e>>
      PROVE  \E i \in 1..Len(notices) :
               notices[i] = <<"rmdir", e>>
               /\ \A c \in Dir : After(i, "rmdir", c) => After(j, "rmdir", c)'
  BY <1>2, <1>4, <1>7, RmdirPlace
<1>8. DiskInv' /\ RootInv' /\ MadeInv' /\ UpInv' /\ WalkInv'
  <2>1. DiskInv' /\ UpInv' /\ WalkInv'
    BY <1>1 DEF Shape, DiskInv, UpInv, WalkInv
  <2>2. RootInv' /\ MadeInv'
    BY <1>0, <1>1, <1>5 DEF Shape, RootInv, MadeInv
  <2> QED BY <2>1, <2>2
<1>9. KnownInv'
  BY <1>1, <1>5 DEF Shape, KnownInv, TypeOK
<1>10. SilentInv'
  <2> SUFFICES ASSUME NEW e \in Sub, NEW j \in 1..Len(notices'), notices'[j] = <<"rmdir", e>>
               PROVE  Parent[e] \in inotify' \/ After(j, "rmdir", Parent[e])'
    BY DEF SilentInv
  <2> QED BY <1>0, <1>1, <1>7 DEF Shape, SilentInv
<1>11. RemadeInv'
  <2> SUFFICES ASSUME NEW e \in exists \cap Sub, NEW j \in 1..Len(notices'),
                      notices'[j] = <<"rmdir", e>>
               PROVE  Fresh(e)' \/ After(j, "rmdir", Parent[e])'
    BY <1>1 DEF RemadeInv
  <2> QED BY <1>0, <1>6, <1>7 DEF Shape, RemadeInv
<1>12. LooseInv'
  <2> SUFFICES ASSUME registered, NEW e \in exists \cap Sub, Adrift(e)'
               PROVE  Fresh(e)' \/ Loose(Parent[e])'
    BY <1>1 DEF LooseInv
  <2>1. e \in Dir /\ Parent[e] \in Dir
    BY <1>0
  <2>2. \A c \in Dir : Loose(c) => Loose(c)'
    BY <1>1, <1>2, <1>5 DEF Loose, Adrift
  <2>3. CASE e # d
    <3>1. Adrift(e)
      BY <1>1, <2>3 DEF Adrift
    <3> QED BY <1>6, <2>1, <2>2, <3>1 DEF Shape, LooseInv
  <2>4. CASE e = d
    <3>1. 1 \in 1..Len(notices) /\ notices[1] = <<"rmdir", d>>
      BY <1>2, <1>3 DEF Taken
    <3>2. Fresh(d) \/ After(1, "rmdir", Parent[d])
      BY <2>4, <3>1 DEF Shape, RemadeInv
    <3>3. ASSUME After(1, "rmdir", Parent[d]) PROVE Pending("rmdir", Parent[d])'
      <4>1. PICK k \in 1 + 1..Len(notices) : notices[k] = <<"rmdir", Parent[d]>>
        BY <3>3 DEF After
      <4>2. k - 1 \in 1..Len(notices') /\ notices'[k - 1] = notices[k]
        BY <1>2, <4>1 DEF Taken
      <4> QED BY <4>1, <4>2 DEF Pending
    <3> QED BY <1>6, <2>1, <2>4, <3>2, <3>3 DEF Loose
  <2> QED BY <2>3, <2>4
<1> QED BY <1>8, <1>9, <1>10, <1>11, <1>12 DEF Shape

LEMMA AttachShape ==
  ASSUME TypeOK, Shape, Attach
  PROVE  Shape'
<1>1. /\ walk' = {} /\ inotify' = inotify \cup walk /\ known' = known \cup walk
      /\ UNCHANGED <<exists, notices, registered>>
  BY DEF Attach, diskVars, daemonVars, Shape, WalkInv
<1>2. \A e \in Sub : e \in Dir /\ Parent[e] \in Dir
  BY DEF Sub
<1>3. \A o, e : Pending(o, e)' <=> Pending(o, e)
  BY <1>1 DEF Pending
<1>4. \A e : Fresh(e)' <=> Fresh(e)
  BY <1>1 DEF Fresh
<1>5. \A j, e : After(j, "rmdir", e)' <=> After(j, "rmdir", e)
  BY <1>1 DEF After
<1>6. \A e : Adrift(e)' <=> Adrift(e)
  BY <1>1 DEF Adrift
<1>7. DiskInv' /\ UpInv' /\ WalkInv'
  BY <1>1 DEF Shape, DiskInv, UpInv, WalkInv
<1>8. RootInv' /\ MadeInv' /\ KnownInv'
  BY <1>1, <1>3 DEF Shape, RootInv, MadeInv, KnownInv
<1>9. SilentInv'
  BY <1>1, <1>5 DEF Shape, SilentInv
<1>10. RemadeInv'
  BY <1>1, <1>4, <1>5 DEF Shape, RemadeInv
<1>11. LooseInv'
  BY <1>1, <1>3, <1>4, <1>6 DEF Shape, LooseInv, Loose
<1> QED BY <1>7, <1>8, <1>9, <1>10, <1>11 DEF Shape

LEMMA AddShape ==
  ASSUME TypeOK, Shape, AddDirectoryUnit, job.dirs = exists
  PROVE  Shape'
<1>1. /\ inotify' = exists /\ known' = exists
      /\ UNCHANGED <<exists, notices, walk>>
  BY DEF AddDirectoryUnit, diskVars, TypeOK
<1>2. Root \in exists /\ walk \subseteq exists
      /\ \A e \in Sub : Pending("mkdir", e) => Parent[e] \in exists
  BY DEF TypeOK, Shape, WalkInv, MadeInv
<1>3. \A o, e : Pending(o, e)' <=> Pending(o, e)
  BY <1>1 DEF Pending
<1>4. \A e : Fresh(e)' <=> Fresh(e)
  BY <1>1 DEF Fresh
<1>5. \A j, e : After(j, "rmdir", e)' <=> After(j, "rmdir", e)
  BY <1>1 DEF After
<1>6. DiskInv' /\ UpInv' /\ WalkInv'
  BY <1>1, <1>2 DEF Shape, DiskInv, UpInv, WalkInv
<1>7. RootInv' /\ MadeInv' /\ KnownInv'
  BY <1>1, <1>2, <1>3 DEF Shape, RootInv, MadeInv, KnownInv
<1>8. SilentInv'
  <2> SUFFICES ASSUME NEW e \in Sub, NEW j \in 1..Len(notices), notices[j] = <<"rmdir", e>>
               PROVE  Parent[e] \in exists \/ After(j, "rmdir", Parent[e])
    BY <1>1, <1>5 DEF SilentInv
  <2> QED BY DEF Shape, SilentInv, TypeOK
<1>9. RemadeInv'
  BY <1>1, <1>4, <1>5 DEF Shape, RemadeInv
<1>10. LooseInv'
  BY <1>1 DEF LooseInv, Adrift
<1> QED BY <1>6, <1>7, <1>8, <1>9, <1>10 DEF Shape

\* Once the queue is read, what is on disk is what is watched and known.
LEMMA Settled ==
  ASSUME TypeOK, Shape, registered, notices = <<>>, walk = {}
  PROVE  inotify = exists /\ known = exists
<1>1. \A o, e : ~Pending(o, e) /\ ~Fresh(e)
  BY DEF Pending, Fresh
<1>2. inotify \subseteq exists /\ known \subseteq inotify
  BY <1>1 DEF TypeOK, Shape, KnownInv
<1> DEFINE Lost == {d \in exists \cap Sub : Adrift(d)}
<1>3. ASSUME Lost # {} PROVE FALSE
  <2>1. Lost \in SUBSET Sub
    OBVIOUS
  <2>2. PICK d \in Lost : Parent[d] \notin Lost
    BY <1>3, <2>1
  <2>3. Parent[d] \in exists /\ Parent[d] \in Dir
    BY <2>2 DEF Shape, DiskInv, TypeOK
  <2>4. Adrift(Parent[d])
    BY <1>1, <2>2 DEF Shape, LooseInv, Loose
  <2>5. Parent[d] # Root
    BY <2>4 DEF Shape, RootInv, Adrift
  <2> QED BY <2>2, <2>3, <2>4, <2>5 DEF Sub
<1>4. \A d \in exists : d \in inotify /\ d \in known
  <2> SUFFICES ASSUME NEW d \in exists PROVE d \in inotify /\ d \in known
    OBVIOUS
  <2>1. CASE d = Root
    BY <2>1 DEF Shape, RootInv
  <2>2. CASE d # Root
    BY <1>3, <2>2 DEF Sub, Adrift, TypeOK
  <2> QED BY <2>1, <2>2
<1> QED BY <1>2, <1>4

LEMMA RemoveShape ==
  ASSUME TypeOK, Prompt, Shape, Remove
  PROVE  Shape' /\ inotify' = {} /\ known' = {} /\ notices' = <<>> /\ walk' = {}
<1>1. registered /\ notices = <<>> /\ walk = {}
  BY DEF Remove, Prompt
<1>2. /\ inotify' = {} /\ known' = {} /\ notices' = <<>> /\ walk' = {}
      /\ registered' = FALSE /\ exists' = exists
  BY <1>1, Settled DEF Remove, diskVars
<1>3. \A o, e : ~Pending(o, e)'
  BY <1>2 DEF Pending
<1>4. /\ DiskInv' /\ RootInv' /\ MadeInv' /\ UpInv' /\ WalkInv' /\ KnownInv'
      /\ LooseInv'
  BY <1>2, <1>3 DEF Shape, DiskInv, RootInv, MadeInv, UpInv, WalkInv, KnownInv, LooseInv
<1>5. SilentInv' /\ RemadeInv'
  BY <1>2 DEF SilentInv, RemadeInv
<1> QED BY <1>2, <1>4, <1>5 DEF Shape

\* Before it is watched nothing of the unit is.
OffInv == ~registered => inotify = {} /\ known = {} /\ notices = <<>> /\ walk = {}

\* A scan knows what it has listed until it watches it.
ListInv ==
  job # None /\ job.stage = "listed" =>
    job.dirs = exists /\ job.todo = Members /\ job.got = Nothing

\* A directory is removed after a change in it was reported, and then the
\* removal is reported, or it is still there and was not made since.
Remade(i, d) ==
  \A k \in i+1..Len(notices) : notices[k] = <<"mkdir", d>> =>
    \E l \in i+1..k-1 : notices[l] = <<"rmdir", d>>
Up(d) == {e \in Dir : \A S \in SUBSET Dir :
            d \in S /\ (\A c \in S \cap Sub : Parent[c] \in S) => e \in S}
DeleteInv ==
  \A d \in Dir : \A i \in 1..Len(notices) : notices[i] = <<"delete", d>> =>
    \A e \in Up(d) \cap Sub : (e \in inotify \/ After(i, "rmdir", e)) /\ Remade(i, e)

TreeInv == Shape /\ OffInv /\ ListInv /\ DeleteInv

LEMMA DeletePlace ==
  ASSUME NEW n, Queued(n), NEW d \in Dir, NEW j \in 1..Len(notices'),
         notices'[j] = <<"delete", d>>, NEW c \in Dir
  PROVE  \/ Appended(n) /\ n = <<"delete", d>> /\ j = Len(notices')
         \/ \E i \in 1..Len(notices) :
              /\ notices[i] = <<"delete", d>>
              /\ After(i, "rmdir", c) => After(j, "rmdir", c)'
              /\ Appended(n) /\ n = <<"rmdir", c>> => After(j, "rmdir", c)'
              /\ Remade(i, c) =>
                   \/ Remade(j, c)'
                   \/ Appended(n) /\ n = <<"mkdir", c>> /\ ~After(i, "rmdir", c)
<1>1. CASE Appended(n)
  <2>1. CASE j = Len(notices) + 1
    BY <1>1, <2>1 DEF Appended
  <2>2. CASE j # Len(notices) + 1
    <3>1. j \in 1..Len(notices) /\ notices[j] = <<"delete", d>>
      BY <1>1, <2>2 DEF Appended
    <3>2. \A k \in j+1..Len(notices) : k \in j+1..Len(notices') /\ notices'[k] = notices[k]
      BY <1>1 DEF Appended
    <3>3. Len(notices) + 1 \in j+1..Len(notices') /\ notices'[Len(notices) + 1] = n
      BY <1>1, <3>1 DEF Appended
    <3>4. \A e \in Dir : After(j, "rmdir", e) => After(j, "rmdir", e)'
      BY <3>2 DEF After
    <3>5. \A e \in Dir : n = <<"rmdir", e>> => After(j, "rmdir", e)'
      BY <3>3 DEF After
    <3>6. ASSUME NEW e \in Dir, Remade(j, e), n # <<"mkdir", e>> \/ After(j, "rmdir", e)
          PROVE  Remade(j, e)'
      <4> SUFFICES ASSUME NEW k \in j+1..Len(notices'), notices'[k] = <<"mkdir", e>>
                   PROVE  \E l \in j+1..k-1 : notices'[l] = <<"rmdir", e>>
        BY DEF Remade
      <4>1. CASE k = Len(notices) + 1
        <5>1. PICK l \in j+1..Len(notices) : notices[l] = <<"rmdir", e>>
          BY <1>1, <3>6, <4>1 DEF Appended, After
        <5>2. l \in j+1..k-1 /\ notices'[l] = notices[l]
          BY <1>1, <3>2, <4>1, <5>1 DEF Appended
        <5> QED BY <5>1, <5>2
      <4>2. CASE k # Len(notices) + 1
        <5>1. k \in j+1..Len(notices) /\ notices[k] = <<"mkdir", e>>
          BY <1>1, <3>2, <4>2 DEF Appended
        <5>2. PICK l \in j+1..k-1 : notices[l] = <<"rmdir", e>>
          BY <3>6, <5>1 DEF Remade
        <5>3. notices'[l] = notices[l]
          BY <1>1, <3>2, <5>1, <5>2 DEF Appended
        <5> QED BY <5>2, <5>3
      <4> QED BY <4>1, <4>2
    <3> QED BY <1>1, <3>1, <3>4, <3>5, <3>6
  <2> QED BY <2>1, <2>2
<1>2. CASE Taken(n)
  <2>1. j + 1 \in 1..Len(notices) /\ notices[j + 1] = <<"delete", d>>
    BY <1>2 DEF Taken
  <2>2. \A k \in j+1+1..Len(notices) : k - 1 \in j+1..Len(notices') /\ notices'[k - 1] = notices[k]
    BY <1>2 DEF Taken
  <2>3. \A e \in Dir : After(j + 1, "rmdir", e) => After(j, "rmdir", e)'
    BY <2>2 DEF After
  <2>4. ~Appended(n)
    BY <1>2 DEF Taken, Appended
  <2>5. ASSUME NEW e \in Dir, Remade(j + 1, e) PROVE Remade(j, e)'
    <3> SUFFICES ASSUME NEW k \in j+1..Len(notices'), notices'[k] = <<"mkdir", e>>
                 PROVE  \E l \in j+1..k-1 : notices'[l] = <<"rmdir", e>>
      BY DEF Remade
    <3>1. k + 1 \in j+1+1..Len(notices) /\ notices[k + 1] = <<"mkdir", e>>
      BY <1>2 DEF Taken
    <3>2. \A m \in j+1+1..Len(notices) : notices[m] = <<"mkdir", e>> =>
            \E l \in j+1+1..m-1 : notices[l] = <<"rmdir", e>>
      BY <2>5 DEF Remade
    <3>3. PICK l \in j+1+1..(k+1)-1 : notices[l] = <<"rmdir", e>>
      BY <3>1, <3>2
    <3>4. l \in Nat /\ l >= j + 2 /\ l <= k
      BY <3>3
    <3>5. l - 1 \in j+1..k-1 /\ l - 1 \in 1..Len(notices')
      BY <1>2, <3>4 DEF Taken
    <3>6. notices'[l - 1] = notices[l - 1 + 1] /\ l - 1 + 1 = l
      BY <1>2, <3>4, <3>5 DEF Taken
    <3> QED BY <3>3, <3>5, <3>6
  <2> QED BY <2>1, <2>3, <2>4, <2>5
<1>3. CASE Len(notices) \in Nat /\ notices' = notices
  <2>1. ~Appended(n)
    BY <1>3 DEF Appended
  <2>2. \A e \in Dir : After(j, "rmdir", e) => After(j, "rmdir", e)'
    BY <1>3 DEF After
  <2>3. \A e \in Dir : Remade(j, e) => Remade(j, e)'
    BY <1>3 DEF Remade
  <2> QED BY <1>3, <2>1, <2>2, <2>3
<1> QED BY <1>1, <1>2, <1>3 DEF Queued

LEMMA DeleteStep ==
  ASSUME NEW n, Queued(n), DeleteInv, UpInv', inotify' \subseteq Dir,
         \A e \in Sub : e \in inotify => e \in inotify' \/ (Appended(n) /\ n = <<"rmdir", e>>),
         \A e \in Sub : Appended(n) /\ n = <<"mkdir", e>> => e \notin inotify,
         \A e \in Dir : Appended(n) /\ n = <<"delete", e>> => e \in inotify'
  PROVE  DeleteInv'
<1> SUFFICES ASSUME NEW d \in Dir, NEW j \in 1..Len(notices'), notices'[j] = <<"delete", d>>,
                    NEW e \in Up(d) \cap Sub
             PROVE  (e \in inotify' \/ After(j, "rmdir", e)') /\ Remade(j, e)'
  BY DEF DeleteInv, Up
<1>1. e \in Sub /\ e \in Dir
  BY DEF Sub
<1>2. CASE Appended(n) /\ n = <<"delete", d>> /\ j = Len(notices')
  <2>1. d \in inotify' /\ inotify' \in SUBSET Dir
        /\ \A c \in inotify' \cap Sub : Parent[c] \in inotify'
    BY <1>2 DEF UpInv
  <2>2. e \in inotify'
    BY <2>1 DEF Up
  <2>3. \A k \in j+1..Len(notices') : FALSE
    BY <1>2 DEF Appended
  <2> QED BY <2>2, <2>3 DEF Remade
<1>3. ASSUME NEW i \in 1..Len(notices), notices[i] = <<"delete", d>>,
             After(i, "rmdir", e) => After(j, "rmdir", e)',
             Appended(n) /\ n = <<"rmdir", e>> => After(j, "rmdir", e)',
             Remade(i, e) =>
                   \/ Remade(j, e)'
                   \/ Appended(n) /\ n = <<"mkdir", e>> /\ ~After(i, "rmdir", e)
      PROVE  (e \in inotify' \/ After(j, "rmdir", e)') /\ Remade(j, e)'
  <2>1. (e \in inotify \/ After(i, "rmdir", e)) /\ Remade(i, e)
    BY <1>3 DEF DeleteInv
  <2> QED BY <1>1, <1>3, <2>1
<1>4. \/ Appended(n) /\ n = <<"delete", d>> /\ j = Len(notices')
      \/ \E i \in 1..Len(notices) :
           /\ notices[i] = <<"delete", d>>
           /\ After(i, "rmdir", e) => After(j, "rmdir", e)'
           /\ Appended(n) /\ n = <<"rmdir", e>> => After(j, "rmdir", e)'
           /\ Remade(i, e) =>
                \/ Remade(j, e)'
                \/ Appended(n) /\ n = <<"mkdir", e>> /\ ~After(i, "rmdir", e)
  BY <1>1, DeletePlace
<1> QED BY <1>2, <1>3, <1>4

\* What a scan listed does not change before it is watched.
LEMMA ListStep ==
  ASSUME TypeOK, Prompt, ListInv, Next PROVE ListInv'
<1> DEFINE Listed == job # None /\ job.stage = "listed"
<1>0. "gap" \notin Timing
  BY DEF Prompt
<1>1. CASE \E d \in Dir : WriteMember(d)
  <2>1. PICK d \in Dir : WriteMember(d)
    BY <1>1
  <2>2. job' = job /\ exists' = exists
    BY <2>1 DEF WriteMember, daemonVars
  <2>3. ASSUME Listed PROVE Members' = Members
    <3>1. d \in exists /\ member[d] # None
      BY <1>0, <2>1, <2>3 DEF WriteMember, Still
    <3>2. PICK c \in Content : member' = [member EXCEPT ![d] = c]
      BY <2>1 DEF WriteMember
    <3>3. \A e \in exists : member'[e] # None <=> member[e] # None
      BY <3>1, <3>2 DEF TypeOK, Tree
    <3> QED BY <2>2, <3>3 DEF Members
  <2> QED BY <2>2, <2>3 DEF ListInv, Nothing
<1>2. CASE \E d \in Dir : DeleteMember(d)
  BY <1>0, <1>2 DEF DeleteMember, Still, daemonVars, ListInv
<1>3. CASE \E d \in Sub : Mkdir(d) \/ Rmdir(d)
  BY <1>0, <1>3 DEF Mkdir, Rmdir, Still, daemonVars, ListInv
<1>4. CASE UNCHANGED <<exists, member, job>>
  BY <1>4 DEF ListInv, Members, Nothing
<1>5. CASE job' = None
  BY <1>5 DEF ListInv
<1>6. CASE Scan
  BY <1>6 DEF Scan, Listing, ListInv, diskVars, Members, Nothing
<1>7. CASE job' = Listing("read")
  BY <1>7 DEF Listing, ListInv
<1>8. CASE AddDirectoryUnit \/ \E d \in Dir : ReadMember(d)
  <2>1. job \in Work
    BY <1>8 DEF TypeOK, AddDirectoryUnit, ReadMember
  <2>2. job'.stage = "read"
    BY <1>8, <2>1 DEF AddDirectoryUnit, ReadMember, Work
  <2> QED BY <2>2 DEF ListInv
<1>9. \/ \E d \in Dir : WriteMember(d) \/ DeleteMember(d)
      \/ \E d \in Sub : Mkdir(d) \/ Rmdir(d)
      \/ UNCHANGED <<exists, member, job>> \/ job' = None \/ job' = Listing("read")
      \/ Scan \/ AddDirectoryUnit \/ \E d \in Dir : ReadMember(d)
  BY DEF Next, Loop, Timers, Daemon, FireMember, HandleWrite, HandleDelete, HandleMkdir,
         HandleRmdir, Attach, Expire, FireUnit, EmitUnit, HandleUnitEvent, Reconnect,
         ExceedCap, SkipDispatch, Dispatch, PluginChanged, Remove, diskVars, daemonVars
<1> QED BY <1>1, <1>2, <1>3, <1>4, <1>5, <1>6, <1>7, <1>8, <1>9

\* Nothing happens to the bookkeeping of a unit that is not watched.
LEMMA OffStep ==
  ASSUME TypeOK, Prompt, Shape, OffInv, ListInv, Next PROVE OffInv'
<1>0. registered \/ (inotify = {} /\ known = {} /\ notices = <<>> /\ walk = {})
  BY DEF OffInv
<1>1. CASE \E d \in Dir : WriteMember(d) \/ DeleteMember(d)
  BY <1>0, <1>1 DEF OffInv, WriteMember, DeleteMember, Notify, daemonVars
<1>2. CASE \E d \in Sub : Mkdir(d) \/ Rmdir(d)
  BY <1>0, <1>2 DEF OffInv, Mkdir, Rmdir, Notify, daemonVars
<1>3. CASE Loop
  BY <1>0, <1>3 DEF OffInv, Loop, HandleWrite, HandleDelete, HandleMkdir, HandleRmdir, Attach,
                    Receive, daemonVars
<1>4. CASE UNCHANGED <<inotify, notices, walk, known, registered>>
  BY <1>4 DEF OffInv
<1>5. CASE AddDirectoryUnit
  BY <1>5 DEF OffInv, AddDirectoryUnit, ListInv
<1>6. CASE Remove
  BY <1>6, RemoveShape DEF OffInv
<1>7. \/ \E d \in Dir : WriteMember(d) \/ DeleteMember(d)
      \/ \E d \in Sub : Mkdir(d) \/ Rmdir(d)
      \/ Loop \/ UNCHANGED <<inotify, notices, walk, known, registered>>
      \/ AddDirectoryUnit \/ Remove
  BY DEF Next, Timers, Daemon, FireMember, Expire, FireUnit, EmitUnit, HandleUnitEvent, Reconnect,
         SkipDispatch, Dispatch, PluginChanged, Scan, ReadMember, ExceedCap, watchVars, daemonVars
<1> QED BY <1>1, <1>2, <1>3, <1>4, <1>5, <1>6, <1>7

LEMMA InitTree == Init => TreeInv
<1> SUFFICES ASSUME Init PROVE TreeInv
  OBVIOUS
<1>1. /\ inotify = {} /\ known = {} /\ notices = <<>> /\ walk = {} /\ ~registered /\ job = None
      /\ \A d \in exists \cap Sub : Parent[d] \in exists
  BY DEF Init
<1>2. \A o, e : ~Pending(o, e)
  BY <1>1 DEF Pending
<1>3. DiskInv /\ RootInv /\ MadeInv /\ UpInv /\ WalkInv /\ KnownInv /\ LooseInv
  BY <1>1, <1>2 DEF DiskInv, RootInv, MadeInv, UpInv, WalkInv, KnownInv, LooseInv
<1>4. SilentInv /\ RemadeInv /\ DeleteInv
  BY <1>1 DEF SilentInv, RemadeInv, DeleteInv
<1>5. OffInv /\ ListInv
  BY <1>1 DEF OffInv, ListInv
<1> QED BY <1>3, <1>4, <1>5 DEF TreeInv, Shape

\* A step that leaves a member where it is and takes no watch away.
LEMMA DeleteQuiet ==
  ASSUME NEW n, Queued(n), DeleteInv, UpInv', inotify' \subseteq Dir, inotify \subseteq inotify',
         ~Appended(n)
  PROVE  DeleteInv'
BY DeleteStep

\* A step that touches nothing of the tree.
LEMMA TreeQuiet ==
  ASSUME TypeOK, TypeOK', Shape, DeleteInv,
         UNCHANGED <<exists, inotify, notices, walk, known, registered>>
  PROVE  Shape' /\ DeleteInv'
<1> DEFINE n == <<"write", Root>>
<1>1. Queued(n) /\ ~Appended(n)
  BY QueueSame DEF TypeOK, Appended
<1>2. Shape'
  BY <1>1, QuietShape
<1> HIDE DEF n
<1>3. DeleteInv'
  BY <1>1, <1>2, DeleteQuiet DEF Shape, TypeOK
<1> QED BY <1>2, <1>3

LEMMA MemberTree ==
  ASSUME TypeOK, TypeOK', Shape, DeleteInv, NEW d \in Dir, WriteMember(d) \/ DeleteMember(d)
  PROVE  Shape' /\ DeleteInv'
<1>0. UNCHANGED <<exists, inotify, walk, known, registered>>
  BY DEF WriteMember, DeleteMember, daemonVars
<1>1. PICK op \in {"write", "delete"} : Notify(d \in inotify, op, d)
  BY DEF WriteMember, DeleteMember
<1> DEFINE n == <<op, d>>
           seen == d \in inotify
<1>2. /\ d \in inotify => Appended(n)
      /\ d \notin inotify => notices' = notices
      /\ Queued(n)
  <2>1. Notify(seen, op, d) /\ seen \in BOOLEAN /\ op \in {"write", "delete", "mkdir", "rmdir"}
    BY <1>1
  <2>2. /\ seen => Appended(<<op, d>>)
        /\ ~seen => notices' = notices
        /\ Queued(<<op, d>>)
    <3> HIDE DEF seen
    <3> QED BY <2>1, NotifyQueue
  <2> QED BY <2>2
<1>3. Shape'
  BY <1>0, <1>2, QuietShape
<1>4. \A e \in Dir : n # <<"mkdir", e>> /\ (n = <<"delete", e>> => e = d)
  OBVIOUS
<1> HIDE DEF n
<1>5. Appended(n) => d \in inotify
  BY <1>2 DEF TypeOK, Appended
<1>6. DeleteInv'
  <2>1. UpInv' /\ inotify' \subseteq Dir /\ inotify' = inotify
    BY <1>0, <1>3 DEF Shape, TypeOK
  <2>2. \A e \in Sub : e \in Dir
    BY DEF Sub
  <2>3. \A e \in Dir : Appended(n) /\ n = <<"delete", e>> => e \in inotify'
    BY <1>4, <1>5, <2>1
  <2>4. \A e \in Sub : Appended(n) /\ n = <<"mkdir", e>> => e \notin inotify
    BY <1>4, <2>2
  <2> QED BY <1>2, <2>1, <2>3, <2>4, DeleteStep
<1> QED BY <1>3, <1>6

LEMMA DirectoryTree ==
  ASSUME TypeOK, TypeOK', Prompt, Shape, DeleteInv, NEW d \in Sub, Mkdir(d) \/ Rmdir(d)
  PROVE  Shape' /\ DeleteInv'
<1>0. d \in Dir /\ Parent[d] \in Dir
  BY DEF Sub
<1>1. Shape'
  BY MkdirShape, RmdirShape
<1>2. CASE Mkdir(d)
  <2> DEFINE n == <<"mkdir", d>>
             seen == Parent[d] \in inotify
  <2>1. Notify(seen, "mkdir", d) /\ seen \in BOOLEAN /\ inotify' = inotify /\ d \notin exists
    BY <1>2 DEF Mkdir
  <2> HIDE DEF seen
  <2>2. Queued(n)
    BY <1>0, <2>1, NotifyQueue
  <2>3. \A e \in Dir : n # <<"delete", e>> /\ n # <<"rmdir", e>> /\ (n = <<"mkdir", e>> => e = d)
    OBVIOUS
  <2> HIDE DEF n
  <2> QED BY <1>0, <1>1, <2>1, <2>2, <2>3, DeleteStep DEF Shape, Sub, TypeOK
<1>3. CASE Rmdir(d)
  <2> DEFINE n == <<"rmdir", d>>
             seen == {d, Parent[d]} \cap inotify # {}
  <2>1. Notify(seen, "rmdir", d) /\ seen \in BOOLEAN /\ inotify' = inotify \ {d}
        /\ (d \in inotify => seen)
    BY <1>3 DEF Rmdir
  <2> HIDE DEF seen
  <2>2. Queued(n) /\ (d \in inotify => Appended(n))
    BY <1>0, <2>1, NotifyQueue
  <2>3. (\A e \in Dir : n # <<"delete", e>> /\ n # <<"mkdir", e>>) /\ n = <<"rmdir", d>>
    OBVIOUS
  <2> HIDE DEF n
  <2>4. \A e \in Sub : e \in inotify => e \in inotify' \/ (Appended(n) /\ n = <<"rmdir", e>>)
    BY <2>1, <2>2, <2>3
  <2>5. \A e \in Sub : e \in Dir
    BY DEF Sub
  <2>6. UpInv' /\ inotify' \subseteq Dir
    BY <1>1 DEF Shape, TypeOK
  <2> QED BY <1>1, <2>2, <2>3, <2>4, <2>5, <2>6, DeleteStep
<1> QED BY <1>2, <1>3, <1>1

LEMMA LoopTree ==
  ASSUME TypeOK, TypeOK', Shape, DeleteInv, Loop
  PROVE  Shape' /\ DeleteInv'
<1>0. \A d \in Sub : d \in Dir
  BY DEF Sub
<1>1. inotify' \subseteq Dir
  BY DEF TypeOK
<1>2. ASSUME NEW op \in {"write", "delete", "mkdir", "rmdir"}, NEW d \in Dir, Receive(op, d),
             inotify' = inotify, Shape'
      PROVE  DeleteInv'
  <2> DEFINE n == <<op, d>>
  <2>1. Queued(n) /\ Taken(n)
    BY <1>2, ReceiveQueue
  <2> HIDE DEF n
  <2>2. ~Appended(n)
    BY <2>1 DEF Taken, Appended
  <2> QED BY <1>1, <1>2, <2>1, <2>2, DeleteQuiet DEF Shape
<1>3. CASE \E d \in Dir : HandleWrite(d) \/ HandleDelete(d)
  <2>1. PICK d \in Dir : HandleWrite(d) \/ HandleDelete(d)
    BY <1>3
  <2>2. UNCHANGED <<exists, inotify, walk, known, registered>>
    BY <2>1 DEF HandleWrite, HandleDelete, diskVars, daemonVars
  <2>3. PICK op \in {"write", "delete"} : Receive(op, d)
    BY <2>1 DEF HandleWrite, HandleDelete
  <2>4. Shape'
    BY <2>2, <2>3, ReceiveQueue, QuietShape
  <2> QED BY <1>2, <2>2, <2>3, <2>4
<1>4. CASE \E d \in Sub : HandleMkdir(d)
  <2>1. PICK d \in Sub : HandleMkdir(d)
    BY <1>4
  <2>2. Shape' /\ inotify' = inotify /\ Receive("mkdir", d)
    BY <2>1, HandleMkdirShape DEF HandleMkdir
  <2> QED BY <1>0, <1>2, <2>2
<1>5. CASE \E d \in Sub : HandleRmdir(d)
  <2>1. PICK d \in Sub : HandleRmdir(d)
    BY <1>5
  <2>2. Shape' /\ inotify' = inotify /\ Receive("rmdir", d)
    BY <2>1, HandleRmdirShape DEF HandleRmdir
  <2> QED BY <1>0, <1>2, <2>2
<1>6. CASE Attach
  <2> DEFINE n == <<"write", Root>>
  <2>1. notices' = notices /\ inotify \subseteq inotify' /\ Shape'
    BY <1>6, AttachShape DEF Attach
  <2>2. Queued(n) /\ ~Appended(n)
    BY <2>1, QueueSame DEF TypeOK, Appended
  <2> HIDE DEF n
  <2> QED BY <1>1, <2>1, <2>2, DeleteQuiet DEF Shape
<1> QED BY <1>3, <1>4, <1>5, <1>6 DEF Loop

LEMMA ServiceTree ==
  ASSUME TypeOK, TypeOK', Prompt, Shape, ListInv, DeleteInv, AddDirectoryUnit \/ Remove
  PROVE  Shape' /\ DeleteInv'
<1>1. CASE AddDirectoryUnit
  <2> DEFINE n == <<"write", Root>>
  <2>1. job.dirs = exists
    BY <1>1 DEF AddDirectoryUnit, ListInv
  <2>2. notices' = notices /\ inotify' = exists
    BY <1>1, <2>1 DEF AddDirectoryUnit, TypeOK
  <2>3. Shape' /\ inotify \subseteq inotify' /\ inotify' \subseteq Dir
    BY <1>1, <2>1, <2>2, AddShape DEF TypeOK
  <2>4. Queued(n) /\ ~Appended(n)
    BY <2>2, QueueSame DEF TypeOK, Appended
  <2> HIDE DEF n
  <2> QED BY <2>3, <2>4, DeleteQuiet DEF Shape
<1>2. CASE Remove
  BY <1>2, RemoveShape DEF DeleteInv
<1> QED BY <1>1, <1>2

LEMMA NextTree ==
  ASSUME Prompt
  PROVE  TypeOK /\ TypeOK' /\ TreeInv /\ [Next]_vars => TreeInv'
<1> SUFFICES ASSUME TypeOK, TypeOK', TreeInv, [Next]_vars PROVE TreeInv'
  OBVIOUS
<1>1. Shape /\ OffInv /\ ListInv /\ DeleteInv
  BY DEF TreeInv
<1>2. CASE Next
  <2>1. Shape' /\ DeleteInv'
    <3>1. CASE \E d \in Dir : WriteMember(d) \/ DeleteMember(d)
      BY <1>1, <3>1, MemberTree
    <3>2. CASE \E d \in Sub : Mkdir(d) \/ Rmdir(d)
      BY <1>1, <3>2, DirectoryTree
    <3>3. CASE Loop
      BY <1>1, <3>3, LoopTree
    <3>4. CASE AddDirectoryUnit \/ Remove
      BY <1>1, <3>4, ServiceTree
    <3>5. CASE UNCHANGED <<exists, inotify, notices, walk, known, registered>>
      BY <1>1, <3>5, TreeQuiet
    <3>6. \/ \E d \in Dir : WriteMember(d) \/ DeleteMember(d)
          \/ \E d \in Sub : Mkdir(d) \/ Rmdir(d)
          \/ Loop \/ AddDirectoryUnit \/ Remove
          \/ UNCHANGED <<exists, inotify, notices, walk, known, registered>>
      BY <1>2 DEF Next, Timers, Daemon, FireMember, Expire, FireUnit, EmitUnit, HandleUnitEvent,
           Reconnect, SkipDispatch, Dispatch, PluginChanged, Scan, ReadMember, ExceedCap, diskVars, watchVars,
           daemonVars
    <3> QED BY <3>1, <3>2, <3>3, <3>4, <3>5, <3>6
  <2> QED BY <1>1, <1>2, <2>1, ListStep, OffStep DEF TreeInv
<1>3. CASE UNCHANGED vars
  <2>1. Shape' /\ DeleteInv'
    BY <1>1, <1>3, TreeQuiet DEF vars, diskVars, watchVars, daemonVars
  <2>2. OffInv' /\ ListInv'
    BY <1>1, <1>3 DEF OffInv, ListInv, Members, Nothing, vars, diskVars, watchVars, daemonVars
  <2> QED BY <2>1, <2>2 DEF TreeInv
<1> QED BY <1>2, <1>3

\* Every directory of a watched unit is watched and part of it once the loop
\* has caught up.
THEOREM TreeCorrect ==
  ASSUME Prompt
  PROVE  Spec => []TreeWatched
<1>1. TypeOK /\ TreeInv => TreeWatched
  BY Settled DEF TreeInv, TreeWatched
<1>2. TypeOK /\ TypeOK' /\ TreeInv /\ [Next]_vars => TreeInv'
  BY NextTree
<1> QED BY <1>1, <1>2, InitTree, UnitTypeCorrect, PTL DEF Spec

-----------------------------------------------------------------------------
(* What the snapshot of a watched unit may still be missing.                *)

\* An event of the root is under way ...
Armed ==
  running # {} \/ (\E t \in locking : t[1] = gen) \/ emitting > 0 \/ events > 0

\* ... or the loop will arm the timer: a removal waits in a directory whose
\* bookkeeping will still be there when it is read.
Arms(i, t) ==
  /\ notices[i] = <<"delete", t>> \/ \E c \in Sub : notices[i] = <<"rmdir", c>> /\ Parent[c] = t
  /\ t \in known /\ \A j \in 1..i-1 : notices[j] # <<"rmdir", t>>
SureArm == \E i \in 1..Len(notices) : \E t \in Dir : Arms(i, t)

\* The member file of d is still to be reported.
Due(d) == IF member[d] # None
          THEN \/ Pending("write", d) \/ d \in debounce \/ d \in walk
               \/ d \notin inotify \/ d \notin known
          ELSE Pending("delete", d)

\* It is in the snapshot, or will be, unless it could not be read.
Seen(d) == \/ d \in missed
           \/ IF job = None THEN snapHash # None /\ snapHash[d] = member[d]
              ELSE d \in job.todo \/ job.got[d] = member[d]

\* The last disjunct is a unit that has lost every member: the dispatch was
\* given up.
SnapInv ==
  registered =>
    \/ Armed \/ SureArm
    \/ \A d \in Dir : Due(d) \/ Seen(d)
    \/ job = None /\ \A d \in Dir : Due(d) \/ member[d] = None

SentInv == snapHash \in {None, Nothing} \/ server = snapHash \/ unsent = snapHash

\* Members skipped by the last dispatch leave either something to send or the
\* whole tree to be told.
MissedInv ==
  job = None /\ snapHash = Nothing /\ missed # {} => missed = Dir

LEMMA EmitArms ==
  ASSUME NEW d, EmitChange(d), d \in known PROVE Armed'
BY DEF EmitChange, ScheduleUnit, Armed

LEMMA ArmedSame ==
  ASSUME UNCHANGED <<gen, running, locking, emitting, events>> PROVE Armed => Armed'
BY DEF Armed

LEMMA SureStep ==
  ASSUME NEW n, Queued(n), SureArm,
         \A t \in known : Taken(n) =>
            n # <<"delete", t>> /\ \A c \in Sub : n = <<"rmdir", c>> => Parent[c] # t,
         \A t \in known : t \in known' \/ (Taken(n) /\ n = <<"rmdir", t>>)
  PROVE  SureArm'
<1>1. PICK i \in 1..Len(notices), t \in Dir : Arms(i, t)
  BY DEF SureArm
<1>2. t \in known
  BY <1>1 DEF Arms
<1>3. CASE Appended(n)
  <2>1. i \in 1..Len(notices') /\ notices'[i] = notices[i] /\ t \in known'
        /\ \A j \in 1..i-1 : notices'[j] = notices[j]
    BY <1>2, <1>3 DEF Appended, Taken
  <2>2. Arms(i, t)'
    BY <1>1, <2>1 DEF Arms
  <2> QED BY <2>1, <2>2 DEF SureArm
<1>4. CASE Taken(n)
  <2>1. i # 1
    BY <1>1, <1>2, <1>4 DEF Arms, Taken
  <2>2. n # <<"rmdir", t>>
    BY <1>1, <1>4, <2>1 DEF Arms, Taken
  <2>3. i - 1 \in 1..Len(notices') /\ notices'[i - 1] = notices[i] /\ t \in known'
    BY <1>2, <1>4, <2>1, <2>2 DEF Taken
  <2>4. \A j \in 1..i-1-1 : j + 1 \in 1..i-1 /\ notices'[j] = notices[j + 1]
    BY <1>4, <2>3 DEF Taken
  <2>5. Arms(i - 1, t)'
    BY <1>1, <2>3, <2>4 DEF Arms
  <2> QED BY <2>3, <2>5 DEF SureArm
<1>5. CASE Len(notices) \in Nat /\ notices' = notices
  <2>1. t \in known'
    BY <1>2, <1>5 DEF Taken
  <2>2. Arms(i, t)'
    BY <1>1, <1>5, <2>1 DEF Arms
  <2> QED BY <1>5, <2>2 DEF SureArm
<1> QED BY <1>3, <1>4, <1>5 DEF Queued

\* A step outside the event loop.
LEMMA SnapKept ==
  ASSUME SnapInv, UNCHANGED <<registered, job, snapHash, missed>>,
         Armed => Armed', SureArm => SureArm' \/ Armed',
         \A d \in Dir : Due(d) => Due(d)',
         \A d \in Dir : member'[d] = member[d] \/ Due(d)'
  PROVE  SnapInv'
<1> SUFFICES ASSUME registered, ~Armed', ~SureArm'
             PROVE  \/ \A d \in Dir : Due(d)' \/ Seen(d)'
                    \/ job = None /\ \A d \in Dir : Due(d)' \/ member'[d] = None
  BY DEF SnapInv
<1>1. \/ \A d \in Dir : Due(d) \/ Seen(d)
      \/ job = None /\ \A d \in Dir : Due(d) \/ member[d] = None
  BY DEF SnapInv
<1>2. \A d \in Dir : member'[d] = member[d] => (Seen(d) => Seen(d)')
  BY DEF Seen
<1> QED BY <1>1, <1>2

\* A removal whose directory is no longer part of the unit: the topmost
\* directory above it that is about to leave the unit makes sure that its own
\* removal, still to be read, arms the timer.
LEMMA RemovalArms ==
  ASSUME TypeOK, TreeInv, registered, NEW d \in Dir, Receive("delete", d),
         d \notin known, known' = known
  PROVE  SureArm'
<1>1. Taken(<<"delete", d>>) /\ walk = {}
  BY ReceiveQueue
<1>2. /\ 1 \in 1..Len(notices) /\ notices[1] = <<"delete", d>>
      /\ \A i \in 1..Len(notices') : notices'[i] = notices[i + 1]
      /\ Len(notices') = Len(notices) - 1 /\ Len(notices) \in Nat
  BY <1>1 DEF Taken
<1> DEFINE N == {a \in Up(d) : a \notin known \/ Pending("rmdir", a)'}
<1>3. \A e \in Dir : Pending("rmdir", e)' => Pending("rmdir", e)
  <2> SUFFICES ASSUME NEW e \in Dir, NEW i \in 1..Len(notices'), notices'[i] = <<"rmdir", e>>
               PROVE  Pending("rmdir", e)
    BY DEF Pending
  <2>1. i + 1 \in 1..Len(notices)
    BY <1>2
  <2> QED BY <1>2, <2>1 DEF Pending
<1>4. \A e \in Dir : Pending("rmdir", e) => Pending("rmdir", e)'
  <2> SUFFICES ASSUME NEW e \in Dir, NEW i \in 1..Len(notices), notices[i] = <<"rmdir", e>>
               PROVE  Pending("rmdir", e)'
    BY DEF Pending
  <2>1. i # 1
    BY <1>2
  <2>2. i - 1 \in 1..Len(notices') /\ i - 1 + 1 = i
    BY <1>2, <2>1
  <2>3. notices'[i - 1] = notices[i - 1 + 1]
    BY <1>2, <2>2
  <2> QED BY <2>2, <2>3 DEF Pending
<1>5. d \in N /\ Root \in Dir /\ Root \notin N
  BY <1>3 DEF Up, TreeInv, Shape, RootInv
<1>6. N \in SUBSET Sub /\ N # {}
  BY <1>5 DEF Sub, Up
<1>7. PICK q \in N : Parent[q] \notin N
  BY <1>6
<1>8. q \in Up(d) \cap Sub /\ Parent[q] \in Up(d) /\ Parent[q] \in Dir /\ q \in Dir
  BY <1>6, <1>7 DEF Up, Sub
<1>9. Parent[q] \in known /\ ~Pending("rmdir", Parent[q])'
  BY <1>7, <1>8
<1>10. CASE Pending("rmdir", q)'
  <2>1. PICK i \in 1..Len(notices') : notices'[i] = <<"rmdir", q>>
    BY <1>10 DEF Pending
  <2>2. \A j \in 1..i-1 : j \in 1..Len(notices')
    BY <1>2, <2>1
  <2>3. \A j \in 1..i-1 : notices'[j] # <<"rmdir", Parent[q]>>
    BY <1>9, <2>2 DEF Pending
  <2>4. Arms(i, Parent[q])'
    BY <1>8, <1>9, <2>1, <2>3 DEF Arms
  <2> QED BY <1>8, <2>1, <2>4 DEF SureArm
<1>11. CASE ~Pending("rmdir", q)'
  <2>1. q \notin known /\ ~Pending("rmdir", q)
    BY <1>4, <1>7, <1>8, <1>11
  <2>2. (q \in inotify \/ After(1, "rmdir", q)) /\ Remade(1, q)
    BY <1>2, <1>8 DEF TreeInv, DeleteInv
  <2>3. \A k \in 1..Len(notices) : notices[k] # <<"rmdir", q>>
    BY <2>1 DEF Pending
  <2>4. q \in inotify
    <3>1. \A k \in 1+1..Len(notices) : k \in 1..Len(notices)
      OBVIOUS
    <3> QED BY <2>2, <2>3, <3>1 DEF After
  <2>5. \A k \in 1..Len(notices) : notices[k] # <<"mkdir", q>>
    <3> SUFFICES ASSUME NEW k \in 1..Len(notices), notices[k] = <<"mkdir", q>> PROVE FALSE
      OBVIOUS
    <3>1. k \in 1+1..Len(notices)
      BY <1>2
    <3>2. PICK l \in 1+1..k-1 : notices[l] = <<"rmdir", q>>
      BY <2>2, <3>1 DEF Remade
    <3>3. l \in 1..Len(notices)
      BY <3>1, <3>2
    <3> QED BY <2>3, <3>2, <3>3
  <2>6. ~Fresh(q) /\ Adrift(q) /\ q \in exists
    BY <1>1, <2>1, <2>4, <2>5 DEF Fresh, Adrift, TypeOK
  <2>7. Loose(Parent[q])
    BY <1>8, <2>6 DEF TreeInv, Shape, LooseInv
  <2>8. Parent[q] \in inotify
    BY <1>8, <2>4 DEF TreeInv, Shape, UpInv
  <2> QED BY <1>4, <1>8, <1>9, <2>7, <2>8 DEF Loose, Adrift
<1> QED BY <1>10, <1>11

\* What the game changes is reported, or not watched.
LEMMA NotifiedSnap ==
  ASSUME TypeOK, SnapInv, NEW op \in {"write", "delete", "mkdir", "rmdir"}, NEW d \in Dir,
         NEW seen \in BOOLEAN, Notify(seen, op, d),
         UNCHANGED <<registered, job, snapHash, missed>>, UNCHANGED <<walk, known, debounce>>,
         UNCHANGED <<gen, running, locking, emitting, events>>, inotify' \subseteq inotify,
         \A e \in Dir : e = d \/ member'[e] = member[e],
         \/ member'[d] = member[d]
         \/ op = "write" /\ member'[d] # None /\ (seen \/ d \notin inotify)
         \/ op = "delete" /\ member'[d] = None /\ seen
  PROVE  SnapInv'
<1> DEFINE n == <<op, d>>
<1>1. /\ seen => Appended(n)
      /\ ~seen => notices' = notices
      /\ Queued(n)
  BY NotifyQueue
<1>2. n[1] = op /\ n[2] = d /\ n = <<n[1], n[2]>>
  OBVIOUS
<1> HIDE DEF n
<1>3. ~Taken(n)
  BY <1>1 DEF Taken, Appended, TypeOK
<1>4. SureArm => SureArm'
  BY <1>1, <1>3, SureStep
<1>5. \A o, e : Pending(o, e) => Pending(o, e)'
  BY <1>1, <1>3, PendingStep
<1>6. seen => Pending(op, d)'
  BY <1>1, <1>2, PendingStep
<1>7. \A e \in Dir : member'[e] = member[e] /\ Due(e) => Due(e)'
  BY <1>5 DEF Due
<1>8. member'[d] = member[d] \/ Due(d)'
  BY <1>6 DEF Due
<1>9. \A e \in Dir : (Due(e) => Due(e)') /\ (member'[e] = member[e] \/ Due(e)')
  BY <1>7, <1>8
<1> QED BY <1>4, <1>9, ArmedSame, SnapKept

LEMMA GameSnap ==
  ASSUME TypeOK, Prompt, SnapInv, NEW d \in Dir,
         WriteMember(d) \/ DeleteMember(d) \/ (d \in Sub /\ (Mkdir(d) \/ Rmdir(d)))
  PROVE  SnapInv'
<1> SUFFICES ASSUME registered PROVE SnapInv'
  BY DEF SnapInv, WriteMember, DeleteMember, Mkdir, Rmdir, daemonVars
<1>1. /\ UNCHANGED <<registered, job, snapHash, missed>>
      /\ UNCHANGED <<gen, running, locking, emitting, events>>
      /\ UNCHANGED <<walk, known, debounce>>
      /\ inotify' \subseteq inotify
  BY DEF WriteMember, DeleteMember, Mkdir, Rmdir, daemonVars, timerVars
<1> DEFINE seen == d \in inotify
<1>2. seen \in BOOLEAN /\ (seen <=> d \in inotify)
  OBVIOUS
<1>3. CASE WriteMember(d)
  <2>1. PICK c \in Content : member' = [member EXCEPT ![d] = c]
    BY <1>3 DEF WriteMember
  <2>2. member'[d] # None /\ \A e \in Dir : e = d \/ member'[e] = member[e]
    BY <2>1 DEF TypeOK, Tree
  <2>3. Notify(seen, "write", d)
    BY <1>3 DEF WriteMember
  <2> HIDE DEF seen
  <2> QED BY <1>1, <1>2, <2>2, <2>3, NotifiedSnap
<1>4. CASE DeleteMember(d)
  <2>1. d \in inotify /\ member' = [member EXCEPT ![d] = None] /\ Notify(seen, "delete", d)
    BY <1>4 DEF DeleteMember, Prompt
  <2>2. member'[d] = None /\ \A e \in Dir : e = d \/ member'[e] = member[e]
    BY <2>1 DEF TypeOK, Tree
  <2> HIDE DEF seen
  <2> QED BY <1>1, <1>2, <2>1, <2>2, NotifiedSnap
<1>5. CASE d \in Sub /\ (Mkdir(d) \/ Rmdir(d))
  <2>1. PICK op \in {"mkdir", "rmdir"}, said \in BOOLEAN : Notify(said, op, d)
    <3> DEFINE made == Parent[d] \in inotify
               gone == {d, Parent[d]} \cap inotify # {}
    <3>1. made \in BOOLEAN /\ gone \in BOOLEAN
      OBVIOUS
    <3>2. Notify(made, "mkdir", d) \/ Notify(gone, "rmdir", d)
      BY <1>5 DEF Mkdir, Rmdir
    <3> HIDE DEF made, gone
    <3> QED BY <3>1, <3>2
  <2>2. member' = member
    BY <1>5 DEF Mkdir, Rmdir
  <2> QED BY <1>1, <2>1, <2>2, NotifiedSnap
<1> QED BY <1>3, <1>4, <1>5

\* The loop hands on what it reads.
LEMMA LoopSnap ==
  ASSUME TypeOK, TreeInv, SnapInv, Loop
  PROVE  SnapInv'
<1>0. UNCHANGED <<exists, member, inotify, registered, job, snapHash, missed>> \/ Attach
  BY DEF Loop, HandleWrite, HandleDelete, HandleMkdir, HandleRmdir, diskVars, daemonVars
<1>1. CASE \E d \in Dir : HandleWrite(d)
  <2>1. PICK d \in Dir : HandleWrite(d)
    BY <1>1
  <2> DEFINE n == <<"write", d>>
  <2>2. /\ Taken(n) /\ Queued(n)
        /\ UNCHANGED <<member, inotify, walk, known, registered, job, snapHash, missed>>
        /\ UNCHANGED <<gen, running, locking, emitting, events>>
        /\ debounce' = debounce \cup {d}
    BY <2>1, ReceiveQueue DEF HandleWrite, diskVars, timerVars, daemonVars
  <2>3. \A e : n # <<"delete", e>> /\ n # <<"rmdir", e>> /\ (n = <<"write", e>> => e = d)
    OBVIOUS
  <2> HIDE DEF n
  <2>4. SureArm => SureArm'
    BY <2>2, <2>3, SureStep
  <2>5. \A e \in Dir : Due(e) => Due(e)'
    <3>1. \A e \in Dir : /\ Pending("delete", e) => Pending("delete", e)'
                         /\ e # d /\ Pending("write", e) => Pending("write", e)'
      BY <2>2, <2>3, PendingStep
    <3> QED BY <2>2, <3>1 DEF Due
  <2> QED BY <2>2, <2>4, <2>5, ArmedSame, SnapKept
<1>2. CASE \E d \in Dir : HandleDelete(d)
  <2>1. PICK d \in Dir : HandleDelete(d)
    BY <1>2
  <2>2. CASE d \in known
    BY <2>1, <2>2, EmitArms DEF HandleDelete, SnapInv
  <2>3. CASE d \notin known
    <3>1. /\ Receive("delete", d)
          /\ UNCHANGED <<member, inotify, walk, known, registered, job, snapHash, missed>>
          /\ UNCHANGED <<gen, running, locking, emitting, events>>
      BY <2>1, <2>3 DEF HandleDelete, EmitChange, diskVars, daemonVars
    <3>2. registered => SureArm'
      BY <2>3, <3>1, RemovalArms
    <3> QED BY <3>1, <3>2 DEF SnapInv
  <2> QED BY <2>2, <2>3
<1>3. CASE \E d \in Sub : HandleMkdir(d)
  <2>1. PICK d \in Sub : HandleMkdir(d)
    BY <1>3
  <2> DEFINE n == <<"mkdir", d>>
  <2>2. /\ Taken(n) /\ Queued(n) /\ walk = {}
        /\ UNCHANGED <<member, inotify, known, registered, job, snapHash, missed>>
        /\ UNCHANGED <<gen, running, locking, emitting, events>>
        /\ debounce \subseteq debounce'
    BY <2>1, ReceiveQueue DEF HandleMkdir, diskVars, timerVars, daemonVars
  <2>3. \A e : n # <<"delete", e>> /\ n # <<"rmdir", e>> /\ n # <<"write", e>>
    OBVIOUS
  <2> HIDE DEF n
  <2>4. SureArm => SureArm'
    BY <2>2, <2>3, SureStep
  <2>5. \A e \in Dir : Due(e) => Due(e)'
    <3>1. \A e \in Dir : /\ Pending("delete", e) => Pending("delete", e)'
                         /\ Pending("write", e) => Pending("write", e)'
      BY <2>2, <2>3, PendingStep
    <3> QED BY <2>2, <3>1 DEF Due
  <2> QED BY <2>2, <2>4, <2>5, ArmedSame, SnapKept
<1>4. CASE \E d \in Sub : HandleRmdir(d)
  <2>1. PICK d \in Sub : HandleRmdir(d)
    BY <1>4
  <2>2. CASE Parent[d] \in known
    BY <2>1, <2>2, EmitArms DEF HandleRmdir, SnapInv
  <2>3. CASE Parent[d] \notin known
    <3> DEFINE n == <<"rmdir", d>>
    <3>1. /\ Taken(n) /\ Queued(n)
          /\ UNCHANGED <<member, inotify, walk, debounce, registered, job, snapHash, missed>>
          /\ UNCHANGED <<gen, running, locking, emitting, events>>
          /\ known' = known \ {d}
      BY <2>1, <2>3, ReceiveQueue DEF HandleRmdir, EmitChange, diskVars, daemonVars
    <3>2. n = <<"rmdir", d>>
          /\ \A e : n # <<"delete", e>> /\ n # <<"write", e>> /\ (n = <<"rmdir", e>> => e = d)
      OBVIOUS
    <3> HIDE DEF n
    <3>3. SureArm => SureArm'
      BY <2>3, <3>1, <3>2, SureStep
    <3>4. \A e \in Dir : Due(e) => Due(e)'
      <4>1. \A e \in Dir : /\ Pending("delete", e) => Pending("delete", e)'
                           /\ Pending("write", e) => Pending("write", e)'
        BY <3>1, <3>2, PendingStep
      <4> QED BY <3>1, <4>1 DEF Due
    <3> QED BY <3>1, <3>3, <3>4, ArmedSame, SnapKept
  <2> QED BY <2>2, <2>3
<1>5. CASE Attach
  <2> DEFINE n == <<"write", Root>>
  <2>1. /\ walk' = {} /\ inotify' = inotify \cup walk /\ known' = known \cup walk
        /\ debounce' = debounce \cup (walk \cap Members)
        /\ UNCHANGED <<exists, member, notices, registered, job, snapHash, missed>>
        /\ UNCHANGED <<gen, running, locking, emitting, events>>
        /\ walk \subseteq exists
    BY <1>5 DEF Attach, TreeInv, Shape, WalkInv, diskVars, timerVars, daemonVars
  <2>2. Queued(n) /\ ~Taken(n)
    BY <2>1, QueueSame DEF Taken, TypeOK
  <2> HIDE DEF n
  <2>3. SureArm => SureArm'
    BY <2>1, <2>2, SureStep
  <2>4. \A e \in Dir : Due(e) => Due(e)'
    <3>1. \A o, e : Pending(o, e)' <=> Pending(o, e)
      BY <2>1 DEF Pending
    <3> QED BY <2>1, <3>1 DEF Due, Members
  <2> QED BY <2>1, <2>3, <2>4, ArmedSame, SnapKept
<1> QED BY <1>1, <1>2, <1>3, <1>4, <1>5 DEF Loop

\* The timers of members and of the root keep the event under way.
LEMMA TimersSnap ==
  ASSUME TypeOK, TimerInv, SnapInv, (\E d \in Dir : FireMember(d)) \/ Timers
  PROVE  SnapInv'
<1> DEFINE n == <<"write", Root>>
<1>0. UNCHANGED <<exists, member, inotify, notices, walk, known, registered, job, snapHash, missed>>
  BY DEF FireMember, Timers, Expire, FireUnit, EmitUnit, diskVars, watchVars, daemonVars
<1>1. Queued(n) /\ ~Taken(n)
  BY <1>0, QueueSame DEF Taken, TypeOK
<1> HIDE DEF n
<1>2. SureArm => SureArm'
  BY <1>0, <1>1, SureStep
<1>3. \A o, e : Pending(o, e)' <=> Pending(o, e)
  BY <1>0 DEF Pending
<1>4. CASE \E d \in Dir : FireMember(d)
  <2>1. PICK d \in Dir : FireMember(d)
    BY <1>4
  <2>2. CASE d \in known
    BY <2>1, <2>2, EmitArms DEF FireMember, SnapInv
  <2>3. CASE d \notin known
    <3>1. UNCHANGED <<gen, running, locking, emitting, events>> /\ debounce' = debounce \ {d}
      BY <2>1, <2>3 DEF FireMember, EmitChange
    <3>2. \A e \in Dir : Due(e) => Due(e)'
      BY <1>0, <1>3, <2>3, <3>1 DEF Due
    <3> QED BY <1>0, <1>2, <3>1, <3>2, ArmedSame, SnapKept
  <2> QED BY <2>2, <2>3
<1>5. CASE Timers
  <2>1. \A e \in Dir : Due(e) => Due(e)'
    <3>1. debounce' = debounce
      BY <1>5 DEF Timers, Expire, FireUnit, EmitUnit, watchVars
    <3> QED BY <1>0, <1>3, <3>1 DEF Due
  <2>2. Armed => Armed'
    <3>1. CASE \E t \in running : Expire(t)
      <4>1. PICK t \in running : Expire(t)
        BY <3>1
      <4>2. t = entry /\ t # None /\ t[1] = gen
        BY <4>1 DEF TimerInv, TypeOK, Timer
      <4>3. t \in locking' /\ gen' = gen
        BY <4>1 DEF Expire
      <4> QED BY <4>2, <4>3 DEF Armed
    <3>2. CASE \E t \in locking : FireUnit(t)
      <4>1. PICK t \in locking : FireUnit(t)
        BY <3>2
      <4>2. /\ locking' = locking \ {t} /\ UNCHANGED <<gen, running, events>>
            /\ IF t[1] = gen THEN emitting' = emitting + 1 ELSE emitting' = emitting
        BY <4>1 DEF FireUnit
      <4>3. CASE t[1] = gen
        BY <4>2, <4>3 DEF Armed, TypeOK
      <4>4. CASE t[1] # gen
        BY <4>2, <4>4 DEF Armed
      <4> QED BY <4>3, <4>4
    <3>3. CASE EmitUnit
      BY <3>3 DEF EmitUnit, Armed, TypeOK
    <3> QED BY <1>5, <3>1, <3>2, <3>3 DEF Timers
  <2> QED BY <1>0, <1>2, <2>1, <2>2, SnapKept
<1> QED BY <1>4, <1>5

\* A job that has just listed the unit will see every member.
LEMMA ListingSees ==
  ASSUME TypeOK, NEW stage, job' = Listing(stage) \/ (job' # None /\ job'.todo = Members
                                                     /\ job'.got = Nothing),
         member' = member, Listing(stage) # None
  PROVE  \A d \in Dir : Seen(d)'
<1>1. job' # None /\ job'.todo = Members /\ job'.got = Nothing
  BY DEF Listing
<1>2. \A d \in Dir : d \in Members \/ member[d] = None
  BY DEF Members, TypeOK
<1> QED BY <1>1, <1>2 DEF Seen, Nothing

\* The event loop: what it reads or has read is what is not due.
LEMMA DaemonSnap ==
  ASSUME TypeOK, TypeOK', TreeInv, SnapInv, Daemon \/ Scan \/ PluginChanged \/ Remove
  PROVE  SnapInv'
<1>0. ASSUME NEW stage \in {"listed", "read"} PROVE Listing(stage) # None
  BY ListingType
<1>1. CASE (HandleUnitEvent \/ Reconnect) /\ ~registered
  BY <1>1 DEF HandleUnitEvent, Reconnect, SnapInv
<1>2. CASE ((HandleUnitEvent \/ Reconnect) /\ registered) \/ PluginChanged \/ Scan
  <2>1. member' = member /\ \E stage \in {"listed", "read"} : job' = Listing(stage)
    BY <1>2 DEF HandleUnitEvent, Reconnect, PluginChanged, Scan, diskVars
  <2> QED BY <1>0, <2>1, ListingSees DEF SnapInv
<1>3. CASE AddDirectoryUnit
  <2>1. /\ job # None /\ job.stage = "listed" /\ member' = member
        /\ job' = [job EXCEPT !.stage = "read"]
    BY <1>3 DEF AddDirectoryUnit, diskVars
  <2>2. job \in Work /\ job.todo = Members /\ job.got = Nothing
    BY <2>1 DEF TypeOK, TreeInv, ListInv
  <2>3. job'.todo = Members /\ job'.got = Nothing /\ job' \in Work
    BY <2>1, <2>2 DEF Work
  <2>4. job' # None
    BY <2>3
  <2> QED BY <1>0, <2>1, <2>3, <2>4, ListingSees DEF SnapInv
<1>7. CASE \E d \in Dir : ExceedCap(d)
  <2>1. job' = None /\ missed' = Dir
    BY <1>7 DEF ExceedCap
  <2>2. \A d \in Dir : Seen(d)'
    BY <2>1 DEF Seen
  <2> QED BY <2>2 DEF SnapInv
<1>8. ASSUME NEW d \in Dir, ReadMember(d), job' = [job EXCEPT !.todo = @ \ {d}],
             missed' = missed \cup {d}
      PROVE  SnapInv'
  <2>1. /\ job # None /\ job' # None
        /\ UNCHANGED <<exists, member, inotify, notices, walk, known, debounce, registered>>
        /\ UNCHANGED <<gen, running, locking, emitting, events>>
    <3>1. job' \in Work
      BY <1>8 DEF TypeOK, ReadMember, Work
    <3> QED BY <1>8, <3>1 DEF ReadMember, diskVars, watchVars, timerVars
  <2>2. job'.todo = job.todo \ {d} /\ job'.got = job.got
    BY <1>8, <2>1 DEF TypeOK, Work
  <2>3. \A e \in Dir : Seen(e) => Seen(e)'
    BY <1>8, <2>1, <2>2 DEF Seen
  <2>4. \A e \in Dir : Due(e)' <=> Due(e)
    BY <2>1 DEF Due, Pending
  <2>5. SureArm' <=> SureArm
    BY <2>1 DEF SureArm, Arms
  <2> QED BY <2>1, <2>3, <2>4, <2>5, ArmedSame DEF SnapInv
<1>4. ASSUME NEW d \in Dir, ReadMember(d), missed' = missed,
             job' = [job EXCEPT !.todo = @ \ {d}, !.got[d] = member[d]]
      PROVE  SnapInv'
  <2>1. /\ job # None /\ job' = [job EXCEPT !.todo = @ \ {d}, !.got[d] = member[d]]
        /\ UNCHANGED <<exists, member, inotify, notices, walk, known, debounce, registered>>
        /\ UNCHANGED <<gen, running, locking, emitting, events>>
    BY <1>4 DEF ReadMember, diskVars, watchVars, timerVars
  <2>2. job \in Work
    BY <2>1 DEF TypeOK
  <2>3. job'.todo = job.todo \ {d} /\ job'.got = [job.got EXCEPT ![d] = member[d]]
        /\ job.got \in Tree /\ job.todo \in SUBSET Dir
    BY <2>1, <2>2 DEF Work
  <2>4. job' # None
    BY <1>4, ReadType
  <2>8. /\ \A e \in Dir \ {d} : job'.got[e] = job.got[e]
        /\ job'.got[d] = member[d] /\ member' = member
    BY <2>1, <2>3 DEF Tree
  <2>5. ASSUME NEW e \in Dir, Seen(e) PROVE Seen(e)'
    <3>1. CASE e = d
      BY <2>4, <2>8, <3>1 DEF Seen
    <3>2. CASE e # d
      <4>1. e \in job.todo => e \in job'.todo
        BY <2>3, <3>2
      <4>2. job'.got[e] = job.got[e]
        BY <2>8, <3>2
      <4> QED BY <1>4, <2>1, <2>4, <2>5, <2>8, <4>1, <4>2 DEF Seen
    <3> QED BY <3>1, <3>2
  <2>6. \A e \in Dir : Due(e)' <=> Due(e)
    BY <2>1 DEF Due, Pending
  <2>7. SureArm' <=> SureArm
    BY <2>1 DEF SureArm, Arms
  <2> QED BY <2>1, <2>5, <2>6, <2>7, ArmedSame DEF SnapInv
<1>5. CASE SkipDispatch \/ Dispatch
  <2>1. /\ ReadAll /\ job' = None
        /\ missed' = Skipped /\ missed \subseteq missed'
        /\ \/ job.got = Nothing /\ snapHash' = snapHash
           \/ job.got = snapHash'
        /\ UNCHANGED <<exists, member, inotify, notices, walk, known, debounce, registered>>
        /\ UNCHANGED <<gen, running, locking, emitting, events>>
    BY <1>5 DEF SkipDispatch, Dispatch, Skipped, TypeOK, diskVars, watchVars, timerVars
  <2>2. job # None /\ job.todo = {} /\ job.got \in Tree
    BY <2>1 DEF ReadAll, TypeOK, Work
  <2>3. \A e \in Dir : Due(e)' <=> Due(e)
    BY <2>1 DEF Due, Pending
  <2>4. SureArm' <=> SureArm
    BY <2>1 DEF SureArm, Arms
  <2>7. CASE job.got = Nothing /\ missed # {}
    <3>1. \A d \in Dir : Seen(d)'
      BY <2>1, <2>7 DEF Seen, Skipped
    <3> QED BY <3>1 DEF SnapInv
  <2>5. CASE job.got = Nothing /\ missed = {}
    <3>1. \A d \in Dir : Seen(d) => member'[d] = None
      BY <2>1, <2>2, <2>5 DEF Seen, Nothing
    <3> QED BY <2>1, <2>2, <2>3, <2>4, <3>1, ArmedSame DEF SnapInv
  <2>6. CASE job.got = snapHash'
    <3>1. \A d \in Dir : Seen(d) => Seen(d)'
      BY <2>1, <2>2, <2>6 DEF Seen
    <3> QED BY <2>1, <2>2, <2>3, <2>4, <3>1, ArmedSame DEF SnapInv
  <2> QED BY <2>1, <2>5, <2>6, <2>7
<1>6. CASE Remove
  BY <1>6 DEF Remove, SnapInv
<1>9. CASE \E d \in Dir : ReadMember(d)
  BY <1>4, <1>8, <1>9 DEF ReadMember
<1> QED BY <1>1, <1>2, <1>3, <1>5, <1>6, <1>7, <1>9 DEF Daemon

\* What the event loop remembers as dispatched is what it sent or failed to.
LEMMA SentStep ==
  SentInv /\ [Next]_vars => SentInv'
<1> SUFFICES ASSUME SentInv, [Next]_vars PROVE SentInv'
  OBVIOUS
<1>1. CASE Dispatch
  BY <1>1 DEF Dispatch, SentInv, Nothing
<1>2. CASE snapHash' = None
  BY <1>2 DEF SentInv
<1>3. CASE UNCHANGED <<snapHash, server, unsent>>
  BY <1>3 DEF SentInv, Nothing
<1>4. Dispatch \/ snapHash' = None \/ UNCHANGED <<snapHash, server, unsent>>
  BY DEF Next, Loop, Timers, Daemon, WriteMember, DeleteMember, Mkdir, Rmdir, FireMember,
         HandleWrite, HandleDelete, HandleMkdir, HandleRmdir, Attach, Expire, FireUnit, EmitUnit,
         HandleUnitEvent, Reconnect, AddDirectoryUnit, ReadMember, ExceedCap, SkipDispatch,
         PluginChanged,
         Scan, Remove, daemonVars, vars
<1> QED BY <1>1, <1>2, <1>3, <1>4

LEMMA MissedStep ==
  TypeOK /\ MissedInv /\ [Next]_vars => MissedInv'
<1> SUFFICES ASSUME TypeOK, MissedInv, [Next]_vars PROVE MissedInv'
  OBVIOUS
<1>1. CASE Dispatch \/ SkipDispatch
  <2>1. /\ missed' = Skipped
        /\ job.got = snapHash' \/ job.got = Nothing
    BY <1>1 DEF Dispatch, SkipDispatch
  <2>2. CASE job.got = Nothing
    BY <2>1, <2>2 DEF Skipped, MissedInv
  <2>3. CASE job.got # Nothing
    BY <2>1, <2>3 DEF MissedInv, Nothing
  <2> QED BY <2>2, <2>3
<1>2. CASE missed' = {} \/ missed' = Dir
  BY <1>2 DEF MissedInv, Nothing
<1>3. CASE snapHash' = None
  <2>1. snapHash' # Nothing'
    BY <1>3 DEF Nothing, Tree
  <2> QED BY <2>1 DEF MissedInv
<1>4. CASE UNCHANGED <<job, snapHash, missed>>
  BY <1>4 DEF MissedInv, Nothing
<1>5. CASE AddDirectoryUnit
  <2>1. job \in Work /\ job' = [job EXCEPT !.stage = "read"]
    BY <1>5 DEF AddDirectoryUnit, TypeOK
  <2>2. job' \in Work
    BY ONLY <2>1 DEF Work
  <2> QED BY <2>2 DEF MissedInv
<1>6. CASE \E d \in Dir : ReadMember(d)
  <2>1. PICK d \in Dir : ReadMember(d)
    BY <1>6
  <2>2. job' \in Work
    BY <2>1, ReadType
  <2> QED BY <2>2 DEF MissedInv
<1>7. \/ Dispatch \/ SkipDispatch \/ missed' = {} \/ missed' = Dir \/ snapHash' = None
      \/ UNCHANGED <<job, snapHash, missed>>
      \/ AddDirectoryUnit \/ \E d \in Dir : ReadMember(d)
  BY DEF Next, Loop, Timers, Daemon, WriteMember, DeleteMember, Mkdir, Rmdir, FireMember,
         HandleWrite, HandleDelete, HandleMkdir, HandleRmdir, Attach, Expire, FireUnit, EmitUnit,
         HandleUnitEvent, Reconnect, ExceedCap, PluginChanged, Scan, Remove, daemonVars, vars
<1> QED BY <1>1, <1>2, <1>3, <1>4, <1>5, <1>6, <1>7

LEMMA NextSnap ==
  ASSUME Prompt
  PROVE  TypeOK /\ TypeOK' /\ TreeInv /\ TimerInv /\ SnapInv /\ [Next]_vars => SnapInv'
<1> SUFFICES ASSUME TypeOK, TypeOK', TreeInv, TimerInv, SnapInv, [Next]_vars PROVE SnapInv'
  OBVIOUS
<1>1. CASE \E d \in Dir : WriteMember(d) \/ DeleteMember(d)
  BY <1>1, GameSnap
<1>2. CASE \E d \in Sub : Mkdir(d) \/ Rmdir(d)
  BY <1>2, GameSnap DEF Sub
<1>3. CASE Loop
  BY <1>3, LoopSnap
<1>4. CASE (\E d \in Dir : FireMember(d)) \/ Timers
  BY <1>4, TimersSnap
<1>5. CASE Daemon \/ Scan \/ PluginChanged \/ Remove
  BY <1>5, DaemonSnap
<1>6. CASE UNCHANGED vars
  <2>1. /\ UNCHANGED <<member, inotify, notices, walk, known, debounce, registered, job, snapHash, missed>>
        /\ UNCHANGED <<gen, running, locking, emitting, events>>
    BY <1>6 DEF vars, diskVars, watchVars, timerVars, daemonVars
  <2>2. \A d \in Dir : Due(d) => Due(d)'
    BY <2>1 DEF Due, Pending
  <2>3. SureArm => SureArm'
    <3>1. \A i, t : Arms(i, t) => Arms(i, t)'
      BY <2>1 DEF Arms
    <3> QED BY <2>1, <3>1 DEF SureArm
  <2> QED BY <2>1, <2>2, <2>3, ArmedSame, SnapKept
<1> QED BY <1>1, <1>2, <1>3, <1>4, <1>5, <1>6 DEF Next

\* When nothing is under way any more, nothing is due.
LEMMA SettledSnap ==
  ASSUME TypeOK, TreeInv, SnapInv, SentInv, MissedInv PROVE SnapshotCurrent
<1> SUFFICES ASSUME registered, Quiescent, Members # {}, missed # Dir
             PROVE  Agrees(server) \/ (unsent # None /\ Agrees(unsent))
  BY DEF SnapshotCurrent, Agrees
<1>1. notices = <<>> /\ walk = {} /\ debounce = {} /\ job = None /\ ~Armed
  BY DEF Quiescent, Armed
<1>2. inotify = exists /\ known = exists
  BY <1>1, Settled DEF TreeInv
<1>3. ~SureArm /\ \A o, e : ~Pending(o, e)
  BY <1>1 DEF SureArm, Pending
<1>4. \A d \in Dir : ~Due(d)
  BY <1>1, <1>2, <1>3 DEF Due, TypeOK
<1>5. PICK d \in Dir : member[d] # None
  BY DEF Members, TypeOK
<1>6. \A e \in Dir : Seen(e)
  BY <1>1, <1>3, <1>4, <1>5 DEF SnapInv
<1>7. snapHash \in Tree /\ \A e \in Dir \ missed : snapHash[e] = member[e]
  BY <1>1, <1>6 DEF Seen, TypeOK
<1>8. snapHash # Nothing
  <2>1. CASE missed = {}
    BY <1>5, <1>7, <2>1 DEF Nothing
  <2>2. CASE missed # {}
    BY <1>1, <2>2 DEF MissedInv
  <2> QED BY <2>1, <2>2
<1> QED BY <1>7, <1>8 DEF SentInv, Agrees

\* The last snapshot the daemon pushed, or failed to, agrees with the tree on
\* disk, but for members its dispatch could not read, whenever nothing is under way: no interleaving of the game with the watcher,
\* its timers and the event loop's reading leaves a change unnoticed.
THEOREM SnapshotCorrect ==
  ASSUME Prompt
  PROVE  Spec => []SnapshotCurrent
<1>1. Init => TimerInv /\ SnapInv /\ SentInv /\ MissedInv
  BY DEF Init, TimerInv, SupersededFiresSilent, SnapInv, SentInv, MissedInv
<1>2. TypeOK /\ TypeOK' /\ TreeInv /\ [Next]_vars => TreeInv'
  BY NextTree
<1>3. TypeOK /\ TimerInv /\ [Next]_vars => TimerInv'
  BY NextTimerInv DEF Prompt
<1>4. TypeOK /\ TypeOK' /\ TreeInv /\ TimerInv /\ SnapInv /\ [Next]_vars => SnapInv'
  BY NextSnap
<1>5. TypeOK /\ TreeInv /\ SnapInv /\ SentInv /\ MissedInv => SnapshotCurrent
  BY SettledSnap
<1> QED BY <1>1, <1>2, <1>3, <1>4, <1>5, InitTree, SentStep, MissedStep, UnitTypeCorrect,
       PTL DEF Spec
=============================================================================
