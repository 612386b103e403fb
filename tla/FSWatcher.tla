----------------------------- MODULE FSWatcher ------------------------------
(***************************************************************************)
(* The file watcher of the daemon (internal/watcher/watcher.go) for plain  *)
(* directories: fsnotify events restart a debounce timer per file; when it *)
(* fires, a goroutine of its own reads the file, compares it with the hash *)
(* of what was reported last, and queues an event for the daemon's event   *)
(* loop.  A step of that goroutine is what it does between two points      *)
(* where it releases FSWatcher.mu, reads the disk or waits for the channel.*)
(* Timers are untimed: an armed timer may fire at any moment.              *)
(*                                                                         *)
(* One directory; a file's content stands for its bytes and its hash.      *)
(* Directory units are module DirectoryUnit.                               *)
(***************************************************************************)
EXTENDS Naturals, Sequences

CONSTANTS
  File,       \* files in the directory
  Content,    \* possible contents
  None,       \* no file, no hash, no goroutine
  Fire,       \* identifiers for goroutines running fireDebounced
  EventCap,   \* capacity of the events channel
  MaxWrites,  \* bound on changes to files
  MaxAdds,    \* bound on the daemon watching the directory again
  Timing      \* what is not ruled out: "slow", a fire still runs when the
              \* next timer of its file expires; "leftover", a goroutine, a
              \* timer or an fsnotify event being delivered survives Remove

Stages == {"begin", "read", "store", "emit"}
Goroutine == [file : File, stage : Stages, prev : Content \cup {None},
              data : Content \cup {None}]

ASSUME WatchAssumption ==
  /\ None \notin Content \cup File
  /\ None \notin Goroutine
  /\ EventCap \in Nat \ {0}
  /\ MaxWrites \in Nat /\ MaxAdds \in Nat
  /\ Timing \subseteq {"slow", "leftover"}

VARIABLES
  disk,      \* content of each file, None if it does not exist
  writes,    \* changes so far
  watching,  \* the directory has an inotify watch
  adds,      \* times it was watched again
  notices,   \* fsnotify events the loop has still to handle: <<file, op>>
  removing,  \* the file whose FileRemove the loop is queueing, None otherwise
  timers,    \* files with an entry in FSWatcher.timers
  armed,     \* those whose timer is running: it has not fired since its reset
  orphans,   \* files with a running timer that has lost its entry
  fire,      \* fireDebounced goroutines: file, stage, prevHash, bytes read
  hashes,    \* FSWatcher.hashes
  events,    \* the channel to the daemon: file and content, None for removal
  reported,  \* history: the last content the daemon handled, event or scan
  stale,     \* history: files of which an older event waited in the channel
             \* when the directory was watched again
  closed     \* FSWatcher.done is closed

diskVars == <<disk, writes>>
watchVars == <<watching, adds, closed>>
timerVars == <<timers, armed, orphans>>
outVars == <<events, reported, stale>>
vars == <<diskVars, watchVars, notices, removing, timerVars, fire, hashes,
          outVars>>

\* Goroutines of file f.
Running(f) == {i \in Fire : fire[i] # None /\ fire[i].file = f}

\* Positions in the channel of events that carry content of file f.
Queued(f) == {n \in 1..Len(events) : events[n].file = f /\ events[n].data # None}

Put(f, data) ==
  /\ Len(events) < EventCap
  /\ events' = Append(events, [file |-> f, data |-> data])
  /\ stale' = IF data = None THEN stale ELSE stale \ {f}
  /\ UNCHANGED reported

\* The directory is watched, and the scan that follows Add has parsed it.
Init ==
  /\ disk \in [File -> Content \cup {None}]
  /\ writes = 0
  /\ watching = TRUE
  /\ adds = 0
  /\ notices = <<>>
  /\ removing = None
  /\ timers = {} /\ armed = {} /\ orphans = {}
  /\ fire = [i \in Fire |-> None]
  /\ hashes = [f \in File |-> None]
  /\ events = <<>>
  /\ reported = disk
  /\ stale = {}
  /\ closed = FALSE

Notify(f, op) ==
  notices' = IF watching THEN Append(notices, <<f, op>>) ELSE notices

\* The game writes or deletes a file.
Write(f) ==
  /\ writes < MaxWrites
  /\ \E c \in Content \ {disk[f]} : disk' = [disk EXCEPT ![f] = c]
  /\ writes' = writes + 1
  /\ Notify(f, "write")
  /\ UNCHANGED <<watchVars, removing, timerVars, fire, hashes, outVars>>

Delete(f) ==
  /\ writes < MaxWrites
  /\ disk[f] # None
  /\ disk' = [disk EXCEPT ![f] = None]
  /\ writes' = writes + 1
  /\ Notify(f, "remove")
  /\ UNCHANGED <<watchVars, removing, timerVars, fire, hashes, outVars>>

-----------------------------------------------------------------------------
(* The goroutine that reads fsnotify.                                      *)

LoopReady == ~closed /\ removing = None /\ notices # <<>>

\* Mistake: a write is ignored while the file is being read.
ScheduleUnlessFiring ==
  LET f == Head(notices)[1] IN
  /\ LoopReady
  /\ Head(notices)[2] = "write"
  /\ notices' = Tail(notices)
  /\ timers' = IF Running(f) = {} THEN timers \cup {f} ELSE timers
  /\ armed' = IF Running(f) = {} THEN armed \cup {f} ELSE armed
  /\ UNCHANGED <<diskVars, watchVars, removing, orphans, fire, hashes, outVars>>

\* scheduleFileDebounce: a new timer, or a reset of the one in the map, which
\* runs again even if it has fired already.
Schedule ==
  LET f == Head(notices)[1] IN
  /\ LoopReady
  /\ Head(notices)[2] = "write"
  /\ notices' = Tail(notices)
  /\ timers' = timers \cup {f}
  /\ armed' = armed \cup {f}
  /\ UNCHANGED <<diskVars, watchVars, removing, orphans, fire, hashes, outVars>>

\* Mistake: the timer of a file that is gone is not stopped.
ForgetTimerRuns ==
  LET f == Head(notices)[1] IN
  /\ LoopReady
  /\ Head(notices)[2] = "remove"
  /\ notices' = Tail(notices)
  /\ timers' = timers \ {f}
  /\ hashes' = [hashes EXCEPT ![f] = None]
  /\ removing' = f
  /\ UNCHANGED <<diskVars, watchVars, armed, orphans, fire, outVars>>

\* handleRemove, under the lock: stop the timer in the map, forget the hash.
Forget ==
  LET f == Head(notices)[1] IN
  /\ LoopReady
  /\ Head(notices)[2] = "remove"
  /\ notices' = Tail(notices)
  /\ timers' = timers \ {f}
  /\ armed' = armed \ {f}
  /\ hashes' = [hashes EXCEPT ![f] = None]
  /\ removing' = f
  /\ UNCHANGED <<diskVars, watchVars, orphans, fire, outVars>>

\* handleRemove, without it: queue the removal, or give up when closed.
ReportRemoval ==
  /\ removing # None
  /\ \/ Put(removing, None)
     \/ closed /\ UNCHANGED outVars
  /\ removing' = None
  /\ UNCHANGED <<diskVars, watchVars, notices, timerVars, fire, hashes>>

-----------------------------------------------------------------------------
(* Timers and the goroutines they start.                                   *)

Spawn(f) ==
  \E i \in Fire :
    /\ fire[i] = None
    /\ fire' = [fire EXCEPT ![i] = [file |-> f, stage |-> "begin",
                                    prev |-> None, data |-> None]]

Expire(f) ==
  /\ f \in armed \cup orphans
  /\ "slow" \in Timing \/ Running(f) = {}
  /\ Spawn(f)
  /\ \/ f \in armed /\ armed' = armed \ {f} /\ UNCHANGED orphans
     \/ f \in orphans /\ orphans' = orphans \ {f} /\ UNCHANGED armed
  /\ UNCHANGED <<diskVars, watchVars, notices, removing, timers, hashes,
                 outVars>>

Advance(i, rec) == fire' = [fire EXCEPT ![i] = rec]

\* Under the lock: drop the map's entry, whose timer may be running again by
\* now, and look up the hash.
Begin(i) ==
  LET f == fire[i].file IN
  /\ fire[i] # None /\ fire[i].stage = "begin"
  /\ timers' = timers \ {f}
  /\ armed' = armed \ {f}
  /\ orphans' = IF f \in armed THEN orphans \cup {f} ELSE orphans
  /\ Advance(i, [fire[i] EXCEPT !.stage = "read", !.prev = hashes[f]])
  /\ UNCHANGED <<diskVars, watchVars, notices, removing, hashes, outVars>>

\* Mistake: what is read is reported even if it was reported before.
ReadAlways(i) ==
  /\ fire[i] # None /\ fire[i].stage = "read"
  /\ LET c == disk[fire[i].file] IN
       Advance(i, IF c = None THEN None
                  ELSE [fire[i] EXCEPT !.stage = "store", !.data = c])
  /\ UNCHANGED <<diskVars, watchVars, notices, removing, timerVars, hashes,
                 outVars>>

\* Read and compare; a file that is gone or unchanged is not reported.
Read(i) ==
  /\ fire[i] # None /\ fire[i].stage = "read"
  /\ LET c == disk[fire[i].file] IN
       Advance(i, IF c \in {None, fire[i].prev} THEN None
                  ELSE [fire[i] EXCEPT !.stage = "store", !.data = c])
  /\ UNCHANGED <<diskVars, watchVars, notices, removing, timerVars, hashes,
                 outVars>>

\* Under the lock again: remember the hash.
Store(i) ==
  /\ fire[i] # None /\ fire[i].stage = "store"
  /\ hashes' = [hashes EXCEPT ![fire[i].file] = fire[i].data]
  /\ Advance(i, [fire[i] EXCEPT !.stage = "emit"])
  /\ UNCHANGED <<diskVars, watchVars, notices, removing, timerVars, outVars>>

\* Mistake: a closed watcher does not free a goroutine waiting to emit.
EmitUnlessClosed(i) ==
  /\ fire[i] # None /\ fire[i].stage = "emit"
  /\ Put(fire[i].file, fire[i].data)
  /\ Advance(i, None)
  /\ UNCHANGED <<diskVars, watchVars, notices, removing, timerVars, hashes>>

\* Mistake: a full channel loses the event, whose hash is stored already.
EmitOrDrop(i) ==
  /\ fire[i] # None /\ fire[i].stage = "emit"
  /\ \/ Put(fire[i].file, fire[i].data)
     \/ (closed \/ Len(events) = EventCap) /\ UNCHANGED outVars
  /\ Advance(i, None)
  /\ UNCHANGED <<diskVars, watchVars, notices, removing, timerVars, hashes>>

\* emitChange: queue the event, or give up when closed.
Emit(i) ==
  /\ fire[i] # None /\ fire[i].stage = "emit"
  /\ \/ Put(fire[i].file, fire[i].data)
     \/ closed /\ UNCHANGED outVars
  /\ Advance(i, None)
  /\ UNCHANGED <<diskVars, watchVars, notices, removing, timerVars, hashes>>

-----------------------------------------------------------------------------
(* The daemon.                                                             *)

\* handleFileEvent: the content is the one the event was queued with; an event
\* of a directory that is not watched is ignored.
Take ==
  /\ ~closed
  /\ events # <<>>
  /\ LET ev == Head(events) IN
       reported' = IF watching /\ ev.data # None
                   THEN [reported EXCEPT ![ev.file] = ev.data] ELSE reported
  /\ events' = Tail(events)
  /\ UNCHANGED <<diskVars, watchVars, notices, removing, timerVars, fire,
                 hashes, stale>>

\* Remove: drop the watch, stop the timers in the map, forget the hashes.
Remove ==
  /\ ~closed /\ watching
  /\ \/ "leftover" \in Timing
     \/ removing = None /\ orphans = {} /\ \A i \in Fire : fire[i] = None
  /\ watching' = FALSE
  /\ notices' \in {<<>>} \cup (IF "leftover" \in Timing /\ notices # <<>>
                               THEN {<<Head(notices)>>} ELSE {})
  /\ timers' = {} /\ armed' = {}
  /\ hashes' = [f \in File |-> None]
  /\ UNCHANGED <<diskVars, adds, closed, removing, orphans, fire, outVars>>

\* Add, and the scan that follows it in scanGame.  What waits in the channel
\* stays there, and is handled after the scan.
Add ==
  /\ ~closed /\ ~watching
  /\ adds < MaxAdds
  /\ watching' = TRUE
  /\ adds' = adds + 1
  /\ reported' = [f \in File |-> IF disk[f] = None THEN reported[f] ELSE disk[f]]
  /\ stale' = {f \in File : Queued(f) # {}}
  /\ UNCHANGED <<diskVars, closed, notices, removing, timerVars, fire, hashes,
                 events>>

\* Close: wake whoever waits on done, stop the timers.
Close ==
  /\ ~closed
  /\ closed' = TRUE
  /\ watching' = FALSE
  /\ armed' = {}
  /\ UNCHANGED <<diskVars, adds, notices, removing, timers, orphans, fire,
                 hashes, outVars>>

-----------------------------------------------------------------------------
FireStep(i) == Begin(i) \/ Read(i) \/ Store(i) \/ Emit(i)
LoopStep == Schedule \/ Forget \/ ReportRemoval

Next ==
  \/ \E f \in File : Write(f) \/ Delete(f) \/ Expire(f)
  \/ LoopStep
  \/ \E i \in Fire : FireStep(i)
  \/ Take \/ Remove \/ Add \/ Close

Spec == Init /\ [][Next]_vars

\* Goroutines run, timers fire, and the daemon keeps taking events; nothing
\* is assumed of the game, nor that the watcher is ever closed.
Fairness ==
  /\ WF_vars(LoopStep)
  /\ \A f \in File : WF_vars(Expire(f))
  /\ \A i \in Fire : WF_vars(FireStep(i))
  /\ WF_vars(Take)

FairSpec == Spec /\ Fairness

-----------------------------------------------------------------------------
(* Properties.                                                             *)

\* Every variable has its type; only timers in the map can be reset, and a
\* goroutine past its read holds bytes.
TypeOK ==
  /\ disk \in [File -> Content \cup {None}]
  /\ writes \in 0..MaxWrites /\ adds \in 0..MaxAdds
  /\ watching \in BOOLEAN /\ closed \in BOOLEAN
  /\ notices \in Seq(File \X {"write", "remove"})
  /\ removing \in File \cup {None}
  /\ timers \subseteq File /\ armed \subseteq timers /\ orphans \subseteq File
  /\ fire \in [Fire -> Goroutine \cup {None}]
  /\ \A i \in Fire : fire[i] # None /\ fire[i].stage \in {"store", "emit"} =>
       fire[i].data # None
  /\ hashes \in [File -> Content \cup {None}]
  /\ events \in Seq([file : File, data : Content \cup {None}])
  /\ Len(events) <= EventCap
  /\ reported \in [File -> Content \cup {None}]
  /\ stale \subseteq File

\* Nothing of file f is on its way to the daemon.
Settled(f) ==
  /\ removing # f
  /\ \A n \in 1..Len(notices) : notices[n][1] # f
  /\ f \notin armed \cup orphans
  /\ Running(f) = {}
  /\ Queued(f) = {}

\* However writes, deletions, resets of a fired timer, the steps of a fire and
\* the daemon's scans interleave, the last content the daemon handled of a file
\* that exists is the one it has (TestDebounce_CoalescesRapidWrites,
\* docs/daemon.md on debouncing).  Files in `stale` are left out: their older
\* event is handled after the newer scan and only another change corrects it.
LastReportCurrent ==
  \A f \in File : watching /\ Settled(f) /\ disk[f] # None /\ f \notin stale =>
    reported[f] = disk[f]

\* The same without the exception.  The code does not have it: nothing drains
\* the channel, or compares an event with the scan, when a directory is
\* watched again (handleFileEvent, daemon.go:1755-1785).
ScanNotOverwritten ==
  \A f \in File :
    watching /\ Settled(f) /\ disk[f] # None => reported[f] = disk[f]

\* Deduplication: what is about to be reported is not what was reported last,
\* also when a timer that was reset after it had fired fires twice
\* (TestHashDedup_SkipsUnchangedContent).
NoDuplicateReport ==
  \A i \in Fire : fire[i] # None /\ fire[i].stage = "store" =>
    hashes[fire[i].file] # fire[i].data

\* A change to a watched file reaches the daemon, whatever the channel's
\* capacity and however many goroutines wait for it, and the daemon's view of
\* it stays right (the files in `stale` left out, as above).
EventuallyReported ==
  <>[](\A f \in File : watching /\ disk[f] # None /\ f \notin stale =>
         reported[f] = disk[f])

\* After Close no goroutine of the watcher waits for ever on a channel that
\* nobody reads any more (the done case of emitChange).
CloseReleases ==
  closed ~> (removing = None /\ \A i \in Fire : fire[i] = None)
=============================================================================
