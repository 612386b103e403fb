------------------------------ MODULE SaveSync ------------------------------
(***************************************************************************)
(* The save pipeline of the daemon (internal/daemon/daemon.go): a save     *)
(* file changes, the watcher reports it, the game's WASM plugin parses it, *)
(* and the sections that differ from the last push go to the server over   *)
(* the WebSocket.  Every thread that can run parseAndPush is modelled: the *)
(* event loop, and the local-API handler that runs UpdatePlugins beside    *)
(* it.  Steps are split where the code releases Daemon.mu or waits for the *)
(* plugin or the network; what happens between two such points is one      *)
(* action.                                                                 *)
(*                                                                         *)
(* Section bytes stand for their SHA-256 hash (no collisions), a file's    *)
(* content for its bytes.  The configuration is fixed here (every game is  *)
(* enabled, each file lies in its game's one save directory) and games are *)
(* file-unit games.  The server is external: it keeps one section map per  *)
(* (game, save name), as proto/savecraft/v1/protocol.proto describes.      *)
(***************************************************************************)
EXTENDS Naturals, Sequences

CONSTANTS
  File,         \* save file paths
  Game,         \* game ids
  GameOf,       \* the game whose save directory holds the file
  Content,      \* possible file contents
  Writable,     \* the contents a file may take
  Section,      \* section names
  Value,        \* section values (hashes)
  Name,         \* save names
  Unknown,      \* unknownSaveName, the fallback save name
  Error,        \* plugin errors (type and message)
  Parse,        \* what plugin version v makes of content c
  None,         \* nil, "" or a missing map entry
  Thread,       \* goroutines that run the pipeline
  Loop,         \* the event loop among them
  Faults,       \* what the environment may do: "write", "outage", ...
  MaxVersion,   \* plugin versions ever published
  MaxGen,       \* bound on plugin reloads
  MaxWrites,    \* bound on changes to save files
  MaxDrops,     \* bound on lost connections
  EventCap      \* capacity of the watcher's event channel

Version == 1..MaxVersion
Save == Game \X Name
SectionMap == [Section -> Value \cup {None}]
Outcome == [error : Error \cup {None}, name : Name \cup {None},
            sections : SectionMap]
Event == [file : File, data : Content \cup {None}]
Cached == [name : Name, sections : SectionMap, ver : Version]
Failure == [content : Content, error : Error, ver : Version]
Job == [file : File, gen : Nat, content : Content, ver : Version,
        name : Name, delta : SUBSET Section]

ASSUME SyncAssumption ==
  /\ GameOf \in [File -> Game]
  /\ Writable \in [File -> SUBSET Content]
  /\ Loop \in Thread
  /\ Unknown \in Name
  /\ None \notin Content \cup Name \cup Error
  /\ None \notin Cached \cup Failure \cup Job
  /\ MaxVersion \in Nat \ {0}
  /\ MaxGen \in Nat /\ MaxWrites \in Nat /\ MaxDrops \in Nat
  /\ EventCap \in Nat \ {0}
  /\ Faults \subseteq {"write", "outage", "plugin", "read", "flap"}
  /\ Parse \in [Version \X Content -> Outcome]

VARIABLES
  disk,         \* content of each save file, None if it does not exist
  writes,       \* changes made to save files so far
  removed,      \* files whose removal the watcher has still to report
  dirty,        \* files whose debounce timer is armed in the watcher
  hashes,       \* the watcher's hashes: the content it last reported
  events,       \* the watcher's event channel
  latest,       \* newest published version of each game's plugin
  runner,       \* version loaded in the runner
  gen,          \* pluginGenerations
  genVer,       \* history: the runner's version when gen was last bumped
  cache,        \* lastPushedSectionHashes
  sticky,       \* lastKnownSaveNames
  failures,     \* parseFailures
  watched,      \* games whose directory is in watchedDirs
  conn,         \* wsconn.Client.conn # nil
  drops,        \* connections lost so far
  announce,     \* a signal waits in wsconn.Client.connected
  toScan,       \* games announceOnline has still to scan
  target,       \* per thread: updated games waiting for pluginChanged
  todo,         \* per thread: listed files waiting to be parsed
  pc, job,      \* per thread: position in parseAndPush and its locals
  server,       \* external: the sections of each save
  serverVer,    \* history: the plugin version they come from, 0 for none
  serverFailed  \* external: files with a stored parse failure

envVars == <<disk, writes, removed, dirty, hashes, events>>
pluginVars == <<latest, runner, gen, genVer>>
pushVars == <<cache, sticky, failures>>
linkVars == <<conn, drops, announce>>
scanVars == <<watched, toScan, target, todo>>
threadVars == <<pc, job>>
serverVars == <<server, serverVer, serverFailed>>
vars == <<envVars, pluginVars, pushVars, linkVars, scanVars, threadVars,
          serverVars>>

-----------------------------------------------------------------------------
Stage == {"ready", "run", "parsed", "diff", "send", "sent",
          "fail", "failed"}

NoSave == [s \in Section |-> None]
FilesOf(g) == {f \in File : GameOf[f] = g}
Present(g) == {f \in FilesOf(g) : disk[f] # None}

\* Locals of parseAndPush once the data is in hand: the generation is read
\* under the lock first, the other fields are filled in by later steps.
NewJob(f, c) == [file |-> f, gen |-> gen[GameOf[f]], content |-> c,
                 ver |-> 1, name |-> Unknown, delta |-> {}]

Out(j) == Parse[<<j.ver, j.content>>]
Fresh(j) == gen[GameOf[j.file]] = j.gen

\* A thread between two files, and one with nothing left of its handler.
Ready(t) == pc[t] = "ready" /\ todo[t] = {}
Idle(t) == Ready(t) /\ target[t] = {} /\ (t = Loop => toScan = {})

Goto(t, stage) == pc' = [pc EXCEPT ![t] = stage]
Finish(t) == /\ Goto(t, "ready")
             /\ job' = [job EXCEPT ![t] = None]

Init ==
  /\ disk \in [File -> Content \cup {None}]
  /\ \A f \in File : disk[f] \in Writable[f] \cup {None}
  /\ writes = 0
  /\ removed = {}
  /\ dirty = {}
  /\ hashes = [f \in File |-> None]
  /\ events = <<>>
  /\ latest = [g \in Game |-> 1]
  /\ runner = [g \in Game |-> 1]
  /\ gen = [g \in Game |-> 0]
  /\ genVer = [g \in Game |-> 1]
  /\ cache = [f \in File |-> None]
  /\ sticky = [f \in File |-> None]
  /\ failures = [f \in File |-> None]
  /\ watched = {}
  /\ conn = FALSE
  /\ drops = 0
  /\ announce = FALSE
  /\ toScan = {}
  /\ target = [t \in Thread |-> {}]
  /\ todo = [t \in Thread |-> {}]
  /\ pc = [t \in Thread |-> "ready"]
  /\ job = [t \in Thread |-> None]
  /\ server = [k \in Save |-> NoSave]
  /\ serverVer = [k \in Save |-> 0]
  /\ serverFailed = {}

-----------------------------------------------------------------------------
(* The environment: the game, the watcher, the registry, the network.      *)

Watched(f) == GameOf[f] \in watched

\* The game writes a save file; only a watched directory tells the watcher.
\* Without the "flap" fault a file does not return to the content the watcher
\* reported last.
Write(f) ==
  /\ writes < MaxWrites
  /\ \E c \in Writable[f] \ {disk[f]} :
       /\ c = hashes[f] => "flap" \in Faults
       /\ disk' = [disk EXCEPT ![f] = c]
  /\ writes' = writes + 1
  /\ dirty' = IF Watched(f) THEN dirty \cup {f} ELSE dirty
  /\ UNCHANGED <<removed, hashes, events, pluginVars, pushVars, linkVars,
                 scanVars, threadVars, serverVars>>

\* The game, or the player, deletes it.
Delete(f) ==
  /\ writes < MaxWrites
  /\ disk[f] # None
  /\ disk' = [disk EXCEPT ![f] = None]
  /\ writes' = writes + 1
  /\ removed' = IF Watched(f) THEN removed \cup {f} ELSE removed
  /\ dirty' = dirty \ {f}
  /\ UNCHANGED <<hashes, events, pluginVars, pushVars, linkVars, scanVars,
                 threadVars, serverVars>>

\* handleRemove forgets the hash and queues a FileRemove, waiting while the
\* channel is full.
EmitRemove(f) ==
  /\ f \in removed
  /\ Len(events) < EventCap
  /\ removed' = removed \ {f}
  /\ hashes' = [hashes EXCEPT ![f] = None]
  /\ events' = Append(events, [file |-> f, data |-> None])
  /\ UNCHANGED <<disk, writes, dirty, pluginVars, pushVars, linkVars,
                 scanVars, threadVars, serverVars>>

\* The debounce timer fires: the watcher reads the file and, unless it holds
\* what was reported last, queues an event that carries the bytes it read.
\* A file that cannot be read is forgotten.
Emit(f) ==
  /\ f \in dirty \ removed
  /\ dirty' = dirty \ {f}
  /\ \/ /\ disk[f] # hashes[f]
        /\ Len(events) < EventCap
        /\ hashes' = [hashes EXCEPT ![f] = disk[f]]
        /\ events' = Append(events, [file |-> f, data |-> disk[f]])
     \/ /\ disk[f] = hashes[f] \/ "read" \in Faults
        /\ UNCHANGED <<hashes, events>>
  /\ UNCHANGED <<disk, writes, removed, pluginVars, pushVars, linkVars,
                 scanVars, threadVars, serverVars>>

\* A new plugin version appears in the registry.
Publish(g) ==
  /\ latest[g] < MaxVersion
  /\ latest' = [latest EXCEPT ![g] = @ + 1]
  /\ UNCHANGED <<envVars, runner, gen, genVer, pushVars, linkVars, scanVars,
                 threadVars, serverVars>>

\* The connection drops and serveConn notices.
Drop ==
  /\ conn
  /\ Faults # {}
  /\ drops < MaxDrops
  /\ conn' = FALSE
  /\ drops' = drops + 1
  /\ UNCHANGED <<envVars, pluginVars, pushVars, announce, scanVars,
                 threadVars, serverVars>>

\* connectLoop dials successfully and signals the event loop.
Connect ==
  /\ ~conn
  /\ conn' = TRUE
  /\ announce' = TRUE
  /\ UNCHANGED <<envVars, pluginVars, pushVars, drops, scanVars, threadVars,
                 serverVars>>

-----------------------------------------------------------------------------
(* The handlers of the event loop.                                         *)

HandleFileEvent ==
  /\ Idle(Loop)
  /\ events # <<>>
  /\ events' = Tail(events)
  /\ LET e == Head(events) IN
     \/ /\ e.data = None                          \* FileRemove
        /\ failures' = [failures EXCEPT ![e.file] = None]
        /\ UNCHANGED threadVars
     \/ /\ e.data # None
        /\ Watched(e.file)
        /\ job' = [job EXCEPT ![Loop] = NewJob(e.file, e.data)]
        /\ Goto(Loop, "run")
        /\ UNCHANGED failures
     \/ /\ e.data # None                          \* not a watched directory
        /\ ~Watched(e.file)
        /\ UNCHANGED <<failures, threadVars>>
  /\ UNCHANGED <<disk, writes, removed, dirty, hashes, pluginVars, cache,
                 sticky, linkVars, scanVars, serverVars>>

\* Mistake: only games not watched yet are scanned again.
AnnounceOnlineNewGames ==
  /\ Idle(Loop)
  /\ announce
  /\ announce' = FALSE
  /\ toScan' = Game \ watched
  /\ UNCHANGED <<envVars, pluginVars, pushVars, conn, drops, watched, target,
                 todo, threadVars, serverVars>>

\* announceOnline: every game is scanned, one after the other.
AnnounceOnline ==
  /\ Idle(Loop)
  /\ announce
  /\ announce' = FALSE
  /\ toScan' = Game
  /\ UNCHANGED <<envVars, pluginVars, pushVars, conn, drops, watched, target,
                 todo, threadVars, serverVars>>

\* scanGame lists the directory, watches it if it holds a save, and parses
\* what it listed; rescanQuiet does the same for a directory already watched.
\* (Listing and watching are one step here: no file appears in between.)
Scan(g) ==
  /\ watched' = IF Present(g) = {} THEN watched ELSE watched \cup {g}
  /\ todo' = [todo EXCEPT ![Loop] = Present(g)]

\* One round of announceOnline's loop.  EnsurePlugin may adopt a newer version
\* on the way, without a new generation; when it fails, the game is skipped.
ScanGame(g) ==
  /\ Ready(Loop)
  /\ g \in toScan
  /\ toScan' = toScan \ {g}
  /\ \/ /\ runner' \in {runner, [runner EXCEPT ![g] = latest[g]]}
        /\ Scan(g)
     \/ /\ "plugin" \in Faults
        /\ UNCHANGED <<runner, watched, todo>>
  /\ UNCHANGED <<envVars, latest, gen, genVer, pushVars, linkVars, target,
                 threadVars, serverVars>>

\* The server's RescanGame command; it may have arrived on a connection that
\* is gone by now.
RescanGame(g) ==
  /\ Idle(Loop)
  /\ conn \/ drops > 0
  /\ Scan(g)
  /\ UNCHANGED <<envVars, pluginVars, pushVars, linkVars, toScan, target,
                 threadVars, serverVars>>

\* handlePluginReload and handlePluginAvailable: the plugin is loaded again
\* and, unless that fails, pluginChanged follows.
ReloadPlugin(g) ==
  /\ Idle(Loop)
  /\ gen[g] < MaxGen
  /\ runner' = [runner EXCEPT ![g] = latest[g]]
  /\ target' = [target EXCEPT ![Loop] = {g}]
  /\ UNCHANGED <<envVars, latest, gen, genVer, pushVars, linkVars, watched,
                 toScan, todo, threadVars, serverVars>>

-----------------------------------------------------------------------------
(* Plugin updates, on any thread.                                          *)

\* checkPluginUpdates (event loop) and UpdatePlugins (local API):
\* CheckForUpdates loads every newer plugin and returns the updated games.
UpdatePlugins(t) ==
  LET newer == {g \in Game : latest[g] > runner[g]} IN
  /\ Idle(t)
  /\ newer # {}
  /\ runner' = [g \in Game |-> IF g \in newer THEN latest[g] ELSE runner[g]]
  /\ target' = [target EXCEPT ![t] = newer]
  /\ UNCHANGED <<envVars, latest, gen, genVer, pushVars, linkVars, watched,
                 toScan, todo, threadVars, serverVars>>

\* pluginChanged: a new generation, no push or failure of this game is
\* remembered any more, and the files of a watched game are parsed again.
PluginChanged(t, g) ==
  /\ Ready(t)
  /\ g \in target[t]
  /\ target' = [target EXCEPT ![t] = @ \ {g}]
  /\ gen' = [gen EXCEPT ![g] = @ + 1]
  /\ genVer' = [genVer EXCEPT ![g] = runner[g]]
  /\ cache' = [f \in File |-> IF GameOf[f] = g THEN None ELSE cache[f]]
  /\ failures' = [f \in File |-> IF GameOf[f] = g THEN None ELSE failures[f]]
  /\ todo' = [todo EXCEPT ![t] = IF g \in watched THEN Present(g) ELSE {}]
  /\ UNCHANGED <<envVars, latest, runner, sticky, linkVars, watched, toScan,
                 threadVars, serverVars>>

-----------------------------------------------------------------------------
(* parseAndPush, on any thread.                                            *)

\* Mistake: a file that has vanished since it was listed is parsed.
NextFileUnchecked(t, f) ==
  /\ pc[t] = "ready"
  /\ f \in todo[t]
  /\ todo' = [todo EXCEPT ![t] = @ \ {f}]
  /\ job' = [job EXCEPT ![t] = NewJob(f, disk[f])]
  /\ Goto(t, "run")
  /\ UNCHANGED <<envVars, pluginVars, pushVars, linkVars, watched, toScan,
                 target, serverVars>>

\* The next listed file is read; one that has vanished since is passed over.
NextFile(t, f) ==
  /\ pc[t] = "ready"
  /\ f \in todo[t]
  /\ todo' = [todo EXCEPT ![t] = @ \ {f}]
  /\ \/ /\ disk[f] # None
        /\ job' = [job EXCEPT ![t] = NewJob(f, disk[f])]
        /\ Goto(t, "run")
     \/ /\ disk[f] = None
        /\ UNCHANGED threadVars
  /\ UNCHANGED <<envVars, pluginVars, pushVars, linkVars, watched, toScan,
                 target, serverVars>>

\* Any other read error is reported once and not remembered.
ReadError(t, f) ==
  /\ "read" \in Faults
  /\ pc[t] = "ready"
  /\ f \in todo[t]
  /\ todo' = [todo EXCEPT ![t] = @ \ {f}]
  /\ serverFailed' = IF conn THEN serverFailed \cup {f} ELSE serverFailed
  /\ UNCHANGED <<envVars, pluginVars, pushVars, linkVars, watched, toScan,
                 target, threadVars, server, serverVer>>

\* runner.Run uses the plugin loaded when it starts.
RunPlugin(t) ==
  /\ pc[t] = "run"
  /\ job' = [job EXCEPT ![t].ver = runner[GameOf[job[t].file]]]
  /\ Goto(t, "parsed")
  /\ UNCHANGED <<envVars, pluginVars, pushVars, linkVars, scanVars,
                 serverVars>>

\* resolveIdentity: an empty save name stands for the last one seen.
ResolvedName(j) ==
  IF Out(j).name # None THEN Out(j).name
  ELSE IF sticky[j.file] # None THEN sticky[j.file] ELSE Unknown

\* Mistake: the delta cache is scoped to the file alone.
PushedBeforeAnyName(f, name) ==
  IF cache[f] # None THEN cache[f].sections ELSE NoSave

\* The hashes filterChangedSections compares with: those of the last push of
\* this file, if it went to the same save.
PushedBefore(f, name) ==
  IF cache[f] # None /\ cache[f].name = name THEN cache[f].sections ELSE NoSave

Changed(prev, new) == {s \in Section : new[s] # None /\ new[s] # prev[s]}

\* pushState: the sections to send, none if nothing changed.
Delta(j) ==
  Changed(PushedBefore(j.file, ResolvedName(j)), Out(j).sections)

\* The plugin succeeded: forget a recorded failure, settle the identity, and
\* compute the delta.  A parse of an older generation goes no further, nor
\* does one without changed sections.
ParseSucceeded(t) ==
  LET j == job[t]
      delta == Delta(j)
  IN
  /\ pc[t] = "parsed"
  /\ Out(j).error = None
  /\ failures' = IF Fresh(j) THEN [failures EXCEPT ![j.file] = None]
                 ELSE failures
  /\ sticky' = IF Out(j).name # None
               THEN [sticky EXCEPT ![j.file] = Out(j).name] ELSE sticky
  /\ IF Fresh(j) /\ delta # {}
     THEN /\ job' = [job EXCEPT ![t].name = ResolvedName(j), ![t].delta = delta]
          /\ Goto(t, "diff")
     ELSE Finish(t)
  /\ UNCHANGED <<envVars, pluginVars, cache, linkVars, scanVars, serverVars>>

\* sendState checks the generation again right before it sends.
Recheck(t) ==
  /\ pc[t] = "diff"
  /\ IF Fresh(job[t]) THEN Goto(t, "send") /\ UNCHANGED job ELSE Finish(t)
  /\ UNCHANGED <<envVars, pluginVars, pushVars, linkVars, scanVars,
                 serverVars>>

\* What the server does with a PushSave: changed sections are stored, and
\* those not in all_section_names are deleted.
Merged(stored, j) ==
  [s \in Section |-> IF Out(j).sections[s] = None THEN None
                     ELSE IF s \in j.delta THEN Out(j).sections[s]
                     ELSE stored[s]]

Push(t) ==
  /\ pc[t] = "send"
  /\ conn
  /\ LET j == job[t]
         k == <<GameOf[j.file], j.name>>
     IN
       /\ server' = [server EXCEPT ![k] = Merged(@, j)]
       /\ serverVer' = [serverVer EXCEPT ![k] = j.ver]
       /\ serverFailed' = serverFailed \ {j.file}
  /\ Goto(t, "sent")
  /\ UNCHANGED <<envVars, pluginVars, pushVars, linkVars, scanVars, job>>

\* Send returns nil when there is no connection; the message is dropped.
\* Without the "outage" fault the model waits: the redial wins the race.
SendDropped(t) ==
  /\ "outage" \in Faults
  /\ ~conn
  /\ \/ pc[t] = "send" /\ Goto(t, "sent")
     \/ pc[t] = "fail" /\ Goto(t, "failed")
  /\ UNCHANGED <<envVars, pluginVars, pushVars, linkVars, scanVars, job,
                 serverVars>>

\* Mistake: a failed write is taken for a push.
SendErrorIgnored(t) ==
  /\ "write" \in Faults
  /\ conn
  /\ drops < MaxDrops
  /\ \/ pc[t] = "send" /\ Goto(t, "sent")
     \/ pc[t] = "fail" /\ Goto(t, "failed")
  /\ conn' = FALSE
  /\ drops' = drops + 1
  /\ UNCHANGED <<envVars, pluginVars, pushVars, announce, scanVars, job,
                 serverVars>>

\* Writing to a broken connection fails, and the client closes it.
SendError(t) ==
  /\ "write" \in Faults
  /\ conn
  /\ drops < MaxDrops
  /\ pc[t] \in {"send", "fail"}
  /\ conn' = FALSE
  /\ drops' = drops + 1
  /\ Finish(t)
  /\ UNCHANGED <<envVars, pluginVars, pushVars, announce, scanVars,
                 serverVars>>

\* Mistake: the hashes are remembered whatever happened to the plugin.
RecordAlways(t) ==
  /\ pc[t] = "sent"
  /\ LET j == job[t] IN
       cache' = [cache EXCEPT ![j.file] = [name |-> j.name,
                                           sections |-> Out(j).sections,
                                           ver |-> j.ver]]
  /\ Finish(t)
  /\ UNCHANGED <<envVars, pluginVars, sticky, failures, linkVars, scanVars,
                 serverVars>>

\* After a Send without error the hashes are remembered, unless the plugin
\* changed meanwhile.
Record(t) ==
  /\ pc[t] = "sent"
  /\ LET j == job[t] IN
       cache' = IF Fresh(j)
                THEN [cache EXCEPT ![j.file] = [name |-> j.name,
                                                sections |-> Out(j).sections,
                                                ver |-> j.ver]]
                ELSE cache
  /\ Finish(t)
  /\ UNCHANGED <<envVars, pluginVars, sticky, failures, linkVars, scanVars,
                 serverVars>>

\* handleParseFailure: a failure of an older generation, or the one already
\* recorded for this file, is not reported.
ParseFailed(t) ==
  LET j == job[t]
      failure == [content |-> j.content, error |-> Out(j).error]
      known == /\ failures[j.file] # None
               /\ failures[j.file].content = failure.content
               /\ failures[j.file].error = failure.error
  IN
  /\ pc[t] = "parsed"
  /\ Out(j).error # None
  /\ IF Fresh(j) /\ ~known THEN Goto(t, "fail") /\ UNCHANGED job
     ELSE Finish(t)
  /\ UNCHANGED <<envVars, pluginVars, pushVars, linkVars, scanVars,
                 serverVars>>

ReportFailure(t) ==
  /\ pc[t] = "fail"
  /\ conn
  /\ serverFailed' = serverFailed \cup {job[t].file}
  /\ Goto(t, "failed")
  /\ UNCHANGED <<envVars, pluginVars, pushVars, linkVars, scanVars, job,
                 server, serverVer>>

\* Mistake: the failure is remembered whatever happened to the plugin.
RecordFailureAlways(t) ==
  /\ pc[t] = "failed"
  /\ LET j == job[t] IN
       failures' = [failures EXCEPT ![j.file] =
                      [content |-> j.content, error |-> Out(j).error,
                       ver |-> j.ver]]
  /\ Finish(t)
  /\ UNCHANGED <<envVars, pluginVars, cache, sticky, linkVars, scanVars,
                 serverVars>>

\* The failure is remembered once it was sent, unless the plugin changed.
RecordFailure(t) ==
  /\ pc[t] = "failed"
  /\ LET j == job[t] IN
       failures' = IF Fresh(j)
                   THEN [failures EXCEPT ![j.file] =
                           [content |-> j.content, error |-> Out(j).error,
                            ver |-> j.ver]]
                   ELSE failures
  /\ Finish(t)
  /\ UNCHANGED <<envVars, pluginVars, cache, sticky, linkVars, scanVars,
                 serverVars>>

-----------------------------------------------------------------------------
Environment ==
  \/ \E f \in File : Write(f) \/ Delete(f) \/ EmitRemove(f) \/ Emit(f)
  \/ \E g \in Game : Publish(g)
  \/ Drop
  \/ Connect

EventLoop ==
  \/ HandleFileEvent
  \/ AnnounceOnline
  \/ \E g \in Game : ScanGame(g) \/ RescanGame(g) \/ ReloadPlugin(g)

Pipeline(t) ==
  \/ \E f \in File : NextFile(t, f) \/ ReadError(t, f)
  \/ RunPlugin(t)
  \/ ParseSucceeded(t)
  \/ Recheck(t)
  \/ Push(t)
  \/ SendDropped(t)
  \/ SendError(t)
  \/ Record(t)
  \/ ParseFailed(t)
  \/ ReportFailure(t)
  \/ RecordFailure(t)

Next ==
  \/ Environment
  \/ EventLoop
  \/ \E t \in Thread : \/ UpdatePlugins(t)
                       \/ \E g \in Game : PluginChanged(t, g)
                       \/ Pipeline(t)

Spec == Init /\ [][Next]_vars

\* Goroutines that can run do; a debounce timer fires; the redial succeeds
\* sooner or later; and the event loop's select, which picks at random among
\* the channels that are ready, starves neither the watcher nor Connected.
Fairness ==
  /\ \A t \in Thread :
       /\ WF_vars(Pipeline(t))
       /\ WF_vars(\E g \in Game : PluginChanged(t, g))
  /\ WF_vars(\E g \in Game : ScanGame(g))
  /\ \A f \in File : WF_vars(EmitRemove(f)) /\ WF_vars(Emit(f))
  /\ WF_vars(Connect)
  /\ SF_vars(HandleFileEvent)
  /\ SF_vars(AnnounceOnline)

FairSpec == Spec /\ Fairness

-----------------------------------------------------------------------------
(* Properties.                                                             *)

\* A thread holds a job exactly while it is inside parseAndPush, and only a
\* parse that failed takes the path of handleParseFailure.
JobsOK ==
  \A t \in Thread :
    /\ pc[t] = "ready" <=> job[t] = None
    /\ pc[t] \in {"fail", "failed"} => Out(job[t]).error # None

\* Every variable has its type.
TypeOK ==
  /\ disk \in [File -> Content \cup {None}]
  /\ writes \in Nat
  /\ removed \subseteq File
  /\ dirty \subseteq File
  /\ hashes \in [File -> Content \cup {None}]
  /\ events \in Seq(Event)
  /\ latest \in [Game -> Version]
  /\ runner \in [Game -> Version]
  /\ gen \in [Game -> Nat]
  /\ genVer \in [Game -> Version]
  /\ cache \in [File -> Cached \cup {None}]
  /\ sticky \in [File -> Name \cup {None}]
  /\ failures \in [File -> Failure \cup {None}]
  /\ watched \subseteq Game
  /\ conn \in BOOLEAN
  /\ drops \in Nat
  /\ announce \in BOOLEAN
  /\ toScan \subseteq Game
  /\ target \in [Thread -> SUBSET Game]
  /\ todo \in [Thread -> SUBSET File]
  /\ pc \in [Thread -> Stage]
  /\ job \in [Thread -> Job \cup {None}]
  /\ server \in [Save -> SectionMap]
  /\ serverVer \in [Save -> 0..MaxVersion]
  /\ serverFailed \subseteq File
  /\ JobsOK

\* Nothing a plugin older than the current generation produced counts as
\* pushed: however UpdatePlugins and the event loop interleave, after
\* pluginChanged no delta is computed against the old plugin's sections
\* (the generation checks of pushState and sendState).
CacheFromCurrentPlugin ==
  \A f \in File : cache[f] # None => cache[f].ver >= genVer[GameOf[f]]

\* Likewise no failure of an older plugin silences one of the current plugin
\* (the generation checks of handleParseFailure).
FailuresFromCurrentPlugin ==
  \A f \in File : failures[f] # None => failures[f].ver >= genVer[GameOf[f]]

\* Every save on the server is the complete result of one parse: the delta
\* protocol never leaves a save put together from two parses, nor one that
\* lacks sections (the comment of lastPushedSectionHashes).
Whole(sections) ==
  \E v \in Version, c \in Content :
    Parse[<<v, c>>].error = None /\ Parse[<<v, c>>].sections = sections

WholeSaves ==
  \A k \in Save : server[k] = NoSave \/ Whole(server[k])

\* The pipeline has nothing in hand and nothing on its way.
Quiescent ==
  /\ \A t \in Thread : Idle(t)
  /\ events = <<>>
  /\ removed = {} /\ dirty = {}
  /\ conn
  /\ ~announce

\* The save a file belongs to, as parseAndPush would name it now.
SaveOf(f) ==
  LET out == Parse[<<runner[GameOf[f]], disk[f]>>] IN
  <<GameOf[f], IF out.name # None THEN out.name
               ELSE IF sticky[f] # None THEN sticky[f] ELSE Unknown>>

\* The server knows what is in the file: its sections under its save name,
\* or that it does not parse.
InSync(f) ==
  LET out == Parse[<<runner[GameOf[f]], disk[f]>>] IN
  IF out.error = None THEN server[SaveOf(f)] = out.sections
  ELSE f \in serverFailed

Tracked == {f \in File : Watched(f) /\ disk[f] # None}

\* When the pipeline comes to rest while connected, the server holds the
\* current content of every save file in a watched directory, as the loaded
\* plugin sees it (docs/daemon.md on reconnecting, the comment of
\* pluginChanged on the complete snapshot).
QuiescentInSync == Quiescent => \A f \in Tracked : InSync(f)

\* Once files stop changing and the connection stays up, the server catches
\* up with every watched file and stays so.
EventuallyInSync == <>[](\A f \in Tracked : InSync(f))

\* A section the plugin stopped emitting leaves the server
\* (all_section_names of PushSave in proto/savecraft/v1/protocol.proto).
RemovedSectionsGone ==
  Quiescent =>
    \A f \in Tracked, s \in Section :
      LET out == Parse[<<runner[GameOf[f]], disk[f]>>] IN
      out.error = None /\ out.sections[s] = None => server[SaveOf(f)][s] = None

\* The pipeline implements SaveMirror: each step of it leaves the saves alone
\* or replaces one by a complete snapshot of a plugin at least as new.
Snapshots ==
  {[ver |-> vc[1], sections |-> Parse[vc].sections] :
     vc \in {vc \in Version \X Content : Parse[vc].error = None}}

Mirror == INSTANCE SaveMirror
            WITH Save <- Save, Snapshot <- Snapshots, Empty <- NoSave,
                 mirror <- server, mirrorVer <- serverVer

ImplementsMirror == Mirror!Spec
=============================================================================
