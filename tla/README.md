# Savecraft client: specification and verification

The Savecraft client is a daemon (`savecraftd`) that watches the save files of
games, parses each with the WASM plugin of its game, and pushes the parsed
sections to a server over one WebSocket; a tray program starts and shows the
daemon. One game, RimWorld, has no save worth parsing: a mod inside it is a second
client of the server. This directory holds TLA+ modules of the logic of both, the
TLC configurations that check them, and TLAPS proofs about them. Paths below are
relative to `src/internal/` unless they start with `cmd/`, `docs/`, `proto/` or
`plugins/`; `Connection/` is `plugins/rimworld/SavecraftRimWorld/Connection/`.

## 1. The system

### Components, their state and operations

| Component | Source | State | Operations |
|---|---|---|---|
| Save pipeline | `daemon/daemon.go` | plugin generations, hashes of the last push per file, sticky save names, recorded parse failures, watched directories | handle a file event, announce and rescan, parse and push, report a failure, react to a changed plugin |
| Game configuration | `daemon/daemon.go`, `configcache.go` | `cfg.Games`, `config_cache.json` | apply a ConfigUpdate, remove stale games, watch and unwatch, remove a game the server no longer has |
| Directory units | `daemon/daemon.go` | hash of the last snapshot per directory | list and archive the members, dispatch one parse per snapshot |
| Discovery, allowlist | `daemon/daemon.go`, `pathexpand.go` | none | expand and match paths, refuse paths outside the save roots |
| File watcher | `watcher/watcher.go` | debounce timers, pending operations, content hashes, directory units with a quiescence timer and a generation each | add, remove, react to fsnotify, fire |
| WebSocket client | `wsconn/client.go` | the connection, the backoff, one-slot signals | connect loop, Send, ForceReconnect, Close |
| Server link | `daemon/daemon.go`, `cmd/savecraftd/cmd/run.go` | linked, link code and its expiry, the slot a waiter reads | linked, code refreshed, unlink, refresh before expiry |
| Plugin manager, runner | `pluginmgr/*.go`, `runner/wazero.go` | manifest, plugin cache on disk, loaded modules | ensure, check for updates, verify, refuse rollbacks, write, load, run |
| Self-update | `daemon/daemon.go`, `selfupdate/*.go` | pending update, its timer, the in-flight flag, the binaries on disk | check, store, apply, replace, restart |
| Local API | `localapi/*.go` | boot state, link code shown, log ring buffer | boot, link, repair, restart, update plugins |
| Tray supervisor | `cmd/savecraft-tray/supervisor.go` | attempts, backoff, what was notified | daemon reachable, unreachable |
| RimWorld mod | `plugins/rimworld/SavecraftRimWorld` | settings in memory and on disk, the socket, the status, a queue for the main thread | register, connect and reconnect, push on save, follow the link state, start again on each load |
| Factorio mod | `plugins/factorio/mod/control.lua` | the entity sections of the last scan | export the game to a file on ticks and events |
| Power, service manager, command line, release tools | `power`, `svcmgr`, `cmd/*` | next to none | thin wrappers around the operating system |

### How they interact

The daemon has one event loop (`Run`, `eventLoop`). Its `select` takes the
watcher's events, the client's Connected signal and messages, the resume signal
and four timers, and handles each to the end: a rescan parses and pushes every
file of a game before the loop looks at the next event. Three other kinds of
goroutine share its state under `Daemon.mu`: the handlers of the local API
(which run `UpdatePlugins`, `RequestUnlink` and `ApplyPendingUpdate`
themselves), the timer that applies an update, and the plugin manager's own
directory watcher, which only signals the loop. `Daemon.mu` is never held
across a plugin run or a `Send`. The watcher has a goroutine for fsnotify and
one per timer that fires; the client has one that dials and reads.

The RimWorld mod shares nothing with the daemon but the server and its protocol.
The game's main thread saves, loads and draws; each load starts a connection loop
on the thread pool, each message is sent by a task, and what they have for the game
is queued for the next frame. No field they share has a lock.

### What is hard

* **Interleavings.** The local API changes plugins while the event loop is in
  the middle of a parse; every result has to be checked for staleness between
  the parse, the send and the record (`pluginGenerations`).
* **Loss.** `Send` drops messages silently without a connection, and fails when
  it breaks; there is no acknowledgement that the pipeline waits for. What the
  server has is inferred from what was sent.
* **Deltas.** A push carries only the sections that differ from the last push,
  and the names of all; a wrong idea of the last push leaves a save on the
  server that the game never wrote.
* **Two observers of one file.** The watcher suppresses by the content it
  reported last, rescans read the disk themselves.
* **Crashes.** The configuration cache, the plugin cache and the binaries are
  replaced on disk by several steps.
* **Overlapping lifetimes.** In the RimWorld mod the loop of an earlier load is
  cancelled, not awaited, and ends while the next one uses the same fields.

`PROJECT.json` lists these as hazards, each at the line where it bites.

### What makes each component correct

* Save pipeline: at rest and connected, the server has the current content of
  every watched file; a save is always one complete parse; nothing an older
  plugin produced is remembered; the server catches up after faults.
* Game configuration: what is watched is what is configured, the cache on disk
  is what a restart may use, a refused or failed game is never scanned.
* File watcher: after the last change one event with the last content comes;
  no event for what was removed; one event per burst in a directory unit.
* Session (client and link): the loop always redials, every connection is
  announced, a shutdown ends every goroutine, a code on display is valid.
* Plugin manager: only verified modules run, versions never go back, a crash
  leaves a cache that is used whole or not at all.
* Self-update: one replacement at a time, a pending update is applied once, a
  crash leaves a binary that starts.
* RimWorld mod: no save under a source it forgets, always online again or given up
  as it says, the link state it shows is the server's.

## 2. Modules

| Module | Role |
|---|---|
| `SaveSync` | the save pipeline with its threads, the watcher and the network around it |
| `SaveMirror` | abstract specification: what the server may hold, step by step |
| `MCSaveSync` | instances for TLC: contents and what the plugin makes of them |
| `SaveSync_proofs` | types, nothing of an older plugin remembered, the refinement of `SaveMirror`, and in sync at rest, proved |
| `FSWatcher` | the file watcher for plain directories: debounce timers and the goroutines they start |
| `DirectoryUnit` | directory units, from fsnotify to the push of a snapshot |
| `MCDirectoryUnit` | directory trees for TLC |
| `GameConfig`, `MCGameConfig` | the configuration of games: updates, watches, scans, the cache on disk and restarts |
| `Session`, `MCSession` | the WebSocket client's connect loop beside the event loop, link codes and the repair request |
| `PluginManager`, `MCPluginManager` | manifest, download, verification, the four files of the plugin cache and the loaded module |
| `SelfUpdate`, `MCSelfUpdate` | pending update, its callers, the replacement of two binaries, whoever starts the daemon again |
| `GameMod`, `MCGameMod` | the RimWorld mod: its connection loops, tasks and main thread |
| `FSWatcher_proofs` | types, no duplicate reports, and the last report current, proved |
| `DirectoryUnit_proofs` | types, silence of superseded fires, the tree watched, and its snapshot current, proved |
| `Session_proofs` | types, and that no connection goes unannounced, proved |
| `PluginManager_proofs` | types, what runs is what the cache holds, and no downgrade, proved |
| `SelfUpdate_proofs` | types, what is installed was verified, a daemon is kept, and no downgrade, proved |
| `GameConfig_proofs` | types, the cache over restarts, what is watched, unknown games given up, and saves pushed, proved |
| `GameMod_proofs` | types, and that no save is left with a forgotten source, proved |

### SaveSync

One thread is the event loop, the others are local-API handlers in
`UpdatePlugins`. A thread's position in `parseAndPush` is `pc`, its locals are
`job`; a handler's remaining work is `toScan` (games `announceOnline` has to
visit), `target` (updated games waiting for `pluginChanged`) and `todo` (files
listed but not parsed). An action is what the code does between two points
where it releases `Daemon.mu` or waits for the plugin or the network:

    NextFile/HandleFileEvent -> RunPlugin -> ParseSucceeded -> Recheck -> Push -> Record
                                          \-> ParseFailed -> ReportFailure -> RecordFailure

`SendDropped` and `SendError` are the two other outcomes of a Send.
`cache`, `sticky`, `failures`, `gen`, `watched` are `lastPushedSectionHashes`,
`lastKnownSaveNames`, `parseFailures`, `pluginGenerations`, `watchedDirs`;
`hashes`, `dirty`, `removed` and `events` are the watcher's side: its content
hashes, the files with an armed timer, the removals in flight and its channel.
The plugin is an arbitrary function `Parse` from version and content to an error
or a save name and sections; a section's bytes stand for their SHA-256. The
server is external and does what `proto/savecraft/v1/protocol.proto` says of
PushSave: it keeps the sections in `all_section_names`, and stores those that
came with the message. `genVer`, `serverVer` and the `ver` fields are history
variables: no guard reads them.

Faults are switched on by name, so that a run can say what it assumes:
`write` (writing to the connection fails), `outage` (something is sent while
there is no connection), `plugin` (EnsurePlugin fails), `read` (a file cannot
be read), `flap` (a file returns to the content reported last).

Simplifications: games are file-unit games with one save directory and a fixed
configuration; listing a directory and watching it is one step, and so is a
debounce timer's read, hash and emit; PushSaveResult is only logged by the code
and is left out.

### SaveMirror

The promise to the server: saves change one at a time, each time to a complete
snapshot of one parse, never to an older plugin's. `SaveSync` implements it
with one thread (`ImplementsMirror`, where `mirror` is `server`): `loop` checks it and
`Implements` proves it, step by step.

### FSWatcher

`SaveSync` fires a debounce timer in one step; here that step is taken apart.
`Schedule` and `Forget`/`ReportRemoval` are the loop's `scheduleFileDebounce`
and `handleRemove`; `Expire` starts a goroutine that runs `fireDebounced` as
`Begin -> Read -> Store -> Emit`, split where it releases `FSWatcher.mu`, reads
the disk, or waits for the channel. `timers` is the map of that name, `armed`
the timers in it that run, `orphans` running timers that lost their entry (a
reset after the timer fired, before `Begin` took the lock). `reported` is
history: the last content the daemon handled, with an event (`Take`, which is
`handleFileEvent` with `ev.Data`) or in the scan that follows `Add`. `stale` is
history too: the files of which an event waited in the channel when the directory
was watched again, until a newer one is queued. Nothing empties the channel then, so
the scan's newer content is overwritten by the older event; the properties leave
those files out, and `ScanNotOverwritten` is what they would be without that
(section 5).

`Timing` names what real time makes unlikely, so that a run says what it
excludes: `slow`, a goroutine still runs when the file's next timer expires
(half a second later); `leftover`, something is in flight during `Remove`.
Times are otherwise ignored: an armed timer may fire at any moment.

### DirectoryUnit

One save root that is a directory tree. The watcher's side: member files are
debounced (`debounce`), go to the root's quiescence timer (`ScheduleUnit`), and
a fired timer takes the lock (`FireUnit`) and queues one event (`EmitUnit`);
`gen` and `entry` are `dirUnitGenerations` and `dirUnitTimers`, `known` is
`dirUnitRootOf`. New subdirectories are walked (`HandleMkdir`), then watched,
and the files already in them replayed (`Attach`). The daemon's side: list the
members, watch the tree, read the members one at a time, compare with
`dirUnitSnapshotHashes`, remember, parse and push.

A snapshot stands for its aggregate hash and its archive; a directory holds at
most one member file. Any member that is there may fail to be read (`ReadMember`:
the game has it open, or it is too large) and is then taken for gone, or make the
total exceed its cap (`ExceedCap`), which ends the dispatch. `missed` is history:
what the last dispatch left out so. The server's copy agrees with the tree (`Agrees`)
in all but these, and `SkippedRepaired` is the property without the exception, which
the code does not have (section 5). Exclude lists, member patterns and symbolic links
are left out; parsing and pushing is one step (`Dispatch`). `Timing` is as
above; `gap` lets the tree change between a walk and the watches it leads to, and
`brief` lets a directory go before the loop has read that it came. The run has
`brief`: its tree is flat.

### GameConfig

The event loop runs one handler at a time; `task` is the handler, `scan` the
`scanGame` it is in, with its stages `list`, `watch`, `parse`. Between two of
them the disk may change, and the process may die. `handleConfigUpdate` is
`ReceiveConfig` (removeStaleGames), then for each game in any order one of
`RefuseGame`, `DisableGame`, `KeepGame`, `ConfigureGame` (followed by a scan) and
`DropGame` (the plugin cannot be had), then `SendResults`, `TruncateCache` and
`WriteCache`. `cfg`, `watchedDirs`, `cache`, `announced` are `cfg.Games`,
`watchedDirs`, `config_cache.json` and `hasAnnounced`; `inotify` is what the
kernel watches, which a removed directory loses while `watchedDirs` keeps it.
A path names a set of directories (`Matches`); one with glob characters those
of them that exist (`Resolve`), and a template is a sequence of paths of which
the first usable one is taken (`FirstValid`). A save is a file with a version.
Of the watcher's steps `GameConfig` keeps two: a change starts a timer (`dirty`), and
the timer's `Report` puts the file with the version read then into the channel
`events`. `Unwatch` stops the timers of a directory and leaves the channel as it is;
`HandleFileEvent` pushes the version in the event, whichever game watches the
directory by then. `stale` is as in `FSWatcher`.

Simplifications: a ConfigUpdate is delivered, in order, while the daemon is up;
a push reaches the server (its loss is the subject of `SaveSync`); directory
units are in `DirectoryUnit`. A directory that appears where a configured game
already looked for it is noticed by no one until the next full scan: that is
the source `late` of the budget, which the run sets to 0.

`RescanGame` scans a disabled game too, and nothing gives its directories up when
the game is enabled with another path (section 5). `WatchesConfigured` and
`UnknownGamesStop` therefore speak of a game only if that cannot have happened
(`Followed`): no rescan was asked for, or no path the game may be given is refused
and no crash lost an update. Other games of the same run still may be rescanned.

### Session

The connect loop is `Dial`/`DialFails`, `Publish`, `Read`, `Deliver`,
`Disconnected`, `Backoff`, at `stage`; the event loop announces in two steps
with a scan between, handles the news of a link and a fresh code, sends
heartbeats, forces a reconnect in two steps, and ends in `SendShutdown`, `Close`
and `CloseReturn`; a repair request drains the slot `answer`, sends, and takes
the answer or gives up. `conn` is `Client.conn`, `alive` whether the connection
it points to works, `connected` and `force` the one-slot channels, `messages` the
channel of messages with `Capacity`. `server` is external: whether the source is
linked, its code, and whether this connection was announced on. `shown` is the code
GET /link returns and `boot` what GET /boot does; once the source is linked
`EventuallyCurrent` speaks of `linked` and `boot` only, as GET /link keeps the old
code (`LinkGone`, section 5). Time is `Age`: the code of that moment
comes near its expiry.

### PluginManager

One game's plugin. `EnsurePlugin` and `CheckForUpdates` walk through `pc`:
lookup of the manifest, cached version, hash, rollback check, download in two
requests, the four files of the cache - each truncated, then written - and the
load. `Build` says which versions are the same binary. The registry publishes
binary, signature and manifest one after the other under one name, puts an older
version back (`Revert`) or unlists the plugin.

### SelfUpdate

Three callers may apply an update: the event loop (an announced release), the
timer (the pending one) and POST /restart. Each is at `pc` in
`applyDaemonUpdate` and `HTTPUpdater.Apply`; `flight` is `updateInFlight`. `exe`,
`staged` and `aside` are the binary at its path, its `.new` sibling and `.old`.
`windows` is chosen at first: there the replacement is two renames, and a script
or the tray starts the daemon; elsewhere it is one rename and the service
manager. `RemoveOld`, `MoveAside`, `MoveIn`, `Restore` are the steps of
`replace_windows.go`; elsewhere the rename may be followed by a chmod that fails
(`ChmodFails`), with the new file in place and an error returned. A binary is the
version compiled into it, `Built[v]` that of the binaries announced as version `v`,
and Apply compares `v` with the version that runs. A daemon that is started twice for one outage is not
modelled, nor a second disk fault while the first is being undone.

### GameMod

The Nth load of a game (`Start`) starts the Nth connection loop; `loop[l].at` is
its place in `ConnectionLoop`, `Register`, `Connect` and `ReceiveLoop`, an action
what it does between two awaits or two accesses to a shared field. `socket` and
`status` are those fields, a socket being named after the loop that made it, and
`wire` its state; `queue` and `tasks` are `mainThreadQueue` and the tasks that have
not sent yet. `loop[l].token` is the load whose cancellation stops the loop: the
closure reads `cts` when the task runs, so it may be a later load's. `settings` and
`disk` are the settings and their file, which `settings.Write` makes equal.
External are the server, which gives every registration a new source and answers
`SourceOnline` and `RefreshLinkCode`, the network, the player, who enters the code
of the last letter, and the game, which may end at any moment (`Quit`).

Simplifications: status Linked is Connected with `settings.linked`; in `SendAsync`
the test of the socket and the write are one step, as are `Start` and the two
tests around a receive; an answer is one frame; `PushSaveResult` and the sync state
of the window are left out, and so are the lengths of delays and timeouts.

## 3. Runs

| Run | Instance | Shows |
|---|---|---|
| `loop` | 1 file, 4 contents, 2 plugin versions, 2 changes, 1 lost connection; fair | `QuiescentInSync`, `ImplementsMirror`, `EventuallyInSync` |
| `race` | 2 threads, every fault but `flap` | `TypeOK`, `CacheFromCurrentPlugin`, `FailuresFromCurrentPlugin` |
| `watch` | 2 files, 2 contents, 2 goroutines, 3 changes, a channel of 1, the directory watched again once; fair | `LastReportCurrent`, `NoDuplicateReport`, `EventuallyReported`, `CloseReleases` |
| `unit` | a root with a subdirectory, 2 contents, 2 changes, 2 scans or plugin changes, a channel of 1, pushes may fail; fair | `SupersededFiresSilent`, `TreeWatched`, `SnapshotCurrent`, `EventuallyPushed` |
| `config` | 2 games, 3 directories of one file each, a template with a fallback, one with a glob, one outside the save roots; 2 changes of settings, 2 writes, and one each of a removal, directory removed, directory made, crash, reconnect, rescan, failed plugin, 4 of them in all; fair | `WatchesConfigured`, `SavesPushed`, `RestartKeepsConfig`, `UnknownGamesStop`, `EventuallyPushed` |
| `session` | 1 repair request at a time, channels of 1; one each of a dropped connection, refused dial, link, ageing code, resume, repair, stop, 3 of them in all; fair | `AnnouncePending`, `EventuallyAnnounced`, `StopReturns`, `EventuallyCurrent` |
| `plugins` | 3 versions of 2 binaries; 3 calls of EnsurePlugin, 2 releases, 2 crashes, one each of a revert, unlisting, failed request, failed write, failed load, 5 in all; fair | `CacheMirrorsLoaded`, `NoDowngrade`, `EventuallyCurrent` |
| `update` | 3 versions, both platforms; 2 each of releases, announcements, restarts, crashes, one each of a failed download, failed disk operation, failed chmod, failed script, 5 in all; `Built[v] = v`; fair | `InstalledAsVerified`, `BinaryKept`, `NoDowngrade`, `EventuallyUpdated` |
| `mod` | 2 loads, the second at any stage past registration; gives up after 2 failures; one each of a refused dial, lost connection, end of the game, save, repair, link, 2 of them in all; fair | `SourceSaved`, `EventuallyOnline`, `LinkStateCurrent` |
| `offline`, `stale`, `reload` | smallest instance each | a counterexample, see section 5 |

Every passing run also checks `TypeOK` of its module, except `loop`,
whose states are those of `race` with fewer faults.

The contents are chosen so that the cases of `parseAndPush` all occur: a save
with a name and one without, one that shares a section with another save, and
one that the old plugin cannot read and the new one can, with fewer sections.
Two changes to a file are the fewest in which a change meets the push of the
one before it, a lost connection can hit any Send, and two versions suffice for
every staleness check, which compares for equality only. Write, drop and reload
counts are bounded by `MaxWrites`, `MaxDrops`, `MaxGen` and `MaxVersion` in the
guards of `Write`, `Delete`, `Drop`, `SendError`, `ReloadPlugin`, `Publish`.

In `watch`, three changes are a write, a removal and a write of the same file,
or a write during each half of another's fire; a channel of one makes every
goroutine wait at some time. In `unit`, two changes create a directory and put a
file into it, or remove and recreate one, each during any step of a scan.

In the five modules with a `Budget` every choice of the environment spends from
it, so a behaviour has as many faults as `total` allows, of any kinds, at any
step. Four in `config` are a change of settings, a directory that goes, a crash
and one more; three in `session` a drop, a resume and a stop, or a repair whose
answer is lost; five in `plugins` and `update` two releases with a crash and a
fault between them; two in `mod` a code asked for on a connection that breaks, or a
save and the end of the game. Two loads are the fewest that overlap, and a third
cancels a loop in the same way; the code's limit of 10 failures is 2, so that a loop
gives up within the budget.

What the properties of those runs exclude, they name: `CacheMirrorsLoaded` and
`EventuallyCurrent` of `PluginManager` hold where neither a disk write nor a load
failed (`Sound`) and no old version was listed again (`Forward`), `NoDowngrade`
where nothing failed and the process did not die; `EventuallyUpdated` excludes
the Windows daemon that died between two renames or has no tray (`Stranded`).
`NoDowngrade` of `SelfUpdate` speaks of the steps before a chmod has failed, and of
releases announced as what they were built as; `LastReportCurrent` and
`EventuallyReported` of `FSWatcher`, `SavesPushed` and `EventuallyPushed` of
`GameConfig` leave out the files in `stale`, `SnapshotCurrent` and `EventuallyPushed` of
`DirectoryUnit` the members in `missed` and the snapshot whose push failed. What
happens in those cases is in section 5, each with the property that fails and how to
see it.

**Fairness** of `SaveSync` (`FairSpec`). Weak fairness for a goroutine's own steps (the Go
scheduler), for a debounce timer, and for the redial, which the client retries
for ever; strong fairness for the loop's receipt of a file event and of the
Connected signal, since `select` picks at random among ready channels while
other events keep the loop busy. Nothing is assumed of the game, the registry
or the server's commands. `FSWatcher` and `DirectoryUnit` assume the same of the
watcher's loop, its timers and goroutines, and of the event loop; nothing of the
game, of scans, or that the watcher is ever closed. `GameConfig`: weak fairness of
the event loop as a whole. `Session`: weak fairness of the connect loop, without
its failing dials, and of the event loop; nothing of a repair request.
`PluginManager`: the steps of an operation, the ticker that checks for updates,
a deployment that was begun. `GameMod`: each loop, without its failing dials except
those of a disposed socket, the tasks, and the frames that drain the queue; nothing
of the player. `SelfUpdate`: the callers, the ticker and the timer
(strong, as another caller may be in the way), and whoever starts the daemon.

## 4. Proofs

`SaveSync_proofs` proves for every number of files, games, threads, contents,
plugin versions and faults:

* `TypeCorrect`: `Spec => []TypeOK`. `TypeOK` holds with it that a thread has a
  job exactly while it is inside `parseAndPush`, and that only failed parses
  take the failure path, which the other proofs use.
* `CacheCurrent`, `FailuresCurrent`: `CacheFromCurrentPlugin` and
  `FailuresFromCurrentPlugin`. Neither is inductive. The invariant
  `GenerationInv` adds that loaded versions never fall below the one seen by the
  last `pluginChanged` (`VersionsRise`), that no thread holds a generation of
  the future (`GenerationsSeen`), and that a job whose generation is the current
  one used a plugin at least as new (`FreshResultsCurrent`): with that, a
  `Record` that finds its generation unchanged records a current result.

and, again for any files, games, contents and plugins, but under hypotheses:

* `Implements`: `Spec => ImplementsMirror`, and `SavesWhole`, that no save on the server
  is put together from two parses. The hypotheses: the event loop is the one thread
  (`Single`), nothing is dropped silently (no `outage`), and no two files of a game can
  be given the same save name (`Separate`); failed writes, plugins and reads are
  allowed, and files may return to an earlier content. Without any of the three
  `SaveMirror` is not implemented: TLC finds it on the instances of `stale` and of
  `offline`, and section 5 has the two files. `MirrorInv` relates what is remembered to
  what the server has: `CacheInv`, the hashes of a file's last push are the server's
  sections of that save, but for the push about to be recorded; `JobInv`, a job's delta
  is taken against those hashes, nothing it read changes while it lasts, and once it
  has pushed the server has exactly its sections; `NameInv` keeps files to their own
  saves, `AgeInv` the server behind the loaded plugin. `MergedWhole` then says that
  merging a delta over what it was taken against gives the whole parse.
* `InSyncAtRest`: `QuiescentInSync`, with `Single` and `Separate`, if the only fault is
  a `write` that fails, and if two parses of a file that differ do so in a section the
  later one has (`Telling`; the code skips a push that only drops sections, section 5).
  `SyncInv` says of every tracked file that something is still to come, or that the
  server has it (`Rest`): its timer is armed, its last event carries what it holds,
  a scan or a changed plugin will parse it, or the job in hand holds its content. Only
  the last of these ends with the server in sync (`JobInSync`), which is why a parse
  without a delta must have found its sections there (`NothingNew`), and a failure that
  is not reported again must be one the server has (`FailInv`). `EventInv` is needed
  where events meet rescans: no event out of date is the last of its file. The `loop`
  run's instance satisfies all the hypotheses.

`FSWatcher_proofs` proves for any files, contents, number of goroutines and
channel capacity:

* `WatcherTypeCorrect`: `Spec => []TypeOK`.
* `NoDuplicate`: `NoDuplicateReport`, if `slow` is excluded. `DedupInv` adds what
  the suppression by hash rests on: a file has at most one fire past `Begin`
  (`OneFirePerFile`; two would each compare with a hash the other is about to
  store), and at every stage of that fire the stored hash is what it compared
  with, or cleared by a removal (`HashKnown`).
* `ReportsCurrent`: `LastReportCurrent`, if `slow` and `leftover` are. `ReportInv`
  says why a change is never lost: while the last content of a watched file that was
  queued or handled (`Said`) differs from the one on disk, a notification waits, a
  timer runs, or a goroutine will still read or emit the content (`FileReported`); an
  unwatched directory leaves nothing behind but what is in the channel
  (`NothingLeft`). A file in `stale` is Said until its next event is queued, which
  takes it out. With `leftover`, and without the exception of `stale`, it is false
  (section 5).

`DirectoryUnit_proofs` proves for any tree, contents, channel capacity and bounds:

* `UnitTypeCorrect`: `Spec => []TypeOK`.
* `SupersededSilent`: `SupersededFiresSilent`, if `leftover` is excluded.
  `TimerInv` adds that only the timer in `dirUnitTimers` runs, and that no fire
  carries a generation above the counter: without the second a new timer could
  be given the generation of a fire that waits for the lock, which is what
  happens once `Remove` drops the counter with a fire in flight.
* `TreeCorrect`: `TreeWatched`. The hypothesis `Prompt` excludes `gap` and
  `leftover`, and `brief` unless no directory lies in another below the root: the
  run's instance satisfies it, and section 5 has the counterexample to a nested tree
  with `brief`. While notifications wait, directories of the unit are missing from
  `inotify` or `known` (`Adrift`); the invariant `Shape` says that none is missing for
  good. `LooseInv`: such a directory was reported and not removed since (`Fresh`), or
  its parent is adrift too or about to leave the unit, so that reading the report of
  the topmost brings all of them in. A directory can be removed and made again while
  the removal waits, silently if its parent is not watched; `RemadeInv` and `SilentInv`
  say that the new one is then reported, or the parent's own removal comes after, and
  `MadeInv`, `UpInv`, `WalkInv` and `KnownInv` keep the watches a tree, with the walks
  and the bookkeeping around it.
* `SnapshotCorrect`: `SnapshotCurrent`, under `Prompt`, whichever members cannot be
  read. `SnapInv`: an event of the root
  is under way (`Armed`), or a removal waits that will arm it (`SureArm`), or for every
  directory the member is still to be reported (`Due`) or is in the snapshot, made or
  being made (`Seen`), or the dispatch that should have seen it missed it. What makes it inductive is a removal read after its
  directory has left the unit, which schedules nothing: `DeleteInv` says that every
  directory above it was watched or removed later, so the topmost of them that is
  about to leave the unit has its removal waiting in one that stays, which arms the
  timer (`RemovalArms`).

`Session_proofs` proves for any repair requests, channel capacity and budget:

* `TypeCorrect`: `Spec => []TypeOK`, with it that the channel of messages never
  holds more than its capacity.
* `AnnounceNotLost`: `AnnouncePending`, which is inductive with `TypeOK`: a dial
  forgets the announcement before it publishes the connection, and only the event
  loop takes the signal, in the step that announces.

`PluginManager_proofs` proves for any number of versions, any binaries they are built
to that are never older again, and any faults:

* `TypeCorrect`: `Spec => []TypeOK`.
* `Mirrors`: `CacheMirrorsLoaded`, by `CacheInv`, which holds as long as no write or
  load failed and no version was put back. A crash may leave any prefix of the four
  files; what makes that harmless is that nothing in the cache is newer than what is
  listed (`Bounded`) and the hash never newer than the module beside it (`Layered`):
  when the hash is that of the wanted version, the module is then that of the wanted
  version too, and only its name has to be written (`Tagging`).
* `Newer`: `Spec => NoDowngrade`, by `OrderInv`, which holds as long as nothing failed
  and the daemon did not die, an older version put back included. Between two
  operations the cache is empty or wholly of one version (`Whole`), so the version
  `isRollback` compares is the version of what runs.

`SelfUpdate_proofs` proves for any number of releases, callers interleaved at
will, and both platforms:

* `TypeCorrect` and `Verified`: `TypeOK` and `InstalledAsVerified`, by the
  invariant `Safe`: they rest on `Exclusive`, that only one caller is between
  `Enter` and its end, and only while `updateInFlight` is set.
* `DaemonKept`: `BinaryKept`, by `Kept`, which says where the old binary is at
  each step of the replacement.
* `Newer`: `Spec => NoDowngrade`, if releases are announced as what they were built as
  (`Built[v] = v`). By `Ordered`, that as long as no chmod failed `Order` holds: until
  a caller has put the new daemon in place the file is the one that runs, what it
  stages is newer than that, and the tray is never ahead of the daemon. The other three
  theorems hold for any `Built` and any chmods. Without the hypothesis, or after a
  failed chmod, it is false (section 5).

`GameConfig_proofs` proves for any games, templates, paths, directories and files,
and any budget:

* `TypeCorrect`: `Spec => []TypeOK`, by `Typed` (the messages and the stages of a
  handler), `OwnInv` (what is wanted, sent, configured or cached for a game names one
  of its own paths) and `ScanInv` (a scan belongs to a handler, and is of the path its
  game is configured with).
* `RestartCorrect`: `RestartKeepsConfig`, by `CacheInv`: only an update and a removal
  change the configuration, and neither ends before the cache is written whole.
* `WatchCorrect`: `WatchesConfigured`, which is not inductive. `MailInv` adds that the
  last settings sent are the server's (`LastSent`, `LastRead`), and that a game the
  server may ask to scan is enabled by the time the request is read, through every
  update between them (`FollowInv`). `WatchInv` adds that a scan of a followed game
  is of an enabled one (`ScanOn`), since a scan watches what it lists.
* `UnknownCorrect`: `UnknownGamesStop`, by `UnknownInv`: where the last settings are
  read and something of a game the server does not have was pushed, the answer
  GAME_REMOVED is under way, and ends the watches when it is read.
* `PushCorrect`: `SavesPushed`, by `PushInv`: every save of a game reported as watched
  is watched, and pushed or still to be reported (`Safe`), unless the game is being
  scanned anew; that scan has found every save there is, and watches what it found
  before it parses (`Found`). An event counts by the version it carries: `ChannelInv`
  says that the last one in the channel of a file whose timer does not run (`Calm`)
  carries what the file holds, or the file is in `stale`. Two hypotheses: no directory appears late
  (`Budget["late"] = 0`, section 2), and no two games can name the same directory
  (`Disjoint`); without either it is false, the second by the exchange of directories
  in section 5. The run's instance satisfies both.

`GameMod_proofs` proves for any number of loads, failures and faults, if no game is
loaded while the last loop starts or registers (`Undisturbed`, which section 5
shows to be needed):

* `TypeCorrect`: `Spec => []TypeOK`.
* `NoneForgotten`: `SourceSaved`, by the invariant `Safe`. Between `Register` and the
  frame that writes the settings the source is in memory only; `DiskInv` says that
  the action that writes them is then in the queue, before any that collects a
  colony (`Announced`), so nothing is sent before it is written. `LoopInv` says that
  a loop past `Register` implies a source, `WireInv` and `QueueInv` that every
  connection and every code in flight belongs to it.

The only other assumptions are the types of the constants (`SyncAssumption`,
`WatchAssumption`, `UnitAssumption`, `SessionAssumption`, `PluginAssumption`, `UpdateAssumption`,
`ModAssumption`,
`ConfigAssumption`, that `None` and `Torn` are no entries, and that a `Budget` counts).
Model-checked only: liveness, which is out of the prover's reach.

## 5. Where code and documentation disagree

Shown by a run each; `PROJECT.json` quotes the lines:

* `offline`: a push dropped for want of a connection is recorded as pushed, so
  the rescan after the reconnect has nothing to push (`docs/daemon.md:91` says
  it pushes the saves that changed while offline).
* `stale`: with `UpdatePlugins` on the local API's goroutine, an old plugin's
  push can follow the new one's snapshot and stays.
* `reload`: a RimWorld game is loaded while the mod is connecting or connected; the
  cancelled loop clears or replaces the socket of the new one, which then waits on
  a connection nobody can send on (`Connection/SavecraftConnection.cs:150`, `304`).

Found by TLC in the same way, on instances that are not among the runs:

* After a repair the new link code is never refreshed, because `linked` is not
  reset (`CodesRefreshed` of `Session` with `MCBudgetQuiet`; `docs/daemon.md:17`).
* GET /link returns the code of before after the source is linked: `SetState` leaves
  `linkCode`, and `handleLink` returns it in any state (`LinkGone` of `Session` on the
  instance of `session`; `localapi/server.go:275-283`, against `docs/daemon.md:99`).
* When the chmod after the rename fails, the new binary is in place, `Apply` returns an
  error and the old process runs on. The next announcement is compared with the version
  that runs, so an older release that is newer than the process replaces the newer file
  (`NeverDowngraded` of `SelfUpdate` on the instance of `update`;
  `selfupdate/replace_other.go:21-23`, `selfupdate/updater.go:185`).
* Apply compares the version a release is announced as; nothing compares the version
  the binary was built as, so binaries of an older version announced as a newer one
  are installed, although `selfupdate/updater.go:179-184` says a replayed old build is
  rejected (`NoDowngrade` of `SelfUpdate` with `Built <- MCBuiltOld`).
* A release the server announces never reaches the tray, whatever
  `daemon/daemon.go:2173` says of the next check (`TrayFollows` of `SelfUpdate` with
  `MCBudgetPushed`).
* A game loaded while the mod registers makes it register twice: the letter may
  show a code of the other source, and saves go to a source that is not the one in
  the settings (`SourceSaved` of `GameMod` with `LoadDuring = Stages`).
* A loop whose task starts after the next load holds the token of that load, and
  both loops live on (`StartTask` of `GameMod` with `spawned` in `LoadDuring`;
  `Connection/SavecraftConnection.cs:154-156` says `Start` guards against it).
* Two files that parse to one save name mix their sections: each pushes deltas
  against its own last push (`WholeSaves` of `SaveSync` with two files of one game
  and the contents `ok1`, `prev`).
* A section that disappears alone is not removed from the server
  (`RemovedSectionsGone` with the contents `ok1`, `trim`;
  `proto/savecraft/v1/protocol.proto:441-443`).
* A fire in flight outlives `Remove` and may report an old content after the
  directory was watched and scanned again (`LastReportCurrent` of `FSWatcher` with
  `Timing = {"leftover"}`; the comment at `watcher/watcher.go:241`).
* Nor does an event that waits in the channel: it is handled after the directory was
  watched and scanned again, and the content it was read with is the last that is
  pushed until the file changes once more (`ScanNotOverwritten` of `FSWatcher` on the
  instance of `watch`, 12 states; `RewatchPushed` of `GameConfig` on that of `config`:
  an update disables and enables the game, or moves it to another glob; `ev.Data` at
  `daemon/daemon.go:1785`). `ReportsCurrent` and `PushCorrect` except these files.
* A member of a directory unit that cannot be read while the game writes it is left
  out of the snapshot, the server drops its copy, and the aggregate without it is
  remembered: a rescan that reads it again has another aggregate and pushes, but
  nothing asks for one before the next change in the tree or the next reconnect; the
  same goes for the whole tree when the total cap is exceeded (`SkippedRepaired` of
  `DirectoryUnit` on the instance of `unit`; `daemon/daemon.go:1273-1281`, `1416`; the
  comment at `1259-1266` takes an unreadable member for a passing race, whose end no
  event need follow).
* The snapshot of a directory unit counts as dispatched although its push
  failed, and the rescan after the reconnect skips it (`ReconnectRepairs` of
  `DirectoryUnit`; `docs/daemon.md:91`).
* A directory two levels below the root is removed with its parent and made again with
  it, and once more, before the loop has read the first report: the kernel watches it,
  yet `dirUnitRootOf` has lost it, and changes in it are no events of the root
  (`TreeWatched` of `DirectoryUnit` with a directory nested in another, `brief` and 7
  changes; the comment at `watcher/watcher.go:416-426`).
* When two games exchange their directories in one update, the second takes the
  watch of the first, whose ConfigResult says it is watched (`ResultsTrue` of
  `GameConfig` with `SwapWanted` and `SwapBudget` of `MCGameConfig`;
  `daemon/daemon.go:2509`, `2539`). `PushCorrect` excludes it by `Disjoint`.
* A game rescanned while the daemon has it disabled, as after an update it refused,
  stays watched at its old path when it is enabled with another: the first case of
  `handleConfigUpdate` does not unwatch (`OldPathUnwatched` of `GameConfig` with
  `StrayWanted` and `StrayBudget`; `daemon/daemon.go:2514`, against the test of a
  change of path, `daemon/daemon_test.go:1507`).
* A path outside the save roots leaves the game with the configuration it had;
  `docs/daemon.md:62-64` says it is not configured, scanned or watched
  (`RefuseGame` of `GameConfig`).
* A crash between `version.txt` and `sha256.txt` leaves the old hash beside the
  new module; if the registry lists the old version again, the module is taken
  for it, fails verification at the next use, is evicted, and the old version is
  downloaded although it is older (`NoDowngrade` of `PluginManager` with a crash
  and a revert; the comment at `pluginmgr/manager.go:212-221`).
* The plugin's URL names no version, so a manifest in memory that is older than
  the registry makes the download fail, and `handleConfigUpdate` drops the game
  (`daemon/daemon.go:2521`).

Read in the code, outside what the models tell apart:

* The RimWorld mod shows a rejected push as pushed: it does not look at
  `PushSaveResult.error` (`Connection/SavecraftConnection.cs:529-534`,
  `proto/savecraft/v1/protocol.proto:453-460`).
* Its button for a new code sends `RefreshLinkCode`, which replaces a code, not
  `UnlinkSource`, which unlinks: after the next connection the window shows the
  source linked as before (`Connection/SavecraftConnection.cs:236`,
  `proto/savecraft/v1/protocol.proto:470-488`).

## 6. Plan

Modelled in this order: the save pipeline, the watcher and the directory units
that feed it, the configuration, the session, the plugin manager, the update and the RimWorld
mod. What is left: the composition of `Session` with `SaveSync`: which pushes a reconnect repeats.

## 7. Not modelled

* The plugins' save parsers and their data: nine tenths of the lines under
  `src/` are tables generated from game data (`plugins/magic/parser/data`,
  `plugins/d2r/d2s/tables_*.go`, `plugins/satisfactory/parser/names_gen.go`, the
  generated protocol in `internal/proto`) and readers of binary save formats.
  They are pure functions of one file, an arbitrary function `Parse` here; there
  is no state, order or failure in them for a model to explore, and a table
  cannot be modelled by anything shorter than itself. That is why the modules
  cover a small share of the repository's lines, though most of those of
  `daemon/daemon.go`, `watcher`, `wsconn`, `pluginmgr` and `selfupdate`.
* The Factorio mod: handlers the game calls one at a time, which write its whole
  state to a file; the sections it caches are listed as a hazard. What the RimWorld
  mod's collectors read of the game, and how it cuts long reports into sections.
* The WASM runner, the service manager and the Windows power events: calls of a
  library or the operating system, present as what they may do to the daemon.
* `discoverGames` and `handleTestPath`: they list directories and answer, and
  change nothing.
* Set-up, uninstall and release tools: sequential programs over external I/O.
* Message encoding, compression, logging, the log ring buffer, the tray's menu.

`PROJECT.json` lists every component with its status.
