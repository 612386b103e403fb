------------------------- MODULE GameConfig_proofs -------------------------
(***************************************************************************)
(* Proofs about GameConfig for any games, paths, templates, directories and *)
(* faults: its type invariant, what may be watched, that saves are pushed    *)
(* when no two games share a directory, that a restart keeps the             *)
(* configuration, and that a game the server does not have is given up.      *)
(***************************************************************************)
EXTENDS GameConfig, WellFoundedInduction, TLAPS

USE ConfigAssumption, NoneAssumption

-----------------------------------------------------------------------------
(* What the settings of a game can name.                                    *)

IsPath(g, p) == \E t \in Wanted[g] : \E i \in 1..Len(Candidates[t]) : Candidates[t][i] = p

Trusted(g) == \A t \in Wanted[g] : \A i \in 1..Len(Candidates[t]) : Candidates[t][i] \in Allowed

\* Settings and entries are of templates the user gives that game.
OwnWish(games)    == \A g \in Game : games[g] # None => games[g].template \in Wanted[g]
OwnEntry(entries) == \A g \in Game : entries[g] # None => IsPath(g, entries[g].path)

OwnInv ==
  /\ OwnWish(server)
  /\ \A i \in 1..Len(inbox) : inbox[i].kind = "config" => OwnWish(inbox[i].games)
  /\ task.kind = "config" =>
       OwnWish(task.update) /\ \A g \in task.left : task.update[g] # None
  /\ OwnEntry(cfg)
  /\ cache # Torn => OwnEntry(cache)

\* A scan is of a configured game, and ends before another handler starts.
ScanInv ==
  /\ scan # None => /\ task.kind \in {"config", "announce", "rescan"}
                    /\ cfg[scan.game] # None /\ cfg[scan.game].path = scan.path
                    /\ \A f \in scan.found : DirOf[f] \in Matches[scan.path]
  /\ task.kind = "announce" => \A g \in task.left : Enabled(g)

-----------------------------------------------------------------------------
(* The cache.                                                               *)

CacheInv ==
  task.kind \in {"idle", "rescan", "announce"} =>
    \A g \in Game : cfg[g] # None => cache # Torn /\ cache[g] = cfg[g]

-----------------------------------------------------------------------------
(* What is on its way to the daemon.                                        *)

NoConfig == \A i \in 1..Len(inbox) : inbox[i].kind # "config"

\* The last settings sent are those on the server.
LastSent ==
  \A i \in 1..Len(inbox) :
    inbox[i].kind = "config" /\ (\A j \in i+1..Len(inbox) : inbox[j].kind # "config")
      => inbox[i].games = server

LastRead == task.kind = "config" /\ NoConfig => task.update = server

On(games, g) == games[g] # None /\ games[g].enabled

\* The daemon has, or is about to have, g enabled, or not at all.
Now(g) ==
  IF task.kind = "config" /\ g \in task.left THEN task.update[g].enabled
                                             ELSE cfg[g] = None \/ cfg[g].enabled

\* A rescan finds the game enabled, if it finds it.
AtRescan(g) ==
  \A i \in 1..Len(inbox) : inbox[i].kind = "rescan" /\ inbox[i].game = g =>
    \/ \E j \in 1..i-1 : /\ inbox[j].kind = "config" /\ On(inbox[j].games, g)
                         /\ \A k \in j+1..i-1 : inbox[k].kind # "config"
    \/ Now(g) /\ \A k \in 1..i-1 : inbox[k].kind # "config"

FollowInv ==
  budget["crash"] = Budget["crash"] =>
    \A g \in Game : Trusted(g) => /\ AtRescan(g)
                                  /\ NoConfig /\ On(server, g) => Now(g)

\* A process that died left nothing in the kernel or on the connection.
Off ==
  task = Down => inbox = <<>> /\ inotify = {} /\ budget["crash"] < Budget["crash"]

MailInv == LastSent /\ LastRead /\ FollowInv /\ Off

-----------------------------------------------------------------------------
(* What is watched.                                                         *)

Claimed == \A d \in inotify : watchedDirs[d] \in Game

Configured ==
  \A d \in inotify : \A g \in Game :
    watchedDirs[d] = g /\ Followed(g) => Enabled(g) /\ d \in Matches[cfg[g].path]

ScanOn == \A g \in Game : scan # None /\ scan.game = g /\ Followed(g) => Enabled(g)

\* No rescan is under way if none was asked for.
NoRescan ==
  budget["rescan"] = Budget["rescan"] => \A i \in 1..Len(inbox) : inbox[i].kind # "rescan"

WatchInv == Claimed /\ Configured /\ ScanOn /\ NoRescan

\* What was pushed of a game the server does not have was answered.
UnknownInv ==
  task.kind # "down" /\ NoConfig =>
    \A g \in Game : server[g] = None /\ cfg[g] # None =>
      \A f \in File : pushed[f] # None /\ pushed[f][1] = g =>
        \E i \in 1..Len(inbox) : inbox[i].kind = "removed" /\ inbox[i].game = g

-----------------------------------------------------------------------------
(* What is pushed, if no two games can share a directory and no directory   *)
(* appears where a configured game has looked for it.                       *)

Disjoint ==
  \A g, h \in Game : g # h =>
    \A p, q \in Path : IsPath(g, p) /\ IsPath(h, q) => Matches[p] \cap Matches[q] = {}

\* A change of the file has still to be handled, or its watch came too late.
Pending(f) == f \in dirty \/ f \in stale \/ HasEvent(f)

\* The last event of a watched file in the channel was read after the file's
\* last change, unless a timer has still to fire or the watch came too late.
Calm(f) == DirOf[f] \in inotify /\ disk[f] > 0 /\ f \notin dirty /\ f \notin stale

Latest(f) ==
  \A i \in 1..Len(events) : events[i].file = f =>
    events[i].version = disk[f] \/ \E j \in i+1..Len(events) : events[j].file = f

ChannelInv == \A f \in File : Calm(f) => Latest(f)

Watched(g) ==
  \A f \in Saves(Resolve(cfg[g].path)) :
    /\ watchedDirs[DirOf[f]] = g /\ DirOf[f] \in inotify
    /\ pushed[f] = <<g, disk[f]>> \/ Pending(f)

\* A scan finds what there is, and watches it.
Found ==
  scan # None /\ ~scan.quiet /\ scan.stage \in {"watch", "parse"} =>
    \A f \in Saves(Resolve(scan.path)) :
      /\ f \in scan.found
      /\ scan.stage = "parse" => watchedDirs[DirOf[f]] = scan.game /\ DirOf[f] \in inotify

\* What the server was told is watched is, unless it is being scanned anew.
Safe ==
  \A g \in Game : Enabled(g) /\ report[g] = "watching"
                  /\ (scan = None \/ scan.game # g \/ scan.quiet) => Watched(g)

PushInv == task.kind # "down" => Safe /\ Found

-----------------------------------------------------------------------------
(* Paths.                                                                   *)

LEMMA Least ==
  ASSUME NEW S \in SUBSET Nat, S # {}
  PROVE  \E i \in S : \A j \in S : i <= j
<1> DEFINE Less == {ss \in Nat \X Nat : ss[1] < ss[2]}
<1>1. Less = OpToRel(<, Nat)
  BY Zenon DEF OpToRel
<1>2. \A x, y \in Nat : x < y => <<x, y>> \in Less
  OBVIOUS
<1> HIDE DEF Less
<1>3. IsWellFoundedOn(Less, Nat)
  BY <1>1, NatLessThanWellFounded, Zenon
<1>4. PICK x \in S : \A y \in S : ~ (<<y, x>> \in Less)
  BY <1>3, WFMin, Zenon
<1>5. \A y \in S : ~ (y < x)
  BY <1>2, <1>4
<1>6. \A y \in S : x <= y
  <2> TAKE y \in S
  <2>1. x \in Nat /\ y \in Nat
    OBVIOUS
  <2> QED BY <1>5, <2>1
<1> QED BY <1>6

\* The path a template expands to is one of its candidates.
LEMMA FirstValidPath ==
  ASSUME NEW t \in Template
  PROVE  \E i \in 1..Len(Candidates[t]) : FirstValid(t) = Candidates[t][i]
<1> DEFINE ps == Candidates[t]
           ok == {i \in 1..Len(ps) : Usable(ps[i])}
<1>1. ps \in Seq(Path) /\ ps # <<>>
  OBVIOUS
<1>2. Len(ps) \in Nat /\ 1 \in 1..Len(ps)
  BY <1>1
<1>3. CASE ok = {}
  BY <1>2, <1>3 DEF FirstValid
<1>4. CASE ok # {}
  <2>1. ok \in SUBSET Nat
    BY <1>2
  <2>2. \E i \in ok : \A j \in ok : i <= j
    BY <2>1, <1>4, Least
  <2>3. (CHOOSE i \in ok : \A j \in ok : i <= j) \in ok
    BY <2>2
  <2>4. FirstValid(t) = ps[CHOOSE i \in ok : \A j \in ok : i <= j]
    BY <1>4 DEF FirstValid
  <2> QED BY <2>3, <2>4
<1> QED BY <1>3, <1>4

LEMMA FirstValidOwn ==
  ASSUME NEW g \in Game, NEW t \in Wanted[g]
  PROVE  FirstValid(t) \in Path /\ IsPath(g, FirstValid(t))
<1>1. t \in Template
  OBVIOUS
<1>2. Candidates[t] \in Seq(Path)
  BY <1>1
<1> QED BY <1>1, <1>2, FirstValidPath DEF IsPath

LEMMA ResolveMatches ==
  ASSUME NEW p \in Path
  PROVE  Resolve(p) \subseteq Matches[p] /\ Resolve(p) \subseteq Dir
         /\ Matches[p] \cap exists \subseteq Resolve(p)
BY DEF Resolve

-----------------------------------------------------------------------------
(* Types, by the variables they are about.                                  *)

Wishes  == [Game -> Wish \cup {None}]
Entries == [Game -> Entry \cup {None}]
Pushes  == [File -> (Game \X Nat) \cup {None}]
Outcome == [Game -> {"none", "ok", "error"}]
Status  == [Game -> {"none", "watching", "notFound", "pluginFailed"}]

ConfigTask   == [kind : {"config"}, update : Wishes, left : SUBSET Game, results : Outcome]
AnnounceTask == [kind : {"announce"}, left : SUBSET Game]

MailType  == server \in Wishes /\ inbox \in Seq(Message)
CfgType   == cfg \in Entries /\ cache \in Entries \cup {Torn}
WatchType == watchedDirs \in [Dir -> Game \cup {None}] /\ inotify \subseteq exists
DiskType  == exists \subseteq Dir /\ disk \in [File -> Nat]
ChanType  == dirty \in SUBSET File /\ stale \in SUBSET File /\ events \in Seq(Event)
PushType  == pushed \in Pushes
ToldType  == report \in Status /\ results \in Outcome
TaskType  == task \in Tasks /\ scan \in Scans \cup {None}
FlagType  == signal \in BOOLEAN /\ announced \in BOOLEAN
BudgetType == budget \in [Sources -> Nat] /\ \A k \in Sources : budget[k] <= Budget[k]

Typed == /\ MailType /\ CfgType /\ WatchType /\ DiskType /\ ChanType /\ PushType
         /\ ToldType /\ TaskType /\ FlagType /\ BudgetType

LEMMA TypedTypeOK == Typed => TypeOK
BY DEF TypeOK, Typed, MailType, CfgType, WatchType, DiskType, ChanType, PushType, ToldType, TaskType,
       FlagType, BudgetType, Wishes, Entries, Pushes, Outcome, Status

LEMMA TaskKinds ==
  ASSUME NEW t \in Tasks
  PROVE  /\ t.kind \in {"idle", "down", "truncate", "write", "rescan", "config", "announce"}
         /\ t.kind = "config" <=> t \in ConfigTask
         /\ t.kind = "announce" <=> t \in AnnounceTask
         /\ t.kind = "idle" <=> t = Idle
         /\ t.kind = "down" <=> t = Down
BY DEF Tasks, Idle, Down, ConfigTask, AnnounceTask, Wishes, Outcome

LEMMA MessageKinds ==
  ASSUME NEW m \in Message
  PROVE  /\ m.kind \in {"config", "removed", "rescan"}
         /\ m.kind = "config" => m.games \in Wishes
         /\ m.kind # "config" => m.game \in Game
BY DEF Message, Wishes

LEMMA Messages ==
  /\ \A w \in Wishes : [kind |-> "config", games |-> w] \in Message
  /\ \A g \in Game : [kind |-> "removed", game |-> g] \in Message
                     /\ [kind |-> "rescan", game |-> g] \in Message
BY DEF Message, Wishes

LEMMA SpendType ==
  ASSUME BudgetType, NEW k \in Sources \ {"total"}, Spend(k)
  PROVE  /\ BudgetType'
         /\ \A j \in Sources : budget'[j] <= budget[j]
         /\ budget'[k] < budget[k]
<1>1. /\ "total" \in Sources
      /\ budget \in [Sources -> Nat] /\ budget[k] > 0 /\ budget["total"] > 0
      /\ budget' = [budget EXCEPT ![k] = @ - 1, !["total"] = @ - 1]
  BY DEF Spend, Sources, BudgetType
<1>2. /\ DOMAIN budget' = Sources /\ budget' = [j \in Sources |-> budget'[j]]
      /\ \A j \in Sources : budget'[j] = IF j \in {k, "total"} THEN budget[j] - 1 ELSE budget[j]
  BY <1>1
<1>3. \A j \in Sources : budget'[j] \in Nat /\ budget'[j] <= budget[j]
  BY <1>1, <1>2
<1>4. budget'[k] < budget[k]
  BY <1>1, <1>2
<1>5. BudgetType'
  <2>1. budget' \in [Sources -> Nat]
    BY <1>2, <1>3
  <2>2. \A j \in Sources : budget[j] \in Nat /\ budget[j] <= Budget[j]
    BY DEF BudgetType
  <2> QED BY <1>3, <2>1, <2>2 DEF BudgetType
<1> QED BY <1>3, <1>4, <1>5

\* What a step leaves alone keeps its type.
LEMMA Kept ==
  ASSUME Typed
  PROVE  /\ UNCHANGED <<server, inbox>> => MailType'
         /\ UNCHANGED <<cfg, cache>> => CfgType'
         /\ UNCHANGED <<watchedDirs, inotify, exists>> => WatchType'
         /\ UNCHANGED <<exists, disk>> => DiskType'
         /\ UNCHANGED <<dirty, stale, events>> => ChanType'
         /\ UNCHANGED pushed => PushType'
         /\ UNCHANGED <<report, results>> => ToldType'
         /\ UNCHANGED <<task, scan>> => TaskType'
         /\ UNCHANGED <<signal, announced>> => FlagType'
         /\ UNCHANGED budget => BudgetType'
BY DEF Typed, MailType, CfgType, WatchType, DiskType, ChanType, PushType, ToldType, TaskType,
       FlagType, BudgetType

LEMMA UnwatchType ==
  ASSUME Typed, NEW paths \in SUBSET Path, Unwatch(paths)
  PROVE  /\ watchedDirs' \in [Dir -> Game \cup {None}]
         /\ \A d \in Dir : watchedDirs'[d] = watchedDirs[d] \/ watchedDirs'[d] = None
         /\ inotify' \subseteq inotify
         /\ \A d \in inotify' : watchedDirs[d] # None => watchedDirs'[d] = watchedDirs[d]
         /\ PushType' /\ dirty' \subseteq dirty
         /\ \A f \in File : pushed'[f] = pushed[f] \/ pushed'[f] = None
         /\ UNCHANGED <<stale, events>> => ChanType'
BY DEF Typed, Unwatch, WatchType, DiskType, ChanType, PushType, Pushes

LEMMA ParseType ==
  ASSUME Typed, NEW g \in Game, NEW files \in SUBSET File, NEW data \in [files -> Nat],
         ParseAndPush(g, data), UNCHANGED server
  PROVE  /\ PushType' /\ MailType'
         /\ \A f \in File : \/ pushed'[f] = pushed[f]
                            \/ /\ f \in files /\ pushed'[f] = <<g, data[f]>>
                               /\ inbox' = IF server[g] = None
                                           THEN Append(inbox, [kind |-> "removed", game |-> g])
                                           ELSE inbox
         /\ inbox' = inbox \/ inbox' = Append(inbox, [kind |-> "removed", game |-> g])
<1> DEFINE msg == [kind |-> "removed", game |-> g]
<1>1. pushed \in Pushes /\ inbox \in Seq(Message) /\ server \in Wishes
  BY DEF Typed, MailType, PushType
<1>2. msg \in Message
  BY Messages
<1>3. inbox' = inbox \/ inbox' = Append(inbox, msg)
  BY DEF ParseAndPush
<1>4. MailType'
  <2> HIDE DEF msg
  <2>1. Append(inbox, msg) \in Seq(Message)
    BY <1>1, <1>2
  <2> QED BY <1>1, <1>3, <2>1 DEF MailType
<1>5. \A f \in File : \/ pushed'[f] = pushed[f]
                      \/ /\ f \in files /\ pushed'[f] = <<g, data[f]>>
                         /\ inbox' = IF server[g] = None THEN Append(inbox, msg) ELSE inbox
  BY <1>1 DEF ParseAndPush
<1>6. PushType'
  <2>1. DOMAIN pushed' = File /\ pushed' = [f \in File |-> pushed'[f]]
    BY DEF ParseAndPush
  <2>2. \A f \in File : pushed'[f] \in (Game \X Nat) \cup {None}
    <3> TAKE f \in File
    <3>1. pushed[f] \in (Game \X Nat) \cup {None} /\ (f \in files => data[f] \in Nat)
      BY <1>1 DEF Pushes
    <3>2. pushed'[f] = pushed[f] \/ (f \in files /\ pushed'[f] = <<g, data[f]>>)
      BY <1>5
    <3>3. f \in files => <<g, data[f]>> \in Game \X Nat
      BY <3>1
    <3> QED BY <3>1, <3>2, <3>3, Zenon
  <2> QED BY <2>1, <2>2 DEF PushType, Pushes
<1> QED BY <1>3, <1>4, <1>5, <1>6

LEMMA TurnTask ==
  ASSUME Typed, NEW g \in Game, Turn(g)
  PROVE  task \in ConfigTask /\ g \in task.left /\ scan = None
         /\ task.update[g] \in Wish \cup {None}
BY TaskKinds DEF Turn, Typed, TaskType, ConfigTask, Wishes

LEMMA TookType ==
  ASSUME NEW t \in ConfigTask, NEW g \in Game, NEW u, u = [t EXCEPT !.left = @ \ {g}]
  PROVE  /\ u \in ConfigTask /\ u \in Tasks
         /\ u.kind = "config" /\ u.update = t.update /\ u.left = t.left \ {g}
BY DEF ConfigTask, Tasks, Wishes, Outcome

LEMMA ResultType ==
  ASSUME NEW t \in ConfigTask, NEW o \in Outcome, NEW u, u = [t EXCEPT !.results = o]
  PROVE  /\ u \in ConfigTask /\ u \in Tasks
         /\ u.kind = "config" /\ u.update = t.update /\ u.left = t.left
BY DEF ConfigTask, Tasks, Wishes, Outcome

LEMMA OutcomeType ==
  ASSUME NEW t \in ConfigTask, NEW g \in Game, NEW r \in {"none", "ok", "error"}
  PROVE  [t.results EXCEPT ![g] = r] \in Outcome
BY DEF ConfigTask, Outcome

LEMMA DoneType ==
  ASSUME Typed, NEW g \in Game, Turn(g), NEW r \in {"none", "ok", "error"}, Done(g, r)
  PROVE  /\ task' \in ConfigTask /\ task' \in Tasks
         /\ task'.kind = "config" /\ task'.update = task.update /\ task'.left = task.left \ {g}
<1> DEFINE u == [task EXCEPT !.left = @ \ {g}]
           o == [u.results EXCEPT ![g] = r]
<1>1. u \in ConfigTask /\ u.kind = "config" /\ u.update = task.update /\ u.left = task.left \ {g}
  <2>1. task \in ConfigTask
    BY TurnTask
  <2> QED BY <2>1, TookType
<1>2. task' = [u EXCEPT !.results = o]
  BY TurnTask DEF Done, ConfigTask
<1> HIDE DEF u
<1>3. o \in Outcome
  BY <1>1, OutcomeType
<1> HIDE DEF o
<1> QED BY <1>1, <1>2, <1>3, ResultType

\* A game's turn in the loop.
LEMMA TurnKind ==
  ASSUME Typed, NEW g \in Game,
         RefuseGame(g) \/ DisableGame(g) \/ KeepGame(g) \/ ConfigureGame(g) \/ DropGame(g)
  PROVE  Turn(g) /\ task.kind = "config" /\ task'.kind = "config" /\ ~ Boot
         /\ task'.update = task.update /\ task'.left = task.left \ {g}
<1>1. CASE ConfigureGame(g)
  <2>1. Turn(g) /\ task' = [task EXCEPT !.left = @ \ {g}]
    BY <1>1 DEF ConfigureGame, Renewed
  <2>2. task \in ConfigTask
    BY <2>1, TurnTask
  <2>3. task'.kind = "config" /\ task'.update = task.update /\ task'.left = task.left \ {g}
    BY <2>1, <2>2, TookType
  <2> QED BY <2>1, <2>3 DEF Turn, Boot, Down
<1>2. CASE RefuseGame(g) \/ DisableGame(g) \/ KeepGame(g) \/ DropGame(g)
  <2>1. Turn(g) /\ (Done(g, "ok") \/ Done(g, "error"))
    BY <1>2 DEF RefuseGame, DisableGame, KeepGame, DropGame, Renewed
  <2> QED BY <2>1, DoneType DEF Turn, Boot, Down
<1> QED BY <1>1, <1>2

\* The three ways the handler goes on after a scan.
LEMMA EndScanType ==
  ASSUME Typed, scan # None, NEW STATE st,
         st \in {"none", "watching", "notFound", "pluginFailed"}, EndScan(scan.game, st)
  PROVE  /\ TaskType' /\ scan' = None /\ report' \in Status
         /\ report' = [report EXCEPT ![scan.game] = st]
         /\ \/ /\ task.kind = "config" /\ task'.kind = "config"
               /\ task'.update = task.update /\ task'.left = task.left
            \/ task.kind = "rescan" /\ task' = Idle
            \/ task.kind \notin {"config", "rescan"} /\ task' = task
<1>1. scan \in Scans /\ scan.game \in Game /\ task \in Tasks
  BY DEF Typed, TaskType, Scans
<1>2. report' = [report EXCEPT ![scan.game] = st] /\ report' \in Status /\ scan' = None
  BY <1>1 DEF EndScan, Typed, ToldType, Status
<1>3. CASE task.kind = "config"
  <2>1. task \in ConfigTask
    BY <1>1, <1>3, TaskKinds
  <2>2. PICK r \in {"none", "ok", "error"} : task' = [task EXCEPT !.results[scan.game] = r]
    BY <1>3 DEF EndScan
  <2> DEFINE o == [task.results EXCEPT ![scan.game] = r]
  <2>3. o \in Outcome
    BY <1>1, <2>1, OutcomeType
  <2>4. task' = [task EXCEPT !.results = o]
    BY <2>2
  <2> HIDE DEF o
  <2>5. /\ task' \in Tasks /\ task'.kind = "config"
        /\ task'.update = task.update /\ task'.left = task.left
    BY <2>1, <2>3, <2>4, ResultType
  <2> QED BY <1>2, <1>3, <2>5 DEF TaskType
<1>4. CASE task.kind = "rescan"
  BY <1>1, <1>2, <1>4 DEF EndScan, TaskType, Tasks
<1>5. CASE task.kind \notin {"config", "rescan"}
  BY <1>1, <1>2, <1>5 DEF EndScan, TaskType
<1> QED BY <1>3, <1>4, <1>5

\* The environment keeps the types.
LEMMA EnvironmentType ==
  ASSUME Typed, Environment
  PROVE  Typed'
<1> USE DEF world, channel, memory, told
<1>0. /\ \A k \in Sources \ {"total"} : Spend(k) => BudgetType'
      /\ {"user", "write", "delete", "rmdir", "mkdir", "late", "crash", "connect", "rescan"}
           \subseteq Sources \ {"total"}
  BY SpendType DEF Typed, Sources
<1>1. ASSUME NEW g \in Game, ChangeSettings(g) PROVE Typed'
  <2>1. PICK w \in [template : Wanted[g], enabled : BOOLEAN] \cup {None} :
          /\ server' = [server EXCEPT ![g] = w]
          /\ inbox' = IF task = Down THEN inbox
                      ELSE Append(inbox, [kind |-> "config", games |-> server'])
    BY <1>1 DEF ChangeSettings
  <2>2. w \in Wish \cup {None}
    BY DEF Wish
  <2>3. server' \in Wishes
    BY <2>1, <2>2 DEF Typed, MailType, Wishes
  <2> DEFINE m == [kind |-> "config", games |-> server']
  <2>4. m \in Message
    BY <2>3 DEF Message, Wishes
  <2> HIDE DEF m
  <2>5. Append(inbox, m) \in Seq(Message) /\ inbox \in Seq(Message)
    BY <2>4 DEF Typed, MailType
  <2>6. inbox' \in Seq(Message)
    BY <2>1, <2>5 DEF m
  <2>7. MailType'
    BY <2>3, <2>6 DEF MailType
  <2>8. BudgetType'
    BY <1>0, <1>1 DEF ChangeSettings
  <2> QED BY <1>1, <2>7, <2>8, Kept DEF Typed, ChangeSettings
<1>2. ASSUME NEW g \in Game, RequestRescan(g) PROVE Typed'
  <2> DEFINE m == [kind |-> "rescan", game |-> g]
  <2>1. m \in Message
    BY Messages
  <2>2. inbox' = Append(inbox, m)
    BY <1>2 DEF RequestRescan
  <2> HIDE DEF m
  <2>3. MailType'
    BY <1>2, <2>1, <2>2 DEF Typed, MailType, RequestRescan
  <2>4. BudgetType'
    BY <1>0, <1>2 DEF RequestRescan
  <2> QED BY <1>2, <2>3, <2>4, Kept DEF Typed, RequestRescan
<1>3. ASSUME NEW f \in File, Write(f) PROVE Typed'
  <2>1. DiskType' /\ ChanType'
    BY <1>3 DEF Typed, DiskType, ChanType, Write
  <2>2. BudgetType'
    BY <1>0, <1>3 DEF Write
  <2> QED BY <1>3, <2>1, <2>2, Kept DEF Typed, Write
<1>4. ASSUME NEW f \in File, Delete(f) PROVE Typed'
  <2>1. DiskType' /\ ChanType'
    BY <1>4 DEF Typed, DiskType, ChanType, Delete
  <2>2. BudgetType'
    BY <1>0, <1>4 DEF Delete
  <2> QED BY <1>4, <2>1, <2>2, Kept DEF Typed, Delete
<1>5. ASSUME NEW f \in File, MakeDir(f) PROVE Typed'
  <2>1. DiskType'
    BY <1>5 DEF Typed, DiskType, MakeDir
  <2>2. WatchType'
    BY <1>5 DEF Typed, WatchType, MakeDir
  <2>3. BudgetType'
    <3>1. CASE Covered(DirOf[f])
      BY <1>0, <1>5, <3>1 DEF MakeDir
    <3>2. CASE ~ Covered(DirOf[f])
      BY <1>0, <1>5, <3>2 DEF MakeDir
    <3> QED BY <3>1, <3>2
  <2> QED BY <1>5, <2>1, <2>2, <2>3, Kept DEF Typed, MakeDir
<1>6. ASSUME NEW d \in Dir, RemoveDir(d) PROVE Typed'
  <2>1. DiskType' /\ ChanType'
    BY <1>6 DEF Typed, DiskType, ChanType, RemoveDir
  <2>2. WatchType'
    BY <1>6 DEF Typed, WatchType, RemoveDir
  <2>3. BudgetType'
    BY <1>0, <1>6 DEF RemoveDir
  <2> QED BY <1>6, <2>1, <2>2, <2>3, Kept DEF Typed, RemoveDir
<1>7. ASSUME Reconnect PROVE Typed'
  <2>1. FlagType'
    BY <1>7 DEF Typed, FlagType, Reconnect
  <2>2. BudgetType'
    BY <1>0, <1>7 DEF Reconnect
  <2> QED BY <1>7, <2>1, <2>2, Kept DEF Typed, Reconnect
<1>8. ASSUME Crash PROVE Typed'
  <2>1. MailType'
    BY <1>8 DEF Typed, MailType, Crash
  <2>2. WatchType' /\ DiskType' /\ ChanType'
    BY <1>8 DEF Typed, WatchType, DiskType, ChanType, Crash
  <2>3. TaskType' /\ FlagType'
    BY <1>8 DEF Typed, TaskType, FlagType, Tasks, Crash
  <2>4. BudgetType'
    BY <1>0, <1>8 DEF Crash
  <2> QED BY <1>8, <2>1, <2>2, <2>3, <2>4, Kept DEF Typed, Crash
<1> QED BY <1>1, <1>2, <1>3, <1>4, <1>5, <1>6, <1>7, <1>8 DEF Environment

\* A scan's parts.
LEMMA ScanFields ==
  ASSUME Typed, scan # None
  PROVE  /\ scan \in Scans /\ scan.game \in Game /\ scan.path \in Path
         /\ scan.found \in SUBSET File /\ scan.quiet \in BOOLEAN
         /\ scan.stage \in {"list", "watch", "parse"}
BY DEF Typed, TaskType, Scans

LEMMA StartScanType ==
  ASSUME NEW g \in Game, NEW p \in Path, NEW quiet \in BOOLEAN, StartScan(g, p, quiet)
  PROVE  /\ scan' \in Scans /\ scan' # None /\ scan'.game = g /\ scan'.path = p
         /\ scan'.found = {} /\ scan'.stage = "list" /\ scan'.quiet = quiet
BY DEF StartScan, Scans

\* The steps of a scan keep the types, and follow the stages.
LEMMA ScanStepType ==
  ASSUME Typed, ScanStep
  PROVE  Typed'
<1> USE DEF world, channel, memory, told
<1>1. CASE RescanQuiet
  <2> DEFINE found == Saves(Resolve(scan.path))
  <2>1. found \in SUBSET File
    BY DEF Saves
  <2>2. scan' = [scan EXCEPT !.stage = "parse", !.found = found, !.quiet = scan.quiet]
    BY <1>1, ScanFields DEF RescanQuiet, Scans
  <2> HIDE DEF found
  <2>3. scan' \in Scans
    <3>1. scan \in Scans /\ scan.quiet \in BOOLEAN
      BY <1>1, ScanFields DEF RescanQuiet
    <3> QED BY <2>1, <2>2, <3>1 DEF Scans
  <2>4. TaskType'
    BY <1>1, <2>3 DEF Typed, TaskType, RescanQuiet
  <2> QED BY <1>1, <2>4, Kept DEF Typed, RescanQuiet
<1>2. CASE ListSaves
  <2> DEFINE found == Saves(Resolve(scan.path))
  <2>1. found \in SUBSET File
    BY DEF Saves
  <2>2. CASE found = {}
    <3>1. EndScan(scan.game, "notFound") /\ scan # None
      BY <1>2, <2>2 DEF ListSaves
    <3>2. TaskType' /\ report' \in Status
      BY <3>1, EndScanType
    <3>3. ToldType'
      BY <1>2, <3>2 DEF Typed, ToldType, ListSaves
    <3> QED BY <1>2, <3>2, <3>3, Kept DEF Typed, ListSaves
  <2>3. CASE found # {}
    <3>1. scan' = [scan EXCEPT !.stage = "watch", !.found = found, !.quiet = FALSE]
      BY <1>2, <2>3 DEF ListSaves
    <3> HIDE DEF found
    <3>2. scan' \in Scans
      <4>1. scan \in Scans
        BY <1>2, ScanFields DEF ListSaves
      <4> QED BY <2>1, <3>1, <4>1 DEF Scans
    <3>3. UNCHANGED <<report, task>>
      BY <1>2, <2>3 DEF ListSaves, found
    <3>4. TaskType' /\ ToldType'
      BY <1>2, <3>2, <3>3 DEF Typed, TaskType, ToldType, ListSaves
    <3> QED BY <1>2, <3>4, Kept DEF Typed, ListSaves
  <2> QED BY <2>2, <2>3
<1>3. CASE AddWatches
  <2>1. scan \in Scans /\ scan.game \in Game
    BY <1>3, ScanFields DEF AddWatches
  <2>2. scan' \in Scans
    BY <1>3, <2>1 DEF AddWatches, Scans
  <2>3. TaskType' /\ WatchType'
    BY <1>3, <2>1, <2>2 DEF Typed, TaskType, WatchType, AddWatches
  <2>4. ChanType'
    BY <1>3 DEF Typed, ChanType, AddWatches, Renew
  <2> QED BY <1>3, <2>3, <2>4, Kept DEF Typed, AddWatches
<1>4. CASE ParseSaves
  <2> DEFINE st == IF scan.quiet THEN report[scan.game] ELSE "watching"
             data == [f \in scan.found |-> disk[f]]
  <2>1. scan # None /\ EndScan(scan.game, st) /\ ParseAndPush(scan.game, data)
    BY <1>4 DEF ParseSaves
  <2>6. data \in [scan.found -> Nat]
    BY <2>1, ScanFields DEF Typed, DiskType
  <2> HIDE DEF data
  <2>2. st \in {"none", "watching", "notFound", "pluginFailed"}
    BY <2>1, ScanFields DEF Typed, ToldType, Status
  <2> HIDE DEF st
  <2>3. TaskType' /\ report' \in Status
    BY <2>1, <2>2, EndScanType
  <2>4. PushType' /\ MailType'
    BY <1>4, <2>1, <2>6, ScanFields, ParseType DEF ParseSaves
  <2>5. ToldType'
    BY <1>4, <2>3 DEF Typed, ToldType, ParseSaves
  <2> QED BY <1>4, <2>3, <2>4, <2>5, Kept DEF Typed, ParseSaves
<1> QED BY <1>1, <1>2, <1>3, <1>4 DEF ScanStep

LEMMA HeadType ==
  ASSUME Typed, inbox # <<>>
  PROVE  Head(inbox) \in Message /\ Tail(inbox) \in Seq(Message)
BY DEF Typed, MailType

LEMMA TurnWish ==
  ASSUME Typed, OwnInv, NEW g \in Game, Turn(g)
  PROVE  /\ task.update[g] # None /\ task.update[g] \in Wish
         /\ task.update[g].template \in Wanted[g] /\ task.update[g].enabled \in BOOLEAN
         /\ NewPath(g) \in Path /\ IsPath(g, NewPath(g))
<1>1. task.update[g] # None /\ task.update[g].template \in Wanted[g]
  BY TurnTask DEF OwnInv, OwnWish, Turn
<1>2. task.update[g] \in Wish /\ task.update[g].enabled \in BOOLEAN
  BY <1>1, TurnTask DEF Wish
<1>3. NewPath(g) \in Path /\ IsPath(g, NewPath(g))
  BY <1>1, FirstValidOwn DEF NewPath
<1> QED BY <1>1, <1>2, <1>3

LEMMA StoreType ==
  ASSUME Typed, OwnInv, NEW g \in Game, Turn(g), StoreGame(g)
  PROVE  cfg' \in Entries
<1>1. [path |-> NewPath(g), enabled |-> task.update[g].enabled] \in Entry
  BY TurnWish DEF Entry
<1> QED BY <1>1 DEF Typed, CfgType, Entries, StoreGame

LEMMA EntryType ==
  ASSUME Typed, NEW g \in Game, cfg[g] # None
  PROVE  cfg[g] \in Entry /\ cfg[g].path \in Path /\ cfg[g].enabled \in BOOLEAN
BY DEF Typed, CfgType, Entries, Entry

\* The paths a handler gives up.
LEMMA PathsType ==
  ASSUME Typed
  PROVE  \A S \in SUBSET {g \in Game : cfg[g] # None} : {cfg[g].path : g \in S} \in SUBSET Path
BY EntryType

LEMMA GivenUp ==
  ASSUME Typed, NEW paths \in SUBSET Path, Unwatch(paths),
         UNCHANGED <<exists, stale, events>>
  PROVE  WatchType' /\ PushType' /\ ChanType'
BY UnwatchType DEF Typed, WatchType

\* The handler of a configuration update keeps the types.
LEMMA ConfigStepType ==
  ASSUME Typed, OwnInv, ConfigStep
  PROVE  Typed'
<1> USE DEF world, channel, memory, told
<1>1. ASSUME ReceiveConfig PROVE Typed'
  <2> DEFINE m == Head(inbox)
             lost  == {g \in Game : cfg[g] # None /\ m.games[g] = None}
  <2>1. m \in Message /\ m.kind = "config" /\ Tail(inbox) \in Seq(Message)
    BY <1>1, HeadType DEF ReceiveConfig
  <2>2. m.games \in Wishes
    BY <2>1, MessageKinds
  <2>3. lost \in SUBSET {g \in Game : cfg[g] # None}
    OBVIOUS
  <2>4. /\ cfg' = [g \in Game |-> IF g \in lost THEN None ELSE cfg[g]]
        /\ Unwatch({cfg[g].path : g \in lost})
        /\ task' = [kind |-> "config", update |-> m.games,
                    left |-> {g \in Game : m.games[g] # None}, results |-> [g \in Game |-> "none"]]
    BY <1>1 DEF ReceiveConfig
  <2> HIDE DEF lost, m
  <2>5. {cfg[g].path : g \in lost} \in SUBSET Path
    BY <2>3, PathsType
  <2>6. WatchType' /\ PushType' /\ ChanType'
    BY <1>1, <2>4, <2>5, GivenUp DEF ReceiveConfig
  <2>7. CfgType'
    BY <1>1, <2>3, <2>4 DEF Typed, CfgType, Entries, ReceiveConfig
  <2>8. TaskType'
    <3>1. {g \in Game : m.games[g] # None} \in SUBSET Game /\ [g \in Game |-> "none"] \in Outcome
      BY DEF Outcome
    <3> HIDE DEF Outcome
    <3>2. task' \in ConfigTask
      BY <2>2, <2>4, <3>1 DEF ConfigTask
    <3> QED BY <1>1, <3>2 DEF Typed, TaskType, Tasks, ConfigTask, Wishes, Outcome, ReceiveConfig
  <2>9. MailType'
    BY <1>1, <2>1 DEF Typed, MailType, ReceiveConfig
  <2>10. DiskType'
    BY <1>1 DEF Typed, DiskType, ReceiveConfig
  <2> QED BY <1>1, <2>6, <2>7, <2>8, <2>9, <2>10, Kept DEF Typed, ReceiveConfig
<1>2. ASSUME NEW g \in Game, RefuseGame(g) PROVE Typed'
  <2>1. Turn(g) /\ Done(g, "error")
    BY <1>2 DEF RefuseGame
  <2>2. TaskType'
    BY <1>2, <2>1, DoneType DEF Typed, TaskType, RefuseGame
  <2> QED BY <1>2, <2>2, Kept DEF Typed, RefuseGame
<1>3. ASSUME NEW g \in Game, DisableGame(g) PROVE Typed'
  <2> DEFINE old == IF cfg[g] = None THEN {} ELSE {cfg[g].path}
  <2>1. Turn(g) /\ Done(g, "ok") /\ StoreGame(g) /\ Unwatch(old)
    BY <1>3 DEF DisableGame
  <2>2. old \in SUBSET Path
    BY EntryType
  <2> HIDE DEF old
  <2>3. TaskType'
    BY <1>3, <2>1, DoneType DEF Typed, TaskType, DisableGame
  <2>4. CfgType'
    BY <1>3, <2>1, StoreType DEF Typed, CfgType, DisableGame
  <2>5. WatchType' /\ PushType' /\ ChanType'
    BY <1>3, <2>1, <2>2, GivenUp DEF DisableGame
  <2>6. DiskType'
    BY <1>3 DEF Typed, DiskType, DisableGame
  <2> QED BY <1>3, <2>3, <2>4, <2>5, <2>6, Kept DEF Typed, DisableGame
<1>4. ASSUME NEW g \in Game, KeepGame(g) PROVE Typed'
  <2>1. Turn(g) /\ Done(g, "ok")
    BY <1>4 DEF KeepGame
  <2>2. TaskType'
    BY <1>4, <2>1, DoneType DEF Typed, TaskType, KeepGame
  <2> QED BY <1>4, <2>2, Kept DEF Typed, KeepGame
<1>5. ASSUME NEW g \in Game, Renewed(g), UNCHANGED <<exists, stale, events>>
      PROVE  WatchType' /\ PushType' /\ ChanType'
  <2> DEFINE old == IF Enabled(g) THEN {cfg[g].path} ELSE {}
  <2>1. Unwatch(old)
    BY <1>5 DEF Renewed
  <2>2. old \in SUBSET Path
    BY EntryType DEF Enabled
  <2> HIDE DEF old
  <2> QED BY <1>5, <2>1, <2>2, GivenUp
<1>6. ASSUME NEW g \in Game, ConfigureGame(g) PROVE Typed'
  <2>1. /\ Renewed(g) /\ Turn(g) /\ StoreGame(g) /\ StartScan(g, NewPath(g), FALSE)
        /\ task' = [task EXCEPT !.left = @ \ {g}]
    BY <1>6 DEF ConfigureGame, Renewed
  <2>2. scan' \in Scans
    BY <2>1, TurnWish, StartScanType
  <2>3. task' \in Tasks
    <3>1. task \in ConfigTask
      BY <2>1, TurnTask
    <3> QED BY <2>1, <3>1, TookType
  <2>4. TaskType'
    BY <2>2, <2>3 DEF TaskType
  <2>5. CfgType'
    BY <1>6, <2>1, StoreType DEF Typed, CfgType, ConfigureGame
  <2>6. WatchType' /\ PushType' /\ ChanType'
    BY <1>5, <1>6 DEF ConfigureGame
  <2>7. DiskType'
    BY <1>6 DEF Typed, DiskType, ConfigureGame
  <2> QED BY <1>6, <2>4, <2>5, <2>6, <2>7, Kept DEF Typed, ConfigureGame
<1>7. ASSUME NEW g \in Game, DropGame(g) PROVE Typed'
  <2>1. Renewed(g) /\ Turn(g) /\ Done(g, "error") /\ Spend("plugin")
    BY <1>7 DEF DropGame, Renewed
  <2>2. TaskType'
    BY <1>7, <2>1, DoneType DEF Typed, TaskType, DropGame
  <2>3. CfgType' /\ ToldType'
    BY <1>7 DEF Typed, CfgType, ToldType, Entries, Status, DropGame
  <2>4. WatchType' /\ PushType' /\ ChanType'
    BY <1>5, <1>7 DEF DropGame
  <2>5. DiskType'
    BY <1>7 DEF Typed, DiskType, DropGame
  <2>6. BudgetType'
    BY <2>1, SpendType DEF Typed, Sources
  <2> QED BY <1>7, <2>2, <2>3, <2>4, <2>5, <2>6, Kept DEF Typed, DropGame
<1>8. ASSUME SendResults PROVE Typed'
  <2>1. task.results \in Outcome
    BY <1>8, TaskKinds DEF Typed, TaskType, ConfigTask, SendResults
  <2>2. ToldType'
    BY <1>8, <2>1 DEF Typed, ToldType, SendResults
  <2>3. TaskType'
    BY <1>8 DEF Typed, TaskType, Tasks, SendResults
  <2> QED BY <1>8, <2>2, <2>3, Kept DEF Typed, SendResults
<1>9. ASSUME TruncateCache PROVE Typed'
  <2>1. TaskType' /\ CfgType'
    BY <1>9 DEF Typed, TaskType, CfgType, Tasks, TruncateCache
  <2> QED BY <1>9, <2>1, Kept DEF Typed, TruncateCache
<1>10. ASSUME WriteCache PROVE Typed'
  <2>1. TaskType' /\ CfgType'
    BY <1>10 DEF Typed, TaskType, CfgType, Tasks, WriteCache
  <2> QED BY <1>10, <2>1, Kept DEF Typed, WriteCache
<1> QED BY <1>1, <1>2, <1>3, <1>4, <1>6, <1>7, <1>8, <1>9, <1>10 DEF ConfigStep

\* The other handlers keep the types.
LEMMA AnnounceStepType ==
  ASSUME Typed, ScanInv, AnnounceStep
  PROVE  Typed'
<1> USE DEF world, channel, memory, told
<1>1. ASSUME AnnounceOnline PROVE Typed'
  <2>1. TaskType' /\ FlagType'
    BY <1>1 DEF Typed, TaskType, FlagType, Tasks, AnnounceOnline
  <2> QED BY <1>1, <2>1, Kept DEF Typed, AnnounceOnline
<1>2. ASSUME FinishAnnounce PROVE Typed'
  <2>1. TaskType' /\ FlagType'
    BY <1>2 DEF Typed, TaskType, FlagType, Tasks, FinishAnnounce
  <2> QED BY <1>2, <2>1, Kept DEF Typed, FinishAnnounce
<1>3. ASSUME NEW g \in Game, AnnounceGame(g) PROVE Typed'
  <2>1. /\ task \in AnnounceTask /\ g \in task.left
        /\ task' = [task EXCEPT !.left = @ \ {g}]
    BY <1>3, TaskKinds DEF Typed, TaskType, AnnounceGame
  <2>2. task' \in Tasks
    BY <2>1 DEF AnnounceTask, Tasks
  <2>3. cfg[g].path \in Path
    BY <1>3, <2>1, EntryType DEF ScanInv, Enabled, AnnounceGame
  <2>4. CASE StartScan(g, cfg[g].path, announced) /\ UNCHANGED <<report, budget>>
    <3>1. scan' \in Scans
      BY <2>3, <2>4, StartScanType DEF Typed, FlagType
    <3>2. TaskType'
      BY <2>2, <3>1 DEF TaskType
    <3> QED BY <1>3, <2>4, <3>2, Kept DEF Typed, AnnounceGame
  <2>5. CASE /\ Spend("plugin")
             /\ report' = [report EXCEPT ![g] = "pluginFailed"]
             /\ UNCHANGED scan
    <3>1. TaskType' /\ ToldType'
      BY <1>3, <2>2, <2>5 DEF Typed, TaskType, ToldType, Status, AnnounceGame
    <3>2. BudgetType'
      BY <2>5, SpendType DEF Typed, Sources
    <3> QED BY <1>3, <3>1, <3>2, Kept DEF Typed, AnnounceGame
  <2> QED BY <1>3, <2>4, <2>5 DEF AnnounceGame
<1> QED BY <1>1, <1>2, <1>3 DEF AnnounceStep

\* The event at the head of the channel, and whose directory it is of.
HandleParts(f, n, g) ==
  /\ Head(events) = [file |-> f, version |-> n] /\ g = watchedDirs[DirOf[f]]
  /\ IF g = None THEN UNCHANGED <<pushed, inbox>> ELSE ParseAndPush(g, [e \in {f} |-> n])

LEMMA HandleEvent ==
  ASSUME Typed, HandleFileEvent
  PROVE  \E f \in File, n \in Nat, g \in Game \cup {None} : HandleParts(f, n, g)
<1>1. events \in Seq(Event) /\ events # <<>>
  BY DEF Typed, ChanType, HandleFileEvent
<1>2. Head(events) \in Event
  BY ONLY <1>1
<1>3. PICK f \in File, n \in Nat : Head(events) = [file |-> f, version |-> n]
  BY ONLY <1>2 DEF Event
<1>4. Head(events).file = f /\ Head(events).version = n
  BY ONLY <1>3
<1>5. PICK g \in Game \cup {None} : g = watchedDirs[DirOf[f]]
  BY DEF Typed, WatchType
<1>6. IF g = None THEN UNCHANGED <<pushed, inbox>> ELSE ParseAndPush(g, [e \in {f} |-> n])
  BY <1>4, <1>5 DEF HandleFileEvent
<1> QED BY <1>3, <1>5, <1>6 DEF HandleParts

LEMMA HandlerType ==
  ASSUME Typed,
         \/ Boot \/ ReceiveRemoved \/ ReceiveRescan \/ HandleFileEvent
         \/ \E f \in File : Report(f)
  PROVE  Typed'
<1> USE DEF world, channel, memory, told
<1>1. CASE Boot
  <2>1. CfgType'
    BY <1>1 DEF Typed, CfgType, Entries, NoGames, Boot
  <2>2. TaskType' /\ FlagType'
    BY <1>1 DEF Typed, TaskType, FlagType, Tasks, Boot
  <2>3. WatchType' /\ PushType' /\ ToldType'
    BY <1>1 DEF Typed, WatchType, PushType, Pushes, ToldType, Status, Boot
  <2> QED BY <1>1, <2>1, <2>2, <2>3, Kept DEF Typed, Boot
<1>2. CASE ReceiveRemoved
  <2> DEFINE g == Head(inbox).game
             old == IF cfg[g] = None THEN {} ELSE {cfg[g].path}
  <2>1. g \in Game /\ Tail(inbox) \in Seq(Message)
    BY <1>2, HeadType, MessageKinds DEF ReceiveRemoved
  <2>2. cfg' = [cfg EXCEPT ![g] = None] /\ Unwatch(old)
    BY <1>2 DEF ReceiveRemoved
  <2> HIDE DEF g
  <2>3. old \in SUBSET Path
    BY <2>1, EntryType
  <2> HIDE DEF old
  <2>4. WatchType' /\ PushType' /\ ChanType'
    BY <1>2, <2>2, <2>3, GivenUp DEF ReceiveRemoved
  <2>5. CfgType'
    BY <1>2, <2>2 DEF Typed, CfgType, Entries, ReceiveRemoved
  <2>6. MailType' /\ DiskType'
    BY <1>2, <2>1 DEF Typed, MailType, DiskType, ReceiveRemoved
  <2> QED BY <1>2, <2>4, <2>5, <2>6, Kept DEF Typed, ReceiveRemoved
<1>3. CASE ReceiveRescan
  <2> DEFINE g == Head(inbox).game
  <2>1. g \in Game /\ Tail(inbox) \in Seq(Message)
    BY <1>3, HeadType, MessageKinds DEF ReceiveRescan
  <2>2. IF cfg[g] = None THEN UNCHANGED <<task, scan>>
        ELSE StartScan(g, cfg[g].path, FALSE) /\ task' = [kind |-> "rescan"]
    BY <1>3 DEF ReceiveRescan
  <2> HIDE DEF g
  <2>3. TaskType'
    <3>1. CASE cfg[g] = None
      BY <2>2, <3>1 DEF Typed, TaskType
    <3>2. CASE cfg[g] # None
      <4>1. scan' \in Scans
        BY <2>1, <2>2, <3>2, EntryType, StartScanType
      <4> QED BY <2>2, <3>2, <4>1 DEF TaskType, Tasks
    <3> QED BY <3>1, <3>2
  <2>4. MailType'
    BY <1>3, <2>1 DEF Typed, MailType, ReceiveRescan
  <2> QED BY <1>3, <2>3, <2>4, Kept DEF Typed, ReceiveRescan
<1>4. ASSUME HandleFileEvent PROVE Typed'
  <2>1. PICK f \in File, n \in Nat, g \in Game \cup {None} : HandleParts(f, n, g)
    BY <1>4, HandleEvent
  <2>2. PushType' /\ MailType'
    <3>1. CASE g = None
      BY <1>4, <2>1, <3>1, Kept DEF HandleFileEvent, HandleParts
    <3>2. CASE g # None
      <4>1. [e \in {f} |-> n] \in [{f} -> Nat] /\ {f} \in SUBSET File
        OBVIOUS
      <4> QED BY <1>4, <2>1, <3>2, <4>1, ParseType DEF HandleFileEvent, HandleParts
    <3> QED BY <3>1, <3>2
  <2>3. ChanType'
    <3>1. events \in Seq(Event) /\ events # <<>> /\ events' = Tail(events)
      BY <1>4 DEF Typed, ChanType, HandleFileEvent
    <3>2. events' \in Seq(Event)
      BY ONLY <3>1
    <3> QED BY <1>4, <3>2 DEF Typed, ChanType, HandleFileEvent
  <2> QED BY <1>4, <2>2, <2>3, Kept DEF Typed, HandleFileEvent
<1>5. ASSUME NEW f \in File, Report(f) PROVE Typed'
  <2>1. ChanType'
    <3>1. events \in Seq(Event) /\ [file |-> f, version |-> disk[f]] \in Event
      BY DEF Typed, ChanType, DiskType, Event
    <3>2. Append(events, [file |-> f, version |-> disk[f]]) \in Seq(Event)
      BY <3>1
    <3>3. events' \in Seq(Event)
      BY <1>5, <3>1, <3>2 DEF Report
    <3> QED BY <1>5, <3>3 DEF Typed, ChanType, Report
  <2> QED BY <1>5, <2>1, Kept DEF Typed, Report
<1> QED BY <1>1, <1>2, <1>3, <1>4, <1>5

LEMMA NextType ==
  ASSUME Typed, OwnInv, ScanInv, [Next]_vars
  PROVE  Typed'
<1>1. CASE Next
  BY <1>1, EnvironmentType, ScanStepType, ConfigStepType, AnnounceStepType, HandlerType
     DEF Next, Daemon
<1>2. CASE UNCHANGED vars
  BY <1>2, Kept DEF Typed, vars, world, channel, memory, told
<1> QED BY <1>1, <1>2

LEMMA InitType == Init => Typed
<1> SUFFICES ASSUME Init PROVE Typed
  OBVIOUS
<1>1. MailType /\ CfgType
  BY DEF Init, MailType, CfgType, NoGames, Wishes, Entries
<1>2. WatchType /\ DiskType /\ ChanType /\ PushType /\ ToldType
  BY DEF Init, WatchType, DiskType, ChanType, PushType, ToldType, Pushes, Status, Outcome
<1>3. TaskType /\ FlagType
  BY DEF Init, TaskType, FlagType, Tasks
<1>4. BudgetType
  <2>1. budget = Budget /\ Budget \in [Sources -> Nat]
    BY DEF Init
  <2>2. \A k \in Sources : Budget[k] \in Nat
    BY <2>1
  <2> QED BY <2>1, <2>2 DEF BudgetType
<1> QED BY <1>1, <1>2, <1>3, <1>4 DEF Typed


-----------------------------------------------------------------------------
(* Scans.                                                                   *)

LEMMA NoScan ==
  ASSUME ScanInv, task.kind \notin {"config", "announce", "rescan"}
  PROVE  scan = None
BY DEF ScanInv

LEMMA ScanOver == scan' = None /\ task'.kind # "announce" => ScanInv'
BY DEF ScanInv

LEMMA ScanKept == ScanInv /\ UNCHANGED <<cfg, task, scan>> => ScanInv'
BY DEF ScanInv, Enabled

LEMMA DoneScan ==
  ASSUME Typed, NEW g \in Game, Turn(g), NEW r \in {"none", "ok", "error"}, Done(g, r),
         UNCHANGED scan
  PROVE  ScanInv'
BY TurnTask, DoneType, ScanOver

\* What a scan finds is in the directories its path can name.
LEMMA SavesFound ==
  ASSUME NEW p \in Path
  PROVE  \A f \in Saves(Resolve(p)) : f \in File /\ DirOf[f] \in Matches[p]
BY ResolveMatches DEF Saves

LEMMA ScanStepScan ==
  ASSUME Typed, ScanInv, ScanStep
  PROVE  ScanInv'
<1> USE DEF world, channel, memory, told
<1> DEFINE found == Saves(Resolve(scan.path))
<1>0. ASSUME scan # None, NEW STATE st, EndScan(scan.game, st), UNCHANGED cfg,
             st \in {"none", "watching", "notFound", "pluginFailed"}
      PROVE  ScanInv'
  <2>1. scan' = None /\ (task'.kind = "announce" => task' = task)
    BY <1>0, EndScanType DEF Idle
  <2> QED BY <1>0, <2>1 DEF ScanInv, Enabled
<1>1. CASE RescanQuiet
  <2>1. scan' = [scan EXCEPT !.stage = "parse", !.found = found] /\ scan \in Scans
    BY <1>1, ScanFields DEF RescanQuiet
  <2>2. \A f \in found : DirOf[f] \in Matches[scan.path]
    BY <1>1, ScanFields, SavesFound DEF RescanQuiet
  <2> HIDE DEF found
  <2>3. scan'.game = scan.game /\ scan'.path = scan.path /\ scan'.found = found
    BY <2>1 DEF Scans
  <2> QED BY <1>1, <2>2, <2>3 DEF RescanQuiet, ScanInv, Enabled
<1>2. CASE ListSaves
  <2>1. CASE found = {}
    BY <1>0, <1>2, <2>1 DEF ListSaves
  <2>2. CASE found # {}
    <3>1. /\ scan' = [scan EXCEPT !.stage = "watch", !.found = found, !.quiet = FALSE]
          /\ scan \in Scans
      BY <1>2, <2>2, ScanFields DEF ListSaves
    <3>2. \A f \in found : DirOf[f] \in Matches[scan.path]
      BY <1>2, ScanFields, SavesFound DEF ListSaves
    <3>3. UNCHANGED <<task, cfg>>
      BY <1>2, <2>2 DEF ListSaves
    <3> HIDE DEF found
    <3>4. scan'.game = scan.game /\ scan'.path = scan.path /\ scan'.found = found
      BY <3>1 DEF Scans
    <3> QED BY <1>2, <3>2, <3>3, <3>4 DEF ListSaves, ScanInv, Enabled
  <2> QED BY <2>1, <2>2
<1>3. CASE AddWatches
  <2>1. scan'.game = scan.game /\ scan'.path = scan.path /\ scan'.found = scan.found
    BY <1>3, ScanFields DEF AddWatches, Scans
  <2> QED BY <1>3, <2>1 DEF AddWatches, ScanInv, Enabled
<1>4. CASE ParseSaves
  <2> DEFINE st == IF scan.quiet THEN report[scan.game] ELSE "watching"
  <2>1. scan # None /\ EndScan(scan.game, st) /\ UNCHANGED cfg
    BY <1>4 DEF ParseSaves
  <2>2. st \in {"none", "watching", "notFound", "pluginFailed"}
    BY <2>1, ScanFields DEF Typed, ToldType, Status
  <2> HIDE DEF st
  <2> QED BY <1>0, <2>1, <2>2
<1> QED BY <1>1, <1>2, <1>3, <1>4 DEF ScanStep

LEMMA NextScan ==
  ASSUME Typed, OwnInv, ScanInv, [Next]_vars
  PROVE  ScanInv'
<1> USE DEF world, channel, memory, told
<1>1. CASE Environment
  <2>1. CASE Crash
    BY <2>1, ScanOver DEF Crash, Down
  <2>2. CASE ~ Crash
    <3>1. UNCHANGED <<cfg, task, scan>>
      BY <1>1, <2>2 DEF Environment, ChangeSettings, RequestRescan, Write, Delete, MakeDir,
         RemoveDir, Reconnect
    <3> QED BY <3>1, ScanKept
  <2> QED BY <2>1, <2>2
<1>2. CASE Boot
  <2>1. scan = None
    BY <1>2, NoScan DEF Boot, Down
  <2> QED BY <1>2, <2>1, ScanOver DEF Boot, Idle
<1>3. CASE ScanStep
  BY <1>3, ScanStepScan
<1>4. CASE ConfigStep
  <2>1. ASSUME ReceiveConfig PROVE ScanInv'
    <3>1. scan = None
      BY <2>1, NoScan DEF ReceiveConfig, Idle
    <3> QED BY <2>1, <3>1, ScanOver DEF ReceiveConfig
  <2>2. ASSUME NEW g \in Game, RefuseGame(g) \/ DisableGame(g) \/ KeepGame(g) PROVE ScanInv'
    <3>1. Turn(g) /\ (Done(g, "ok") \/ Done(g, "error")) /\ UNCHANGED scan
      BY <2>2 DEF RefuseGame, DisableGame, KeepGame
    <3> QED BY <3>1, DoneScan
  <2>3. ASSUME NEW g \in Game, ConfigureGame(g) PROVE ScanInv'
    <3>1. Turn(g) /\ StoreGame(g) /\ StartScan(g, NewPath(g), FALSE)
          /\ task' = [task EXCEPT !.left = @ \ {g}]
      BY <2>3 DEF ConfigureGame, Renewed
    <3>2. NewPath(g) \in Path /\ task.update[g].enabled \in BOOLEAN /\ cfg' \in Entries
      BY <3>1, TurnWish, StoreType
    <3>3. scan'.game = g /\ scan'.path = NewPath(g) /\ scan'.found = {}
      BY <3>1, <3>2, StartScanType
    <3>4. cfg'[g] = [path |-> NewPath(g), enabled |-> task.update[g].enabled]
      BY <3>1 DEF StoreGame, Typed, CfgType, Entries
    <3>5. cfg'[g] # None /\ cfg'[g].path = NewPath(g)
      BY <3>2, <3>4 DEF Entry
    <3>6. task'.kind = "config"
      BY <2>3, TurnKind
    <3> QED BY <3>3, <3>5, <3>6 DEF ScanInv
  <2>4. ASSUME NEW g \in Game, DropGame(g) PROVE ScanInv'
    <3>1. Turn(g) /\ Done(g, "error") /\ UNCHANGED scan
      BY <2>4 DEF DropGame, Renewed
    <3> QED BY <3>1, DoneScan
  <2>5. ASSUME SendResults \/ TruncateCache \/ WriteCache PROVE ScanInv'
    <3>1. scan' = None
      BY <2>5, NoScan DEF SendResults, TruncateCache, WriteCache
    <3> QED BY <2>5, <3>1, ScanOver DEF SendResults, TruncateCache, WriteCache, Idle
  <2> QED BY <1>4, <2>1, <2>2, <2>3, <2>4, <2>5 DEF ConfigStep
<1>5. CASE AnnounceStep
  <2>1. ASSUME AnnounceOnline PROVE ScanInv'
    <3>1. scan' = None
      BY <2>1, NoScan DEF AnnounceOnline, Idle
    <3> QED BY <2>1, <3>1 DEF AnnounceOnline, ScanInv, Enabled
  <2>2. ASSUME FinishAnnounce PROVE ScanInv'
    BY <2>2, ScanOver DEF FinishAnnounce, Idle
  <2>3. ASSUME NEW g \in Game, AnnounceGame(g) PROVE ScanInv'
    <3>1. task \in AnnounceTask /\ g \in task.left /\ task' = [task EXCEPT !.left = @ \ {g}]
      BY <2>3, TaskKinds DEF Typed, TaskType, AnnounceGame
    <3>2. task'.kind = "announce" /\ task'.left \subseteq task.left
      BY <3>1 DEF AnnounceTask
    <3>3. Enabled(g) /\ UNCHANGED cfg /\ scan = None
      BY <2>3, <3>1 DEF ScanInv, AnnounceGame
    <3>4. cfg[g].path \in Path /\ announced \in BOOLEAN
      BY <3>3, EntryType DEF Enabled, Typed, FlagType
    <3>5. CASE StartScan(g, cfg[g].path, announced)
      <4>1. scan'.game = g /\ scan'.path = cfg[g].path /\ scan'.found = {}
        BY <3>4, <3>5, StartScanType
      <4> QED BY <2>3, <3>2, <3>3, <4>1 DEF ScanInv, Enabled, AnnounceGame
    <3>6. CASE UNCHANGED scan
      BY <2>3, <3>2, <3>3, <3>6 DEF ScanInv, Enabled, AnnounceGame
    <3> QED BY <2>3, <3>5, <3>6 DEF AnnounceGame
  <2> QED BY <1>5, <2>1, <2>2, <2>3 DEF AnnounceStep
<1>6. CASE ReceiveRemoved
  <2>1. scan = None
    BY <1>6, NoScan DEF ReceiveRemoved, Idle
  <2> QED BY <1>6, <2>1, ScanOver DEF ReceiveRemoved, Idle
<1>7. CASE ReceiveRescan
  <2> DEFINE g == Head(inbox).game
  <2>1. /\ g \in Game /\ UNCHANGED cfg /\ task = Idle
        /\ IF cfg[g] = None THEN UNCHANGED <<task, scan>>
           ELSE StartScan(g, cfg[g].path, FALSE) /\ task' = [kind |-> "rescan"]
    BY <1>7, HeadType, MessageKinds DEF ReceiveRescan
  <2> HIDE DEF g
  <2>2. CASE cfg[g] = None
    BY <2>1, <2>2, ScanKept
  <2>3. CASE cfg[g] # None
    <3>1. scan'.game = g /\ scan'.path = cfg[g].path /\ scan'.found = {}
      BY <2>1, <2>3, EntryType, StartScanType
    <3> QED BY <2>1, <2>3, <3>1 DEF ScanInv
  <2> QED BY <2>2, <2>3
<1>8. ASSUME HandleFileEvent PROVE ScanInv'
  BY <1>8, ScanKept DEF HandleFileEvent
<1>9. CASE UNCHANGED vars \/ \E f \in File : Report(f)
  BY <1>9, ScanKept DEF vars, Report
<1> QED BY <1>1, <1>2, <1>3, <1>4, <1>5, <1>6, <1>7, <1>8, <1>9 DEF Next, Daemon


-----------------------------------------------------------------------------
(* Messages.                                                                *)

LEMMA AppendItems ==
  ASSUME NEW s \in Seq(Message), NEW m \in Message, NEW t, t = Append(s, m)
  PROVE  /\ Len(s) \in Nat /\ Len(t) = Len(s) + 1 /\ t[Len(s) + 1] = m
         /\ \A i \in 1..Len(t) : i = Len(s) + 1 \/ (i \in 1..Len(s) /\ t[i] = s[i])
         /\ \A i \in 1..Len(s) : i \in 1..Len(t) /\ t[i] = s[i]
OBVIOUS

LEMMA TailItems ==
  ASSUME NEW s \in Seq(Message), s # <<>>, NEW t, t = Tail(s)
  PROVE  /\ Len(s) \in Nat \ {0} /\ Len(t) = Len(s) - 1 /\ Head(s) = s[1]
         /\ \A i \in 1..Len(t) : i + 1 \in 2..Len(s) /\ t[i] = s[i + 1]
         /\ \A i \in 2..Len(s) : i - 1 \in 1..Len(t) /\ t[i - 1] = s[i]
OBVIOUS

\* The messages are sent in the order of the changes: settings as they are
\* then, a rescan of a game that is enabled then, a removal of a game that
\* is not there.
Sent(m) ==
  /\ m \in Message
  /\ m.kind = "config" => m.games = server'
  /\ m.kind = "rescan" => On(server, m.game) /\ budget'["rescan"] < budget["rescan"]
  /\ m.kind = "removed" => server[m.game] = None
  /\ m.kind # "config" => UNCHANGED server

LEMMA ParseSends ==
  ASSUME Typed, NEW g \in Game, NEW data, ParseAndPush(g, data), UNCHANGED server
  PROVE  UNCHANGED inbox \/ \E m \in Message : Sent(m) /\ m.kind = "removed"
                                               /\ inbox' = Append(inbox, m)
<1> DEFINE m == [kind |-> "removed", game |-> g]
<1>1. m \in Message /\ m.kind = "removed" /\ m.game = g
  BY Messages
<1>2. UNCHANGED inbox \/ (inbox' = Append(inbox, m) /\ server[g] = None)
  BY DEF ParseAndPush
<1> HIDE DEF m
<1> QED BY <1>1, <1>2 DEF Sent

LEMMA MailStep ==
  ASSUME Typed, [Next]_vars
  PROVE  \/ UNCHANGED inbox /\ (UNCHANGED server \/ task = Down)
         \/ \E m \in Message : /\ Sent(m) /\ inbox' = Append(inbox, m)
                               /\ m.kind # "removed" => UNCHANGED <<task, scan, cfg>>
         \/ /\ ReceiveConfig \/ ReceiveRemoved \/ ReceiveRescan
            /\ inbox # <<>> /\ inbox' = Tail(inbox) /\ UNCHANGED server
         \/ Crash /\ inbox' = <<>> /\ UNCHANGED server
<1> USE DEF world, channel, memory, told
<1>1. ASSUME NEW g \in Game, ChangeSettings(g)
      PROVE  \/ UNCHANGED inbox /\ task = Down
             \/ \E m \in Message : /\ Sent(m) /\ inbox' = Append(inbox, m)
                                   /\ UNCHANGED <<task, scan, cfg>>
  <2>1. Typed'
    BY <1>1, EnvironmentType DEF Environment
  <2> DEFINE m == [kind |-> "config", games |-> server']
  <2>2. m \in Message
    BY <2>1, Messages DEF Typed, MailType
  <2>3. m.kind = "config" /\ m.games = server'
    OBVIOUS
  <2>4. (UNCHANGED inbox /\ task = Down) \/ inbox' = Append(inbox, m)
    BY <1>1 DEF ChangeSettings
  <2> HIDE DEF m
  <2> QED BY <1>1, <2>2, <2>3, <2>4 DEF Sent, ChangeSettings
<1>2. ASSUME NEW g \in Game, RequestRescan(g)
      PROVE  \E m \in Message : /\ Sent(m) /\ inbox' = Append(inbox, m)
                                /\ UNCHANGED <<task, scan, cfg>>
  <2> DEFINE m == [kind |-> "rescan", game |-> g]
  <2>1. m \in Message /\ m.kind = "rescan" /\ m.game = g
    BY Messages
  <2>2. inbox' = Append(inbox, m) /\ On(server, g) /\ Spend("rescan") /\ UNCHANGED server
    BY <1>2 DEF RequestRescan, On
  <2>3. budget'["rescan"] < budget["rescan"]
    BY <2>2, SpendType DEF Typed, Sources
  <2> HIDE DEF m
  <2> QED BY <1>2, <2>1, <2>2, <2>3 DEF Sent, RequestRescan
<1>3. ASSUME ParseSaves
      PROVE  UNCHANGED inbox \/ \E m \in Message : Sent(m) /\ m.kind = "removed"
                                                   /\ inbox' = Append(inbox, m)
  BY <1>3, ScanFields, ParseSends DEF ParseSaves
<1>4. ASSUME HandleFileEvent
      PROVE  UNCHANGED inbox \/ \E m \in Message : Sent(m) /\ m.kind = "removed"
                                                   /\ inbox' = Append(inbox, m)
  <2>1. PICK f \in File, n \in Nat, g \in Game \cup {None} : HandleParts(f, n, g)
    BY <1>4, HandleEvent
  <2>2. UNCHANGED server
    BY <1>4 DEF HandleFileEvent
  <2> QED BY <2>1, <2>2, ParseSends DEF HandleParts
<1>5. CASE Environment
  <2>1. ASSUME Crash PROVE inbox' = <<>> /\ UNCHANGED server
    BY <2>1 DEF Crash
  <2>2. ASSUME \/ \E f \in File : Write(f) \/ Delete(f) \/ MakeDir(f)
               \/ \E d \in Dir : RemoveDir(d)
               \/ Reconnect
        PROVE  UNCHANGED <<inbox, server>>
    BY <2>2 DEF Write, Delete, MakeDir, RemoveDir, Reconnect
  <2> QED BY <1>1, <1>2, <1>5, <2>1, <2>2 DEF Environment
<1>6. CASE ScanStep
  <2>1. UNCHANGED server
    BY <1>6 DEF ScanStep, RescanQuiet, ListSaves, AddWatches, ParseSaves
  <2>2. ASSUME RescanQuiet \/ ListSaves \/ AddWatches PROVE UNCHANGED inbox
    BY <2>2 DEF RescanQuiet, ListSaves, AddWatches
  <2> QED BY <1>3, <1>6, <2>1, <2>2 DEF ScanStep
<1>7. CASE ReceiveConfig \/ ReceiveRemoved \/ ReceiveRescan
  BY <1>7 DEF ReceiveConfig, ReceiveRemoved, ReceiveRescan
<1>8. CASE ConfigStep /\ ~ ReceiveConfig
  BY <1>8 DEF ConfigStep, RefuseGame, DisableGame, KeepGame, ConfigureGame, DropGame, SendResults,
     TruncateCache, WriteCache
<1>9. CASE AnnounceStep \/ Boot
  BY <1>9 DEF AnnounceStep, AnnounceOnline, AnnounceGame, FinishAnnounce, Boot
<1>10. CASE HandleFileEvent
  <2>1. UNCHANGED server
    BY <1>10 DEF HandleFileEvent
  <2> QED BY <1>4, <1>10, <2>1
<1>11. CASE UNCHANGED vars \/ \E f \in File : Report(f)
  BY <1>11 DEF vars, Report
<1> QED BY <1>5, <1>6, <1>7, <1>8, <1>9, <1>10, <1>11 DEF Next, Daemon


-----------------------------------------------------------------------------
(* Settings are the user's.                                                 *)

\* Only the update itself starts its handler, which takes the games one by one.
LEMMA UpdateStep ==
  ASSUME Typed, [Next]_vars, task'.kind = "config"
  PROVE  \/ /\ ReceiveConfig /\ task'.update = Head(inbox).games
            /\ task'.left = {g \in Game : Head(inbox).games[g] # None}
         \/ /\ task.kind = "config" /\ task'.update = task.update /\ task'.left \subseteq task.left
            /\ ~ ReceiveConfig
<1> USE DEF world, channel, memory, told
<1>1. CASE ReceiveConfig
  BY <1>1 DEF ReceiveConfig
<1>2. ASSUME NEW g \in Game, NEW r \in {"none", "ok", "error"}, Turn(g), Done(g, r)
      PROVE  /\ task.kind = "config" /\ task'.update = task.update
             /\ task'.left \subseteq task.left /\ ~ ReceiveConfig
  BY <1>2, DoneType DEF Turn, ReceiveConfig, Idle
<1>3. ASSUME NEW g \in Game, ConfigureGame(g)
      PROVE  /\ task.kind = "config" /\ task'.update = task.update
             /\ task'.left \subseteq task.left /\ ~ ReceiveConfig
  <2>1. ~ ReceiveConfig
    BY <1>3, TurnKind DEF ReceiveConfig, Idle
  <2> QED BY <1>3, <2>1, TurnKind
<1>4. CASE ConfigStep /\ ~ ReceiveConfig
  <2>1. ASSUME NEW g \in Game, RefuseGame(g) \/ DisableGame(g) \/ KeepGame(g) \/ DropGame(g)
        PROVE  Turn(g) /\ (Done(g, "ok") \/ Done(g, "error"))
    BY <2>1 DEF RefuseGame, DisableGame, KeepGame, DropGame, Renewed
  <2>2. ~ (SendResults \/ TruncateCache \/ WriteCache)
    BY DEF SendResults, TruncateCache, WriteCache, Idle
  <2> QED BY <1>2, <1>3, <1>4, <2>1, <2>2 DEF ConfigStep
<1>5. ASSUME UNCHANGED task
      PROVE  /\ task.kind = "config" /\ task'.update = task.update
             /\ task'.left \subseteq task.left /\ ~ ReceiveConfig
  BY <1>5 DEF ReceiveConfig, Idle
<1>6. CASE Environment
  <2>1. ~ Crash
    BY DEF Crash, Down
  <2>2. UNCHANGED task
    BY <1>6, <2>1 DEF Environment, ChangeSettings, RequestRescan, Write, Delete, MakeDir,
       RemoveDir, Reconnect
  <2> QED BY <1>5, <2>2
<1>7. CASE ScanStep
  <2>1. CASE UNCHANGED task
    BY <1>5, <2>1
  <2>2. CASE ~ UNCHANGED task
    <3>1. scan # None /\ \E st \in {"none", "watching", "notFound", "pluginFailed"} :
                            EndScan(scan.game, st)
      BY <1>7, <2>2, ScanFields
         DEF ScanStep, RescanQuiet, ListSaves, AddWatches, ParseSaves, Typed, ToldType, Status
    <3>2. PICK st \in {"none", "watching", "notFound", "pluginFailed"} : EndScan(scan.game, st)
      BY <3>1
    <3> QED BY <2>2, <3>1, <3>2, EndScanType DEF Idle, ReceiveConfig
  <2> QED BY <2>1, <2>2
<1>8. CASE AnnounceStep \/ Boot
  <2>1. ASSUME NEW g \in Game, AnnounceGame(g) PROVE task'.kind = "announce"
    <3>1. task \in AnnounceTask /\ task' = [task EXCEPT !.left = @ \ {g}]
      BY <2>1, TaskKinds DEF Typed, TaskType, AnnounceGame
    <3> QED BY <3>1 DEF AnnounceTask
  <2> QED BY <1>8, <2>1 DEF AnnounceStep, AnnounceOnline, FinishAnnounce, Boot, Idle
<1>9. CASE ReceiveRemoved
  BY <1>5, <1>9 DEF ReceiveRemoved
<1>10. CASE ReceiveRescan
  <2>1. UNCHANGED task \/ task' = [kind |-> "rescan"]
    BY <1>10 DEF ReceiveRescan
  <2> QED BY <1>5, <2>1
<1>11. CASE HandleFileEvent \/ UNCHANGED vars \/ \E f \in File : Report(f)
  BY <1>5, <1>11 DEF HandleFileEvent, vars, Report
<1> QED BY <1>1, <1>4, <1>6, <1>7, <1>8, <1>9, <1>10, <1>11 DEF Next, Daemon

\* An entry changes only when its game has its turn, or is lost.
LEMMA CfgStep ==
  ASSUME Typed, OwnInv, [Next]_vars, ~ Boot, NEW g \in Game
  PROVE  \/ cfg'[g] = cfg[g]
         \/ cfg'[g] = None
         \/ /\ ConfigureGame(g) \/ DisableGame(g)
            /\ cfg'[g] = [path |-> NewPath(g), enabled |-> task.update[g].enabled]
            /\ cfg'[g] \in Entry /\ cfg'[g].path = NewPath(g)
            /\ cfg'[g].enabled = task.update[g].enabled
<1> USE DEF world, channel, memory, told
<1>0. cfg \in Entries
  BY DEF Typed, CfgType
<1>1. ASSUME ReceiveConfig PROVE cfg'[g] \in {cfg[g], None}
  BY <1>1 DEF ReceiveConfig
<1>2. ASSUME NEW h \in Game, ConfigureGame(h) \/ DisableGame(h)
      PROVE  \/ cfg'[g] = cfg[g]
             \/ /\ ConfigureGame(g) \/ DisableGame(g)
                /\ cfg'[g] = [path |-> NewPath(g), enabled |-> task.update[g].enabled]
                /\ cfg'[g] \in Entry /\ cfg'[g].path = NewPath(g)
                /\ cfg'[g].enabled = task.update[g].enabled
  <2>1. Turn(h) /\ StoreGame(h)
    BY <1>2 DEF ConfigureGame, DisableGame, Renewed
  <2>2. NewPath(h) \in Path /\ task.update[h].enabled \in BOOLEAN
    BY <2>1, TurnWish
  <2> QED BY <1>0, <1>2, <2>1, <2>2 DEF StoreGame, Entries, Entry
<1>3. ASSUME NEW h \in Game, RefuseGame(h) \/ KeepGame(h) \/ DropGame(h)
      PROVE  cfg'[g] \in {cfg[g], None}
  BY <1>0, <1>3 DEF RefuseGame, KeepGame, DropGame, Entries
<1>4. CASE ConfigStep
  BY <1>1, <1>2, <1>3, <1>4 DEF ConfigStep, SendResults, TruncateCache, WriteCache
<1>5. CASE Environment
  BY <1>5 DEF Environment, ChangeSettings, RequestRescan, Write, Delete, MakeDir, RemoveDir,
     Reconnect, Crash
<1>6. CASE ScanStep \/ AnnounceStep
  BY <1>6 DEF ScanStep, RescanQuiet, ListSaves, AddWatches, ParseSaves, AnnounceStep,
     AnnounceOnline, AnnounceGame, FinishAnnounce
<1>7. CASE ReceiveRemoved
  <2>1. Head(inbox).game \in Game
    BY <1>7, HeadType, MessageKinds DEF ReceiveRemoved
  <2> QED BY <1>0, <1>7, <2>1 DEF ReceiveRemoved, Entries
<1>8. CASE ReceiveRescan \/ HandleFileEvent \/ UNCHANGED vars \/ \E f \in File : Report(f)
  BY <1>8 DEF ReceiveRescan, HandleFileEvent, vars, Report
<1> QED BY <1>4, <1>5, <1>6, <1>7, <1>8 DEF Next, Daemon

LEMMA ServerStep ==
  ASSUME OwnInv, Typed, [Next]_vars
  PROVE  OwnWish(server')
<1>1. ASSUME NEW g \in Game, ChangeSettings(g) PROVE OwnWish(server')
  <2>1. PICK w \in [template : Wanted[g], enabled : BOOLEAN] \cup {None} :
          server' = [server EXCEPT ![g] = w]
    BY <1>1 DEF ChangeSettings
  <2> QED BY <2>1 DEF OwnInv, OwnWish, Typed, MailType, Wishes
<1>2. CASE UNCHANGED server
  BY <1>2 DEF OwnInv
<1>3. CASE Environment
  <2>1. CASE \E g \in Game : ChangeSettings(g)
    BY <1>1, <2>1
  <2>2. CASE ~ \E g \in Game : ChangeSettings(g)
    BY <1>2, <1>3, <2>2 DEF Environment, RequestRescan, Write, Delete, MakeDir, RemoveDir,
       Reconnect, Crash
  <2> QED BY <2>1, <2>2
<1>4. CASE Daemon
  <2>1. UNCHANGED server
    BY <1>4 DEF Daemon, Boot, ScanStep, RescanQuiet, ListSaves, AddWatches, ParseSaves, ConfigStep,
       ReceiveConfig, RefuseGame, DisableGame, KeepGame, ConfigureGame, DropGame, SendResults,
       TruncateCache, WriteCache, AnnounceStep, AnnounceOnline, AnnounceGame, FinishAnnounce,
       ReceiveRemoved, ReceiveRescan, HandleFileEvent
  <2> QED BY <1>2, <2>1
<1> QED BY <1>2, <1>3, <1>4 DEF Next, vars, Report

LEMMA NextOwn ==
  ASSUME Typed, OwnInv, [Next]_vars
  PROVE  OwnInv'
<1>0. inbox \in Seq(Message)
  BY DEF Typed, MailType
<1>1. OwnWish(server')
  BY ServerStep
<1>2. \A i \in 1..Len(inbox') : inbox'[i].kind = "config" => OwnWish(inbox'[i].games)
  <2>1. CASE UNCHANGED inbox
    BY <2>1 DEF OwnInv
  <2>2. ASSUME NEW m \in Message, Sent(m), inbox' = Append(inbox, m)
        PROVE  \A i \in 1..Len(inbox') : inbox'[i].kind = "config" => OwnWish(inbox'[i].games)
    <3> SUFFICES ASSUME NEW i \in 1..Len(inbox'), inbox'[i].kind = "config"
                 PROVE  OwnWish(inbox'[i].games)
      OBVIOUS
    <3>1. \/ i = Len(inbox) + 1 /\ inbox'[i] = m
          \/ i \in 1..Len(inbox) /\ inbox'[i] = inbox[i]
      BY <1>0, <2>2, AppendItems
    <3>2. CASE inbox'[i] = m
      BY <1>1, <2>2, <3>2 DEF Sent
    <3>3. CASE i \in 1..Len(inbox) /\ inbox'[i] = inbox[i]
      BY <3>3 DEF OwnInv
    <3> QED BY <3>1, <3>2, <3>3
  <2>3. CASE inbox # <<>> /\ inbox' = Tail(inbox)
    <3> SUFFICES ASSUME NEW i \in 1..Len(inbox'), inbox'[i].kind = "config"
                 PROVE  OwnWish(inbox'[i].games)
      OBVIOUS
    <3>1. i + 1 \in 1..Len(inbox) /\ inbox'[i] = inbox[i + 1]
      BY <1>0, <2>3, TailItems
    <3> QED BY <3>1 DEF OwnInv
  <2>4. CASE inbox' = <<>>
    BY <2>4
  <2> QED BY <2>1, <2>2, <2>3, <2>4, MailStep
<1>3. task'.kind = "config" => OwnWish(task'.update) /\ \A g \in task'.left : task'.update[g] # None
  <2> SUFFICES ASSUME task'.kind = "config"
               PROVE  OwnWish(task'.update) /\ \A g \in task'.left : task'.update[g] # None
    OBVIOUS
  <2>1. CASE /\ ReceiveConfig /\ task'.update = Head(inbox).games
             /\ task'.left = {g \in Game : Head(inbox).games[g] # None}
    <3>1. Head(inbox) = inbox[1] /\ Head(inbox).kind = "config" /\ 1 \in 1..Len(inbox)
      BY <1>0, <2>1, TailItems DEF ReceiveConfig
    <3>2. OwnWish(Head(inbox).games)
      BY <3>1 DEF OwnInv
    <3> QED BY <2>1, <3>2
  <2>2. CASE /\ task.kind = "config" /\ task'.update = task.update /\ task'.left \subseteq task.left
    BY <2>2 DEF OwnInv
  <2> QED BY <2>1, <2>2, UpdateStep
<1>4. OwnEntry(cfg')
  <2>1. CASE Boot
    BY <2>1 DEF Boot, NoGames, OwnInv, OwnEntry
  <2>2. CASE ~ Boot
    <3> SUFFICES ASSUME NEW g \in Game, cfg'[g] # None PROVE IsPath(g, cfg'[g].path)
      BY DEF OwnEntry
    <3>1. CASE cfg'[g] = cfg[g]
      BY <3>1 DEF OwnInv, OwnEntry
    <3>2. CASE (ConfigureGame(g) \/ DisableGame(g)) /\ cfg'[g].path = NewPath(g)
      <4>1. Turn(g)
        BY <3>2 DEF ConfigureGame, DisableGame, Renewed
      <4> QED BY <3>2, <4>1, TurnWish
    <3> QED BY <2>2, <3>1, <3>2, CfgStep
  <2> QED BY <2>1, <2>2
<1>5. cache' # Torn => OwnEntry(cache')
  <2>1. UNCHANGED cache \/ cache' = Torn \/ cache' = cfg
    BY DEF Next, Environment, ChangeSettings, RequestRescan, Write, Delete, MakeDir, RemoveDir,
       Reconnect, Crash,
       Daemon, Boot, ScanStep, RescanQuiet, ListSaves, AddWatches, ParseSaves, ConfigStep,
       ReceiveConfig, RefuseGame, DisableGame, KeepGame, ConfigureGame, DropGame, SendResults,
       TruncateCache, WriteCache, AnnounceStep, AnnounceOnline, AnnounceGame, FinishAnnounce,
       ReceiveRemoved, ReceiveRescan, HandleFileEvent, Report, vars
  <2> QED BY <2>1 DEF OwnInv
<1> QED BY <1>1, <1>2, <1>3, <1>4, <1>5 DEF OwnInv


-----------------------------------------------------------------------------
(* The cache is the configuration between updates.                          *)

LEMMA CacheStep ==
  ASSUME Typed, [Next]_vars, task'.kind \in {"idle", "rescan", "announce"}
  PROVE  \/ Boot
         \/ WriteCache
         \/ task.kind \in {"idle", "rescan", "announce"} /\ UNCHANGED cache
<1> USE DEF world, channel, memory, told
<1>1. CASE Environment
  <2>1. ~ Crash
    BY DEF Crash, Down
  <2>2. UNCHANGED <<task, cache>>
    BY <1>1, <2>1 DEF Environment, ChangeSettings, RequestRescan, Write, Delete, MakeDir,
       RemoveDir, Reconnect
  <2> QED BY <2>2
<1>2. CASE ScanStep
  <2>1. UNCHANGED cache
    BY <1>2 DEF ScanStep, RescanQuiet, ListSaves, AddWatches, ParseSaves
  <2>2. CASE UNCHANGED task
    BY <2>1, <2>2
  <2>3. CASE ~ UNCHANGED task
    <3>1. scan # None /\ \E st \in {"none", "watching", "notFound", "pluginFailed"} :
                            EndScan(scan.game, st)
      BY <1>2, <2>3, ScanFields
         DEF ScanStep, RescanQuiet, ListSaves, AddWatches, ParseSaves, Typed, ToldType, Status
    <3>2. PICK st \in {"none", "watching", "notFound", "pluginFailed"} : EndScan(scan.game, st)
      BY <3>1
    <3> QED BY <2>1, <2>3, <3>1, <3>2, EndScanType DEF Idle
  <2> QED BY <2>2, <2>3
<1>3. CASE ConfigStep
  <2>1. CASE ReceiveConfig \/ SendResults \/ TruncateCache \/ WriteCache
    BY <2>1 DEF ReceiveConfig, SendResults, TruncateCache
  <2>2. ASSUME NEW g \in Game,
               RefuseGame(g) \/ DisableGame(g) \/ KeepGame(g) \/ ConfigureGame(g) \/ DropGame(g)
        PROVE  FALSE
    BY <2>2, TurnKind
  <2> QED BY <1>3, <2>1, <2>2 DEF ConfigStep
<1>4. CASE AnnounceStep
  BY <1>4 DEF AnnounceStep, AnnounceOnline, AnnounceGame, FinishAnnounce, Idle
<1>5. CASE ReceiveRemoved \/ HandleFileEvent \/ UNCHANGED vars \/ \E f \in File : Report(f)
  <2>1. UNCHANGED <<task, cache>>
    BY <1>5 DEF ReceiveRemoved, HandleFileEvent, vars, Report
  <2> QED BY <2>1
<1>6. CASE ReceiveRescan
  BY <1>6 DEF ReceiveRescan, Idle
<1> QED BY <1>1, <1>2, <1>3, <1>4, <1>5, <1>6 DEF Next, Daemon

LEMMA NextCache ==
  ASSUME Typed, OwnInv, CacheInv, [Next]_vars
  PROVE  CacheInv'
<1> SUFFICES ASSUME task'.kind \in {"idle", "rescan", "announce"}, NEW g \in Game, cfg'[g] # None
             PROVE  cache' # Torn /\ cache'[g] = cfg'[g]
  BY DEF CacheInv
<1>1. CASE Boot
  BY <1>1 DEF Boot, NoGames
<1>2. CASE WriteCache
  BY <1>2 DEF WriteCache, memory, Typed, CfgType, Entries
<1>3. CASE task.kind \in {"idle", "rescan", "announce"} /\ UNCHANGED cache /\ ~ Boot
  <2>1. ~ (ConfigureGame(g) \/ DisableGame(g))
    BY TurnKind
  <2>2. cfg'[g] = cfg[g]
    BY <1>3, <2>1, CfgStep
  <2> QED BY <1>3, <2>2 DEF CacheInv
<1> QED BY <1>1, <1>2, <1>3, CacheStep

\* The variables have their types.
THEOREM TypeCorrect == Spec => []TypeOK
<1> DEFINE Inv == Typed /\ OwnInv /\ ScanInv
<1>1. Init => Inv
  <2>1. Init => OwnInv /\ ScanInv
    BY DEF Init, OwnInv, OwnWish, OwnEntry, ScanInv, NoGames, Idle
  <2> QED BY <2>1, InitType
<1>2. Inv /\ [Next]_vars => Inv'
  BY NextType, NextOwn, NextScan
<1>3. Inv => TypeOK
  BY TypedTypeOK
<1> HIDE DEF Inv
<1> QED BY <1>1, <1>2, <1>3, PTL DEF Spec

\* Between handlers a restart finds every configured game in the cache as it
\* is configured: an update removes, adds and changes entries one by one, and
\* the cache is written, whole, before the next handler runs
\* (saveConfigCache, loadConfigCache).
THEOREM RestartCorrect == Spec => []RestartKeepsConfig
<1> DEFINE Inv == Typed /\ OwnInv /\ ScanInv /\ CacheInv
<1>1. Init => Inv
  <2>1. Init => OwnInv /\ ScanInv /\ CacheInv
    BY DEF Init, OwnInv, OwnWish, OwnEntry, ScanInv, CacheInv, NoGames, Idle
  <2> QED BY <2>1, InitType
<1>2. Inv /\ [Next]_vars => Inv'
  BY NextType, NextOwn, NextScan, NextCache
<1>3. Inv => RestartKeepsConfig
  BY DEF CacheInv, RestartKeepsConfig, Idle
<1> HIDE DEF Inv
<1> QED BY <1>1, <1>2, <1>3, PTL DEF Spec


-----------------------------------------------------------------------------
(* What was sent is what is read.                                           *)

LEMMA BudgetStep ==
  ASSUME Typed, [Next]_vars
  PROVE  /\ \A k \in Sources : /\ budget'[k] \in Nat /\ budget[k] \in Nat /\ Budget[k] \in Nat
                               /\ budget'[k] <= budget[k] /\ budget[k] <= Budget[k]
         /\ Crash => budget'["crash"] < budget["crash"]
<1> USE DEF world, channel, memory, told
<1> DEFINE Kinds == {"user", "write", "delete", "rmdir", "mkdir", "late", "crash", "connect",
                     "rescan", "plugin"}
<1>0. /\ \A k \in Sources : budget[k] \in Nat /\ Budget[k] \in Nat /\ budget[k] <= Budget[k]
      /\ Kinds \subseteq Sources \ {"total"}
  BY DEF Typed, BudgetType, Sources
<1>1. ASSUME NEW e \in Kinds, Spend(e)
      PROVE  \A k \in Sources : budget'[k] \in Nat /\ budget'[k] <= budget[k]
  BY <1>0, <1>1, SpendType DEF Typed, BudgetType
<1>2. ASSUME UNCHANGED budget
      PROVE  \A k \in Sources : budget'[k] \in Nat /\ budget'[k] <= budget[k]
  BY <1>0, <1>2
<1>3. CASE Crash
  <2>1. Spend("crash") /\ "crash" \in Sources \ {"total"}
    BY <1>0, <1>3 DEF Crash
  <2> QED BY <1>0, <1>1, <2>1, SpendType DEF Typed
<1>4. CASE ~ Crash
  <2>1. UNCHANGED budget \/ \E e \in Kinds : Spend(e)
    BY <1>4 DEF Next, Environment, ChangeSettings, RequestRescan, Write, Delete, MakeDir, RemoveDir,
       Reconnect, Daemon, Boot, ScanStep, RescanQuiet, ListSaves, AddWatches, ParseSaves,
       ConfigStep, ReceiveConfig, RefuseGame, DisableGame, KeepGame, ConfigureGame, DropGame,
       SendResults, TruncateCache, WriteCache, AnnounceStep, AnnounceOnline, AnnounceGame,
       FinishAnnounce, ReceiveRemoved, ReceiveRescan, HandleFileEvent, Report, vars
  <2> QED BY <1>0, <1>1, <1>2, <1>4, <2>1
<1> QED BY <1>3, <1>4

LEMMA DownStep ==
  ASSUME Typed, ScanInv, [Next]_vars, ~ Crash, task = Down \/ task' = Down
  PROVE  \/ Boot
         \/ /\ task = Down /\ task' = Down /\ UNCHANGED inbox /\ inotify' \subseteq inotify
<1> USE DEF world, channel, memory, told
<1>1. CASE Environment
  BY <1>1 DEF Environment, ChangeSettings, RequestRescan, Write, Delete, MakeDir, RemoveDir,
     Reconnect
<1>2. CASE ScanStep
  <2>1. scan # None
    BY <1>2 DEF ScanStep, RescanQuiet, ListSaves, AddWatches, ParseSaves
  <2>2. task.kind \in {"config", "announce", "rescan"}
    BY <2>1 DEF ScanInv
  <2>3. task'.kind # "down"
    <3>1. CASE UNCHANGED task
      BY <2>2, <3>1
    <3>2. CASE ~ UNCHANGED task
      <4>1. \E st \in {"none", "watching", "notFound", "pluginFailed"} : EndScan(scan.game, st)
        BY <1>2, <3>2, ScanFields
           DEF ScanStep, RescanQuiet, ListSaves, AddWatches, ParseSaves, Typed, ToldType, Status
      <4> QED BY <2>1, <2>2, <4>1, EndScanType DEF Idle
    <3> QED BY <3>1, <3>2
  <2> QED BY <2>2, <2>3 DEF Down
<1>3. CASE ConfigStep
  <2>1. CASE ReceiveConfig \/ SendResults \/ TruncateCache \/ WriteCache
    BY <2>1 DEF ReceiveConfig, SendResults, TruncateCache, WriteCache, Idle, Down
  <2>2. ASSUME NEW g \in Game,
               RefuseGame(g) \/ DisableGame(g) \/ KeepGame(g) \/ ConfigureGame(g) \/ DropGame(g)
        PROVE  FALSE
    BY <2>2, TurnKind DEF Down
  <2> QED BY <1>3, <2>1, <2>2 DEF ConfigStep
<1>4. CASE AnnounceStep
  <2>1. ASSUME NEW g \in Game, AnnounceGame(g)
        PROVE  task.kind = "announce" /\ task'.kind = "announce"
    <3>1. task \in AnnounceTask /\ task' = [task EXCEPT !.left = @ \ {g}]
      BY <2>1, TaskKinds DEF Typed, TaskType, AnnounceGame
    <3> QED BY <3>1 DEF AnnounceTask
  <2> QED BY <1>4, <2>1 DEF AnnounceStep, AnnounceOnline, FinishAnnounce, Idle, Down
<1>5. CASE ReceiveRemoved \/ ReceiveRescan \/ HandleFileEvent
  <2>1. task = Idle /\ task' \in {Idle, [kind |-> "rescan"]}
    BY <1>5 DEF ReceiveRemoved, ReceiveRescan, HandleFileEvent
  <2>2. Down \notin {Idle, [kind |-> "rescan"]}
    BY DEF Idle, Down
  <2> QED BY <2>1, <2>2
<1>6. CASE UNCHANGED vars \/ \E f \in File : Report(f)
  BY <1>6 DEF vars, Report
<1> QED BY <1>1, <1>2, <1>3, <1>4, <1>5, <1>6 DEF Next, Daemon

LEMMA NextOff ==
  ASSUME Typed, ScanInv, Off, [Next]_vars
  PROVE  Off'
<1> SUFFICES ASSUME task' = Down
             PROVE  inbox' = <<>> /\ inotify' = {} /\ budget'["crash"] < Budget["crash"]
  BY DEF Off
<1>0. "crash" \in Sources
  BY DEF Sources
<1>1. CASE Crash
  <2>1. inbox' = <<>> /\ inotify' = {}
    BY <1>1 DEF Crash
  <2> QED BY <1>0, <1>1, <2>1, BudgetStep
<1>2. CASE ~ Crash
  <2>1. task = Down /\ UNCHANGED inbox /\ inotify' \subseteq inotify
    BY <1>2, DownStep DEF Boot, Idle, Down
  <2>2. inbox = <<>> /\ inotify = {} /\ budget["crash"] < Budget["crash"]
    BY <2>1 DEF Off
  <2>3. budget'["crash"] < Budget["crash"]
    BY <1>0, <2>2, BudgetStep
  <2> QED BY <2>1, <2>2, <2>3
<1> QED BY <1>1, <1>2

LEMMA NextSent ==
  ASSUME Typed, ScanInv, LastSent, Off, [Next]_vars
  PROVE  LastSent'
<1>0. inbox \in Seq(Message)
  BY DEF Typed, MailType
<1>1. CASE UNCHANGED <<inbox, server>>
  BY <1>1 DEF LastSent
<1>2. CASE UNCHANGED inbox /\ task = Down
  BY <1>2 DEF LastSent, Off
<1>3. ASSUME NEW m \in Message, Sent(m), inbox' = Append(inbox, m) PROVE LastSent'
  <2>1. /\ Len(inbox) \in Nat /\ Len(inbox') = Len(inbox) + 1 /\ inbox'[Len(inbox) + 1] = m
        /\ \A i \in 1..Len(inbox) : i \in 1..Len(inbox') /\ inbox'[i] = inbox[i]
    BY <1>0, <1>3, AppendItems
  <2> SUFFICES ASSUME NEW i \in 1..Len(inbox'), inbox'[i].kind = "config",
                      \A j \in i+1..Len(inbox') : inbox'[j].kind # "config"
               PROVE  inbox'[i].games = server'
    BY DEF LastSent
  <2>2. CASE i = Len(inbox) + 1
    BY <1>3, <2>1, <2>2 DEF Sent
  <2>3. CASE i # Len(inbox) + 1
    <3>1. i \in 1..Len(inbox) /\ Len(inbox) + 1 \in i+1..Len(inbox')
      BY <2>1, <2>3
    <3>2. m.kind # "config"
      BY <2>1, <3>1
    <3>3. \A j \in i+1..Len(inbox) : inbox[j].kind # "config"
      BY <2>1, <3>1
    <3> QED BY <1>3, <2>1, <3>1, <3>2, <3>3 DEF LastSent, Sent
  <2> QED BY <2>2, <2>3
<1>4. CASE inbox # <<>> /\ inbox' = Tail(inbox) /\ UNCHANGED server
  <2>1. /\ Len(inbox) \in Nat \ {0} /\ Len(inbox') = Len(inbox) - 1
        /\ \A i \in 1..Len(inbox') : i + 1 \in 2..Len(inbox) /\ inbox'[i] = inbox[i + 1]
        /\ \A i \in 2..Len(inbox) : i - 1 \in 1..Len(inbox') /\ inbox'[i - 1] = inbox[i]
    BY <1>0, <1>4, TailItems
  <2> SUFFICES ASSUME NEW i \in 1..Len(inbox'), inbox'[i].kind = "config",
                      \A j \in i+1..Len(inbox') : inbox'[j].kind # "config"
               PROVE  inbox'[i].games = server'
    BY DEF LastSent
  <2>2. i + 1 \in 1..Len(inbox) /\ inbox'[i] = inbox[i + 1]
    BY <2>1
  <2>3. \A j \in (i+1)+1..Len(inbox) : inbox[j].kind # "config"
    <3> TAKE j \in (i+1)+1..Len(inbox)
    <3>1. j \in 2..Len(inbox) /\ j - 1 \in i+1..Len(inbox') /\ inbox'[j - 1] = inbox[j]
      BY <2>1
    <3> QED BY <3>1
  <2> QED BY <1>4, <2>2, <2>3 DEF LastSent
<1>5. CASE inbox' = <<>>
  BY <1>5 DEF LastSent
<1> QED BY <1>1, <1>2, <1>3, <1>4, <1>5, MailStep

\* Without settings under way there were none but those being read.
LEMMA NoConfigStep ==
  ASSUME Typed, ScanInv, Off, [Next]_vars, NoConfig', ~ Crash, task # Down
  PROVE  /\ UNCHANGED server
         /\ IF ReceiveConfig THEN \A j \in 1+1..Len(inbox) : inbox[j].kind # "config" ELSE NoConfig
<1>0. inbox \in Seq(Message)
  BY DEF Typed, MailType
<1>1. CASE UNCHANGED inbox /\ UNCHANGED server
  BY <1>0, <1>1, TailItems DEF NoConfig, ReceiveConfig
<1>2. ASSUME NEW m \in Message, Sent(m), inbox' = Append(inbox, m)
      PROVE  NoConfig /\ UNCHANGED server
  <2>1. /\ Len(inbox) \in Nat /\ Len(inbox') = Len(inbox) + 1 /\ inbox'[Len(inbox) + 1] = m
        /\ \A i \in 1..Len(inbox) : i \in 1..Len(inbox') /\ inbox'[i] = inbox[i]
    BY <1>0, <1>2, AppendItems
  <2>2. m.kind # "config"
    BY <2>1 DEF NoConfig
  <2> QED BY <1>2, <2>1, <2>2 DEF NoConfig, Sent
<1>3. CASE /\ ReceiveConfig \/ ReceiveRemoved \/ ReceiveRescan
           /\ inbox # <<>> /\ inbox' = Tail(inbox) /\ UNCHANGED server
  <2>1. /\ Len(inbox) \in Nat \ {0} /\ Head(inbox) = inbox[1]
        /\ \A i \in 2..Len(inbox) : i - 1 \in 1..Len(inbox') /\ inbox'[i - 1] = inbox[i]
    BY <1>0, <1>3, TailItems
  <2>2. \A j \in 1+1..Len(inbox) : inbox[j].kind # "config"
    BY <2>1 DEF NoConfig
  <2>3. ~ ReceiveConfig => Head(inbox).kind # "config"
    BY <1>3 DEF ReceiveRemoved, ReceiveRescan
  <2>4. ~ ReceiveConfig => NoConfig
    <3> SUFFICES ASSUME ~ ReceiveConfig, NEW j \in 1..Len(inbox) PROVE inbox[j].kind # "config"
      BY DEF NoConfig
    <3>1. j = 1 \/ j \in 1+1..Len(inbox)
      BY <2>1
    <3> QED BY <2>1, <2>2, <2>3, <3>1
  <2> QED BY <1>3, <2>2, <2>4
<1>4. \A m \in Message : inbox' = Append(inbox, m) => ~ ReceiveConfig
  <2>1. ASSUME NEW m \in Message, inbox' = Append(inbox, m), ReceiveConfig PROVE FALSE
    <3>1. inbox # <<>> /\ inbox' = Tail(inbox)
      BY <2>1 DEF ReceiveConfig
    <3>2. Len(inbox) \in Nat /\ Len(inbox') = Len(inbox) + 1
      BY <1>0, <2>1, AppendItems
    <3>3. Len(inbox') = Len(inbox) - 1
      BY <1>0, <3>1, TailItems
    <3> QED BY <3>2, <3>3
  <2> QED BY <2>1
<1> QED BY <1>1, <1>2, <1>3, <1>4, MailStep

LEMMA NextRead ==
  ASSUME Typed, ScanInv, LastSent, LastRead, Off, [Next]_vars
  PROVE  LastRead'
<1> SUFFICES ASSUME task'.kind = "config", NoConfig' PROVE task'.update = server'
  BY DEF LastRead
<1>1. ~ Crash /\ task # Down
  BY UpdateStep DEF Crash, Down, ReceiveConfig, Idle
<1>2. CASE ReceiveConfig /\ task'.update = Head(inbox).games
  <2>1. Head(inbox) = inbox[1] /\ Head(inbox).kind = "config" /\ 1 \in 1..Len(inbox)
    BY <1>2, TailItems DEF ReceiveConfig, Typed, MailType
  <2>2. UNCHANGED server /\ \A j \in 1+1..Len(inbox) : inbox[j].kind # "config"
    BY <1>1, <1>2, NoConfigStep
  <2> QED BY <1>2, <2>1, <2>2 DEF LastSent
<1>3. CASE task.kind = "config" /\ task'.update = task.update /\ ~ ReceiveConfig
  BY <1>1, <1>3, NoConfigStep DEF LastRead
<1> QED BY <1>2, <1>3, UpdateStep


-----------------------------------------------------------------------------
(* A rescan asked for finds the game enabled, or gone.                      *)

\* A game's turn comes only once.
LEMMA LeftStep ==
  ASSUME Typed, [Next]_vars, task.kind = "config", NEW g \in Game, g \in task.left,
         ~ (task'.kind = "config" /\ g \in task'.left)
  PROVE  \/ Crash
         \/ RefuseGame(g) \/ DisableGame(g) \/ KeepGame(g) \/ ConfigureGame(g) \/ DropGame(g)
<1> USE DEF world, channel, memory, told
<1>1. CASE Environment
  <2>1. Crash \/ UNCHANGED task
    BY <1>1 DEF Environment, ChangeSettings, RequestRescan, Write, Delete, MakeDir, RemoveDir,
       Reconnect
  <2> QED BY <2>1
<1>2. CASE ScanStep
  <2>1. ~ UNCHANGED task
    OBVIOUS
  <2>2. scan # None /\ \E st \in {"none", "watching", "notFound", "pluginFailed"} :
                          EndScan(scan.game, st)
    BY <1>2, <2>1, ScanFields
       DEF ScanStep, RescanQuiet, ListSaves, AddWatches, ParseSaves, Typed, ToldType, Status
  <2> QED BY <2>2, EndScanType
<1>3. CASE ConfigStep
  <2>1. ASSUME NEW h \in Game, h # g,
               RefuseGame(h) \/ DisableGame(h) \/ KeepGame(h) \/ ConfigureGame(h) \/ DropGame(h)
        PROVE  FALSE
    BY <2>1, TurnKind
  <2>2. ~ (ReceiveConfig \/ SendResults \/ TruncateCache \/ WriteCache)
    BY DEF ReceiveConfig, SendResults, TruncateCache, WriteCache, Idle
  <2> QED BY <1>3, <2>1, <2>2 DEF ConfigStep
<1>4. CASE AnnounceStep \/ Boot \/ ReceiveRemoved \/ ReceiveRescan
           \/ HandleFileEvent
  <2>1. task = Idle \/ task = Down \/ task.kind = "announce"
    BY <1>4 DEF AnnounceStep, AnnounceOnline, AnnounceGame, FinishAnnounce, Boot, ReceiveRemoved,
       ReceiveRescan, HandleFileEvent
  <2> QED BY <2>1 DEF Idle, Down
<1>5. CASE UNCHANGED vars \/ \E f \in File : Report(f)
  BY <1>5 DEF vars, Report
<1> QED BY <1>1, <1>2, <1>3, <1>4, <1>5 DEF Next, Daemon

LEMMA TrustedPath ==
  ASSUME Typed, OwnInv, NEW g \in Game, Turn(g), Trusted(g)
  PROVE  NewPath(g) \in Allowed
BY TurnWish DEF Trusted, IsPath

\* A game that is, or is about to be, enabled stays so until other settings
\* are read.
LEMMA NowStep ==
  ASSUME Typed, OwnInv, [Next]_vars, ~ Crash, ~ Boot, ~ ReceiveConfig,
         NEW g \in Game, Trusted(g), Now(g)
  PROVE  Now(g)'
<1> USE DEF world, channel, memory, told
<1>1. CASE task'.kind = "config" /\ g \in task'.left
  <2>1. task.kind = "config" /\ task'.update = task.update /\ g \in task.left
    BY <1>1, UpdateStep
  <2> QED BY <1>1, <2>1 DEF Now
<1>2. CASE ~ (task'.kind = "config" /\ g \in task'.left)
  <2> SUFFICES cfg'[g] = None \/ cfg'[g].enabled
    BY <1>2 DEF Now
  <2>1. CASE task.kind = "config" /\ g \in task.left
    <3>1. task.update[g].enabled
      BY <2>1 DEF Now
    <3>2. RefuseGame(g) \/ DisableGame(g) \/ KeepGame(g) \/ ConfigureGame(g) \/ DropGame(g)
      BY <1>2, <2>1, LeftStep
    <3>3. CASE RefuseGame(g) \/ DisableGame(g)
      BY <3>1, <3>3, TrustedPath DEF RefuseGame, DisableGame
    <3>4. CASE KeepGame(g)
      BY <3>4 DEF KeepGame, Enabled
    <3>5. CASE ConfigureGame(g)
      <4>1. cfg'[g] = [path |-> NewPath(g), enabled |-> task.update[g].enabled]
        BY <3>5 DEF ConfigureGame, StoreGame, Typed, CfgType, Entries
      <4> QED BY <3>1, <4>1
    <3>6. CASE DropGame(g)
      BY <3>6 DEF DropGame, Typed, CfgType, Entries
    <3> QED BY <3>2, <3>3, <3>4, <3>5, <3>6
  <2>2. CASE ~ (task.kind = "config" /\ g \in task.left)
    <3>1. cfg[g] = None \/ cfg[g].enabled
      BY <2>2 DEF Now
    <3>2. ~ (ConfigureGame(g) \/ DisableGame(g))
      BY <2>2, TurnKind DEF Turn
    <3> QED BY <3>1, <3>2, CfgStep
  <2> QED BY <2>1, <2>2
<1> QED BY <1>1, <1>2

\* Settings that enable a game are about to be followed.
LEMMA NowRead ==
  ASSUME Typed, ReceiveConfig, NEW g \in Game, On(Head(inbox).games, g)
  PROVE  Now(g)'
BY DEF ReceiveConfig, Now, On

\* The last settings under way.
LEMMA LastConfig ==
  ASSUME NEW s \in Seq(Message)
  PROVE  \/ \A i \in 1..Len(s) : s[i].kind # "config"
         \/ \E j \in 1..Len(s) : /\ s[j].kind = "config"
                                 /\ \A k \in j+1..Len(s) : s[k].kind # "config"
<1> DEFINE S == {n \in Nat : \A k \in n+1..Len(s) : s[k].kind # "config"}
<1>1. Len(s) \in Nat /\ Len(s) \in S
  OBVIOUS
<1>2. PICK n \in S : \A m \in S : n <= m
  <2>1. S \in SUBSET Nat /\ S # {}
    BY <1>1
  <2> HIDE DEF S
  <2> QED BY <2>1, Least
<1>3. n \in Nat /\ n <= Len(s) /\ \A k \in n+1..Len(s) : s[k].kind # "config"
  BY <1>1, <1>2
<1>4. CASE n = 0
  BY <1>3, <1>4
<1>5. CASE n # 0
  <2>1. n - 1 \in Nat /\ n \in 1..Len(s) /\ ~ (n <= n - 1)
    BY <1>1, <1>3, <1>5
  <2>2. n - 1 \notin S
    <3> HIDE DEF S
    <3> QED BY <1>2, <2>1
  <2>3. PICK k \in (n-1)+1..Len(s) : s[k].kind = "config"
    BY <2>1, <2>2
  <2>4. k = n
    <3>1. k \in Nat /\ k >= n /\ k <= Len(s)
      BY <1>1, <1>3, <2>1
    <3>2. ~ (k \in n+1..Len(s))
      BY <1>3, <2>3
    <3> QED BY <1>1, <1>3, <3>1, <3>2
  <2> QED BY <1>3, <2>1, <2>3, <2>4
<1> QED BY <1>4, <1>5

LEMMA FollowAppend ==
  ASSUME Typed, NEW g \in Game, NEW m \in Message, Sent(m), inbox' = Append(inbox, m),
         LastSent, AtRescan(g), Now(g) => Now(g)', NoConfig /\ On(server, g) => Now(g)
  PROVE  AtRescan(g)'
<1>0. inbox \in Seq(Message)
  BY DEF Typed, MailType
<1>1. /\ Len(inbox) \in Nat /\ Len(inbox') = Len(inbox) + 1 /\ inbox'[Len(inbox) + 1] = m
      /\ \A i \in 1..Len(inbox) : i \in 1..Len(inbox') /\ inbox'[i] = inbox[i]
  BY <1>0, AppendItems
<1> SUFFICES ASSUME NEW i \in 1..Len(inbox'), inbox'[i].kind = "rescan", inbox'[i].game = g
             PROVE  \/ \E j \in 1..i-1 : /\ inbox'[j].kind = "config" /\ On(inbox'[j].games, g)
                                         /\ \A k \in j+1..i-1 : inbox'[k].kind # "config"
                    \/ Now(g)' /\ \A k \in 1..i-1 : inbox'[k].kind # "config"
  BY DEF AtRescan, On
<1>2. \A k \in 1..i-1 : k \in 1..Len(inbox) /\ inbox'[k] = inbox[k]
  BY <1>1
<1>3. CASE i \in 1..Len(inbox)
  <2>1. inbox[i].kind = "rescan" /\ inbox[i].game = g
    BY <1>1, <1>3
  <2>2. CASE \E j \in 1..i-1 : /\ inbox[j].kind = "config" /\ On(inbox[j].games, g)
                               /\ \A k \in j+1..i-1 : inbox[k].kind # "config"
    <3>1. PICK j \in 1..i-1 : /\ inbox[j].kind = "config" /\ On(inbox[j].games, g)
                              /\ \A k \in j+1..i-1 : inbox[k].kind # "config"
      BY <2>2
    <3>2. \A k \in j+1..i-1 : k \in 1..i-1
      OBVIOUS
    <3> QED BY <1>2, <3>1, <3>2
  <2>3. CASE Now(g) /\ \A k \in 1..i-1 : inbox[k].kind # "config"
    BY <1>2, <2>3
  <2> QED BY <1>3, <2>1, <2>2, <2>3 DEF AtRescan
<1>4. CASE i = Len(inbox) + 1
  <2>1. m.kind = "rescan" /\ On(server, g) /\ i - 1 = Len(inbox)
    BY <1>1, <1>4 DEF Sent
  <2>2. CASE \A k \in 1..Len(inbox) : inbox[k].kind # "config"
    BY <1>2, <2>1, <2>2 DEF NoConfig
  <2>3. CASE \E j \in 1..Len(inbox) : /\ inbox[j].kind = "config"
                                      /\ \A k \in j+1..Len(inbox) : inbox[k].kind # "config"
    <3>1. PICK j \in 1..Len(inbox) : /\ inbox[j].kind = "config"
                                     /\ \A k \in j+1..Len(inbox) : inbox[k].kind # "config"
      BY <2>3
    <3>2. inbox[j].games = server
      BY <3>1 DEF LastSent
    <3>3. \A k \in j+1..i-1 : k \in 1..i-1 /\ inbox[k].kind # "config"
      BY <2>1, <3>1
    <3>4. j \in 1..i-1
      BY <2>1
    <3> QED BY <1>2, <2>1, <3>1, <3>2, <3>3, <3>4
  <2> QED BY <1>0, <2>2, <2>3, LastConfig
<1>5. i \in 1..Len(inbox) \/ i = Len(inbox) + 1
  BY <1>1
<1> QED BY <1>3, <1>4, <1>5

LEMMA FollowTail ==
  ASSUME Typed, NEW g \in Game, inbox # <<>>, inbox' = Tail(inbox), AtRescan(g),
         IF Head(inbox).kind = "config" THEN On(Head(inbox).games, g) => Now(g)'
                                        ELSE Now(g) => Now(g)'
  PROVE  AtRescan(g)'
<1>1. /\ Len(inbox) \in Nat \ {0} /\ Len(inbox') = Len(inbox) - 1 /\ Head(inbox) = inbox[1]
      /\ \A i \in 1..Len(inbox') : i + 1 \in 2..Len(inbox) /\ inbox'[i] = inbox[i + 1]
      /\ \A i \in 2..Len(inbox) : i - 1 \in 1..Len(inbox') /\ inbox'[i - 1] = inbox[i]
  BY TailItems DEF Typed, MailType
<1> SUFFICES ASSUME NEW i \in 1..Len(inbox'), inbox'[i].kind = "rescan", inbox'[i].game = g
             PROVE  \/ \E j \in 1..i-1 : /\ inbox'[j].kind = "config" /\ On(inbox'[j].games, g)
                                         /\ \A k \in j+1..i-1 : inbox'[k].kind # "config"
                    \/ Now(g)' /\ \A k \in 1..i-1 : inbox'[k].kind # "config"
  BY DEF AtRescan, On
<1>2. i + 1 \in 1..Len(inbox) /\ inbox[i + 1].kind = "rescan" /\ inbox[i + 1].game = g
  BY <1>1
<1>3. (i + 1) - 1 = i /\ i \in Nat \ {0}
  OBVIOUS
<1>4. \A k \in 1..i-1 : inbox'[k] = inbox[k + 1]
  BY <1>1
<1>5. CASE \E j \in 1..i : /\ inbox[j].kind = "config" /\ On(inbox[j].games, g)
                           /\ \A k \in j+1..i : inbox[k].kind # "config"
  <2>1. PICK j \in 1..i : /\ inbox[j].kind = "config" /\ On(inbox[j].games, g)
                          /\ \A k \in j+1..i : inbox[k].kind # "config"
    BY <1>5
  <2>2. CASE j = 1
    <3>1. \A k \in 1..i-1 : k + 1 \in j+1..i
      BY <2>2
    <3>2. \A k \in 1..i-1 : inbox'[k].kind # "config"
      BY <1>4, <2>1, <3>1
    <3> QED BY <1>1, <2>1, <2>2, <3>2
  <2>3. CASE j # 1
    <3>1. j - 1 \in 1..i-1 /\ inbox'[j - 1] = inbox[j]
      BY <1>1, <1>2, <2>3
    <3>2. \A k \in (j-1)+1..i-1 : k \in 1..i-1 /\ k + 1 \in j+1..i
      BY <3>1
    <3>3. \A k \in (j-1)+1..i-1 : inbox'[k].kind # "config"
      BY <1>4, <2>1, <3>2
    <3>4. inbox'[j - 1].kind = "config" /\ On(inbox'[j - 1].games, g)
      BY <2>1, <3>1
    <3> QED BY <3>1, <3>3, <3>4
  <2> QED BY <2>2, <2>3
<1>6. CASE Now(g) /\ \A k \in 1..i : inbox[k].kind # "config"
  <2>1. \A k \in 1..i-1 : inbox'[k].kind # "config"
    <3>1. \A k \in 1..i-1 : k + 1 \in 1..i
      OBVIOUS
    <3> QED BY <1>4, <1>6, <3>1
  <2>2. inbox[1].kind # "config"
    BY <1>3, <1>6
  <2> QED BY <1>1, <1>6, <2>1, <2>2
<1>7. \/ \E j \in 1..(i+1)-1 : /\ inbox[j].kind = "config" /\ On(inbox[j].games, g)
                               /\ \A k \in j+1..(i+1)-1 : inbox[k].kind # "config"
      \/ Now(g) /\ \A k \in 1..(i+1)-1 : inbox[k].kind # "config"
  BY <1>2 DEF AtRescan
<1> QED BY <1>3, <1>5, <1>6, <1>7

LEMMA NextFollow ==
  ASSUME Typed, OwnInv, ScanInv, MailInv, [Next]_vars
  PROVE  FollowInv'
<1> SUFFICES ASSUME budget'["crash"] = Budget["crash"], NEW g \in Game, Trusted(g)
             PROVE  AtRescan(g)' /\ (NoConfig' /\ On(server', g) => Now(g)')
  BY DEF FollowInv, AtRescan, Now, NoConfig, On
<1>1. ~ Crash /\ task # Down /\ ~ Boot /\ budget["crash"] = Budget["crash"]
  <2>1. "crash" \in Sources
    BY DEF Sources
  <2>2. ~ Crash /\ budget["crash"] = Budget["crash"]
    BY <2>1, BudgetStep
  <2>3. task # Down
    BY <2>1, <2>2, BudgetStep DEF MailInv, Off
  <2> QED BY <2>2, <2>3 DEF Boot, Down
<1>2. AtRescan(g) /\ (NoConfig /\ On(server, g) => Now(g))
  BY <1>1 DEF MailInv, FollowInv
<1>3. ~ ReceiveConfig => (Now(g) => Now(g)')
  BY <1>1, NowStep
<1>4. ASSUME ReceiveConfig
      PROVE  Head(inbox).kind = "config" /\ (On(Head(inbox).games, g) => Now(g)')
  BY <1>4, NowRead DEF ReceiveConfig
<1>5. AtRescan(g)'
  <2>1. CASE UNCHANGED inbox /\ ~ ReceiveConfig
    <3> SUFFICES ASSUME NEW i \in 1..Len(inbox'), inbox'[i].kind = "rescan", inbox'[i].game = g
                 PROVE  \/ \E j \in 1..i-1 : /\ inbox'[j].kind = "config" /\ On(inbox'[j].games, g)
                                             /\ \A k \in j+1..i-1 : inbox'[k].kind # "config"
                        \/ Now(g)' /\ \A k \in 1..i-1 : inbox'[k].kind # "config"
      BY DEF AtRescan, On
    <3> QED BY <1>2, <1>3, <2>1 DEF AtRescan
  <2>2. ASSUME NEW m \in Message, Sent(m), inbox' = Append(inbox, m), ~ ReceiveConfig
        PROVE  AtRescan(g)'
    BY <1>2, <1>3, <2>2, FollowAppend DEF MailInv
  <2>3. CASE /\ ReceiveConfig \/ ReceiveRemoved \/ ReceiveRescan
             /\ inbox # <<>> /\ inbox' = Tail(inbox)
    <3>1. ~ ReceiveConfig => Head(inbox).kind # "config"
      BY <2>3 DEF ReceiveRemoved, ReceiveRescan
    <3> QED BY <1>2, <1>3, <1>4, <2>3, <3>1, FollowTail
  <2>4. ReceiveConfig => ~ UNCHANGED inbox /\ \A m \in Message : inbox' # Append(inbox, m)
    <3> SUFFICES ASSUME ReceiveConfig
                 PROVE  ~ UNCHANGED inbox /\ \A m \in Message : inbox' # Append(inbox, m)
      OBVIOUS
    <3>1. inbox \in Seq(Message) /\ inbox # <<>> /\ inbox' = Tail(inbox)
      BY DEF Typed, MailType, ReceiveConfig
    <3>2. Len(inbox) \in Nat /\ Len(inbox') = Len(inbox) - 1
      BY <3>1, TailItems
    <3>3. \A m \in Message : Len(Append(inbox, m)) = Len(inbox) + 1
      BY <3>1
    <3> QED BY <3>2, <3>3
  <2> QED BY <1>1, <2>1, <2>2, <2>3, <2>4, MailStep
<1>6. ASSUME NoConfig', On(server', g) PROVE Now(g)'
  <2>1. /\ UNCHANGED server
        /\ IF ReceiveConfig THEN \A j \in 1+1..Len(inbox) : inbox[j].kind # "config" ELSE NoConfig
    BY <1>1, <1>6, NoConfigStep DEF MailInv
  <2>2. CASE ReceiveConfig
    <3>1. Head(inbox) = inbox[1] /\ 1 \in 1..Len(inbox)
      BY <2>2, TailItems DEF ReceiveConfig, Typed, MailType
    <3>2. Head(inbox).games = server
      BY <1>4, <2>1, <2>2, <3>1 DEF MailInv, LastSent
    <3> QED BY <1>4, <1>6, <2>1, <2>2, <3>2
  <2>3. CASE ~ ReceiveConfig
    BY <1>2, <1>3, <1>6, <2>1, <2>3
  <2> QED BY <2>2, <2>3
<1> QED BY <1>5, <1>6

LEMMA NextMail ==
  ASSUME Typed, OwnInv, ScanInv, MailInv, [Next]_vars
  PROVE  MailInv'
BY NextSent, NextRead, NextFollow, NextOff DEF MailInv


-----------------------------------------------------------------------------
(* What is watched.                                                         *)

\* Nothing gives a game back what it has not followed.
LEMMA FollowedStep ==
  ASSUME Typed, [Next]_vars, NEW g \in Game, Followed(g)'
  PROVE  Followed(g)
<1>1. \A k \in Sources : /\ budget'[k] \in Nat /\ budget[k] \in Nat /\ Budget[k] \in Nat
                         /\ budget'[k] <= budget[k] /\ budget[k] <= Budget[k]
  BY BudgetStep
<1>2. \A k \in Sources : budget'[k] = Budget[k] => budget[k] = Budget[k]
  BY <1>1
<1>3. {"rescan", "crash"} \subseteq Sources
  BY DEF Sources
<1> QED BY <1>2, <1>3 DEF Followed

LEMMA FollowedTrusted ==
  ASSUME NEW g \in Game, Followed(g), budget["rescan"] # Budget["rescan"]
  PROVE  budget["crash"] = Budget["crash"] /\ Trusted(g)
BY DEF Followed, Trusted

LEMMA NextRescan ==
  ASSUME Typed, NoRescan, [Next]_vars
  PROVE  NoRescan'
<1> SUFFICES ASSUME budget'["rescan"] = Budget["rescan"]
             PROVE  \A i \in 1..Len(inbox') : inbox'[i].kind # "rescan"
  BY DEF NoRescan
<1>0. inbox \in Seq(Message) /\ "rescan" \in Sources
  BY DEF Typed, MailType, Sources
<1>1. budget["rescan"] = Budget["rescan"] /\ ~ (budget'["rescan"] < budget["rescan"])
  BY <1>0, BudgetStep
<1>2. \A i \in 1..Len(inbox) : inbox[i].kind # "rescan"
  BY <1>1 DEF NoRescan
<1>3. ASSUME NEW m \in Message, Sent(m), inbox' = Append(inbox, m)
      PROVE  \A i \in 1..Len(inbox') : inbox'[i].kind # "rescan"
  <2>1. m.kind # "rescan"
    BY <1>1, <1>3 DEF Sent
  <2> QED BY <1>0, <1>2, <1>3, <2>1, AppendItems
<1>4. CASE inbox # <<>> /\ inbox' = Tail(inbox)
  BY <1>0, <1>2, <1>4, TailItems
<1> QED BY <1>2, <1>3, <1>4, MailStep

\* What is unwatched is no longer watched by anybody.
LEMMA UnwatchKeeps ==
  ASSUME Typed, WatchInv, NEW paths \in SUBSET Path, Unwatch(paths)
  PROVE  \A d \in inotify' : /\ d \in inotify /\ watchedDirs'[d] = watchedDirs[d]
                             /\ \A p \in paths : d \notin Matches[p]
<1> TAKE d \in inotify'
<1>1. d \in inotify /\ d \in exists /\ d \in Dir /\ watchedDirs[d] \in Game
  BY UnwatchType DEF WatchInv, Claimed, Typed, WatchType, DiskType
<1>2. watchedDirs[d] # None
  BY <1>1
<1>3. d \notin UNION {Resolve(p) : p \in paths}
  BY <1>1, <1>2 DEF Unwatch
<1>4. \A p \in paths : d \notin Matches[p]
  BY <1>1, <1>3, ResolveMatches
<1> QED BY <1>1, <1>2, <1>4, UnwatchType

\* A game whose path is given up, if it is enabled, keeps nothing.
LEMMA UnwatchGame ==
  ASSUME Typed, WatchInv, [Next]_vars, NEW paths \in SUBSET Path, Unwatch(paths),
         NEW S \in SUBSET Game, \A g \in S : Enabled(g) => cfg[g].path \in paths,
         \A g \in Game \ S : cfg'[g] = cfg[g]
  PROVE  Claimed' /\ Configured'
<1>1. \A d \in inotify' : /\ d \in inotify /\ watchedDirs'[d] = watchedDirs[d]
                          /\ \A p \in paths : d \notin Matches[p]
  BY UnwatchKeeps
<1>2. Claimed'
  BY <1>1 DEF WatchInv, Claimed
<1>3. ASSUME NEW d \in inotify', NEW g \in Game, g = watchedDirs'[d], Followed(g)'
      PROVE  Enabled(g)' /\ d \in Matches[cfg'[g].path]
  <2>1. d \in inotify /\ g = watchedDirs[d] /\ Followed(g)
    BY <1>1, <1>3, FollowedStep
  <2>2. Enabled(g) /\ d \in Matches[cfg[g].path]
    BY <2>1 DEF WatchInv, Configured
  <2>3. g \notin S
    BY <1>1, <2>2
  <2> QED BY <2>2, <2>3 DEF Enabled
<1> QED BY <1>2, <1>3 DEF Configured

LEMMA UnwatchOne ==
  ASSUME Typed, WatchInv, [Next]_vars, NEW paths \in SUBSET Path, Unwatch(paths),
         NEW g \in Game, Enabled(g) => cfg[g].path \in paths,
         \A h \in Game \ {g} : cfg'[h] = cfg[h]
  PROVE  Claimed' /\ Configured'
<1> DEFINE S == {g}
<1>1. S \in SUBSET Game /\ (\A h \in S : Enabled(h) => cfg[h].path \in paths)
      /\ \A h \in Game \ S : cfg'[h] = cfg[h]
  OBVIOUS
<1> HIDE DEF S
<1> QED BY <1>1, UnwatchGame

\* What is watched may stop being watched.
LEMMA WatchFewer ==
  ASSUME Typed, WatchInv, [Next]_vars, inotify' \subseteq inotify, UNCHANGED <<watchedDirs, cfg>>
  PROVE  Claimed' /\ Configured'
<1>1. Claimed'
  BY DEF WatchInv, Claimed
<1>2. Configured'
  BY FollowedStep DEF WatchInv, Configured, Enabled
<1> QED BY <1>1, <1>2

LEMMA NextWatched ==
  ASSUME Typed, OwnInv, ScanInv, MailInv, WatchInv, [Next]_vars
  PROVE  Claimed' /\ Configured'
<1> USE DEF world, channel, memory, told
<1>1. CASE Environment
  BY <1>1, WatchFewer DEF Environment, ChangeSettings, RequestRescan, Write, Delete, MakeDir,
     RemoveDir, Reconnect, Crash
<1>2. CASE Boot
  <2>1. inotify' = {}
    BY <1>2 DEF Boot, MailInv, Off
  <2> QED BY <2>1 DEF Claimed, Configured
<1>3. CASE AddWatches
  <2> DEFINE dirs == {DirOf[f] : f \in scan.found} \cap exists
  <2>1. /\ inotify' = inotify \cup dirs /\ UNCHANGED cfg
        /\ watchedDirs' = [d \in Dir |-> IF d \in dirs THEN scan.game ELSE watchedDirs[d]]
    BY <1>3 DEF AddWatches
  <2>2. scan # None /\ scan.game \in Game
    BY <1>3, ScanFields DEF AddWatches
  <2>3. \A d \in dirs : d \in Matches[scan.path]
    BY <2>2 DEF ScanInv
  <2>4. inotify' \subseteq Dir
    BY <2>1 DEF Typed, WatchType, DiskType
  <2> HIDE DEF dirs
  <2>5. Claimed'
    BY <2>1, <2>2, <2>4 DEF WatchInv, Claimed
  <2>6. ASSUME NEW d \in inotify', NEW g \in Game, watchedDirs'[d] = g, Followed(g)'
        PROVE  Enabled(g)' /\ d \in Matches[cfg'[g].path]
    <3>1. Followed(g)
      BY <2>6, FollowedStep
    <3>2. CASE d \in dirs
      <4>1. g = scan.game
        BY <2>1, <2>4, <2>6, <3>2
      <4> QED BY <2>1, <2>2, <2>3, <3>1, <3>2, <4>1 DEF WatchInv, ScanOn, ScanInv, Enabled
    <3>3. CASE d \notin dirs
      <4>1. d \in inotify /\ watchedDirs[d] = g
        BY <2>1, <2>4, <2>6, <3>3
      <4> QED BY <2>1, <3>1, <4>1 DEF WatchInv, Configured, Enabled
    <3> QED BY <3>2, <3>3
  <2> QED BY <2>5, <2>6 DEF Configured
<1>4. CASE RescanQuiet \/ ListSaves \/ ParseSaves
  BY <1>4, WatchFewer DEF RescanQuiet, ListSaves, ParseSaves
<1>5. CASE ReceiveConfig
  <2> DEFINE lost  == {g \in Game : cfg[g] # None /\ Head(inbox).games[g] = None}
             paths == {cfg[g].path : g \in lost}
  <2>1. /\ cfg' = [g \in Game |-> IF g \in lost THEN None ELSE cfg[g]] /\ Unwatch(paths)
    BY <1>5 DEF ReceiveConfig
  <2>2. paths \in SUBSET Path
    <3>1. lost \in SUBSET {g \in Game : cfg[g] # None}
      OBVIOUS
    <3> HIDE DEF lost
    <3> QED BY <3>1, PathsType
  <2>3. lost \in SUBSET Game /\ \A g \in lost : cfg[g].path \in paths
    OBVIOUS
  <2> HIDE DEF lost, paths
  <2> QED BY <2>1, <2>2, <2>3, UnwatchGame
<1>6. ASSUME NEW g \in Game, DisableGame(g) \/ ConfigureGame(g) \/ DropGame(g)
      PROVE  Claimed' /\ Configured'
  <2>1. PICK paths \in {{}, {cfg[g].path}} :
          Unwatch(paths) /\ (Enabled(g) => cfg[g].path \in paths) /\ (paths # {} => cfg[g] # None)
    BY <1>6 DEF DisableGame, ConfigureGame, DropGame, Renewed, Enabled
  <2>2. paths \in SUBSET Path
    BY <2>1, EntryType
  <2>3. \A h \in Game \ {g} : cfg'[h] = cfg[h]
    BY <1>6 DEF DisableGame, ConfigureGame, DropGame, StoreGame, Typed, CfgType, Entries
  <2> QED BY <2>1, <2>2, <2>3, UnwatchOne
<1>7. CASE ConfigStep
  <2>1. ASSUME NEW g \in Game, RefuseGame(g) \/ KeepGame(g) PROVE Claimed' /\ Configured'
    BY <2>1, WatchFewer DEF RefuseGame, KeepGame
  <2>2. ASSUME SendResults \/ TruncateCache \/ WriteCache PROVE Claimed' /\ Configured'
    BY <2>2, WatchFewer DEF SendResults, TruncateCache, WriteCache
  <2> QED BY <1>5, <1>6, <1>7, <2>1, <2>2 DEF ConfigStep
<1>8. CASE AnnounceStep \/ ReceiveRescan \/ HandleFileEvent \/ UNCHANGED vars
             \/ \E f \in File : Report(f)
  BY <1>8, WatchFewer DEF AnnounceStep, AnnounceOnline, AnnounceGame, FinishAnnounce, ReceiveRescan,
     HandleFileEvent, Report, vars
<1>9. CASE ReceiveRemoved
  <2> DEFINE g == Head(inbox).game
             paths == IF cfg[g] = None THEN {} ELSE {cfg[g].path}
  <2>1. g \in Game /\ cfg' = [cfg EXCEPT ![g] = None] /\ Unwatch(paths)
    BY <1>9, HeadType, MessageKinds DEF ReceiveRemoved
  <2> HIDE DEF g
  <2>2. paths \in SUBSET Path /\ (Enabled(g) => cfg[g].path \in paths)
    BY <2>1, EntryType DEF Enabled
  <2>3. \A h \in Game \ {g} : cfg'[h] = cfg[h]
    BY <2>1 DEF Typed, CfgType, Entries
  <2> HIDE DEF paths
  <2> QED BY <2>1, <2>2, <2>3, UnwatchOne
<1> QED BY <1>1, <1>2, <1>3, <1>4, <1>7, <1>8, <1>9 DEF Next, Daemon, ScanStep

\* The path of a game under scan does not change.
LEMMA ScanCfg ==
  ASSUME Typed, ScanInv, [Next]_vars, scan # None
  PROVE  UNCHANGED cfg
<1> USE DEF world, channel, memory, told
<1>1. task.kind \in {"config", "announce", "rescan"}
  BY DEF ScanInv
<1>2. task # Idle /\ task # Down
  BY <1>1 DEF Idle, Down
<1>3. CASE Environment
  BY <1>3 DEF Environment, ChangeSettings, RequestRescan, Write, Delete, MakeDir, RemoveDir,
     Reconnect, Crash
<1>4. CASE ConfigStep
  <2>1. ~ \E g \in Game : Turn(g)
    BY DEF Turn
  <2> QED BY <1>2, <1>4, <2>1 DEF ConfigStep, ReceiveConfig, RefuseGame, DisableGame, KeepGame,
         ConfigureGame, DropGame, Renewed, SendResults, TruncateCache, WriteCache
<1>5. CASE ScanStep \/ AnnounceStep
  BY <1>5 DEF ScanStep, RescanQuiet, ListSaves, AddWatches, ParseSaves, AnnounceStep,
     AnnounceOnline, AnnounceGame, FinishAnnounce
<1>6. CASE Boot \/ ReceiveRemoved \/ ReceiveRescan \/ HandleFileEvent
           \/ UNCHANGED vars \/ \E f \in File : Report(f)
  BY <1>2, <1>6 DEF Boot, ReceiveRemoved, ReceiveRescan, HandleFileEvent, Report, vars
<1> QED BY <1>3, <1>4, <1>5, <1>6 DEF Next, Daemon

\* A scan begins in one of three handlers, and goes on or ends.
LEMMA ScanBegins ==
  ASSUME Typed, OwnInv, ScanInv, [Next]_vars, scan' # None
  PROVE  \/ scan # None /\ scan'.game = scan.game /\ scan'.path = scan.path
         \/ \E g \in Game :
              /\ scan = None /\ scan'.game = g /\ scan'.path = cfg'[g].path /\ scan'.stage = "list"
              /\ \/ ConfigureGame(g) /\ scan'.quiet = FALSE
                 \/ AnnounceGame(g) /\ scan'.quiet = announced
                 \/ ReceiveRescan /\ g = Head(inbox).game /\ cfg[g] # None /\ scan'.quiet = FALSE
<1> USE DEF world, channel, memory, told
<1>1. CASE UNCHANGED scan
  BY <1>1
<1>2. CASE ScanStep
  <2>1. scan # None /\ scan \in Scans
    BY <1>2, ScanFields DEF ScanStep, RescanQuiet, ListSaves, AddWatches, ParseSaves
  <2>2. ~ \E st \in {"none", "watching", "notFound", "pluginFailed"} : EndScan(scan.game, st)
    BY DEF EndScan
  <2>3. scan'.game = scan.game /\ scan'.path = scan.path
    <3>1. ~ ParseSaves
      BY DEF ParseSaves, EndScan
    <3>2. CASE RescanQuiet \/ AddWatches
      BY <2>1, <3>2 DEF RescanQuiet, AddWatches, Scans
    <3>3. CASE ListSaves
      BY <2>1, <2>2, <3>3 DEF ListSaves, Scans
    <3> QED BY <1>2, <3>1, <3>2, <3>3 DEF ScanStep
  <2> QED BY <2>1, <2>3
<1>3. ASSUME NEW g \in Game, ConfigureGame(g)
      PROVE  /\ scan = None /\ scan'.game = g /\ scan'.path = cfg'[g].path /\ scan'.stage = "list"
             /\ scan'.quiet = FALSE
  <2>1. Turn(g) /\ StoreGame(g) /\ StartScan(g, NewPath(g), FALSE)
    BY <1>3 DEF ConfigureGame, Renewed
  <2>2. NewPath(g) \in Path /\ scan = None
    BY <2>1, TurnWish, TurnTask
  <2>3. cfg'[g].path = NewPath(g)
    BY <2>1 DEF StoreGame, Typed, CfgType, Entries
  <2>4. scan'.game = g /\ scan'.path = NewPath(g) /\ scan'.stage = "list" /\ scan'.quiet = FALSE
    BY <2>1, <2>2, StartScanType
  <2> QED BY <2>2, <2>3, <2>4
<1>4. ASSUME NEW g \in Game, AnnounceGame(g), ~ UNCHANGED scan
      PROVE  /\ scan = None /\ scan'.game = g /\ scan'.path = cfg'[g].path /\ scan'.stage = "list"
             /\ scan'.quiet = announced
  <2>1. StartScan(g, cfg[g].path, announced) /\ UNCHANGED cfg /\ scan = None /\ Enabled(g)
    BY <1>4 DEF AnnounceGame, ScanInv
  <2>2. cfg[g].path \in Path /\ announced \in BOOLEAN
    BY <2>1, EntryType DEF Enabled, Typed, FlagType
  <2>3. scan'.game = g /\ scan'.path = cfg[g].path /\ scan'.stage = "list" /\ scan'.quiet = announced
    BY <2>1, <2>2, StartScanType
  <2> QED BY <2>1, <2>3
<1>5. ASSUME ReceiveRescan, ~ UNCHANGED scan
      PROVE  LET g == Head(inbox).game IN
             /\ g \in Game /\ cfg[g] # None
             /\ scan = None /\ scan'.game = g /\ scan'.path = cfg'[g].path /\ scan'.stage = "list"
             /\ scan'.quiet = FALSE
  <2> DEFINE g == Head(inbox).game
  <2>1. /\ g \in Game /\ UNCHANGED cfg /\ cfg[g] # None /\ StartScan(g, cfg[g].path, FALSE)
    BY <1>5, HeadType, MessageKinds DEF ReceiveRescan
  <2>2. scan = None
    BY <1>5, NoScan DEF ReceiveRescan, Idle
  <2> HIDE DEF g
  <2>3. cfg[g].path \in Path
    BY <2>1, EntryType
  <2>4. scan'.game = g /\ scan'.path = cfg[g].path /\ scan'.stage = "list" /\ scan'.quiet = FALSE
    BY <2>1, <2>3, StartScanType
  <2> QED BY <2>1, <2>2, <2>4 DEF g
<1>6. CASE Environment
  BY <1>1, <1>6 DEF Environment, ChangeSettings, RequestRescan, Write, Delete, MakeDir, RemoveDir,
     Reconnect, Crash
<1>7. CASE ConfigStep
  <2>1. CASE \E g \in Game : ConfigureGame(g)
    BY <1>3, <2>1
  <2>2. CASE ~ \E g \in Game : ConfigureGame(g)
    <3>1. UNCHANGED scan
      BY <1>7, <2>2 DEF ConfigStep, ReceiveConfig, RefuseGame, DisableGame, KeepGame, DropGame,
         SendResults, TruncateCache, WriteCache
    <3> QED BY <1>1, <3>1
  <2> QED BY <2>1, <2>2
<1>8. CASE AnnounceStep
  <2>1. CASE UNCHANGED scan
    BY <1>1, <2>1
  <2>2. CASE ~ UNCHANGED scan
    <3>1. \E g \in Game : AnnounceGame(g)
      BY <1>8, <2>2 DEF AnnounceStep, AnnounceOnline, FinishAnnounce
    <3> QED BY <1>4, <2>2, <3>1
  <2> QED BY <2>1, <2>2
<1>9. CASE ReceiveRescan
  <2>1. CASE UNCHANGED scan
    BY <1>1, <2>1
  <2>2. CASE ~ UNCHANGED scan
    BY <1>5, <1>9, <2>2
  <2> QED BY <2>1, <2>2
<1>10. CASE Boot \/ ReceiveRemoved \/ HandleFileEvent \/ UNCHANGED vars
            \/ \E f \in File : Report(f)
  BY <1>1, <1>10 DEF Boot, ReceiveRemoved, HandleFileEvent, Report, vars
<1> QED BY <1>2, <1>6, <1>7, <1>8, <1>9, <1>10 DEF Next, Daemon

LEMMA NextScanOn ==
  ASSUME Typed, OwnInv, ScanInv, MailInv, WatchInv, [Next]_vars
  PROVE  ScanOn'
<1> SUFFICES ASSUME NEW g \in Game, scan' # None, scan'.game = g, Followed(g)'
             PROVE  Enabled(g)'
  BY DEF ScanOn
<1>1. Followed(g)
  BY FollowedStep
<1>2. CASE scan # None /\ scan'.game = scan.game
  BY <1>1, <1>2, ScanCfg DEF WatchInv, ScanOn, Enabled
<1>3. CASE ConfigureGame(g)
  <2>1. Turn(g) /\ StoreGame(g) /\ task.update[g].enabled
    BY <1>3 DEF ConfigureGame, Renewed
  <2>2. cfg'[g] = [path |-> NewPath(g), enabled |-> task.update[g].enabled] /\ cfg' \in Entries
    BY <2>1, StoreType DEF StoreGame, Typed, CfgType, Entries
  <2>3. cfg'[g] \in Entry /\ cfg'[g].enabled
    BY <2>1, <2>2, TurnWish DEF Entry
  <2> QED BY <2>3 DEF Enabled
<1>4. CASE AnnounceGame(g)
  BY <1>4 DEF AnnounceGame, ScanInv, Enabled, memory
<1>5. CASE ReceiveRescan /\ g = Head(inbox).game /\ cfg[g] # None
  <2>1. /\ Head(inbox) = inbox[1] /\ inbox[1].kind = "rescan" /\ inbox[1].game = g
        /\ 1 \in 1..Len(inbox) /\ task = Idle /\ UNCHANGED cfg
    BY <1>5, TailItems DEF ReceiveRescan, Typed, MailType, memory
  <2>2. budget["rescan"] # Budget["rescan"]
    BY <2>1 DEF WatchInv, NoRescan
  <2>3. budget["crash"] = Budget["crash"] /\ Trusted(g)
    BY <1>1, <2>2, FollowedTrusted
  <2>4. AtRescan(g)
    BY <2>3 DEF MailInv, FollowInv
  <2>5. Now(g)
    <3>1. 1..1-1 = {}
      OBVIOUS
    <3> QED BY <2>1, <2>4, <3>1 DEF AtRescan
  <2>6. cfg[g].enabled
    BY <1>5, <2>1, <2>5 DEF Now, Idle
  <2> QED BY <1>5, <2>1, <2>6 DEF Enabled
<1> QED BY <1>2, <1>3, <1>4, <1>5, ScanBegins

LEMMA NextWatch ==
  ASSUME Typed, OwnInv, ScanInv, MailInv, WatchInv, [Next]_vars
  PROVE  WatchInv'
BY NextWatched, NextScanOn, NextRescan DEF WatchInv

LEMMA InitInv == Init => OwnInv /\ ScanInv /\ CacheInv /\ MailInv /\ WatchInv
<1> SUFFICES ASSUME Init PROVE OwnInv /\ ScanInv /\ CacheInv /\ MailInv /\ WatchInv
  OBVIOUS
<1>1. OwnInv /\ ScanInv /\ CacheInv
  BY DEF Init, OwnInv, OwnWish, OwnEntry, ScanInv, CacheInv, NoGames, Idle
<1>2. inbox = <<>> /\ Len(inbox) = 0 /\ 1..Len(inbox) = {} /\ task = Idle /\ inotify = {}
      /\ scan = None /\ cfg = NoGames
  BY DEF Init
<1>3. WatchInv
  BY <1>2 DEF WatchInv, Claimed, Configured, ScanOn, NoRescan
<1>4. LastSent /\ LastRead /\ Off
  BY <1>2 DEF LastSent, LastRead, Off, Idle, Down
<1>5. FollowInv
  BY <1>2 DEF FollowInv, AtRescan, Now, NoGames, Idle
<1> QED BY <1>1, <1>3, <1>4, <1>5 DEF MailInv

\* The kernel watches only directories of games that are configured and
\* enabled, whatever became of their paths, plugins and directories
\* (unwatchGame, removeStaleGames, handlePushSaveResult): between the update
\* that gives a game's path up and the removal of its watches no step of the
\* loop intervenes, and a scan watches for a game only while it is configured
\* with the scanned path.
THEOREM WatchCorrect == Spec => []WatchesConfigured
<1> DEFINE Inv == Typed /\ OwnInv /\ ScanInv /\ MailInv /\ WatchInv
<1>1. Init => Inv
  BY InitType, InitInv
<1>2. Inv /\ [Next]_vars => Inv'
  BY NextType, NextOwn, NextScan, NextMail, NextWatch
<1>3. Inv => WatchesConfigured
  BY DEF WatchInv, Claimed, Configured, WatchesConfigured
<1> HIDE DEF Inv
<1> QED BY <1>1, <1>2, <1>3, PTL DEF Spec


-----------------------------------------------------------------------------
(* Pushes for a game the server does not have.                              *)

\* A file becomes known as pushed by a parse for a game, and is forgotten with
\* its directory.
LEMMA ParsePushes ==
  ASSUME Typed, NEW g \in Game, NEW files \in SUBSET File, NEW data \in [files -> Nat],
         ParseAndPush(g, data), UNCHANGED <<server, cfg>>, NEW f \in File
  PROVE  \/ pushed'[f] = pushed[f]
         \/ /\ pushed'[f] \in {g} \X Nat /\ UNCHANGED <<server, cfg>>
            /\ inbox' = IF server[g] = None THEN Append(inbox, [kind |-> "removed", game |-> g])
                                            ELSE inbox
<1>1. UNCHANGED server
  OBVIOUS
<1>2. f \in files => <<g, data[f]>> \in {g} \X Nat
  OBVIOUS
<1>3. \/ pushed'[f] = pushed[f]
      \/ /\ f \in files /\ pushed'[f] = <<g, data[f]>>
         /\ inbox' = IF server[g] = None THEN Append(inbox, [kind |-> "removed", game |-> g])
                                         ELSE inbox
  BY <1>1, ParseType
<1>4. CASE pushed'[f] = pushed[f]
  BY <1>4
<1>5. CASE pushed'[f] # pushed[f]
  <2>1. pushed'[f] \in {g} \X Nat
    BY <1>2, <1>3, <1>5
  <2> QED BY <1>3, <1>5, <2>1
<1> QED BY <1>4, <1>5

LEMMA PushStep ==
  ASSUME Typed, [Next]_vars, NEW f \in File
  PROVE  \/ pushed'[f] = pushed[f]
         \/ pushed'[f] = None
         \/ \E g \in Game :
              /\ pushed'[f] \in {g} \X Nat /\ UNCHANGED <<server, cfg>>
              /\ inbox' = IF server[g] = None THEN Append(inbox, [kind |-> "removed", game |-> g])
                                              ELSE inbox
<1> USE DEF world, channel, memory, told
<1>1. CASE Environment \/ RescanQuiet \/ ListSaves \/ AddWatches \/ AnnounceStep \/ ReceiveRescan
           \/ UNCHANGED vars \/ \E e \in File : Report(e)
  BY <1>1 DEF Environment, ChangeSettings, RequestRescan, Write, Delete, MakeDir, RemoveDir,
     Reconnect, Crash, RescanQuiet, ListSaves, AddWatches, AnnounceStep, AnnounceOnline,
     AnnounceGame, FinishAnnounce, ReceiveRescan, Report, vars
<1>2. CASE Boot
  BY <1>2 DEF Boot
<1>3. CASE ConfigStep \/ ReceiveRemoved
  <2>1. CASE UNCHANGED pushed
    BY <2>1
  <2>2. CASE \E paths : Unwatch(paths)
    BY <2>2 DEF Unwatch
  <2> QED BY <1>3, <2>1, <2>2 DEF ConfigStep, ReceiveConfig, RefuseGame, DisableGame, KeepGame,
         ConfigureGame, DropGame, Renewed, SendResults, TruncateCache, WriteCache, ReceiveRemoved
<1>4. CASE ParseSaves
  <2> DEFINE g == scan.game
             files == scan.found
             data == [e \in files |-> disk[e]]
  <2>1. /\ g \in Game /\ files \in SUBSET File /\ ParseAndPush(g, data)
        /\ UNCHANGED <<server, cfg>>
    BY <1>4, ScanFields DEF ParseSaves
  <2>2. data \in [files -> Nat]
    BY <2>1 DEF Typed, DiskType
  <2> HIDE DEF g, files, data
  <2> QED BY <2>1, <2>2, ParsePushes
<1>5. CASE HandleFileEvent
  <2>1. PICK e \in File, n \in Nat, g \in Game \cup {None} : HandleParts(e, n, g)
    BY <1>5, HandleEvent
  <2>2. UNCHANGED <<server, cfg>>
    BY <1>5 DEF HandleFileEvent
  <2>3. CASE g = None
    BY <2>1, <2>3 DEF HandleParts
  <2>4. CASE g # None
    <3> DEFINE data == [d \in {e} |-> n]
    <3>1. g \in Game /\ ParseAndPush(g, data) /\ {e} \in SUBSET File /\ data \in [{e} -> Nat]
      BY <2>1, <2>4 DEF HandleParts
    <3> HIDE DEF data
    <3> QED BY <2>2, <3>1, ParsePushes
  <2> QED BY <2>3, <2>4
<1> QED BY <1>1, <1>2, <1>3, <1>4, <1>5 DEF Next, Daemon, ScanStep

LEMMA NextUnknown ==
  ASSUME Typed, OwnInv, ScanInv, MailInv, UnknownInv, [Next]_vars
  PROVE  UnknownInv'
<1> SUFFICES ASSUME task'.kind # "down", NoConfig', NEW g \in Game, server'[g] = None,
                    cfg'[g] # None, NEW f \in File, pushed'[f] # None, pushed'[f][1] = g
             PROVE  \E i \in 1..Len(inbox') : inbox'[i].kind = "removed" /\ inbox'[i].game = g
  BY DEF UnknownInv, NoConfig
<1>0. inbox \in Seq(Message)
  BY DEF Typed, MailType
<1>1. ~ Crash /\ ~ Boot /\ task # Down /\ task.kind # "down"
  <2>1. ~ Crash
    BY DEF Crash, Down
  <2>2. ~ Boot
    BY DEF Boot
  <2>3. task # Down
    BY <2>1, <2>2, DownStep DEF Down
  <2> QED BY <2>1, <2>2, <2>3, TaskKinds DEF Typed, TaskType
<1>2. UNCHANGED server /\ IF ReceiveConfig THEN \A j \in 1+1..Len(inbox) : inbox[j].kind # "config"
                                           ELSE NoConfig
  BY <1>1, NoConfigStep DEF MailInv
<1>3. ~ ReceiveConfig
  <2> SUFFICES ASSUME ReceiveConfig PROVE FALSE
    OBVIOUS
  <2>1. Head(inbox) = inbox[1] /\ Head(inbox).kind = "config" /\ 1 \in 1..Len(inbox)
    BY TailItems DEF ReceiveConfig, Typed, MailType
  <2>2. Head(inbox).games = server
    BY <1>2, <2>1 DEF MailInv, LastSent
  <2> QED BY <1>2, <2>2 DEF ReceiveConfig
<1>4. cfg'[g] = cfg[g]
  <2>1. ASSUME ConfigureGame(g) \/ DisableGame(g) PROVE FALSE
    <3>1. Turn(g) /\ task.kind = "config"
      BY <2>1, TurnKind
    <3>2. task.update = server
      BY <1>2, <1>3, <3>1 DEF MailInv, LastRead
    <3> QED BY <1>2, <3>1, <3>2, TurnWish
  <2> QED BY <1>1, <2>1, CfgStep
<1>5. CASE pushed'[f] = pushed[f]
  <2>1. PICK i \in 1..Len(inbox) : inbox[i].kind = "removed" /\ inbox[i].game = g
    BY <1>1, <1>2, <1>3, <1>4, <1>5 DEF UnknownInv
  <2>2. CASE UNCHANGED inbox
    BY <2>1, <2>2
  <2>3. ASSUME NEW m \in Message, inbox' = Append(inbox, m)
        PROVE  \E k \in 1..Len(inbox') : inbox'[k].kind = "removed" /\ inbox'[k].game = g
    BY <1>0, <2>1, <2>3, AppendItems
  <2>4. CASE (ReceiveRemoved \/ ReceiveRescan) /\ inbox # <<>> /\ inbox' = Tail(inbox)
    <3>1. Head(inbox) = inbox[1]
      BY <1>0, <2>4, TailItems
    <3>2. i # 1
      <4>1. CASE ReceiveRemoved
        BY <1>4, <3>1, <2>1, <4>1 DEF ReceiveRemoved, Typed, CfgType, Entries
      <4>2. CASE ReceiveRescan
        BY <3>1, <2>1, <4>2 DEF ReceiveRescan
      <4> QED BY <2>4, <4>1, <4>2
    <3>3. i \in 2..Len(inbox)
      BY <3>2
    <3>4. i - 1 \in 1..Len(inbox') /\ inbox'[i - 1] = inbox[i]
      BY <1>0, <2>4, <3>3, TailItems
    <3> QED BY <2>1, <3>4
  <2> QED BY <1>1, <1>3, <2>2, <2>3, <2>4, MailStep
<1>6. ASSUME NEW h \in Game, pushed'[f] \in {h} \X Nat,
             inbox' = IF server[h] = None THEN Append(inbox, [kind |-> "removed", game |-> h])
                                          ELSE inbox
      PROVE  \E i \in 1..Len(inbox') : inbox'[i].kind = "removed" /\ inbox'[i].game = g
  <2>1. h = g
    BY <1>6
  <2> DEFINE m == [kind |-> "removed", game |-> g]
  <2>2. m \in Message /\ m.kind = "removed" /\ m.game = g
    BY Messages
  <2>3. inbox' = Append(inbox, m)
    BY <1>2, <1>6, <2>1
  <2> HIDE DEF m
  <2>4. Len(inbox) + 1 \in 1..Len(inbox') /\ inbox'[Len(inbox) + 1] = m
    BY <1>0, <2>2, <2>3, AppendItems
  <2> QED BY <2>2, <2>4
<1> QED BY <1>5, <1>6, PushStep

\* A game the server does not have, because the user removed it while the
\* daemon was down or an update died with it, is no longer watched once
\* something of it was pushed (PushSaveResult with GAME_REMOVED): the answer
\* to the push is under way until it is read, and ends the watches.
THEOREM UnknownCorrect == Spec => []UnknownGamesStop
<1> DEFINE Inv == Typed /\ OwnInv /\ ScanInv /\ MailInv /\ WatchInv /\ UnknownInv
<1>1. Init => Inv
  <2>1. Init => UnknownInv
    BY DEF Init, UnknownInv, NoGames
  <2> QED BY <2>1, InitType, InitInv
<1>2. Inv /\ [Next]_vars => Inv'
  BY NextType, NextOwn, NextScan, NextMail, NextWatch, NextUnknown
<1>3. Inv => UnknownGamesStop
  <2> SUFFICES ASSUME Inv, AtRest, NEW d \in inotify, Followed(watchedDirs[d]),
                      server[watchedDirs[d]] = None, NEW f \in File
               PROVE  pushed[f] = None \/ pushed[f][1] # watchedDirs[d]
    BY DEF UnknownGamesStop
  <2>1. watchedDirs[d] \in Game /\ cfg[watchedDirs[d]] # None
    BY DEF WatchInv, Claimed, Configured, Enabled
  <2>2. task.kind # "down" /\ Len(inbox) = 0 /\ 1..Len(inbox) = {}
    BY DEF AtRest, Idle
  <2>3. NoConfig
    BY <2>2 DEF NoConfig
  <2> QED BY <2>1, <2>2, <2>3 DEF UnknownInv
<1> HIDE DEF Inv
<1> QED BY <1>1, <1>2, <1>3, PTL DEF Spec


-----------------------------------------------------------------------------
(* Saves are pushed.                                                        *)

LEMMA SaveParts ==
  ASSUME Typed, NEW p \in Path, NEW f \in Saves(Resolve(p))
  PROVE  /\ f \in File /\ DirOf[f] \in Dir /\ DirOf[f] \in exists /\ DirOf[f] \in Matches[p]
         /\ disk[f] > 0 /\ DirOf[f] \in Resolve(p)
BY ResolveMatches DEF Saves

\* Nobody else's path names a directory of the game.
LEMMA Apart ==
  ASSUME Typed, OwnInv, Disjoint, NEW g \in Game, NEW h \in Game, g # h, NEW p \in Path,
         cfg[g] # None, IsPath(h, p)
  PROVE  Matches[cfg[g].path] \cap Matches[p] = {}
<1>1. cfg[g].path \in Path /\ IsPath(g, cfg[g].path)
  BY EntryType DEF OwnInv, OwnEntry
<1> QED BY <1>1 DEF Disjoint

LEMMA PendingKept ==
  ASSUME NEW f \in File, f \in dirty => f \in dirty', f \in stale => f \in stale', UNCHANGED events,
         Pending(f)
  PROVE  Pending(f)'
BY DEF Pending, HasEvent

\* The world of a game that is left alone.
LEMMA WatchedKept ==
  ASSUME Typed, NEW g \in Game, Enabled(g), Watched(g), cfg'[g] = cfg[g],
         \A f \in File : DirOf[f] \in Matches[cfg[g].path] /\ DirOf[f] \in exists /\ disk[f] > 0
                         /\ watchedDirs[DirOf[f]] = g /\ DirOf[f] \in inotify
                         /\ (pushed[f] = <<g, disk[f]>> \/ Pending(f)) =>
           /\ watchedDirs'[DirOf[f]] = g /\ DirOf[f] \in inotify'
           /\ pushed'[f] = <<g, disk[f]>> \/ Pending(f)',
         UNCHANGED <<exists, disk>>
  PROVE  Watched(g)'
<1>1. cfg[g].path \in Path
  BY EntryType DEF Enabled
<1>2. \A f \in Saves(Resolve(cfg[g].path)) :
        /\ f \in File /\ DirOf[f] \in Matches[cfg[g].path] /\ DirOf[f] \in exists /\ disk[f] > 0
  BY <1>1, SaveParts
<1>3. Saves(Resolve(cfg[g].path))' = Saves(Resolve(cfg[g].path))
  BY DEF Saves, Resolve
<1> QED BY <1>2, <1>3 DEF Watched

LEMMA SafeUnwatch ==
  ASSUME Typed, OwnInv, Disjoint, NEW g \in Game, Enabled(g), Watched(g), cfg'[g] = cfg[g],
         NEW paths \in SUBSET Path, Unwatch(paths), UNCHANGED <<exists, disk, stale, events>>,
         \A p \in paths : \E h \in Game \ {g} : IsPath(h, p)
  PROVE  Watched(g)'
<1>1. \A d \in Dir : d \in Matches[cfg[g].path] => d \notin UNION {Resolve(p) : p \in paths}
  <2> SUFFICES ASSUME NEW d \in Matches[cfg[g].path], NEW p \in paths PROVE d \notin Resolve(p)
    OBVIOUS
  <2>1. PICK h \in Game \ {g} : IsPath(h, p)
    OBVIOUS
  <2>2. Matches[cfg[g].path] \cap Matches[p] = {}
    BY <2>1, Apart DEF Enabled
  <2>3. Resolve(p) \subseteq Matches[p]
    BY ResolveMatches
  <2> QED BY <2>2, <2>3
<1>2. \A f \in File : DirOf[f] \in Matches[cfg[g].path] =>
        /\ watchedDirs'[DirOf[f]] = watchedDirs[DirOf[f]]
        /\ DirOf[f] \in inotify => DirOf[f] \in inotify'
        /\ pushed'[f] = pushed[f]
        /\ f \in dirty => f \in dirty'
  BY <1>1 DEF Unwatch
<1>3. \A f \in File : DirOf[f] \in Matches[cfg[g].path] /\ Pending(f) => Pending(f)'
  BY <1>2, PendingKept
<1> QED BY <1>2, <1>3, WatchedKept

-----------------------------------------------------------------------------
(* The watcher's channel.                                                   *)

LEMMA ChannelFewer ==
  ASSUME ChannelInv, UNCHANGED events,
         \A f \in File : Calm(f)' => Calm(f) /\ disk'[f] = disk[f]
  PROVE  ChannelInv'
<1> SUFFICES ASSUME NEW f \in File, Calm(f)' PROVE Latest(f)'
  BY DEF ChannelInv
<1>1. Latest(f) /\ disk'[f] = disk[f]
  BY DEF ChannelInv
<1> QED BY <1>1 DEF Latest

\* What is left when the first event is taken.
LEMMA TailEvents ==
  ASSUME NEW s \in Seq(Event), s # <<>>, NEW t, t = Tail(s)
  PROVE  /\ Len(s) \in Nat \ {0} /\ Len(t) = Len(s) - 1 /\ Head(s) = s[1]
         /\ \A i \in 1..Len(t) : i + 1 \in 2..Len(s) /\ t[i] = s[i + 1]
         /\ \A i \in 2..Len(s) : i - 1 \in 1..Len(t) /\ t[i - 1] = s[i]
OBVIOUS

LEMMA HeadLatest ==
  ASSUME Typed, ChannelInv, HandleFileEvent, NEW e \in File, NEW n \in Nat,
         Head(events) = [file |-> e, version |-> n]
  PROVE  /\ \A f \in File : f # e /\ HasEvent(f) => HasEvent(f)'
         /\ Calm(e) => n = disk[e] \/ HasEvent(e)'
<1>1. events \in Seq(Event) /\ events # <<>> /\ events' = Tail(events)
  BY DEF Typed, ChanType, HandleFileEvent
<1>2. /\ Len(events) \in Nat \ {0}
      /\ \A i \in 2..Len(events) : i - 1 \in 1..Len(events') /\ events'[i - 1] = events[i]
      /\ Head(events) = events[1]
  BY <1>1, TailEvents
<1>3. events[1].file = e /\ events[1].version = n
  BY <1>2
<1>4. ASSUME NEW f \in File, NEW i \in 2..Len(events), events[i].file = f PROVE HasEvent(f)'
  BY <1>2, <1>4 DEF HasEvent
<1>5. ASSUME NEW f \in File, f # e, HasEvent(f) PROVE HasEvent(f)'
  <2>1. PICK i \in 1..Len(events) : events[i].file = f
    BY <1>5 DEF HasEvent
  <2>2. i \in 2..Len(events)
    BY <1>2, <1>3, <1>5, <2>1
  <2> QED BY <1>4, <2>1, <2>2
<1>6. ASSUME Calm(e), n # disk[e] PROVE HasEvent(e)'
  <2>1. Latest(e) /\ 1 \in 1..Len(events)
    BY <1>2, <1>6 DEF ChannelInv
  <2>2. PICK j \in 1+1..Len(events) : events[j].file = e
    BY <1>3, <1>6, <2>1 DEF Latest
  <2>3. j \in 2..Len(events)
    BY <1>2
  <2> QED BY <1>4, <2>2, <2>3
<1> QED BY <1>5, <1>6

\* A timer that fires appends an event, unless the file has gone.
LEMMA Reported ==
  ASSUME Typed, NEW e \in File, Report(e)
  PROVE  \/ disk[e] = 0 /\ UNCHANGED <<events, stale>>
         \/ /\ stale' = stale \ {e} /\ Len(events) \in Nat /\ Len(events') = Len(events) + 1
            /\ events'[Len(events) + 1].file = e /\ events'[Len(events) + 1].version = disk[e]
            /\ \A i \in 1..Len(events) : i \in 1..Len(events') /\ events'[i] = events[i]
            /\ \A i \in 1..Len(events') : i \in 1..Len(events) \/ i = Len(events) + 1
<1>1. CASE disk[e] = 0
  BY <1>1 DEF Report
<1>2. CASE disk[e] # 0
  <2> DEFINE v == [file |-> e, version |-> disk[e]]
  <2>1. events \in Seq(Event) /\ v \in Event
    BY DEF Typed, ChanType, DiskType, Event
  <2>2. events' = Append(events, v) /\ stale' = stale \ {e}
    BY <1>2 DEF Report
  <2>3. v.file = e /\ v.version = disk[e]
    OBVIOUS
  <2> HIDE DEF v
  <2>4. /\ Len(events) \in Nat /\ Len(events') = Len(events) + 1
        /\ events'[Len(events) + 1] = v
        /\ \A i \in 1..Len(events) : i \in 1..Len(events') /\ events'[i] = events[i]
        /\ \A i \in 1..Len(events') : i \in 1..Len(events) \/ i = Len(events) + 1
    BY <2>1, <2>2
  <2> QED BY <2>2, <2>3, <2>4
<1> QED BY <1>1, <1>2

LEMMA ReportPending ==
  ASSUME Typed, NEW e \in File, Report(e), NEW f \in File, disk[f] > 0, Pending(f)
  PROVE  Pending(f)'
<1>1. dirty' = dirty \ {e}
  BY DEF Report
<1>2. HasEvent(f) => HasEvent(f)'
  BY Reported DEF HasEvent
<1>3. CASE f # e
  BY <1>1, <1>2, <1>3, Reported DEF Pending
<1>4. CASE f = e
  <2>1. disk[e] # 0 /\ disk[e] \in Nat
    BY <1>4 DEF Typed, DiskType
  <2>2. HasEvent(e)'
    BY <2>1, Reported DEF HasEvent
  <2> QED BY <1>4, <2>2 DEF Pending
<1> QED BY <1>3, <1>4

LEMMA NextChannel ==
  ASSUME Typed, ChannelInv, [Next]_vars
  PROVE  ChannelInv'
<1> USE DEF world, channel, memory, told
<1>0. /\ disk \in [File -> Nat] /\ inotify \subseteq exists /\ dirty \subseteq File
      /\ events \in Seq(Event)
  BY DEF Typed, DiskType, WatchType, ChanType
<1>1. CASE UNCHANGED <<disk, inotify, dirty, stale, events>>
  BY <1>1, ChannelFewer DEF Calm
<1>2. ASSUME NEW paths, Unwatch(paths), UNCHANGED <<disk, stale, events>> PROVE ChannelInv'
  BY <1>2, ChannelFewer DEF Calm, Unwatch
<1>3. CASE Environment
  <2>1. ASSUME NEW e \in File, Write(e) PROVE ChannelInv'
    BY <1>0, <2>1, ChannelFewer DEF Calm, Write
  <2>2. ASSUME NEW e \in File, Delete(e) PROVE ChannelInv'
    BY <1>0, <2>2, ChannelFewer DEF Calm, Delete
  <2>3. ASSUME NEW e \in File, MakeDir(e) PROVE ChannelInv'
    BY <1>0, <2>3, ChannelFewer DEF Calm, MakeDir
  <2>4. ASSUME NEW d \in Dir, RemoveDir(d) PROVE ChannelInv'
    BY <1>0, <2>4, ChannelFewer DEF Calm, RemoveDir
  <2>5. ASSUME Crash PROVE ChannelInv'
    BY <2>5 DEF ChannelInv, Calm, Crash
  <2>6. ASSUME Reconnect \/ \E g \in Game : ChangeSettings(g) \/ RequestRescan(g)
        PROVE  ChannelInv'
    BY <1>1, <2>6 DEF Reconnect, ChangeSettings, RequestRescan
  <2> QED BY <1>3, <2>1, <2>2, <2>3, <2>4, <2>5, <2>6 DEF Environment
<1>4. CASE AddWatches
  <2> DEFINE dirs == {DirOf[f] : f \in scan.found} \cap exists
  <2>1. /\ inotify' = inotify \cup dirs /\ UNCHANGED <<disk, dirty, events>>
        /\ stale' = {f \in File : IF DirOf[f] \in dirs \ inotify THEN HasEvent(f) ELSE f \in stale}
    BY <1>4 DEF AddWatches, Renew
  <2> HIDE DEF dirs
  <2> SUFFICES ASSUME NEW f \in File, Calm(f)' PROVE Latest(f)'
    BY DEF ChannelInv
  <2>2. CASE DirOf[f] \in dirs \ inotify
    <3>1. ~ HasEvent(f)
      BY <2>1, <2>2 DEF Calm
    <3> QED BY <2>1, <3>1 DEF HasEvent, Latest
  <2>3. CASE DirOf[f] \notin dirs \ inotify
    <3>1. Calm(f)
      BY <2>1, <2>3 DEF Calm
    <3> QED BY <2>1, <3>1 DEF ChannelInv, Latest
  <2> QED BY <2>2, <2>3
<1>5. CASE RescanQuiet \/ ListSaves \/ ParseSaves \/ AnnounceStep \/ ReceiveRescan \/ Boot
           \/ UNCHANGED vars
  BY <1>1, <1>5 DEF RescanQuiet, ListSaves, ParseSaves, AnnounceStep, AnnounceOnline, AnnounceGame,
     FinishAnnounce, ReceiveRescan, Boot, vars
<1>6. CASE ConfigStep \/ ReceiveRemoved
  <2>1. \/ UNCHANGED <<disk, inotify, dirty, stale, events>>
        \/ (\E paths : Unwatch(paths)) /\ UNCHANGED <<disk, stale, events>>
    BY <1>6 DEF ConfigStep, ReceiveConfig, RefuseGame, DisableGame, KeepGame, ConfigureGame,
       DropGame, Renewed, SendResults, TruncateCache, WriteCache, ReceiveRemoved
  <2> QED BY <1>1, <1>2, <2>1
<1>7. CASE HandleFileEvent
  <2>1. UNCHANGED <<disk, inotify, dirty, stale>> /\ events' = Tail(events) /\ events # <<>>
    BY <1>7 DEF HandleFileEvent
  <2>2. /\ Len(events) \in Nat \ {0} /\ Len(events') = Len(events) - 1
        /\ \A i \in 1..Len(events') : i + 1 \in 2..Len(events) /\ events'[i] = events[i + 1]
        /\ \A i \in 2..Len(events) : i - 1 \in 1..Len(events') /\ events'[i - 1] = events[i]
    BY <1>0, <2>1, TailEvents
  <2> SUFFICES ASSUME NEW f \in File, Calm(f)', NEW i \in 1..Len(events'), events'[i].file = f,
                      events'[i].version # disk'[f]
               PROVE  \E j \in i+1..Len(events') : events'[j].file = f
    BY DEF ChannelInv, Latest
  <2>3. Latest(f)
    BY <2>1 DEF ChannelInv, Calm
  <2>4. i + 1 \in 1..Len(events) /\ events[i + 1].file = f /\ events[i + 1].version # disk[f]
    BY <2>1, <2>2
  <2>5. PICK j \in (i+1)+1..Len(events) : events[j].file = f
    BY <2>3, <2>4 DEF Latest
  <2>6. j \in 2..Len(events) /\ j - 1 \in i+1..Len(events')
    BY <2>2
  <2>7. events'[j - 1].file = f
    BY <2>2, <2>5, <2>6
  <2> QED BY <2>6, <2>7
<1>8. ASSUME NEW e \in File, Report(e) PROVE ChannelInv'
  <2>1. UNCHANGED <<disk, inotify>> /\ dirty' = dirty \ {e}
    BY <1>8 DEF Report
  <2>2. CASE disk[e] = 0 /\ UNCHANGED <<events, stale>>
    BY <1>0, <2>1, <2>2, ChannelFewer DEF Calm
  <2>3. CASE ~ (disk[e] = 0 /\ UNCHANGED <<events, stale>>)
    <3>1. /\ stale' = stale \ {e} /\ Len(events) \in Nat /\ Len(events') = Len(events) + 1
          /\ events'[Len(events) + 1].file = e /\ events'[Len(events) + 1].version = disk[e]
          /\ \A i \in 1..Len(events) : i \in 1..Len(events') /\ events'[i] = events[i]
          /\ \A i \in 1..Len(events') : i \in 1..Len(events) \/ i = Len(events) + 1
      BY <1>8, <2>3, Reported
    <3> SUFFICES ASSUME NEW f \in File, Calm(f)', NEW i \in 1..Len(events'), events'[i].file = f,
                        events'[i].version # disk'[f]
                 PROVE  \E j \in i+1..Len(events') : events'[j].file = f
      BY DEF ChannelInv, Latest
    <3>2. i \in 1..Len(events) /\ events[i].file = f /\ events[i].version # disk[f]
      BY <2>1, <3>1
    <3>3. CASE f = e
      <4>1. Len(events) + 1 \in i+1..Len(events')
        BY <3>1, <3>2
      <4> QED BY <3>1, <3>3, <4>1
    <3>4. CASE f # e
      <4>1. Latest(f)
        BY <2>1, <3>1, <3>4 DEF ChannelInv, Calm
      <4>2. PICK j \in i+1..Len(events) : events[j].file = f
        BY <3>2, <4>1 DEF Latest
      <4>3. j \in 1..Len(events) /\ j \in i+1..Len(events')
        BY <3>1, <3>2
      <4> QED BY <3>1, <4>2, <4>3
    <3> QED BY <3>3, <3>4
  <2> QED BY <2>2, <2>3
<1> QED BY <1>3, <1>4, <1>5, <1>6, <1>7, <1>8 DEF Next, Daemon, ScanStep

-----------------------------------------------------------------------------
(* Every step keeps what is watched pushed, or about to be.                 *)

LEMMA PushKept ==
  ASSUME Safe, Found,
         UNCHANGED <<cfg, report, scan, watchedDirs, inotify, exists, disk, dirty, stale, events, pushed>>
  PROVE  Safe' /\ Found'
<1>1. Safe'
  BY DEF Safe, Watched, Saves, Resolve, Enabled, Pending, HasEvent
<1>2. Found'
  BY DEF Found, Saves, Resolve
<1> QED BY <1>1, <1>2

\* The disk changes.
LEMMA PushEnvironment ==
  ASSUME Typed, OwnInv, ScanInv, Disjoint, Budget["late"] = 0, Safe, Found, Environment, ~ Crash
  PROVE  Safe' /\ Found'
<1> USE DEF world, channel, memory, told
<1>1. CASE Reconnect \/ \E g \in Game : ChangeSettings(g) \/ RequestRescan(g)
  BY <1>1, PushKept DEF Reconnect, ChangeSettings, RequestRescan
<1>2. ASSUME NEW e \in File, Write(e) PROVE Safe' /\ Found'
  <2>1. /\ disk' = [disk EXCEPT ![e] = @ + 1] /\ disk \in [File -> Nat] /\ disk[e] > 0
        /\ dirty' = IF DirOf[e] \in inotify THEN dirty \cup {e} ELSE dirty
        /\ UNCHANGED <<cfg, report, scan, watchedDirs, inotify, exists, stale, events, pushed>>
    BY <1>2 DEF Write, Typed, DiskType
  <2>2. \A f \in File : disk'[f] > 0 <=> disk[f] > 0
    BY <2>1
  <2>3. \A p \in Path : Saves(Resolve(p))' = Saves(Resolve(p))
    BY <2>1, <2>2 DEF Saves, Resolve
  <2>4. ASSUME NEW g \in Game, Enabled(g), Watched(g) PROVE Watched(g)'
    <3>1. cfg[g].path \in Path /\ cfg'[g] = cfg[g]
      BY <2>1, <2>4, EntryType DEF Enabled
    <3>2. Saves(Resolve(cfg[g].path))' = Saves(Resolve(cfg[g].path))
      BY <2>1, <2>2, <3>1 DEF Saves, Resolve
    <3>3. \A f \in Saves(Resolve(cfg[g].path)) :
            /\ watchedDirs'[DirOf[f]] = g /\ DirOf[f] \in inotify'
            /\ pushed'[f] = <<g, disk'[f]>> \/ Pending(f)'
      <4> TAKE f \in Saves(Resolve(cfg[g].path))
      <4>1. /\ watchedDirs[DirOf[f]] = g /\ DirOf[f] \in inotify
            /\ pushed[f] = <<g, disk[f]>> \/ Pending(f)
        BY <2>4 DEF Watched
      <4>2. f \in File
        BY <3>1, SaveParts
      <4>3. CASE f = e
        BY <2>1, <4>1, <4>3 DEF Pending
      <4>4. CASE f # e
        <5>1. Pending(f) => Pending(f)'
          BY <2>1, <4>2, PendingKept
        <5> QED BY <2>1, <4>1, <4>2, <4>4, <5>1
      <4> QED BY <4>3, <4>4
    <3> QED BY <3>1, <3>2, <3>3 DEF Watched
  <2>5. Safe'
    BY <2>1, <2>4 DEF Safe, Enabled
  <2>6. Found'
    <3>1. scan # None => scan.path \in Path
      BY ScanFields
    <3> QED BY <2>1, <2>3, <3>1 DEF Found
  <2> QED BY <2>5, <2>6
<1>3. ASSUME UNCHANGED <<cfg, report, scan, watchedDirs, stale, events, pushed>>,
             exists' \subseteq exists, inotify' = inotify \cap exists',
             \A f \in File : DirOf[f] \in exists' /\ disk'[f] > 0 =>
               disk'[f] = disk[f] /\ disk[f] > 0 /\ (f \in dirty => f \in dirty')
      PROVE  Safe' /\ Found'
  <2>1. \A p \in Path : Saves(Resolve(p))' \subseteq Saves(Resolve(p))
    BY <1>3 DEF Saves, Resolve
  <2>2. \A p \in Path : \A f \in Saves(Resolve(p))' :
          f \in File /\ DirOf[f] \in exists' /\ disk'[f] = disk[f] /\ (Pending(f) => Pending(f)')
    <3> TAKE p \in Path
    <3> TAKE f \in Saves(Resolve(p))'
    <3>1. /\ f \in File /\ DirOf[f] \in exists' /\ disk'[f] = disk[f]
          /\ f \in dirty => f \in dirty'
      BY <1>3 DEF Saves
    <3> QED BY <1>3, <3>1, PendingKept
  <2>3. ASSUME NEW g \in Game, Enabled(g), Watched(g) PROVE Watched(g)'
    <3>1. cfg[g].path \in Path /\ cfg'[g] = cfg[g]
      BY <1>3, <2>3, EntryType DEF Enabled
    <3>2. \A f \in Saves(Resolve(cfg[g].path))' :
            /\ watchedDirs'[DirOf[f]] = g /\ DirOf[f] \in inotify'
            /\ pushed'[f] = <<g, disk'[f]>> \/ Pending(f)'
      BY <1>3, <2>1, <2>2, <2>3, <3>1 DEF Watched
    <3> QED BY <3>1, <3>2 DEF Watched
  <2>4. Safe'
    BY <1>3, <2>3 DEF Safe, Enabled
  <2>5. Found'
    <3>1. scan # None => scan.path \in Path
      BY ScanFields
    <3> QED BY <1>3, <2>1, <2>2, <3>1 DEF Found
  <2> QED BY <2>4, <2>5
<1>4. ASSUME NEW e \in File, Delete(e) PROVE Safe' /\ Found'
  <2>1. disk' = [disk EXCEPT ![e] = 0] /\ disk \in [File -> Nat] /\ dirty' = dirty \ {e}
    BY <1>4 DEF Delete, Typed, DiskType
  <2>2. \A f \in File : disk'[f] > 0 =>
          disk'[f] = disk[f] /\ disk[f] > 0 /\ (f \in dirty => f \in dirty')
    BY <2>1
  <2>3. inotify' = inotify \cap exists' /\ exists' = exists
    BY <1>4 DEF Delete, Typed, WatchType
  <2> QED BY <1>3, <1>4, <2>2, <2>3 DEF Delete
<1>5. ASSUME NEW d \in Dir, RemoveDir(d) PROVE Safe' /\ Found'
  <2>1. /\ disk' = [f \in File |-> IF DirOf[f] = d THEN 0 ELSE disk[f]]
        /\ exists' = exists \ {d} /\ inotify' = inotify \ {d} /\ inotify \subseteq exists
        /\ dirty' = {f \in dirty : DirOf[f] # d}
    BY <1>5 DEF RemoveDir, Typed, WatchType
  <2>2. \A f \in File : DirOf[f] \in exists' /\ disk'[f] > 0 =>
          disk'[f] = disk[f] /\ disk[f] > 0 /\ (f \in dirty => f \in dirty')
    BY <2>1
  <2>3. inotify' = inotify \cap exists' /\ exists' \subseteq exists
    BY <2>1
  <2> QED BY <1>3, <1>5, <2>2, <2>3 DEF RemoveDir
<1>6. ASSUME NEW e \in File, MakeDir(e) PROVE Safe' /\ Found'
  <2> DEFINE d == DirOf[e]
  <2>1. ~ Covered(d)
    <3>1. budget["late"] = 0
      <4>1. "late" \in Sources
        BY DEF Sources
      <4>2. budget["late"] \in Nat /\ budget["late"] <= 0
        BY <4>1 DEF Typed, BudgetType
      <4> QED BY <4>2
    <3> QED BY <1>6, <3>1 DEF MakeDir, Spend
  <2>2. \A g \in Game : cfg[g] # None => d \notin Matches[cfg[g].path]
    BY <2>1 DEF Covered
  <2>3. /\ exists' = exists \cup {d} /\ disk' = [disk EXCEPT ![e] = 1] /\ d \notin exists
        /\ UNCHANGED <<cfg, report, scan, watchedDirs, inotify, dirty, stale, events, pushed>>
    BY <1>6 DEF MakeDir
  <2>4. ASSUME NEW p \in Path, d \notin Matches[p]
        PROVE  /\ Saves(Resolve(p))' = Saves(Resolve(p))
               /\ \A f \in Saves(Resolve(p)) : disk'[f] = disk[f]
    <3>1. Resolve(p)' = Resolve(p) /\ d \notin Resolve(p)
      <4> HIDE DEF d
      <4>1. Matches[p] \cap exists' = Matches[p] \cap exists
        BY <2>3, <2>4
      <4> QED BY <2>4, <4>1 DEF Resolve
    <3>2. \A f \in File : f # e => disk'[f] = disk[f]
      BY <2>3 DEF Typed, DiskType
    <3>3. Resolve(p) \cap exists' = Resolve(p) \cap exists
      BY <2>3, <3>1
    <3>4. \A f \in File : DirOf[f] \in Resolve(p) => f # e
      BY <3>1
    <3> HIDE DEF d
    <3>5. Saves(Resolve(p))' = {f \in File : DirOf[f] \in Resolve(p)' \cap exists' /\ disk'[f] > 0}
      BY DEF Saves
    <3> QED BY <3>1, <3>2, <3>3, <3>4, <3>5 DEF Saves
  <2>5. ASSUME NEW g \in Game, Enabled(g), Watched(g) PROVE Watched(g)'
    <3>1. cfg[g].path \in Path /\ cfg'[g] = cfg[g] /\ d \notin Matches[cfg[g].path]
      BY <2>2, <2>3, <2>5, EntryType DEF Enabled
    <3>2. /\ Saves(Resolve(cfg[g].path))' = Saves(Resolve(cfg[g].path))
          /\ \A f \in Saves(Resolve(cfg[g].path)) : disk'[f] = disk[f]
      <4>1. PICK p \in Path : p = cfg[g].path
        BY <3>1
      <4>2. Saves(Resolve(cfg[g].path))' = Saves(Resolve(p))'
        BY <2>3, <4>1 DEF Saves, Resolve
      <4> QED BY <2>4, <3>1, <4>1, <4>2
    <3> QED BY <2>3, <2>5, <3>1, <3>2 DEF Watched, Pending, HasEvent
  <2>6. Safe'
    BY <2>3, <2>5 DEF Safe, Enabled
  <2>7. Found'
    <3>1. scan # None => scan.path \in Path /\ d \notin Matches[scan.path]
      BY <2>2, ScanFields DEF ScanInv
    <3> QED BY <2>3, <2>4, <3>1 DEF Found
  <2> QED BY <2>6, <2>7
<1> QED BY <1>1, <1>2, <1>4, <1>5, <1>6 DEF Environment


LEMMA WatchedSame ==
  ASSUME NEW g \in Game, Watched(g), cfg'[g] = cfg[g],
         UNCHANGED <<exists, disk, watchedDirs, inotify, dirty, stale, events, pushed>>
  PROVE  Watched(g)'
BY DEF Watched, Saves, Resolve, Pending, HasEvent

\* A scan that ends leaves the other games as they were.
LEMMA SafeOthers ==
  ASSUME Typed, OwnInv, Safe, NEW g \in Game, NEW h \in Game, g # h, Enabled(g),
         report[g] = "watching", scan # None => scan.game = h
  PROVE  Watched(g)
BY DEF Safe

\* The steps of a scan.
LEMMA PushScan ==
  ASSUME Typed, OwnInv, ScanInv, Disjoint, Safe, Found, ScanStep
  PROVE  Safe' /\ Found'
<1> USE DEF world, channel, memory, told
<1>0. scan # None /\ scan \in Scans /\ scan.game \in Game /\ scan.path \in Path
      /\ cfg[scan.game] # None /\ cfg[scan.game].path = scan.path
      /\ IsPath(scan.game, scan.path)
  <2>1. scan # None
    BY DEF ScanStep, RescanQuiet, ListSaves, AddWatches, ParseSaves
  <2>2. scan.game \in Game /\ cfg[scan.game] # None /\ cfg[scan.game].path = scan.path
    BY <2>1, ScanFields DEF ScanInv
  <2>3. IsPath(scan.game, scan.path)
    BY <2>2 DEF OwnInv, OwnEntry
  <2> QED BY <2>1, <2>2, <2>3, ScanFields
<1>1. ASSUME NEW g \in Game, g # scan.game, cfg[g] # None, NEW d \in Matches[scan.path]
      PROVE  d \notin Matches[cfg[g].path]
  <2>1. Matches[cfg[g].path] \cap Matches[scan.path] = {}
    BY <1>0, <1>1, Apart
  <2> QED BY <1>1, <2>1
<1>2. CASE RescanQuiet
  <2>1. /\ scan' = [scan EXCEPT !.stage = "parse", !.found = Saves(Resolve(scan.path))] /\ scan.quiet
        /\ UNCHANGED <<cfg, report, watchedDirs, inotify, exists, disk, dirty, stale, events, pushed>>
    BY <1>2 DEF RescanQuiet
  <2>2. scan'.quiet
    BY <1>0, <2>1 DEF Scans
  <2>3. Safe'
    BY <2>1, <2>2, WatchedSame DEF Safe, Enabled
  <2> QED BY <2>2, <2>3 DEF Found
<1>3. CASE ListSaves
  <2> DEFINE found == Saves(Resolve(scan.path))
  <2>1. UNCHANGED <<cfg, watchedDirs, inotify, exists, disk, dirty, stale, events, pushed>>
    BY <1>3 DEF ListSaves
  <2>2. CASE found = {}
    <3>1. scan' = None /\ report' = [report EXCEPT ![scan.game] = "notFound"]
      BY <1>3, <2>2 DEF ListSaves, EndScan
    <3>2. report'[scan.game] = "notFound" /\ \A g \in Game \ {scan.game} : report'[g] = report[g]
      BY <1>0, <3>1 DEF Typed, ToldType, Status
    <3>3. Safe'
      <4> SUFFICES ASSUME NEW g \in Game, Enabled(g)', report'[g] = "watching" PROVE Watched(g)'
        BY DEF Safe
      <4>1. g # scan.game /\ report[g] = "watching" /\ Enabled(g)
        BY <2>1, <3>2 DEF Enabled
      <4> QED BY <1>0, <2>1, <4>1, SafeOthers, WatchedSame
    <3> QED BY <3>1, <3>3 DEF Found
  <2>3. CASE found # {}
    <3>1. scan' = [scan EXCEPT !.stage = "watch", !.found = found, !.quiet = FALSE]
          /\ UNCHANGED report
      BY <1>3, <2>3 DEF ListSaves
    <3>2. /\ scan'.game = scan.game /\ scan'.stage = "watch" /\ scan'.quiet = FALSE
          /\ scan'.path = scan.path /\ scan'.found = found
      <4> HIDE DEF found
      <4> QED BY <1>0, <3>1 DEF Scans
    <3>3. scan' # None
      <4>1. scan' \in Scans
        <5>1. found \in SUBSET File
          BY DEF Saves
        <5> HIDE DEF found
        <5> QED BY <1>0, <3>1, <5>1 DEF Scans
      <4> QED BY <4>1
    <3>4. Safe'
      <4> SUFFICES ASSUME NEW g \in Game, Enabled(g)', report'[g] = "watching", g # scan.game
                   PROVE  Watched(g)'
        BY <3>2, <3>3 DEF Safe
      <4>1. report[g] = "watching" /\ Enabled(g)
        BY <2>1, <3>1 DEF Enabled
      <4> QED BY <1>0, <2>1, <4>1, SafeOthers, WatchedSame
    <3>5. Found'
      <4>1. Saves(Resolve(scan.path))' = found
        BY <2>1, <3>2 DEF Saves, Resolve
      <4> QED BY <3>2, <4>1 DEF Found
    <3> QED BY <3>4, <3>5
  <2> QED BY <2>2, <2>3
<1>4. CASE AddWatches
  <2> DEFINE dirs == {DirOf[f] : f \in scan.found} \cap exists
  <2>1. /\ inotify' = inotify \cup dirs
        /\ UNCHANGED <<cfg, report, exists, disk, dirty, events, pushed>>
        /\ stale' = {f \in File : IF DirOf[f] \in dirs \ inotify THEN HasEvent(f) ELSE f \in stale}
        /\ watchedDirs' = [d \in Dir |-> IF d \in dirs THEN scan.game ELSE watchedDirs[d]]
        /\ scan.stage = "watch" /\ scan' = [scan EXCEPT !.stage = "parse"]
    BY <1>4 DEF AddWatches, Renew
  <2>2. /\ scan'.game = scan.game /\ scan'.quiet = scan.quiet /\ scan'.path = scan.path
        /\ scan'.found = scan.found /\ scan'.stage = "parse"
    BY <1>0, <2>1 DEF Scans
  <2>3. \A d \in dirs : d \in Matches[scan.path]
    BY <1>0 DEF ScanInv
  <2>4. scan' # None
    BY <1>0, <2>1 DEF Scans
  <2>5. Safe'
    <3> SUFFICES ASSUME NEW g \in Game, Enabled(g)', report'[g] = "watching",
                        scan.game # g \/ scan.quiet
                 PROVE  Watched(g)'
      BY <2>2, <2>4 DEF Safe
    <3>1. Enabled(g) /\ Watched(g) /\ cfg'[g] = cfg[g]
      BY <2>1 DEF Safe, Enabled
    <3>2. ASSUME NEW f \in File, DirOf[f] \in Matches[cfg[g].path], watchedDirs[DirOf[f]] = g,
                 DirOf[f] \in inotify
          PROVE  /\ watchedDirs'[DirOf[f]] = g /\ DirOf[f] \in inotify'
                 /\ Pending(f) => Pending(f)'
      <4>1. DirOf[f] \in Dir
        OBVIOUS
      <4>2. DirOf[f] \in dirs => g = scan.game
        BY <1>1, <2>3, <3>1, <3>2 DEF Enabled
      <4> HIDE DEF dirs
      <4>3. f \in stale => f \in stale'
        BY <2>1, <3>2
      <4>4. Pending(f) => Pending(f)'
        BY <2>1, <4>3, PendingKept
      <4> QED BY <2>1, <3>2, <4>1, <4>2, <4>4
    <3> QED BY <2>1, <3>1, <3>2, WatchedKept
  <2>6. Found'
    <3> SUFFICES ASSUME ~ scan.quiet, NEW f \in Saves(Resolve(scan.path))
                 PROVE  /\ f \in scan.found
                        /\ watchedDirs'[DirOf[f]] = scan.game /\ DirOf[f] \in inotify'
      <4>1. Saves(Resolve(scan.path))' = Saves(Resolve(scan.path))
        BY <2>1, <2>2 DEF Saves, Resolve
      <4> QED BY <2>2, <4>1 DEF Found
    <3>1. f \in scan.found
      BY <1>0, <2>1 DEF Found
    <3>2. DirOf[f] \in dirs /\ DirOf[f] \in Dir
      BY <1>0, <3>1, SaveParts
    <3> HIDE DEF dirs
    <3> QED BY <2>1, <3>1, <3>2
  <2> QED BY <2>5, <2>6
<1>5. CASE ParseSaves
  <2> DEFINE h == scan.game
             st == IF scan.quiet THEN report[h] ELSE "watching"
  <2>1. /\ ParseAndPush(h, [f \in scan.found |-> disk[f]]) /\ EndScan(h, st)
        /\ scan.stage = "parse"
        /\ UNCHANGED <<cfg, watchedDirs, inotify, exists, disk, dirty, stale, events>>
    BY <1>5 DEF ParseSaves
  <2>2. scan' = None /\ report' = [report EXCEPT ![h] = st]
    BY <2>1 DEF EndScan
  <2>3. report'[h] = st /\ \A g \in Game \ {h} : report'[g] = report[g]
    BY <1>0, <2>2 DEF Typed, ToldType, Status
  <2>4. \A f \in File : f \in scan.found => DirOf[f] \in Matches[scan.path]
    BY <1>0 DEF ScanInv
  <2>5. \A f \in File : /\ f \notin scan.found => pushed'[f] = pushed[f]
                        /\ f \in scan.found /\ disk[f] > 0 => pushed'[f] = <<h, disk[f]>>
                        /\ pushed'[f] = pushed[f] \/ pushed'[f] = <<h, disk[f]>>
    BY <2>1 DEF ParseAndPush, Typed, PushType, Pushes
  <2>7. \A f \in File : Pending(f) => Pending(f)'
    BY <2>1, PendingKept
  <2> HIDE DEF h, st
  <2>6. Safe'
    <3> SUFFICES ASSUME NEW g \in Game, Enabled(g)', report'[g] = "watching" PROVE Watched(g)'
      BY DEF Safe
    <3>1. Enabled(g) /\ cfg'[g] = cfg[g]
      BY <2>1 DEF Enabled
    <3>2. CASE g # h
      <4>1. Watched(g)
        BY <1>0, <2>3, <3>1, <3>2, SafeOthers DEF h
      <4>2. \A f \in File : DirOf[f] \in Matches[cfg[g].path] => pushed'[f] = pushed[f]
        BY <1>1, <2>4, <2>5, <3>1, <3>2 DEF h, Enabled
      <4> QED BY <2>1, <2>7, <3>1, <4>1, <4>2, WatchedKept
    <3>3. CASE g = h /\ scan.quiet
      <4>1. Watched(g)
        BY <2>3, <3>1, <3>3 DEF Safe, st
      <4>2. \A f \in File : pushed'[f] = pushed[f] \/ pushed'[f] = <<g, disk[f]>>
        BY <2>5, <3>3
      <4> QED BY <2>1, <2>7, <3>1, <4>1, <4>2, WatchedKept
    <3>4. CASE g = h /\ ~ scan.quiet
      <4>1. Saves(Resolve(cfg[g].path))' = Saves(Resolve(scan.path))
        BY <1>0, <2>1, <3>1, <3>4 DEF h, Saves, Resolve
      <4>2. \A f \in Saves(Resolve(scan.path)) :
              /\ watchedDirs'[DirOf[f]] = g /\ DirOf[f] \in inotify'
              /\ pushed'[f] = <<g, disk'[f]>>
        <5> TAKE f \in Saves(Resolve(scan.path))
        <5>1. /\ f \in scan.found /\ watchedDirs[DirOf[f]] = g /\ DirOf[f] \in inotify
          BY <1>0, <2>1, <3>4 DEF Found, h
        <5>2. f \in File /\ disk[f] > 0
          BY <1>0, SaveParts
        <5> QED BY <2>1, <2>5, <3>4, <5>1, <5>2
      <4> QED BY <4>1, <4>2 DEF Watched
    <3> QED BY <3>2, <3>3, <3>4
  <2> QED BY <2>2, <2>6 DEF Found
<1> QED BY <1>2, <1>3, <1>4, <1>5 DEF ScanStep


\* The handler of a configuration update, and the removal of a game.
LEMMA PushUpdate ==
  ASSUME Typed, OwnInv, ScanInv, Disjoint, Safe, scan = None, NEW S \in SUBSET Game,
         \A g \in S : \/ ~ Enabled(g)'
                      \/ scan' # None /\ scan'.game = g /\ ~ scan'.quiet,
         \A g \in Game \ S : cfg'[g] = cfg[g] /\ report'[g] = report[g],
         NEW paths \in SUBSET Path, Unwatch(paths), UNCHANGED <<exists, disk, stale, events>>,
         \A p \in paths : \E h \in S : IsPath(h, p)
  PROVE  Safe'
<1> SUFFICES ASSUME NEW g \in Game \ S, Enabled(g)', report'[g] = "watching" PROVE Watched(g)'
  BY DEF Safe
<1>1. Enabled(g) /\ Watched(g) /\ cfg'[g] = cfg[g]
  BY DEF Safe, Enabled
<1>2. \A p \in paths : \E h \in Game \ {g} : IsPath(h, p)
  OBVIOUS
<1> QED BY <1>1, <1>2, SafeUnwatch

LEMMA PushConfig ==
  ASSUME Typed, OwnInv, ScanInv, Disjoint, Safe, Found, ConfigStep \/ ReceiveRemoved
  PROVE  Safe' /\ Found'
<1> USE DEF world, channel, memory, told
<1>0. \A g \in Game : cfg[g] # None => cfg[g].path \in Path /\ IsPath(g, cfg[g].path)
  BY EntryType DEF OwnInv, OwnEntry
<1>1. CASE ReceiveConfig
  <2> DEFINE lost  == {g \in Game : cfg[g] # None /\ Head(inbox).games[g] = None}
             paths == {cfg[g].path : g \in lost}
  <2>1. /\ cfg' = [g \in Game |-> IF g \in lost THEN None ELSE cfg[g]] /\ Unwatch(paths)
        /\ UNCHANGED <<report, exists, disk, stale, events, scan>> /\ scan = None
    BY <1>1, NoScan DEF ReceiveConfig, Idle
  <2>2. paths \in SUBSET Path /\ \A p \in paths : \E h \in lost : IsPath(h, p)
    BY <1>0
  <2>3. lost \in SUBSET Game
    OBVIOUS
  <2> HIDE DEF lost, paths
  <2>4. \A g \in lost : ~ Enabled(g)'
    BY <2>1, <2>3 DEF Enabled
  <2>5. \A g \in Game \ lost : cfg'[g] = cfg[g] /\ report'[g] = report[g]
    BY <2>1
  <2>6. Safe'
    BY <2>1, <2>2, <2>3, <2>4, <2>5, PushUpdate
  <2> QED BY <2>1, <2>6 DEF Found
<1>2. ASSUME NEW g \in Game, cfg'[g] = None \/ ~ cfg'[g].enabled
                               \/ (scan' # None /\ scan'.game = g /\ ~ scan'.quiet),
             \A h \in Game \ {g} : cfg'[h] = cfg[h] /\ report'[h] = report[h],
             scan = None, UNCHANGED <<exists, disk, stale, events>>,
             NEW paths \in {{}, {cfg[g].path}}, paths # {} => cfg[g] # None, Unwatch(paths)
      PROVE  Safe'
  <2>1. paths \in SUBSET Path /\ \A p \in paths : \E h \in {g} : IsPath(h, p)
    BY <1>0, <1>2
  <2>2. {g} \in SUBSET Game
    OBVIOUS
  <2> QED BY <1>2, <2>1, <2>2, PushUpdate DEF Enabled
<1>3. ASSUME NEW g \in Game, DisableGame(g) PROVE Safe' /\ Found'
  <2>1. PICK paths \in {{}, {cfg[g].path}} : Unwatch(paths) /\ (paths # {} => cfg[g] # None)
    BY <1>3 DEF DisableGame
  <2>2. Turn(g) /\ scan = None /\ UNCHANGED <<scan, exists, disk, stale, events, report>>
    BY <1>3 DEF DisableGame, Turn
  <2>3. /\ cfg' = [cfg EXCEPT ![g] = [path |-> NewPath(g), enabled |-> task.update[g].enabled]]
        /\ ~ task.update[g].enabled
    BY <1>3 DEF DisableGame, StoreGame
  <2>4. ~ cfg'[g].enabled /\ \A h \in Game \ {g} : cfg'[h] = cfg[h]
    BY <2>3 DEF Typed, CfgType, Entries
  <2>5. Safe'
    BY <1>2, <2>1, <2>2, <2>4
  <2> QED BY <2>2, <2>5 DEF Found
<1>4. ASSUME NEW g \in Game, Renewed(g)
      PROVE  \E paths \in {{}, {cfg[g].path}} : Unwatch(paths) /\ (paths # {} => cfg[g] # None)
  BY <1>4 DEF Renewed, Enabled
<1>5. ASSUME NEW g \in Game, ConfigureGame(g) PROVE Safe' /\ Found'
  <2>1. PICK paths \in {{}, {cfg[g].path}} : Unwatch(paths) /\ (paths # {} => cfg[g] # None)
    BY <1>4, <1>5 DEF ConfigureGame
  <2>2. Turn(g) /\ scan = None /\ UNCHANGED <<exists, disk, stale, events, report>>
        /\ StartScan(g, NewPath(g), FALSE) /\ StoreGame(g)
    BY <1>5 DEF ConfigureGame, Renewed, Turn
  <2>3. NewPath(g) \in Path
    BY <2>2, TurnWish
  <2>4. scan' # None /\ scan'.game = g /\ ~ scan'.quiet /\ scan'.stage = "list"
    BY <2>2, <2>3, StartScanType
  <2>5. \A h \in Game \ {g} : cfg'[h] = cfg[h]
    BY <2>2 DEF StoreGame, Typed, CfgType, Entries
  <2>6. Safe'
    BY <1>2, <2>1, <2>2, <2>4, <2>5
  <2> QED BY <2>4, <2>6 DEF Found
<1>6. ASSUME NEW g \in Game, DropGame(g) PROVE Safe' /\ Found'
  <2>1. PICK paths \in {{}, {cfg[g].path}} : Unwatch(paths) /\ (paths # {} => cfg[g] # None)
    BY <1>4, <1>6 DEF DropGame
  <2>2. Turn(g) /\ scan = None /\ UNCHANGED <<scan, exists, disk, stale, events>>
        /\ cfg' = [cfg EXCEPT ![g] = None] /\ report' = [report EXCEPT ![g] = "pluginFailed"]
    BY <1>6 DEF DropGame, Renewed, Turn
  <2>3. cfg'[g] = None /\ \A h \in Game \ {g} : cfg'[h] = cfg[h] /\ report'[h] = report[h]
    BY <2>2 DEF Typed, CfgType, ToldType, Entries, Status
  <2>4. Safe'
    BY <1>2, <2>1, <2>2, <2>3
  <2> QED BY <2>2, <2>4 DEF Found
<1>7. CASE ReceiveRemoved
  <2> DEFINE g == Head(inbox).game
             paths == IF cfg[g] = None THEN {} ELSE {cfg[g].path}
  <2>1. g \in Game /\ cfg' = [cfg EXCEPT ![g] = None] /\ Unwatch(paths)
    BY <1>7, HeadType, MessageKinds DEF ReceiveRemoved
  <2>2. UNCHANGED <<scan, exists, disk, stale, events, report>> /\ scan = None
    BY <1>7, NoScan DEF ReceiveRemoved, Idle
  <2> HIDE DEF g
  <2>3. paths \in {{}, {cfg[g].path}} /\ (paths # {} => cfg[g] # None)
    OBVIOUS
  <2> HIDE DEF paths
  <2>4. cfg'[g] = None /\ \A h \in Game \ {g} : cfg'[h] = cfg[h] /\ report'[h] = report[h]
    BY <2>1, <2>2 DEF Typed, CfgType, Entries
  <2>5. Safe'
    BY <1>2, <2>1, <2>2, <2>3, <2>4
  <2> QED BY <2>2, <2>5 DEF Found
<1>8. CASE \/ \E g \in Game : RefuseGame(g) \/ KeepGame(g)
           \/ SendResults \/ TruncateCache \/ WriteCache
  BY <1>8, PushKept DEF RefuseGame, KeepGame, SendResults, TruncateCache, WriteCache
<1> QED BY <1>1, <1>3, <1>5, <1>6, <1>7, <1>8 DEF ConfigStep

\* The other handlers.
LEMMA PushHandlers ==
  ASSUME Typed, OwnInv, ScanInv, ChannelInv, Safe, Found,
         AnnounceStep \/ ReceiveRescan \/ HandleFileEvent \/ \E f \in File : Report(f)
  PROVE  Safe' /\ Found'
<1> USE DEF world, channel, memory, told
<1>1. CASE AnnounceOnline \/ FinishAnnounce
  BY <1>1, PushKept DEF AnnounceOnline, FinishAnnounce
<1>2. ASSUME NEW g \in Game, AnnounceGame(g) PROVE Safe' /\ Found'
  <2>1. /\ scan = None /\ Enabled(g)
        /\ UNCHANGED <<cfg, watchedDirs, inotify, exists, disk, dirty, stale, events, pushed>>
    BY <1>2 DEF AnnounceGame, ScanInv
  <2>2. cfg[g].path \in Path /\ announced \in BOOLEAN
    BY <2>1, EntryType DEF Enabled, Typed, FlagType
  <2>3. \A h \in Game : Enabled(h) /\ report[h] = "watching" => Watched(h)
    BY <2>1 DEF Safe
  <2>4. \A h \in Game : report'[h] = "watching" => report[h] = "watching"
    BY <1>2 DEF AnnounceGame, Typed, ToldType, Status
  <2>5. Safe'
    BY <2>1, <2>3, <2>4, WatchedSame DEF Safe, Enabled
  <2>6. scan' = None \/ scan'.stage = "list"
    BY <1>2, <2>1, <2>2, StartScanType DEF AnnounceGame
  <2> QED BY <2>5, <2>6 DEF Found
<1>3. CASE ReceiveRescan
  <2> DEFINE g == Head(inbox).game
  <2>1. /\ g \in Game /\ UNCHANGED <<cfg, watchedDirs, inotify, exists, disk, dirty, stale, events>>
        /\ UNCHANGED <<pushed, report>>
        /\ scan = None
        /\ IF cfg[g] = None THEN UNCHANGED <<task, scan>>
           ELSE StartScan(g, cfg[g].path, FALSE) /\ task' = [kind |-> "rescan"]
    BY <1>3, HeadType, MessageKinds, NoScan DEF ReceiveRescan, Idle
  <2> HIDE DEF g
  <2>2. scan' = None \/ scan'.stage = "list"
    BY <2>1, EntryType, StartScanType
  <2>3. Safe'
    BY <2>1, WatchedSame DEF Safe, Enabled
  <2> QED BY <2>2, <2>3 DEF Found
<1>4. CASE HandleFileEvent
  <2>1. PICK e \in File, n \in Nat, h \in Game \cup {None} : HandleParts(e, n, h)
    BY <1>4, HandleEvent
  <2>2. /\ UNCHANGED <<cfg, report, watchedDirs, inotify, exists, disk, dirty, stale, scan>>
        /\ scan = None
    BY <1>4, NoScan DEF HandleFileEvent, Idle
  <2>3. \A f \in File : /\ f # e \/ h = None => pushed'[f] = pushed[f]
                        /\ f = e /\ h # None /\ n > 0 => pushed'[f] = <<h, n>>
    BY <2>1 DEF HandleParts, ParseAndPush, Typed, PushType, Pushes
  <2>4. /\ \A f \in File : f # e /\ HasEvent(f) => HasEvent(f)'
        /\ Calm(e) => n = disk[e] \/ HasEvent(e)'
    BY <1>4, <2>1, HeadLatest DEF HandleParts
  <2>5. ASSUME NEW f \in File, NEW g \in Game, DirOf[f] \in inotify, disk[f] > 0,
               watchedDirs[DirOf[f]] = g, pushed[f] = <<g, disk[f]>> \/ Pending(f)
        PROVE  pushed'[f] = <<g, disk[f]>> \/ Pending(f)'
    <3>1. CASE f \in dirty \/ f \in stale
      BY <2>2, <3>1 DEF Pending
    <3>2. CASE f # e
      BY <2>2, <2>3, <2>4, <2>5, <3>2 DEF Pending
    <3>3. CASE f = e /\ Calm(e)
      <4>1. h = g /\ h # None
        BY <2>1, <2>5, <3>3 DEF HandleParts
      <4>2. CASE n = disk[e]
        BY <2>3, <2>5, <3>3, <4>1, <4>2
      <4>3. CASE HasEvent(e)'
        BY <3>3, <4>3 DEF Pending
      <4> QED BY <2>4, <3>3, <4>2, <4>3
    <3> QED BY <2>5, <3>1, <3>2, <3>3 DEF Calm
  <2>6. Safe'
    <3> SUFFICES ASSUME NEW g \in Game, Enabled(g)', report'[g] = "watching" PROVE Watched(g)'
      BY DEF Safe
    <3>1. Enabled(g) /\ Watched(g) /\ cfg'[g] = cfg[g]
      BY <2>2 DEF Safe, Enabled
    <3> QED BY <2>2, <2>5, <3>1, WatchedKept
  <2> QED BY <2>2, <2>6 DEF Found
<1>5. ASSUME NEW e \in File, Report(e) PROVE Safe' /\ Found'
  <2>1. UNCHANGED <<cfg, report, watchedDirs, inotify, exists, disk, scan, pushed>>
    BY <1>5 DEF Report
  <2>2. ASSUME NEW f \in File, disk[f] > 0, Pending(f) PROVE Pending(f)'
    BY <1>5, <2>2, ReportPending
  <2>3. Safe'
    <3> SUFFICES ASSUME NEW g \in Game, Enabled(g)', report'[g] = "watching",
                        scan = None \/ scan.game # g \/ scan.quiet
                 PROVE  Watched(g)'
      BY <2>1 DEF Safe
    <3>1. Enabled(g) /\ Watched(g) /\ cfg'[g] = cfg[g]
      BY <2>1 DEF Safe, Enabled
    <3> QED BY <2>1, <2>2, <3>1, WatchedKept
  <2>4. Found'
    BY <2>1 DEF Found, Saves, Resolve
  <2> QED BY <2>3, <2>4
<1> QED BY <1>1, <1>2, <1>3, <1>4, <1>5 DEF AnnounceStep

LEMMA NextPush ==
  ASSUME Typed, OwnInv, ScanInv, ChannelInv, Disjoint, Budget["late"] = 0, PushInv, [Next]_vars
  PROVE  PushInv'
<1> SUFFICES ASSUME task'.kind # "down" PROVE Safe' /\ Found'
  BY DEF PushInv
<1>1. CASE Boot
  <2>1. scan' = None
    BY <1>1, NoScan DEF Boot, Down
  <2> QED BY <1>1, <2>1 DEF Boot, Safe, Found
<1>2. CASE ~ Boot
  <2>1. ~ Crash
    BY DEF Crash, Down
  <2>2. task # Down
    BY <1>2, <2>1, DownStep DEF Down
  <2>3. Safe /\ Found
    BY <2>2, TaskKinds DEF PushInv, Typed, TaskType
  <2>4. CASE UNCHANGED vars
    BY <2>3, <2>4, PushKept DEF vars, world, channel, memory, told
  <2> QED BY <1>2, <2>1, <2>3, <2>4, PushEnvironment, PushScan, PushConfig, PushHandlers
          DEF Next, Daemon
<1> QED BY <1>1, <1>2

\* A game the server was told is watched has every save it has pushed, once
\* there is nothing left to do (scanGame, handleFileEvent, parseAndPush): a
\* write during a scan, between the listing and the watch or during another
\* game's update, is not missed.  It takes that no two games can name the same
\* directory, since unwatching one would unwatch the other, and that no
\* directory appears where a configured game has looked for it before.
THEOREM PushCorrect ==
  ASSUME Disjoint, Budget["late"] = 0
  PROVE  Spec => []SavesPushed
<1> DEFINE Inv == Typed /\ OwnInv /\ ScanInv /\ ChannelInv /\ PushInv
<1>1. Init => Inv
  <2>1. Init => ChannelInv /\ PushInv
    BY DEF Init, ChannelInv, Calm, PushInv, Safe, Found, NoGames, Enabled
  <2> QED BY <2>1, InitType, InitInv
<1>2. Inv /\ [Next]_vars => Inv'
  BY NextType, NextOwn, NextScan, NextChannel, NextPush
<1>3. Inv => SavesPushed
  <2> SUFFICES ASSUME Inv, AtRest, NEW g \in Game, Enabled(g), report[g] = "watching",
                      NEW f \in Saves(Resolve(cfg[g].path)), f \notin stale
               PROVE  pushed[f] = <<g, disk[f]>>
    BY DEF SavesPushed, AllPushed
  <2>1. task.kind # "down" /\ scan = None /\ events = <<>> /\ dirty = {}
    BY NoScan DEF AtRest, Idle
  <2>2. Watched(g)
    BY <2>1 DEF PushInv, Safe
  <2>3. ~ Pending(f)
    BY <2>1 DEF Pending, HasEvent
  <2> QED BY <2>2, <2>3 DEF Watched
<1> HIDE DEF Inv
<1> QED BY <1>1, <1>2, <1>3, PTL DEF Spec

=============================================================================
