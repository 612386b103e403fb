-------------------------- MODULE SaveSync_proofs --------------------------
(***************************************************************************)
(* Proofs about SaveSync.  For any files, games, threads, plugins and      *)
(* faults: its type invariant, and that nothing an older plugin produced   *)
(* is remembered as pushed or reported.  For the event loop alone, and     *)
(* under the conditions named there: it refines SaveMirror, every save on  *)
(* the server is whole, and at rest the server has every tracked file.     *)
(***************************************************************************)
EXTENDS SaveSync, TLAPS

USE SyncAssumption DEF JobsOK

\* The parse of a job has an outcome of the expected shape.
LEMMA OutType ==
  ASSUME NEW j \in Job
  PROVE  Out(j) \in Outcome
BY DEF Out, Outcome, Job, Version

\* A job in hand is a job.
LEMMA JobInHand ==
  ASSUME TypeOK, NEW t \in Thread, pc[t] # "ready"
  PROVE  job[t] \in Job
BY DEF TypeOK

\* The locals of parseAndPush are well typed from the start.
LEMMA NewJobType ==
  ASSUME TypeOK, NEW f \in File, NEW c \in Content
  PROVE  NewJob(f, c) \in Job
<1>1. gen[GameOf[f]] \in Nat
  BY DEF TypeOK
<1>2. 1 \in Version
  BY DEF Version
<1> QED BY <1>1, <1>2 DEF NewJob, Job

\* The name a push goes to is a save name.
LEMMA ResolvedNameType ==
  ASSUME TypeOK, NEW j \in Job
  PROVE  ResolvedName(j) \in Name
<1>1. Out(j).name \in Name \cup {None}
  BY OutType DEF Outcome
<1>2. sticky[j.file] \in Name \cup {None}
  BY DEF TypeOK, Job
<1> QED BY <1>1, <1>2 DEF ResolvedName

\* The server's merge yields a section map.
LEMMA MergedType ==
  ASSUME NEW j \in Job, NEW stored \in SectionMap
  PROVE  Merged(stored, j) \in SectionMap
<1>1. Out(j).sections \in SectionMap
  BY OutType DEF Outcome
<1> QED BY <1>1 DEF Merged, SectionMap

LEMMA InitType == Init => TypeOK
<1> SUFFICES ASSUME Init PROVE TypeOK
  OBVIOUS
<1>1. disk \in [File -> Content \cup {None}]
  BY DEF Init
<1>2. server \in [Save -> SectionMap]
  BY DEF Init, NoSave, SectionMap
<1>3. serverVer \in [Save -> 0..MaxVersion]
  BY DEF Init
<1>4. /\ latest \in [Game -> Version] /\ runner \in [Game -> Version]
      /\ genVer \in [Game -> Version] /\ gen \in [Game -> Nat]
  BY DEF Init, Version
<1>5. events \in Seq(Event) /\ writes \in Nat /\ drops \in Nat
  BY DEF Init
<1>6. /\ cache \in [File -> Cached \cup {None}]
      /\ sticky \in [File -> Name \cup {None}]
      /\ failures \in [File -> Failure \cup {None}]
  BY DEF Init
<1>7. /\ pc \in [Thread -> Stage] /\ job \in [Thread -> Job \cup {None}]
      /\ JobsOK
  BY DEF Init, Stage
<1>8. /\ target \in [Thread -> SUBSET Game]
      /\ todo \in [Thread -> SUBSET File]
  BY DEF Init
<1>9. conn \in BOOLEAN /\ announce \in BOOLEAN
  BY DEF Init
<1> QED
  BY <1>1, <1>2, <1>3, <1>4, <1>5, <1>6, <1>7, <1>8, <1>9 DEF Init, TypeOK

-----------------------------------------------------------------------------
\* Each step keeps the types.
LEMMA EnvironmentType == TypeOK /\ Environment => TypeOK'
<1> SUFFICES ASSUME TypeOK, Environment PROVE TypeOK'
  OBVIOUS
<1> USE DEF TypeOK, pluginVars, pushVars, linkVars, scanVars, threadVars,
            serverVars, envVars
<1>1. ASSUME NEW f \in File, Write(f) \/ Delete(f) PROVE TypeOK'
  <2>1. disk' \in [File -> Content \cup {None}]
    <3>1. \E c \in Content \cup {None} : disk' = [disk EXCEPT ![f] = c]
      <4>1. CASE Write(f)
        <5>1. \E c \in Writable[f] : disk' = [disk EXCEPT ![f] = c]
          BY ONLY <4>1, Zenon DEF Write
        <5>2. Writable[f] \subseteq Content
          OBVIOUS
        <5> QED BY ONLY <5>1, <5>2
      <4>2. CASE Delete(f)
        BY <4>2 DEF Delete
      <4> QED BY <1>1, <4>1, <4>2
    <3> QED BY <3>1
  <2>2. writes' \in Nat
    <3>1. writes \in Nat
      OBVIOUS
    <3>2. writes' = writes + 1
      BY <1>1 DEF Write, Delete
    <3> QED BY ONLY <3>1, <3>2
  <2>3. removed' \subseteq File /\ dirty' \subseteq File
    BY <1>1 DEF Write, Delete
  <2> QED BY <1>1, <2>1, <2>2, <2>3 DEF Write, Delete
<1>2. ASSUME NEW f \in File, EmitRemove(f) \/ Emit(f) PROVE TypeOK'
  <2>1. [file |-> f, data |-> disk[f]] \in Event
        /\ [file |-> f, data |-> None] \in Event
    BY DEF Event
  <2>2. events' \in Seq(Event)
    <3>1. events' = events \/ \E e \in Event : events' = Append(events, e)
      BY <1>2, <2>1 DEF EmitRemove, Emit
    <3>2. events \in Seq(Event)
      OBVIOUS
    <3> QED BY ONLY <3>1, <3>2
  <2>3. hashes' \in [File -> Content \cup {None}]
    <3>1. hashes' \in {hashes, [hashes EXCEPT ![f] = None],
                       [hashes EXCEPT ![f] = disk[f]]}
      BY <1>2 DEF EmitRemove, Emit
    <3>2. /\ hashes \in [File -> Content \cup {None}]
          /\ disk[f] \in Content \cup {None}
      OBVIOUS
    <3> QED BY ONLY <3>1, <3>2
  <2>4. removed' \subseteq File /\ dirty' \subseteq File
    BY <1>2 DEF EmitRemove, Emit
  <2> QED BY <1>2, <2>2, <2>3, <2>4 DEF EmitRemove, Emit
<1>3. ASSUME NEW g \in Game, Publish(g) PROVE TypeOK'
  <2>1. latest' \in [Game -> Version]
    BY <1>3 DEF Publish, Version
  <2> QED BY <1>3, <2>1 DEF Publish
<1>4. CASE Drop
  <2>1. drops' \in Nat
    <3>1. drops \in Nat /\ drops' = drops + 1
      BY <1>4 DEF Drop
    <3> QED BY ONLY <3>1
  <2> QED BY <1>4, <2>1 DEF Drop
<1>5. CASE Connect
  BY <1>5 DEF Connect
<1> QED BY <1>1, <1>2, <1>3, <1>4, <1>5 DEF Environment

LEMMA EventLoopType == TypeOK /\ EventLoop => TypeOK'
<1> SUFFICES ASSUME TypeOK, EventLoop PROVE TypeOK'
  OBVIOUS
<1> USE DEF pluginVars, pushVars, linkVars, scanVars, threadVars,
            serverVars, envVars
<1>1. CASE HandleFileEvent
  <2> DEFINE e == Head(events)
  <2>1. e \in Event /\ events' \in Seq(Event)
    BY <1>1 DEF HandleFileEvent, TypeOK
  <2>2. CASE /\ e.data = None
             /\ failures' = [failures EXCEPT ![e.file] = None]
             /\ UNCHANGED threadVars
    <3>1. failures' \in [File -> Failure \cup {None}]
      BY <2>2 DEF TypeOK
    <3> QED BY <1>1, <2>1, <2>2, <3>1 DEF HandleFileEvent, TypeOK
  <2>3. CASE /\ e.data # None
             /\ job' = [job EXCEPT ![Loop] = NewJob(e.file, e.data)]
             /\ Goto(Loop, "run")
             /\ UNCHANGED failures
    <3>1. NewJob(e.file, e.data) \in Job
      BY <2>1, <2>3, NewJobType DEF Event
    <3>2. job' \in [Thread -> Job \cup {None}] /\ pc' \in [Thread -> Stage]
      BY <2>3, <3>1 DEF TypeOK, Goto, Stage
    <3>3. JobsOK'
      BY <2>3, <3>1 DEF TypeOK, Goto
    <3> QED BY <1>1, <2>1, <2>3, <3>2, <3>3 DEF HandleFileEvent, TypeOK
  <2>4. CASE e.data # None /\ UNCHANGED <<failures, threadVars>>
    BY <1>1, <2>1, <2>4 DEF HandleFileEvent, TypeOK
  <2> QED BY <1>1, <2>2, <2>3, <2>4 DEF HandleFileEvent
<1>2. CASE AnnounceOnline
  BY <1>2 DEF AnnounceOnline, TypeOK
<1>3. ASSUME NEW g \in Game, ScanGame(g) PROVE TypeOK'
  <2>1. runner' \in [Game -> Version]
    <3>1. runner' \in {runner, [runner EXCEPT ![g] = latest[g]]}
      BY <1>3 DEF ScanGame
    <3>2. runner \in [Game -> Version] /\ latest[g] \in Version
      BY DEF TypeOK
    <3> QED BY ONLY <3>1, <3>2
  <2>2. watched' \subseteq Game /\ todo' \in [Thread -> SUBSET File]
    <3>1. CASE Scan(g)
      BY <3>1 DEF Scan, Present, FilesOf, TypeOK
    <3>2. CASE UNCHANGED <<watched, todo>>
      BY <3>2 DEF TypeOK
    <3> QED BY <1>3, <3>1, <3>2 DEF ScanGame
  <2>3. toScan' \subseteq Game
    BY <1>3 DEF ScanGame, TypeOK
  <2> QED BY <1>3, <2>1, <2>2, <2>3 DEF ScanGame, TypeOK
<1>4. ASSUME NEW g \in Game, RescanGame(g) PROVE TypeOK'
  BY <1>4 DEF RescanGame, Scan, Present, FilesOf, TypeOK
<1>5. ASSUME NEW g \in Game, ReloadPlugin(g) PROVE TypeOK'
  BY <1>5 DEF ReloadPlugin, TypeOK
<1> QED BY <1>1, <1>2, <1>3, <1>4, <1>5 DEF EventLoop

LEMMA PluginType ==
  ASSUME TypeOK, NEW t \in Thread,
         UpdatePlugins(t) \/ \E g \in Game : PluginChanged(t, g)
  PROVE  TypeOK'
<1> USE DEF pluginVars, pushVars, linkVars, scanVars, threadVars,
            serverVars, envVars
<1>1. CASE UpdatePlugins(t)
  BY <1>1 DEF UpdatePlugins, TypeOK
<1>2. ASSUME NEW g \in Game, PluginChanged(t, g) PROVE TypeOK'
  BY <1>2 DEF PluginChanged, Present, FilesOf, TypeOK
<1> QED BY <1>1, <1>2

LEMMA PipelineType ==
  ASSUME TypeOK, NEW t \in Thread, Pipeline(t)
  PROVE  TypeOK'
<1> USE DEF pluginVars, pushVars, linkVars, scanVars, threadVars,
            serverVars, envVars
<1>0. ASSUME Finish(t)
      PROVE  /\ job' \in [Thread -> Job \cup {None}]
             /\ pc' \in [Thread -> Stage]
             /\ JobsOK'
  BY <1>0 DEF TypeOK, Finish, Goto, Stage
<1>1. ASSUME NEW f \in File, NextFile(t, f) PROVE TypeOK'
  <2>1. CASE disk[f] # None
    <3>1. NewJob(f, disk[f]) \in Job
      BY <2>1, NewJobType DEF TypeOK
    <3>2. job' = [job EXCEPT ![t] = NewJob(f, disk[f])] /\ Goto(t, "run")
      BY <1>1, <2>1 DEF NextFile
    <3>3. job' \in [Thread -> Job \cup {None}] /\ pc' \in [Thread -> Stage]
      BY <3>1, <3>2 DEF TypeOK, Goto, Stage
    <3>4. JobsOK'
      BY <3>1, <3>2 DEF TypeOK, Goto
    <3> QED BY <1>1, <3>3, <3>4 DEF NextFile, TypeOK
  <2>2. CASE disk[f] = None
    BY <1>1, <2>2 DEF NextFile, TypeOK
  <2> QED BY <2>1, <2>2
<1>2. ASSUME NEW f \in File, ReadError(t, f) PROVE TypeOK'
  BY <1>2 DEF ReadError, TypeOK
<1>3. CASE RunPlugin(t)
  <2> DEFINE j == [job[t] EXCEPT !.ver = runner[GameOf[job[t].file]]]
  <2>1. job[t] \in Job
    BY <1>3, JobInHand DEF RunPlugin
  <2>2. j \in Job
    BY <2>1 DEF Job, TypeOK
  <2>3. job' = [job EXCEPT ![t] = j]
    BY <1>3 DEF RunPlugin
  <2>4. job' \in [Thread -> Job \cup {None}] /\ pc' \in [Thread -> Stage]
    BY <1>3, <2>2, <2>3 DEF RunPlugin, TypeOK, Goto, Stage
  <2>5. JobsOK'
    BY <1>3, <2>2, <2>3 DEF RunPlugin, TypeOK, Goto
  <2> QED BY <1>3, <2>4, <2>5 DEF RunPlugin, TypeOK
<1>4. CASE ParseSucceeded(t)
  <2> DEFINE j == job[t]
             name == ResolvedName(j)
             delta == Delta(j)
  <2>1. j \in Job
    BY <1>4, JobInHand DEF ParseSucceeded
  <2>2. name \in Name /\ delta \subseteq Section
    BY <2>1, ResolvedNameType DEF Delta, Changed
  <2>3. /\ failures' \in [File -> Failure \cup {None}]
        /\ sticky' \in [File -> Name \cup {None}]
    BY <1>4, <2>1, OutType DEF ParseSucceeded, TypeOK, Outcome, Job
  <2>4. /\ job' \in [Thread -> Job \cup {None}]
        /\ pc' \in [Thread -> Stage]
        /\ JobsOK'
    <3>1. CASE Finish(t)
      BY <1>0, <3>1
    <3>2. CASE /\ job' = [job EXCEPT ![t].name = name, ![t].delta = delta]
               /\ Goto(t, "diff")
      <4> DEFINE k == [j EXCEPT !.name = name, !.delta = delta]
      <4>1. k \in Job
        BY <2>1, <2>2 DEF Job
      <4>2. job' = [job EXCEPT ![t] = k]
        BY <3>2
      <4> HIDE DEF k
      <4>3. pc' \in [Thread -> Stage]
        BY <3>2 DEF TypeOK, Goto, Stage
      <4>4. JobsOK'
        <5>1. k # None
          BY <4>1
        <5>2. pc' = [pc EXCEPT ![t] = "diff"]
          BY <3>2 DEF Goto
        <5> QED BY <4>2, <5>1, <5>2 DEF TypeOK
      <4> QED BY <4>1, <4>2, <4>3, <4>4 DEF TypeOK
    <3> QED BY <1>4, <3>1, <3>2 DEF ParseSucceeded
  <2> QED BY <1>4, <2>3, <2>4 DEF ParseSucceeded, TypeOK
<1>5. CASE Recheck(t)
  <2>1. CASE Finish(t)
    BY <1>0, <1>5, <2>1 DEF Recheck, TypeOK
  <2>2. CASE Goto(t, "send") /\ UNCHANGED job
    BY <1>5, <2>2 DEF Recheck, Goto, Stage, TypeOK
  <2> QED BY <1>5, <2>1, <2>2 DEF Recheck
<1>6. CASE Push(t)
  <2> DEFINE j == job[t]
             k == <<GameOf[j.file], j.name>>
  <2>1. j \in Job
    BY <1>6, JobInHand DEF Push
  <2>2. k \in Save /\ j.ver \in 0..MaxVersion
    BY <2>1 DEF Job, Save, Version
  <2>3. Merged(server[k], j) \in SectionMap
    BY <2>1, <2>2, MergedType DEF TypeOK
  <2>4. server' \in [Save -> SectionMap]
    BY <1>6, <2>3 DEF Push, TypeOK
  <2>5. serverVer' \in [Save -> 0..MaxVersion]
    BY <1>6, <2>2 DEF Push, TypeOK
  <2>6. serverFailed' \subseteq File
    BY <1>6 DEF Push, TypeOK
  <2>7. pc' \in [Thread -> Stage] /\ job' = job
        /\ JobsOK'
    BY <1>6 DEF Push, TypeOK, Goto, Stage
  <2> QED BY <1>6, <2>4, <2>5, <2>6, <2>7 DEF Push, TypeOK
<1>7. CASE SendDropped(t)
  <2>1. PICK s \in {"sent", "failed"} :
          pc' = [pc EXCEPT ![t] = s] /\ job' = job /\ JobsOK'
    BY <1>7 DEF SendDropped, Goto, TypeOK
  <2>2. pc' \in [Thread -> Stage]
    BY <2>1 DEF TypeOK, Stage
  <2> QED BY <1>7, <2>1, <2>2 DEF SendDropped, TypeOK
<1>8. CASE SendError(t)
  <2>1. drops' \in Nat
    <3>1. drops \in Nat /\ drops' = drops + 1
      BY <1>8 DEF SendError, TypeOK
    <3> QED BY ONLY <3>1
  <2> QED BY <1>0, <1>8, <2>1 DEF SendError, TypeOK
<1>9. CASE Record(t)
  <2> DEFINE j == job[t]
             entry == [name |-> j.name, sections |-> Out(j).sections,
                       ver |-> j.ver]
  <2>1. j \in Job
    BY <1>9, JobInHand DEF Record
  <2>2. entry \in Cached
    BY <2>1, OutType DEF Job, Outcome, Cached
  <2>3. cache' \in [File -> Cached \cup {None}]
    BY <1>9, <2>1, <2>2 DEF Record, TypeOK, Job
  <2> QED BY <1>0, <1>9, <2>3 DEF Record, TypeOK
<1>10. CASE ParseFailed(t)
  <2>1. CASE Finish(t)
    BY <1>0, <1>10, <2>1 DEF ParseFailed, TypeOK
  <2>2. CASE Goto(t, "fail") /\ UNCHANGED job
    <3>1. pc' \in [Thread -> Stage]
      BY <2>2 DEF Goto, Stage, TypeOK
    <3>2. JobsOK'
      BY <1>10, <2>2 DEF ParseFailed, Goto, TypeOK
    <3> QED BY <1>10, <2>2, <3>1, <3>2 DEF ParseFailed, TypeOK
  <2> QED BY <1>10, <2>1, <2>2 DEF ParseFailed
<1>11. CASE ReportFailure(t)
  <2>1. job[t].file \in File
    BY <1>11, JobInHand DEF ReportFailure, Job
  <2> QED BY <1>11, <2>1 DEF ReportFailure, Goto, Stage, TypeOK
<1>12. CASE RecordFailure(t)
  <2> DEFINE j == job[t]
             entry == [content |-> j.content, error |-> Out(j).error,
                       ver |-> j.ver]
  <2>1. j \in Job
    BY <1>12, JobInHand DEF RecordFailure
  <2>2. CASE UNCHANGED failures
    BY <1>0, <1>12, <2>2 DEF RecordFailure, TypeOK
  <2>3. CASE failures' = [failures EXCEPT ![j.file] = entry]
    <3>1. Out(j).error \in Error
      BY <1>12, <2>1, OutType DEF RecordFailure, Outcome, TypeOK
    <3>2. entry \in Failure
      BY <2>1, <3>1 DEF Job, Failure
    <3>3. failures' \in [File -> Failure \cup {None}]
      BY <2>1, <2>3, <3>2 DEF TypeOK, Job
    <3> QED BY <1>0, <1>12, <3>3 DEF RecordFailure, TypeOK
  <2> QED BY <1>12, <2>2, <2>3 DEF RecordFailure
<1> QED
  BY <1>1, <1>2, <1>3, <1>4, <1>5, <1>6, <1>7, <1>8, <1>9, <1>10, <1>11,
     <1>12 DEF Pipeline

LEMMA NextType == TypeOK /\ [Next]_vars => TypeOK'
<1> SUFFICES ASSUME TypeOK, [Next]_vars PROVE TypeOK'
  OBVIOUS
<1>1. CASE UNCHANGED vars
  BY <1>1 DEF TypeOK, vars, envVars, pluginVars, pushVars, linkVars, scanVars,
              threadVars, serverVars
<1>2. CASE Next
  BY <1>2, EnvironmentType, EventLoopType, PluginType, PipelineType DEF Next
<1> QED BY <1>1, <1>2

\* In every reachable state every variable has its type, a goroutine holds a
\* job exactly while it is inside parseAndPush, and only failed parses reach
\* handleParseFailure's send.
THEOREM TypeCorrect == Spec => []TypeOK
<1>1. Init => TypeOK
  BY InitType
<1>2. TypeOK /\ [Next]_vars => TypeOK'
  BY NextType
<1> QED BY <1>1, <1>2, PTL DEF Spec

-----------------------------------------------------------------------------
(* Nothing an older plugin produced is remembered.                         *)

\* Plugins only get newer, and the last reload saw the runner's version or an
\* older one.
VersionsRise ==
  \A g \in Game : genVer[g] <= runner[g] /\ runner[g] <= latest[g]

\* A job carries a generation that has been current.
GenerationsSeen ==
  \A t \in Thread :
    pc[t] # "ready" => job[t].gen <= gen[GameOf[job[t].file]]

\* As long as its generation is current, a job's result comes from a plugin
\* no older than that generation.
FreshResultsCurrent ==
  \A t \in Thread :
    pc[t] \notin {"ready", "run"} /\ Fresh(job[t]) =>
      job[t].ver >= genVer[GameOf[job[t].file]]

GenerationInv ==
  /\ VersionsRise
  /\ GenerationsSeen
  /\ FreshResultsCurrent
  /\ CacheFromCurrentPlugin
  /\ FailuresFromCurrentPlugin

LEMMA GenerationInit == Init => GenerationInv
BY DEF Init, GenerationInv, VersionsRise, GenerationsSeen,
       FreshResultsCurrent, CacheFromCurrentPlugin, FailuresFromCurrentPlugin

\* A step that touches neither jobs nor generations nor what is remembered.
LEMMA QuietStep ==
  ASSUME GenerationInv, VersionsRise',
         UNCHANGED <<gen, genVer, cache, failures, pc, job>>
  PROVE  GenerationInv'
BY DEF GenerationInv, GenerationsSeen, FreshResultsCurrent, Fresh,
       CacheFromCurrentPlugin, FailuresFromCurrentPlugin

\* Adopting the newest version of a plugin keeps the order of versions.
LEMMA AdoptStep ==
  ASSUME TypeOK, VersionsRise, UNCHANGED <<genVer, latest>>,
         \A g \in Game : runner'[g] \in {runner[g], latest[g]}
  PROVE  VersionsRise'
<1> SUFFICES ASSUME NEW g \in Game
             PROVE  genVer[g] <= runner'[g] /\ runner'[g] <= latest[g]
  BY DEF VersionsRise
<1>1. genVer[g] \in Nat /\ runner[g] \in Nat /\ latest[g] \in Nat
  BY DEF TypeOK, Version
<1>2. genVer[g] <= runner[g] /\ runner[g] <= latest[g]
  BY DEF VersionsRise
<1>3. runner'[g] = runner[g] \/ runner'[g] = latest[g]
  OBVIOUS
<1> QED BY ONLY <1>1, <1>2, <1>3

\* A step of one thread leaves the other threads' jobs alone.
LEMMA ThreadStep ==
  ASSUME GenerationInv, NEW t \in Thread, UNCHANGED <<gen, genVer>>,
         \A u \in Thread \ {t} : pc'[u] = pc[u] /\ job'[u] = job[u],
         pc'[t] # "ready" => job'[t].gen <= gen[GameOf[job'[t].file]],
         pc'[t] \notin {"ready", "run"} /\ Fresh(job'[t]) =>
           job'[t].ver >= genVer[GameOf[job'[t].file]]
  PROVE  GenerationsSeen' /\ FreshResultsCurrent'
BY DEF GenerationInv, GenerationsSeen, FreshResultsCurrent, Fresh

\* So does one that only moves on with its job or drops it.
LEMMA MoveStep ==
  ASSUME TypeOK, GenerationInv, NEW t \in Thread, UNCHANGED <<gen, genVer>>,
         pc[t] \notin {"ready", "run"},
         Finish(t) \/ \E s \in Stage : Goto(t, s) /\ UNCHANGED job
  PROVE  GenerationsSeen' /\ FreshResultsCurrent'
<1>1. \A u \in Thread \ {t} : pc'[u] = pc[u] /\ job'[u] = job[u]
  BY DEF TypeOK, Finish, Goto
<1>2. pc'[t] = "ready" \/ job'[t] = job[t]
  BY DEF TypeOK, Finish, Goto
<1>3. /\ job[t].gen <= gen[GameOf[job[t].file]]
      /\ Fresh(job[t]) => job[t].ver >= genVer[GameOf[job[t].file]]
  BY DEF GenerationInv, GenerationsSeen, FreshResultsCurrent
<1> QED BY <1>1, <1>2, <1>3, ThreadStep

LEMMA EnvironmentGen == TypeOK /\ GenerationInv /\ Environment => GenerationInv'
<1> SUFFICES ASSUME TypeOK, GenerationInv, Environment PROVE GenerationInv'
  OBVIOUS
<1> USE DEF envVars, pluginVars, pushVars, linkVars, scanVars, threadVars,
            serverVars
<1>1. ASSUME NEW g \in Game, Publish(g) PROVE GenerationInv'
  <2>1. VersionsRise'
    BY <1>1 DEF Publish, GenerationInv, VersionsRise, TypeOK, Version
  <2> QED BY <1>1, <2>1, QuietStep DEF Publish
<1>2. ASSUME UNCHANGED <<pluginVars, pushVars, threadVars>>
      PROVE  GenerationInv'
  BY <1>2, QuietStep DEF GenerationInv, VersionsRise
<1> QED BY <1>1, <1>2 DEF Environment, Write, Delete,
       EmitRemove, Emit, Drop, Connect

LEMMA EventLoopGen == TypeOK /\ GenerationInv /\ EventLoop => GenerationInv'
<1> SUFFICES ASSUME TypeOK, GenerationInv, EventLoop PROVE GenerationInv'
  OBVIOUS
<1> USE DEF envVars, pluginVars, pushVars, linkVars, scanVars, threadVars,
            serverVars
<1>1. CASE HandleFileEvent
  <2> DEFINE e == Head(events)
             j == NewJob(e.file, e.data)
  <2>1. e \in Event /\ UNCHANGED <<gen, genVer, cache, runner, latest>>
    BY <1>1 DEF HandleFileEvent, TypeOK
  <2>2. CASE /\ failures' = [failures EXCEPT ![e.file] = None]
             /\ UNCHANGED threadVars
    BY <2>1, <2>2 DEF GenerationInv, VersionsRise, GenerationsSeen, Fresh,
         FreshResultsCurrent, CacheFromCurrentPlugin,
         FailuresFromCurrentPlugin, TypeOK, Event
  <2>3. CASE /\ job' = [job EXCEPT ![Loop] = j]
             /\ Goto(Loop, "run")
             /\ UNCHANGED failures
    <3>1. /\ job'[Loop] = j /\ pc'[Loop] = "run"
          /\ \A u \in Thread \ {Loop} : pc'[u] = pc[u] /\ job'[u] = job[u]
      BY <2>3 DEF Goto, TypeOK
    <3>2. j.gen <= gen[GameOf[j.file]]
      BY <2>1 DEF NewJob, TypeOK, Event
    <3>3. GenerationsSeen' /\ FreshResultsCurrent'
      BY <2>1, <3>1, <3>2, ThreadStep
    <3> QED BY <2>1, <2>3, <3>3 DEF GenerationInv, VersionsRise,
              CacheFromCurrentPlugin, FailuresFromCurrentPlugin
  <2>4. CASE UNCHANGED <<failures, threadVars>>
    BY <2>1, <2>4, QuietStep DEF GenerationInv, VersionsRise
  <2> QED BY <1>1, <2>2, <2>3, <2>4 DEF HandleFileEvent
<1>2. CASE AnnounceOnline
  BY <1>2, QuietStep DEF AnnounceOnline, GenerationInv, VersionsRise
<1>3. ASSUME NEW g \in Game, ScanGame(g) PROVE GenerationInv'
  <2>1. VersionsRise'
    BY <1>3, AdoptStep DEF ScanGame, GenerationInv, TypeOK
  <2> QED BY <1>3, <2>1, QuietStep DEF ScanGame
<1>4. ASSUME NEW g \in Game, RescanGame(g) PROVE GenerationInv'
  BY <1>4, QuietStep DEF RescanGame, GenerationInv, VersionsRise
<1>5. ASSUME NEW g \in Game, ReloadPlugin(g) PROVE GenerationInv'
  <2>1. VersionsRise'
    BY <1>5, AdoptStep DEF ReloadPlugin, GenerationInv, TypeOK
  <2> QED BY <1>5, <2>1, QuietStep DEF ReloadPlugin
<1> QED BY <1>1, <1>2, <1>3, <1>4, <1>5 DEF EventLoop

LEMMA PluginGen ==
  ASSUME TypeOK, GenerationInv, NEW t \in Thread,
         UpdatePlugins(t) \/ \E g \in Game : PluginChanged(t, g)
  PROVE  GenerationInv'
<1> USE DEF envVars, pluginVars, pushVars, linkVars, scanVars, threadVars,
            serverVars
<1>1. CASE UpdatePlugins(t)
  <2>1. VersionsRise'
    BY <1>1, AdoptStep DEF UpdatePlugins, GenerationInv, TypeOK
  <2> QED BY <1>1, <2>1, QuietStep DEF UpdatePlugins
<1>2. ASSUME NEW g \in Game, PluginChanged(t, g) PROVE GenerationInv'
  <2>1. /\ UNCHANGED <<runner, latest, pc, job>>
        /\ gen' = [gen EXCEPT ![g] = @ + 1]
        /\ genVer' = [genVer EXCEPT ![g] = runner[g]]
    BY <1>2 DEF PluginChanged
  <2>2. \A h \in Game : gen[h] \in Nat /\ runner[h] \in Nat
    BY DEF TypeOK, Version
  <2>3. /\ gen'[g] = gen[g] + 1 /\ genVer'[g] = runner[g]
        /\ \A h \in Game \ {g} : gen'[h] = gen[h] /\ genVer'[h] = genVer[h]
    BY <2>1 DEF TypeOK
  <2>4. VersionsRise'
    BY <2>1, <2>2, <2>3 DEF GenerationInv, VersionsRise
  <2>5. ASSUME NEW u \in Thread, pc[u] # "ready"
        PROVE  /\ job[u].gen <= gen'[GameOf[job[u].file]]
               /\ GameOf[job[u].file] = g => ~ Fresh(job[u])'
    <3> DEFINE h == GameOf[job[u].file]
    <3>1. job[u] \in Job /\ h \in Game
      BY <2>5, JobInHand DEF Job
    <3>2. job[u].gen <= gen[h] /\ job[u].gen \in Nat
      BY <2>5, <3>1 DEF GenerationInv, GenerationsSeen, Job
    <3>3. gen'[h] = IF h = g THEN gen[h] + 1 ELSE gen[h]
      BY <2>3, <3>1
    <3> QED BY <2>1, <2>2, <3>1, <3>2, <3>3 DEF Fresh
  <2>6. GenerationsSeen'
    BY <2>1, <2>5 DEF GenerationsSeen
  <2>7. FreshResultsCurrent'
    <3> SUFFICES ASSUME NEW u \in Thread, pc[u] \notin {"ready", "run"},
                        Fresh(job[u])'
                 PROVE  job[u].ver >= genVer'[GameOf[job[u].file]]
      BY <2>1 DEF FreshResultsCurrent
    <3>1. GameOf[job[u].file] \in Game \ {g}
      BY <2>5, JobInHand DEF Job
    <3> QED BY <2>1, <2>3, <3>1 DEF GenerationInv, FreshResultsCurrent, Fresh
  <2>8. CacheFromCurrentPlugin'
    BY <1>2, <2>3 DEF PluginChanged, GenerationInv, CacheFromCurrentPlugin
  <2>9. FailuresFromCurrentPlugin'
    BY <1>2, <2>3 DEF PluginChanged, GenerationInv, FailuresFromCurrentPlugin
  <2> QED BY <2>4, <2>6, <2>7, <2>8, <2>9 DEF GenerationInv
<1> QED BY <1>1, <1>2

LEMMA PipelineGen ==
  ASSUME TypeOK, GenerationInv, NEW t \in Thread, Pipeline(t)
  PROVE  GenerationInv'
<1> USE DEF envVars, pluginVars, pushVars, linkVars, scanVars, threadVars,
            serverVars
\* Most steps remember nothing, so it is enough to follow the job.
<1>0. ASSUME GenerationsSeen', FreshResultsCurrent',
             UNCHANGED <<pluginVars, cache, failures>>
      PROVE  GenerationInv'
  BY <1>0 DEF GenerationInv, VersionsRise, CacheFromCurrentPlugin,
              FailuresFromCurrentPlugin
<1>1. ASSUME NEW f \in File, NextFile(t, f) PROVE GenerationInv'
  <2>1. CASE UNCHANGED threadVars
    BY <1>1, <2>1, QuietStep DEF NextFile, GenerationInv, VersionsRise
  <2>2. CASE job' = [job EXCEPT ![t] = NewJob(f, disk[f])] /\ Goto(t, "run")
    <3> DEFINE j == NewJob(f, disk[f])
    <3>1. /\ job'[t] = j /\ pc'[t] = "run"
          /\ \A u \in Thread \ {t} : pc'[u] = pc[u] /\ job'[u] = job[u]
      BY <2>2 DEF Goto, TypeOK
    <3>2. j.gen <= gen[GameOf[j.file]]
      BY DEF NewJob, TypeOK
    <3>3. UNCHANGED <<pluginVars, cache, failures>>
      BY <1>1 DEF NextFile
    <3>4. GenerationsSeen' /\ FreshResultsCurrent'
      BY <3>1, <3>2, <3>3, ThreadStep
    <3> QED BY <1>0, <3>3, <3>4
  <2> QED BY <1>1, <2>1, <2>2 DEF NextFile
<1>2. ASSUME NEW f \in File, ReadError(t, f) PROVE GenerationInv'
  BY <1>2, QuietStep DEF ReadError, GenerationInv, VersionsRise
<1>3. CASE RunPlugin(t)
  <2> DEFINE j == [job[t] EXCEPT !.ver = runner[GameOf[job[t].file]]]
  <2>1. job[t] \in Job /\ UNCHANGED <<pluginVars, cache, failures>>
    BY <1>3, JobInHand DEF RunPlugin
  <2>2. /\ j.gen = job[t].gen /\ j.file = job[t].file
        /\ j.ver = runner[GameOf[j.file]]
    BY <2>1 DEF Job
  <2>3. /\ job'[t] = j /\ pc'[t] = "parsed"
        /\ \A u \in Thread \ {t} : pc'[u] = pc[u] /\ job'[u] = job[u]
    BY <1>3 DEF RunPlugin, Goto, TypeOK
  <2> HIDE DEF j
  <2>4. j.gen <= gen[GameOf[j.file]]
    BY <1>3, <2>2 DEF RunPlugin, GenerationInv, GenerationsSeen
  <2>5. j.ver >= genVer[GameOf[j.file]]
    BY <2>1, <2>2 DEF GenerationInv, VersionsRise, Job, TypeOK, Version
  <2>6. GenerationsSeen' /\ FreshResultsCurrent'
    BY <2>1, <2>3, <2>4, <2>5, ThreadStep
  <2> QED BY <1>0, <2>1, <2>6
<1>4. CASE ParseSucceeded(t)
  <2> DEFINE j == job[t]
             name == ResolvedName(j)
             delta == Delta(j)
             k == [j EXCEPT !.name = name, !.delta = delta]
  <2>1. j \in Job /\ UNCHANGED <<pluginVars, cache>>
    BY <1>4, JobInHand DEF ParseSucceeded
  <2>2. k.gen = j.gen /\ k.file = j.file /\ k.ver = j.ver
    BY <2>1 DEF Job
  <2>3. \/ Finish(t)
        \/ job' = [job EXCEPT ![t] = k] /\ Goto(t, "diff")
    BY <1>4 DEF ParseSucceeded
  <2> HIDE DEF k
  <2>4. GenerationsSeen' /\ FreshResultsCurrent'
    <3>1. CASE Finish(t)
      BY <1>4, <2>1, <3>1, MoveStep DEF ParseSucceeded
    <3>2. CASE job' = [job EXCEPT ![t] = k] /\ Goto(t, "diff")
      <4>1. /\ job'[t] = k /\ pc'[t] = "diff"
            /\ \A u \in Thread \ {t} : pc'[u] = pc[u] /\ job'[u] = job[u]
        BY <3>2 DEF Goto, TypeOK
      <4>2. k.gen <= gen[GameOf[k.file]]
        BY <1>4, <2>2 DEF ParseSucceeded, GenerationInv, GenerationsSeen
      <4>3. Fresh(k) => k.ver >= genVer[GameOf[k.file]]
        BY <1>4, <2>2 DEF ParseSucceeded, GenerationInv, Fresh,
                          FreshResultsCurrent
      <4> QED BY <2>1, <4>1, <4>2, <4>3, ThreadStep
    <3> QED BY <2>3, <3>1, <3>2
  <2>5. FailuresFromCurrentPlugin'
    <3>1. failures' \in {failures, [failures EXCEPT ![j.file] = None]}
      BY <1>4 DEF ParseSucceeded
    <3> QED BY <2>1, <3>1 DEF GenerationInv, FailuresFromCurrentPlugin, TypeOK
  <2>6. VersionsRise' /\ CacheFromCurrentPlugin'
    BY <2>1 DEF GenerationInv, VersionsRise, CacheFromCurrentPlugin
  <2> QED BY <2>4, <2>5, <2>6 DEF GenerationInv
<1>5. ASSUME Recheck(t) \/ Push(t) \/ SendDropped(t) \/ SendError(t)
             \/ ParseFailed(t) \/ ReportFailure(t)
      PROVE  GenerationInv'
  <2>1. pc[t] \notin {"ready", "run"}
    BY <1>5 DEF Recheck, Push, SendDropped, SendError, ParseFailed,
                ReportFailure
  <2>2. UNCHANGED <<pluginVars, cache, failures>>
    BY <1>5 DEF Recheck, Push, SendDropped, SendError, ParseFailed,
                ReportFailure
  <2>3. Finish(t) \/ \E s \in Stage : Goto(t, s) /\ UNCHANGED job
    BY <1>5 DEF Recheck, Push, SendDropped, SendError, ParseFailed,
                ReportFailure, Stage
  <2>4. GenerationsSeen' /\ FreshResultsCurrent'
    BY <2>1, <2>2, <2>3, MoveStep
  <2> QED BY <1>0, <2>2, <2>4
<1>6. CASE Record(t)
  <2> DEFINE j == job[t]
             entry == [name |-> j.name, sections |-> Out(j).sections,
                       ver |-> j.ver]
  <2>1. j \in Job /\ UNCHANGED <<pluginVars, failures>>
    BY <1>6, JobInHand DEF Record
  <2>2. GenerationsSeen' /\ FreshResultsCurrent'
    BY <1>6, <2>1, MoveStep DEF Record
  <2>3. CacheFromCurrentPlugin'
    <3>1. Fresh(j) => entry.ver >= genVer[GameOf[j.file]]
      BY <1>6 DEF Record, GenerationInv, FreshResultsCurrent
    <3>2. cache' = IF Fresh(j) THEN [cache EXCEPT ![j.file] = entry]
                   ELSE cache
      BY <1>6 DEF Record
    <3> HIDE DEF entry
    <3> QED BY <2>1, <3>1, <3>2
         DEF GenerationInv, CacheFromCurrentPlugin, TypeOK
  <2>4. VersionsRise' /\ FailuresFromCurrentPlugin'
    BY <2>1 DEF GenerationInv, VersionsRise, FailuresFromCurrentPlugin
  <2> QED BY <2>2, <2>3, <2>4 DEF GenerationInv
<1>7. CASE RecordFailure(t)
  <2> DEFINE j == job[t]
             entry == [content |-> j.content, error |-> Out(j).error,
                       ver |-> j.ver]
  <2>1. j \in Job /\ UNCHANGED <<pluginVars, cache>>
    BY <1>7, JobInHand DEF RecordFailure
  <2>2. GenerationsSeen' /\ FreshResultsCurrent'
    BY <1>7, <2>1, MoveStep DEF RecordFailure
  <2>3. FailuresFromCurrentPlugin'
    <3>1. Fresh(j) => entry.ver >= genVer[GameOf[j.file]]
      BY <1>7 DEF RecordFailure, GenerationInv, FreshResultsCurrent
    <3>2. failures' = IF Fresh(j) THEN [failures EXCEPT ![j.file] = entry]
                      ELSE failures
      BY <1>7 DEF RecordFailure
    <3> HIDE DEF entry
    <3> QED BY <2>1, <3>1, <3>2
         DEF GenerationInv, FailuresFromCurrentPlugin, TypeOK
  <2>4. VersionsRise' /\ CacheFromCurrentPlugin'
    BY <2>1 DEF GenerationInv, VersionsRise, CacheFromCurrentPlugin
  <2> QED BY <2>2, <2>3, <2>4 DEF GenerationInv
<1> QED BY <1>1, <1>2, <1>3, <1>4, <1>5, <1>6, <1>7 DEF Pipeline

LEMMA GenerationNext == TypeOK /\ GenerationInv /\ [Next]_vars => GenerationInv'
<1> SUFFICES ASSUME TypeOK, GenerationInv, [Next]_vars PROVE GenerationInv'
  OBVIOUS
<1>1. CASE UNCHANGED vars
  BY <1>1, QuietStep DEF vars, pluginVars, pushVars, threadVars,
                         GenerationInv, VersionsRise
<1>2. CASE Next
  BY <1>2, EnvironmentGen, EventLoopGen, PluginGen, PipelineGen DEF Next
<1> QED BY <1>1, <1>2

LEMMA GenerationCorrect == Spec => []GenerationInv
<1>1. Init => GenerationInv
  BY GenerationInit
<1>2. TypeOK /\ GenerationInv /\ [Next]_vars => GenerationInv'
  BY GenerationNext
<1> QED BY <1>1, <1>2, TypeCorrect, PTL DEF Spec

\* However the goroutines interleave, no hash that a plugin older than the
\* last pluginChanged produced counts as pushed, so every delta after a reload
\* is taken against the new plugin's own output.
THEOREM CacheCurrent == Spec => []CacheFromCurrentPlugin
<1>1. GenerationInv => CacheFromCurrentPlugin
  BY DEF GenerationInv
<1> QED BY <1>1, GenerationCorrect, PTL

\* Nor is a failure of an older plugin remembered as already reported.
THEOREM FailuresCurrent == Spec => []FailuresFromCurrentPlugin
<1>1. GenerationInv => FailuresFromCurrentPlugin
  BY DEF GenerationInv
<1> QED BY <1>1, GenerationCorrect, PTL

-----------------------------------------------------------------------------
(***************************************************************************)
(* The mirror.  What follows is about the event loop alone, without the    *)
(* local-API handler beside it, with a Send that reports what it did not   *)
(* send, and with files of a game that never share a save.                 *)
(***************************************************************************)
Single == Thread = {Loop}

\* What the plugin's versions can make of a file's contents, and the names
\* of the saves the file can be pushed to.
Outputs(f) ==
  {out \in {Parse[vc] : vc \in Version \X Writable[f]} : out.error = None}
NamesOf(f) ==
  {IF out.name # None THEN out.name ELSE Unknown : out \in Outputs(f)}

Separate ==
  \A f, g \in File : f # g /\ GameOf[f] = GameOf[g] =>
    NamesOf(f) \cap NamesOf(g) = {}

\* Files, and what is on its way from them, hold what they may hold.
ContentInv ==
  /\ \A f \in File : disk[f] \in Writable[f] \cup {None}
  /\ \A i \in 1..Len(events) :
       events[i].data \in Writable[events[i].file] \cup {None}
  /\ pc[Loop] # "ready" => job[Loop].content \in Writable[job[Loop].file]

\* A file is pushed only to its own saves.
NameInv ==
  /\ \A f \in File : sticky[f] \in NamesOf(f) \cup {None}
  /\ \A f \in File : cache[f] # None => cache[f].name \in NamesOf(f)

\* Nothing a job has read changes while it lasts; past the parse it holds
\* the delta against the push remembered for its file, and past the push the
\* server has its sections.
JobSave == <<GameOf[job[Loop].file], job[Loop].name>>
JobInv ==
  LET j == job[Loop] IN
  /\ pc[Loop] # "ready" => Fresh(j)
  /\ pc[Loop] \notin {"ready", "run"} => j.ver = runner[GameOf[j.file]]
  /\ pc[Loop] \in {"diff", "send", "sent"} =>
       /\ Out(j).error = None
       /\ j.name \in NamesOf(j.file)
       /\ j.name = ResolvedName(j)
  /\ pc[Loop] \in {"diff", "send"} =>
       j.delta = Changed(PushedBefore(j.file, j.name), Out(j).sections)
  /\ pc[Loop] = "sent" => server[JobSave] = Out(j).sections

\* What is remembered as pushed is what the server has, but for the file
\* whose push is about to be remembered.
Recording(f) == pc[Loop] = "sent" /\ job[Loop].file = f
CacheInv ==
  \A f \in File : cache[f] # None /\ ~Recording(f) =>
    server[<<GameOf[f], cache[f].name>>] = cache[f].sections

\* The server has nothing from a newer plugin than the one loaded.
AgeInv == \A k \in Save : serverVer[k] <= runner[k[1]]

MirrorInv == ContentInv /\ NameInv /\ JobInv /\ CacheInv /\ AgeInv

\* The steps of the program when the event loop is its one thread.
LEMMA OneThread ==
  ASSUME Single, Next
  PROVE  \/ Environment
         \/ EventLoop
         \/ UpdatePlugins(Loop)
         \/ \E g \in Game : PluginChanged(Loop, g)
         \/ Pipeline(Loop)
BY DEF Next, Single

\* A job in hand moves on with the file and the bytes it began with, and
\* only the run of the plugin changes its version.
LEMMA JobMoves ==
  ASSUME TypeOK, Pipeline(Loop), pc[Loop] # "ready", pc'[Loop] # "ready"
  PROVE  /\ job'[Loop].file = job[Loop].file
         /\ job'[Loop].gen = job[Loop].gen
         /\ job'[Loop].content = job[Loop].content
         /\ pc[Loop] # "run" => job'[Loop].ver = job[Loop].ver
<1> DEFINE j == job[Loop]
<1>1. j \in Job
  BY JobInHand
<1>2. CASE UNCHANGED job
  BY <1>2
<1>3. CASE RunPlugin(Loop)
  <2> DEFINE k == [j EXCEPT !.ver = runner[GameOf[j.file]]]
  <2>1. job' = [job EXCEPT ![Loop] = k] /\ pc[Loop] = "run"
    BY <1>3 DEF RunPlugin
  <2>2. k.file = j.file /\ k.gen = j.gen /\ k.content = j.content
    BY <1>1 DEF Job
  <2> HIDE DEF k
  <2>3. job'[Loop] = k
    BY <2>1 DEF TypeOK
  <2> QED BY <2>1, <2>2, <2>3
<1>4. CASE ParseSucceeded(Loop)
  <2> DEFINE name == ResolvedName(j)
             delta == Delta(j)
             k == [j EXCEPT !.name = name, !.delta = delta]
  <2>1. job' = [job EXCEPT ![Loop] = k] \/ Finish(Loop)
    BY <1>4 DEF ParseSucceeded
  <2>2. k.file = j.file /\ k.gen = j.gen /\ k.content = j.content /\ k.ver = j.ver
    BY <1>1 DEF Job
  <2> HIDE DEF k
  <2>3. ~Finish(Loop)
    BY DEF Finish, Goto, TypeOK
  <2>4. job'[Loop] = k
    BY <2>1, <2>3 DEF TypeOK
  <2> QED BY <2>2, <2>4
<1>5. ~Finish(Loop)
  BY DEF Finish, Goto, TypeOK
<1>6. UNCHANGED job \/ RunPlugin(Loop) \/ ParseSucceeded(Loop)
  BY <1>5 DEF Pipeline, NextFile, ReadError, Recheck, Push, SendDropped, SendError,
              Record, ParseFailed, ReportFailure, RecordFailure
<1> QED BY <1>2, <1>3, <1>4, <1>6

\* Outside parseAndPush a job only begins, with bytes just read or reported.
LEMMA JobBegins ==
  ASSUME TypeOK, Next, Single, pc[Loop] = "ready" \/ ~Pipeline(Loop)
  PROVE  \/ UNCHANGED <<pc, job>>
         \/ /\ pc[Loop] = "ready" /\ pc' = [pc EXCEPT ![Loop] = "run"]
            /\ UNCHANGED <<gen, runner, pushVars, serverVars>>
            /\ \E f \in File, c \in Content :
                 /\ job' = [job EXCEPT ![Loop] = NewJob(f, c)]
                 /\ Watched(f) \/ f \in todo[Loop]
                 /\ c = disk[f] \/ (events # <<>> /\ Head(events) = [file |-> f, data |-> c])
<1> USE DEF envVars, pluginVars, pushVars, linkVars, scanVars, threadVars, serverVars
<1>1. CASE HandleFileEvent
  <2> DEFINE e == Head(events)
  <2>1. e \in Event /\ events # <<>> /\ pc[Loop] = "ready"
    BY <1>1 DEF HandleFileEvent, TypeOK, Idle, Ready
  <2>2. CASE UNCHANGED threadVars
    BY <2>2
  <2>3. CASE ~ UNCHANGED threadVars
    <3>1. e.data # None /\ Watched(e.file) /\ Goto(Loop, "run")
          /\ job' = [job EXCEPT ![Loop] = NewJob(e.file, e.data)]
      BY <1>1, <2>3 DEF HandleFileEvent
    <3>2. e.file \in File /\ e.data \in Content /\ e = [file |-> e.file, data |-> e.data]
      BY <2>1, <3>1 DEF Event
    <3>3. UNCHANGED <<gen, runner, pushVars, serverVars>>
      BY <1>1, <3>1 DEF HandleFileEvent
    <3> QED BY <2>1, <3>1, <3>2, <3>3 DEF Goto
  <2> QED BY <2>2, <2>3
<1>2. ASSUME NEW f \in File, NextFile(Loop, f)
      PROVE  \/ UNCHANGED <<pc, job>>
             \/ /\ pc[Loop] = "ready" /\ pc' = [pc EXCEPT ![Loop] = "run"]
                /\ UNCHANGED <<gen, runner, pushVars, serverVars>>
                /\ \E h \in File, c \in Content :
                     /\ job' = [job EXCEPT ![Loop] = NewJob(h, c)]
                     /\ Watched(h) \/ h \in todo[Loop]
                     /\ c = disk[h] \/ (events # <<>> /\ Head(events) = [file |-> h, data |-> c])
  <2>1. CASE UNCHANGED threadVars
    BY <2>1
  <2>2. CASE ~ UNCHANGED threadVars
    <3>1. /\ disk[f] # None /\ f \in todo[Loop] /\ pc[Loop] = "ready" /\ Goto(Loop, "run")
          /\ job' = [job EXCEPT ![Loop] = NewJob(f, disk[f])]
      BY <1>2, <2>2 DEF NextFile
    <3>2. disk[f] \in Content
      BY <3>1 DEF TypeOK
    <3>3. UNCHANGED <<gen, runner, pushVars, serverVars>>
      BY <1>2 DEF NextFile
    <3> QED BY <3>1, <3>2, <3>3 DEF Goto
  <2> QED BY <2>1, <2>2
<1>3. ASSUME NEW f \in File, ReadError(Loop, f) PROVE UNCHANGED <<pc, job>>
  BY <1>3 DEF ReadError
<1>4. CASE Environment
  BY <1>4 DEF Environment, Write, Delete, EmitRemove, Emit, Publish, Drop, Connect
<1>5. CASE EventLoop /\ ~HandleFileEvent
  BY <1>5 DEF EventLoop, AnnounceOnline, ScanGame, RescanGame, ReloadPlugin
<1>6. CASE UpdatePlugins(Loop) \/ \E g \in Game : PluginChanged(Loop, g)
  BY <1>6 DEF UpdatePlugins, PluginChanged
<1>7. CASE Pipeline(Loop)
  <2>1. pc[Loop] = "ready"
    BY <1>7
  <2>2. \E f \in File : NextFile(Loop, f) \/ ReadError(Loop, f)
    BY <1>7, <2>1 DEF Pipeline, RunPlugin, ParseSucceeded, Recheck, Push, SendDropped,
              SendError, Record, ParseFailed, ReportFailure, RecordFailure
  <2> QED BY <1>2, <1>3, <2>2
<1> QED BY <1>1, <1>4, <1>5, <1>6, <1>7, OneThread

\* The elements of a longer queue.
LEMMA AppendAt ==
  ASSUME TypeOK, NEW e \in Event, events' = Append(events, e), NEW i \in 1..Len(events')
  PROVE  \/ i \in 1..Len(events) /\ events'[i] = events[i]
         \/ i = Len(events) + 1 /\ events'[i] = e
<1>1. events \in Seq(Event)
  BY DEF TypeOK
<1> QED BY ONLY <1>1, events' = Append(events, e), e \in Event, i \in 1..Len(events')

LEMMA ContentNext ==
  ASSUME TypeOK, TypeOK', Single, ContentInv, Next
  PROVE  ContentInv'
<1> USE DEF envVars, pluginVars, pushVars, linkVars, scanVars, threadVars, serverVars
<1>1. \A f \in File : disk'[f] \in Writable[f] \cup {None}
  <2>1. CASE UNCHANGED disk
    BY <2>1 DEF ContentInv
  <2>2. ASSUME NEW f \in File, Write(f) \/ Delete(f)
        PROVE  \A g \in File : disk'[g] \in Writable[g] \cup {None}
    <3>1. PICK c \in Writable[f] \cup {None} : disk' = [disk EXCEPT ![f] = c]
      BY <2>2 DEF Write, Delete
    <3> QED BY <3>1 DEF ContentInv, TypeOK
  <2>3. UNCHANGED disk \/ \E f \in File : Write(f) \/ Delete(f)
    BY OneThread DEF Environment, EmitRemove, Emit, Publish, Drop, Connect, EventLoop,
       HandleFileEvent, AnnounceOnline, ScanGame, RescanGame, ReloadPlugin,
       UpdatePlugins, PluginChanged, Pipeline, NextFile, ReadError, RunPlugin,
       ParseSucceeded, Recheck, Push, SendDropped, SendError, Record, ParseFailed,
       ReportFailure, RecordFailure
  <2> QED BY <2>1, <2>2, <2>3
<1>2. ASSUME NEW i \in 1..Len(events')
      PROVE  events'[i].data \in Writable[events'[i].file] \cup {None}
  <2>1. CASE UNCHANGED events
    BY <1>2, <2>1 DEF ContentInv
  <2>2. CASE events # <<>> /\ events' = Tail(events)
    <3>1. i + 1 \in 1..Len(events) /\ events'[i] = events[i + 1]
      BY <1>2, <2>2 DEF TypeOK
    <3> QED BY <3>1 DEF ContentInv
  <2>3. ASSUME NEW f \in File, NEW c \in Writable[f] \cup {None},
               events' = Append(events, [file |-> f, data |-> c])
        PROVE  events'[i].data \in Writable[events'[i].file] \cup {None}
    <3> DEFINE e == [file |-> f, data |-> c]
    <3>1. e \in Event /\ e.file = f /\ e.data = c
      BY DEF Event
    <3>2. events' = Append(events, e)
      BY <2>3
    <3> HIDE DEF e
    <3>3. CASE i \in 1..Len(events) /\ events'[i] = events[i]
      BY <3>3 DEF ContentInv
    <3>4. CASE events'[i] = e
      BY <3>1, <3>4
    <3> QED BY <1>2, <3>1, <3>2, <3>3, <3>4, AppendAt
  <2>4. ASSUME NEW f \in File, EmitRemove(f) \/ Emit(f)
        PROVE  \/ UNCHANGED events
               \/ \E c \in Writable[f] \cup {None} :
                    events' = Append(events, [file |-> f, data |-> c])
    <3>1. disk[f] \in Writable[f] \cup {None}
      BY DEF ContentInv
    <3> QED BY <2>4, <3>1 DEF EmitRemove, Emit
  <2>5. \/ UNCHANGED events
        \/ events # <<>> /\ events' = Tail(events)
        \/ \E f \in File : EmitRemove(f) \/ Emit(f)
    BY OneThread DEF Environment, Write, Delete, Publish, Drop, Connect, EventLoop,
       HandleFileEvent, AnnounceOnline, ScanGame, RescanGame, ReloadPlugin,
       UpdatePlugins, PluginChanged, Pipeline, NextFile, ReadError, RunPlugin,
       ParseSucceeded, Recheck, Push, SendDropped, SendError, Record, ParseFailed,
       ReportFailure, RecordFailure
  <2> QED BY <2>1, <2>2, <2>3, <2>4, <2>5
<1>3. ASSUME pc'[Loop] # "ready" PROVE job'[Loop].content \in Writable[job'[Loop].file]
  <2>1. CASE pc[Loop] # "ready" /\ Pipeline(Loop)
    BY <1>3, <2>1, JobMoves DEF ContentInv
  <2>2. CASE UNCHANGED <<pc, job>>
    BY <1>3, <2>2 DEF ContentInv
  <2>3. ASSUME NEW f \in File, NEW c \in Content,
               job' = [job EXCEPT ![Loop] = NewJob(f, c)],
               c = disk[f] \/ (events # <<>> /\ Head(events) = [file |-> f, data |-> c])
        PROVE  job'[Loop].content \in Writable[job'[Loop].file]
    <3>1. job'[Loop] = NewJob(f, c)
      BY <2>3 DEF TypeOK
    <3>2. job'[Loop].content = c /\ job'[Loop].file = f
      BY <3>1 DEF NewJob
    <3>3. CASE c = disk[f]
      BY <3>2, <3>3 DEF ContentInv
    <3>4. CASE events # <<>> /\ Head(events) = [file |-> f, data |-> c]
      <4>1. 1 \in 1..Len(events) /\ events[1] = [file |-> f, data |-> c]
        <5>1. events \in Seq(Event)
          BY DEF TypeOK
        <5> QED BY ONLY <3>4, <5>1
      <4>2. events[1].data = c /\ events[1].file = f
        BY <4>1
      <4> QED BY <3>2, <4>1, <4>2 DEF ContentInv
    <3> QED BY <2>3, <3>3, <3>4
  <2> QED BY <2>1, <2>2, <2>3, JobBegins
<1> QED BY <1>1, <1>2, <1>3 DEF ContentInv

LEMMA OutOwn ==
  ASSUME NEW j \in Job, j.content \in Writable[j.file], Out(j).error = None
  PROVE  Out(j) \in Outputs(j.file)
<1> DEFINE vc == <<j.ver, j.content>>
<1>1. vc \in Version \X Writable[j.file]
  BY DEF Job
<1> HIDE DEF vc
<1>2. Out(j) = Parse[vc]
  BY DEF Out, vc
<1> QED BY <1>1, <1>2 DEF Outputs

\* The name a push goes to is one the file may have.
LEMMA ResolvedNameOwn ==
  ASSUME TypeOK, NEW j \in Job, j.content \in Writable[j.file],
         sticky[j.file] \in NamesOf(j.file) \cup {None}, Out(j).error = None
  PROVE  /\ ResolvedName(j) \in NamesOf(j.file)
         /\ Out(j).name # None => Out(j).name \in NamesOf(j.file)
<1>1. Out(j) \in Outputs(j.file)
  BY OutOwn
<1> DEFINE name == IF Out(j).name # None THEN Out(j).name ELSE Unknown
<1>2. name \in NamesOf(j.file)
  BY <1>1 DEF NamesOf
<1> QED BY <1>2 DEF ResolvedName

LEMMA NameNext ==
  ASSUME TypeOK, Single, ContentInv, NameInv, JobInv, Next
  PROVE  NameInv'
<1> USE DEF envVars, pluginVars, pushVars, linkVars, scanVars, threadVars, serverVars
<1>1. CASE UNCHANGED <<sticky, cache>>
  BY <1>1 DEF NameInv
<1>2. ASSUME NEW g \in Game, PluginChanged(Loop, g) PROVE NameInv'
  BY <1>2 DEF PluginChanged, NameInv
<1>3. CASE ParseSucceeded(Loop)
  <2> DEFINE j == job[Loop]
  <2>1. j \in Job /\ pc[Loop] = "parsed" /\ Out(j).error = None /\ j.file \in File
    BY <1>3, JobInHand DEF ParseSucceeded, Job
  <2>2. j.content \in Writable[j.file] /\ sticky[j.file] \in NamesOf(j.file) \cup {None}
    BY <2>1 DEF ContentInv, NameInv
  <2>3. Out(j).name # None => Out(j).name \in NamesOf(j.file)
    BY <2>1, <2>2, ResolvedNameOwn
  <2>4. UNCHANGED cache /\ (UNCHANGED sticky \/
          (Out(j).name # None /\ sticky' = [sticky EXCEPT ![j.file] = Out(j).name]))
    BY <1>3 DEF ParseSucceeded
  <2> QED BY <2>1, <2>3, <2>4 DEF NameInv, TypeOK
<1>4. CASE Record(Loop)
  <2> DEFINE j == job[Loop]
             entry == [name |-> j.name, sections |-> Out(j).sections, ver |-> j.ver]
  <2>1. j \in Job /\ pc[Loop] = "sent" /\ j.file \in File
    BY <1>4, JobInHand DEF Record, Job
  <2>2. entry.name \in NamesOf(j.file)
    BY <2>1 DEF JobInv
  <2>3. UNCHANGED sticky /\ (UNCHANGED cache \/ cache' = [cache EXCEPT ![j.file] = entry])
    BY <1>4 DEF Record
  <2> HIDE DEF entry
  <2> QED BY <2>1, <2>2, <2>3 DEF NameInv, TypeOK
<1>5. \/ UNCHANGED <<sticky, cache>>
      \/ \E g \in Game : PluginChanged(Loop, g)
      \/ ParseSucceeded(Loop)
      \/ Record(Loop)
  BY OneThread DEF Environment, Write, Delete, EmitRemove, Emit, Publish, Drop, Connect,
     EventLoop, HandleFileEvent, AnnounceOnline, ScanGame, RescanGame, ReloadPlugin,
     UpdatePlugins, Pipeline, NextFile, ReadError, RunPlugin, Recheck, Push,
     SendDropped, SendError, ParseFailed, ReportFailure, RecordFailure
<1> QED BY <1>1, <1>2, <1>3, <1>4, <1>5

\* A delta taken against what the server has makes it whole.
LEMMA MergedWhole ==
  ASSUME NEW j \in Job, NEW prev \in SectionMap,
         j.delta = Changed(prev, Out(j).sections),
         NEW stored, prev = stored \/ prev = NoSave
  PROVE  Merged(stored, j) = Out(j).sections
<1>1. Out(j).sections \in SectionMap
  BY OutType DEF Outcome
<1> DEFINE new == Out(j).sections
<1>2. ASSUME NEW s \in Section
      PROVE  new[s] = IF new[s] = None THEN None
                      ELSE IF s \in j.delta THEN new[s] ELSE stored[s]
  BY <1>2 DEF Changed, NoSave
<1> HIDE DEF new
<1>3. new = [s \in Section |-> new[s]]
  BY <1>1 DEF SectionMap, new
<1>4. Merged(stored, j) = [s \in Section |-> new[s]]
  BY <1>2 DEF Merged, new
<1> QED BY <1>3, <1>4 DEF new

\* The hashes a delta is taken against are sections.
LEMMA PushedType ==
  ASSUME TypeOK, NEW f \in File, NEW name
  PROVE  PushedBefore(f, name) \in SectionMap
BY DEF PushedBefore, TypeOK, Cached, NoSave, SectionMap

LEMMA JobNext ==
  ASSUME TypeOK, TypeOK', Single, "outage" \notin Faults,
         ContentInv, NameInv, JobInv, CacheInv, Next
  PROVE  JobInv'
<1> USE DEF envVars, pluginVars, pushVars, linkVars, scanVars, threadVars, serverVars
<1> DEFINE j == job[Loop]
<1>1. CASE pc'[Loop] = "ready"
  BY <1>1 DEF JobInv
<1>2. CASE UNCHANGED <<pc, job, gen, runner, pushVars, serverVars>>
  BY <1>2 DEF JobInv, Fresh, ResolvedName, PushedBefore, JobSave
<1>3. ASSUME NEW f \in File, NEW c \in Content, UNCHANGED gen,
             pc' = [pc EXCEPT ![Loop] = "run"],
             job' = [job EXCEPT ![Loop] = NewJob(f, c)]
      PROVE  JobInv'
  <2>1. pc'[Loop] = "run" /\ job'[Loop] = NewJob(f, c)
    BY <1>3 DEF TypeOK
  <2>2. Fresh(job[Loop])'
    BY <1>3, <2>1 DEF Fresh, NewJob
  <2> QED BY <2>1, <2>2 DEF JobInv
<1>4. CASE UNCHANGED <<pc, job>> /\ pc[Loop] = "ready"
  BY <1>1, <1>4
<1>5. CASE Pipeline(Loop) /\ pc[Loop] # "ready" /\ pc'[Loop] # "ready"
  <2>1. /\ j \in Job /\ job'[Loop].file = j.file /\ job'[Loop].gen = j.gen
        /\ job'[Loop].content = j.content
        /\ UNCHANGED <<gen, runner, cache>>
    <3>1. ~Finish(Loop)
      BY <1>5 DEF Finish, Goto, TypeOK
    <3>2. UNCHANGED <<gen, runner, cache>>
      BY <1>5, <3>1 DEF Pipeline, NextFile, ReadError, RunPlugin, ParseSucceeded, Recheck,
         Push, SendDropped, SendError, Record, ParseFailed, ReportFailure, RecordFailure
    <3> QED BY <1>5, <3>2, JobInHand, JobMoves
  <2>2. Fresh(job[Loop])'
    BY <1>5, <2>1 DEF JobInv, Fresh
  <2>3. CASE RunPlugin(Loop)
    <3> DEFINE k == [j EXCEPT !.ver = runner[GameOf[j.file]]]
    <3>1. job' = [job EXCEPT ![Loop] = k] /\ pc'[Loop] = "parsed"
      BY <2>3 DEF RunPlugin, Goto, TypeOK
    <3>2. k.ver = runner[GameOf[j.file]]
      BY <2>1 DEF Job
    <3> HIDE DEF k
    <3>3. job'[Loop].ver = runner'[GameOf[job'[Loop].file]]
      BY <2>1, <3>1, <3>2 DEF TypeOK
    <3> QED BY <2>2, <3>1, <3>3 DEF JobInv
  <2>4. CASE pc[Loop] # "run"
    <3>1. job'[Loop].ver = j.ver /\ j.ver = runner[GameOf[j.file]] /\ Out(job[Loop])' = Out(j)
      BY <1>5, <2>1, <2>4, JobMoves DEF JobInv, Out
    <3>2. job'[Loop].ver = runner'[GameOf[job'[Loop].file]]
      BY <2>1, <3>1
    <3>3. CASE ParseSucceeded(Loop)
      <4> DEFINE name == ResolvedName(j)
                 delta == Delta(j)
                 k == [j EXCEPT !.name = name, !.delta = delta]
      <4>1. /\ job' = [job EXCEPT ![Loop] = k] /\ pc'[Loop] = "diff"
            /\ pc[Loop] = "parsed" /\ Out(j).error = None
            /\ sticky' = IF Out(j).name # None
                         THEN [sticky EXCEPT ![j.file] = Out(j).name] ELSE sticky
        <5>1. ~Finish(Loop)
          BY <1>5 DEF Finish, Goto, TypeOK
        <5>2. job' = [job EXCEPT ![Loop] = k] /\ Goto(Loop, "diff")
          BY <3>3, <5>1 DEF ParseSucceeded
        <5>3. /\ pc[Loop] = "parsed" /\ Out(j).error = None
              /\ sticky' = IF Out(j).name # None
                           THEN [sticky EXCEPT ![j.file] = Out(j).name] ELSE sticky
          BY <3>3 DEF ParseSucceeded
        <5> QED BY <5>2, <5>3 DEF Goto, TypeOK
      <4>2. k.name = name /\ k.delta = delta /\ k.file = j.file
        BY <2>1 DEF Job
      <4> HIDE DEF k
      <4>3. job'[Loop] = k
        BY <4>1 DEF TypeOK
      <4>4. name \in NamesOf(j.file)
        <5>1. j.content \in Writable[j.file] /\ j.file \in File
          BY <1>5, <2>1 DEF ContentInv, Job
        <5>2. sticky[j.file] \in NamesOf(j.file) \cup {None}
          BY <5>1 DEF NameInv
        <5> QED BY <2>1, <4>1, <5>1, <5>2, ResolvedNameOwn
      <4>5. ResolvedName(job[Loop])' = name
        <5>1. CASE Out(j).name # None
          BY <3>1, <5>1 DEF ResolvedName
        <5>2. CASE Out(j).name = None
          <6>1. UNCHANGED sticky
            BY <4>1, <5>2
          <6> QED BY <2>1, <3>1, <5>2, <6>1 DEF ResolvedName
        <5> QED BY <5>1, <5>2
      <4>6. PushedBefore(job[Loop].file, job[Loop].name)' = PushedBefore(j.file, name)
        BY <2>1, <4>2, <4>3 DEF PushedBefore
      <4>7. job'[Loop].delta = Changed(PushedBefore(j.file, name), Out(j).sections)
        BY <4>2, <4>3 DEF Delta
      <4> QED BY <2>1, <2>2, <3>1, <3>2, <4>1, <4>2, <4>3, <4>4, <4>5, <4>6, <4>7 DEF JobInv
    <3>4. CASE Push(Loop)
      <4> DEFINE k == JobSave
                 prev == PushedBefore(j.file, j.name)
      <4>1. /\ pc[Loop] = "send" /\ pc'[Loop] = "sent" /\ UNCHANGED <<job, pushVars>>
            /\ server' = [server EXCEPT ![k] = Merged(server[k], j)]
        BY <3>4 DEF Push, Goto, TypeOK, JobSave
      <4>2. k \in Save /\ j.file \in File
        BY <2>1 DEF JobSave, Save, Job
      <4>3. prev = server[k] \/ prev = NoSave
        BY <4>1, <4>2 DEF PushedBefore, CacheInv, Recording, JobSave
      <4>4. prev \in SectionMap /\ j.delta = Changed(prev, Out(j).sections)
        BY <4>1, <4>2, PushedType DEF JobInv
      <4>5. server'[k] = Out(j).sections
        <5>1. Merged(server[k], j) = Out(j).sections
          BY <2>1, <4>3, <4>4, MergedWhole
        <5> QED BY <4>1, <4>2, <5>1 DEF TypeOK
      <4>6. JobSave' = k
        BY <4>1 DEF JobSave
      <4>7. ResolvedName(job[Loop])' = ResolvedName(j)
        BY <4>1 DEF ResolvedName, Out
      <4> QED BY <2>2, <3>1, <3>2, <4>1, <4>5, <4>6, <4>7 DEF JobInv
    <3>5. CASE /\ UNCHANGED <<job, pushVars, server>>
               /\ pc'[Loop] \in {"send", "fail", "failed"}
               /\ pc'[Loop] = "send" => pc[Loop] = "diff"
      <4>1. /\ ResolvedName(job[Loop])' = ResolvedName(j)
            /\ PushedBefore(job[Loop].file, job[Loop].name)' = PushedBefore(j.file, j.name)
        BY <3>5 DEF ResolvedName, PushedBefore, Out
      <4> QED BY <2>2, <3>1, <3>2, <3>5, <4>1 DEF JobInv
    <3>6. \/ ParseSucceeded(Loop) \/ Push(Loop)
          \/ /\ UNCHANGED <<job, pushVars, server>>
             /\ pc'[Loop] \in {"send", "fail", "failed"}
             /\ pc'[Loop] = "send" => pc[Loop] = "diff"
      <4>1. ~Finish(Loop)
        BY <1>5 DEF Finish, Goto, TypeOK
      <4>2. ~RunPlugin(Loop) /\ ~SendDropped(Loop) /\ pc[Loop] # "ready"
        BY <1>5, <2>4 DEF RunPlugin, SendDropped
      <4> QED BY <1>5, <4>1, <4>2 DEF Pipeline, NextFile, ReadError, Recheck, SendError,
                 Record, ParseFailed, ReportFailure, RecordFailure, Goto, TypeOK
    <3> QED BY <3>3, <3>4, <3>5, <3>6
  <2>5. pc[Loop] = "run" => RunPlugin(Loop)
    BY <1>5 DEF Pipeline, NextFile, ReadError, ParseSucceeded, Recheck, Push, SendDropped,
       SendError, Record, ParseFailed, ReportFailure, RecordFailure
  <2> QED BY <2>3, <2>4, <2>5
<1>6. pc[Loop] # "ready" /\ ~Pipeline(Loop) => UNCHANGED <<pc, job, gen, runner, pushVars, serverVars>>
  <2> SUFFICES ASSUME pc[Loop] # "ready", ~Pipeline(Loop)
               PROVE UNCHANGED <<pc, job, gen, runner, pushVars, serverVars>>
    OBVIOUS
  <2>1. Environment
    BY OneThread DEF EventLoop, HandleFileEvent, AnnounceOnline, ScanGame, RescanGame,
       ReloadPlugin, UpdatePlugins, PluginChanged, Idle, Ready
  <2> QED BY <2>1 DEF Environment, Write, Delete, EmitRemove, Emit, Publish, Drop, Connect
<1> QED BY <1>1, <1>2, <1>3, <1>4, <1>5, <1>6, JobBegins

LEMMA CacheNext ==
  ASSUME TypeOK, TypeOK', Single, Separate, "outage" \notin Faults,
         ContentInv, NameInv, JobInv, CacheInv, Next
  PROVE  CacheInv'
<1> USE DEF envVars, pluginVars, pushVars, linkVars, scanVars, threadVars, serverVars
<1> DEFINE j == job[Loop]
<1>1. CASE UNCHANGED <<cache, server>> /\ \A f \in File : Recording(f) => Recording(f)'
  BY <1>1 DEF CacheInv
<1>2. ASSUME NEW g \in Game, PluginChanged(Loop, g) PROVE CacheInv'
  <2>1. pc[Loop] = "ready" /\ UNCHANGED <<server, pc>>
    BY <1>2 DEF PluginChanged, Ready
  <2>2. \A f \in File : cache'[f] = None \/ cache'[f] = cache[f]
    BY <1>2 DEF PluginChanged
  <2> QED BY <2>1, <2>2 DEF CacheInv, Recording
<1>3. CASE Push(Loop)
  <2>1. /\ pc[Loop] = "send" /\ pc'[Loop] = "sent" /\ UNCHANGED <<job, cache>>
        /\ server' = [server EXCEPT ![JobSave] = Merged(server[JobSave], j)]
    BY <1>3 DEF Push, Goto, TypeOK, JobSave
  <2>2. j \in Job /\ j.file \in File /\ j.name \in NamesOf(j.file)
    BY <2>1, JobInHand DEF Job, JobInv
  <2>3. SUFFICES ASSUME NEW f \in File, cache[f] # None, f # j.file
                 PROVE  server'[<<GameOf[f], cache[f].name>>] = cache[f].sections
    BY <2>1 DEF CacheInv, Recording
  <2> DEFINE k == <<GameOf[f], cache[f].name>>
  <2>4. cache[f].name \in NamesOf(f) /\ cache[f].name \in Name
    BY <2>3 DEF NameInv, TypeOK, Cached
  <2>5. k # JobSave
    BY <2>2, <2>3, <2>4 DEF Separate, JobSave
  <2>6. k \in Save
    BY <2>4 DEF Save
  <2>7. server[k] = cache[f].sections
    BY <2>1, <2>3 DEF CacheInv, Recording
  <2> HIDE DEF k
  <2>8. server'[k] = server[k]
    BY <2>1, <2>5, <2>6 DEF TypeOK
  <2> QED BY <2>7, <2>8 DEF k
<1>4. CASE Record(Loop)
  <2> DEFINE entry == [name |-> j.name, sections |-> Out(j).sections, ver |-> j.ver]
  <2>1. j \in Job /\ j.file \in File /\ pc[Loop] = "sent" /\ Fresh(j)
    BY <1>4, JobInHand DEF Record, Job, JobInv
  <2>2. UNCHANGED server /\ cache' = [cache EXCEPT ![j.file] = entry]
    BY <1>4, <2>1 DEF Record
  <2>3. entry.name = j.name /\ entry.sections = Out(j).sections
    OBVIOUS
  <2> HIDE DEF entry
  <2>4. server[<<GameOf[j.file], entry.name>>] = entry.sections
    BY <2>1, <2>3 DEF JobInv, JobSave
  <2> SUFFICES ASSUME NEW f \in File, cache'[f] # None
               PROVE  server[<<GameOf[f], cache'[f].name>>] = cache'[f].sections
    BY <2>2 DEF CacheInv
  <2>5. CASE f = j.file
    BY <2>2, <2>4, <2>5 DEF TypeOK
  <2>6. CASE f # j.file
    BY <2>1, <2>2, <2>6 DEF CacheInv, Recording, TypeOK
  <2> QED BY <2>5, <2>6
<1>5. CASE ~Push(Loop) /\ ~Record(Loop) /\ ~\E g \in Game : PluginChanged(Loop, g)
  <2>1. UNCHANGED <<cache, server>>
    BY <1>5, OneThread DEF Environment, Write, Delete, EmitRemove, Emit, Publish, Drop,
       Connect, EventLoop, HandleFileEvent, AnnounceOnline, ScanGame, RescanGame,
       ReloadPlugin, UpdatePlugins, Pipeline, NextFile, ReadError, RunPlugin,
       ParseSucceeded, Recheck, SendDropped, SendError, ParseFailed, ReportFailure,
       RecordFailure
  <2>2. pc[Loop] = "sent" => UNCHANGED <<pc, job>>
    <3>1. pc[Loop] = "sent" => ~Pipeline(Loop)
      BY <1>5 DEF Pipeline, NextFile, ReadError, RunPlugin, ParseSucceeded, Recheck,
         SendDropped, SendError, ParseFailed, ReportFailure, RecordFailure
    <3> QED BY <3>1, JobBegins
  <2> QED BY <1>1, <2>1, <2>2 DEF Recording
<1> QED BY <1>2, <1>3, <1>4, <1>5

LEMMA AgeNext ==
  ASSUME TypeOK, TypeOK', Single, GenerationInv, JobInv, AgeInv, Next
  PROVE  AgeInv'
<1> USE DEF envVars, pluginVars, pushVars, linkVars, scanVars, threadVars, serverVars
<1>0. \A g \in Game : runner[g] \in Nat /\ latest[g] \in Nat /\ runner'[g] \in Nat
  BY DEF TypeOK, Version
<1>1. \A g \in Game : runner'[g] >= runner[g]
  <2>1. \A g \in Game : runner[g] <= latest[g]
    BY DEF GenerationInv, VersionsRise
  <2>2. \A g \in Game : runner'[g] \in {runner[g], latest[g]}
    <3>1. CASE UNCHANGED runner
      BY <3>1
    <3>2. ASSUME NEW g \in Game, ScanGame(g) \/ ReloadPlugin(g)
          PROVE  \A h \in Game : runner'[h] \in {runner[h], latest[h]}
      <4>1. runner' \in {runner, [runner EXCEPT ![g] = latest[g]]}
        BY <3>2 DEF ScanGame, ReloadPlugin
      <4> QED BY <4>1 DEF TypeOK
    <3>3. CASE UpdatePlugins(Loop)
      BY <3>3 DEF UpdatePlugins
    <3>4. \/ UNCHANGED runner
          \/ \E g \in Game : ScanGame(g) \/ ReloadPlugin(g)
          \/ UpdatePlugins(Loop)
      BY OneThread DEF Environment, Write, Delete, EmitRemove, Emit, Publish, Drop,
         Connect, EventLoop, HandleFileEvent, AnnounceOnline, RescanGame,
         PluginChanged, Pipeline, NextFile, ReadError, RunPlugin, ParseSucceeded,
         Recheck, Push, SendDropped, SendError, Record, ParseFailed, ReportFailure,
         RecordFailure
    <3> QED BY <3>1, <3>2, <3>3, <3>4
  <2> QED BY <1>0, <2>1, <2>2
<1>2. CASE UNCHANGED serverVer
  <2> SUFFICES ASSUME NEW k \in Save PROVE serverVer[k] <= runner'[k[1]]
    BY <1>2 DEF AgeInv
  <2>1. k[1] \in Game /\ serverVer[k] \in Nat
    BY DEF Save, TypeOK
  <2>2. serverVer[k] <= runner[k[1]] /\ runner'[k[1]] >= runner[k[1]]
    BY <1>1, <2>1 DEF AgeInv
  <2> QED BY <1>0, <2>1, <2>2
<1>3. CASE Push(Loop)
  <2> DEFINE j == job[Loop]
  <2>1. /\ pc[Loop] = "send" /\ UNCHANGED runner
        /\ serverVer' = [serverVer EXCEPT ![JobSave] = j.ver]
    BY <1>3 DEF Push, JobSave
  <2>2. j \in Job /\ j.ver = runner[GameOf[j.file]] /\ GameOf[j.file] \in Game
    BY <2>1, JobInHand DEF JobInv, Job
  <2> SUFFICES ASSUME NEW k \in Save PROVE serverVer'[k] <= runner[k[1]]
    BY <2>1 DEF AgeInv
  <2>3. CASE k = JobSave
    <3>1. k[1] = GameOf[j.file]
      BY <2>3 DEF JobSave
    <3>2. serverVer'[k] = j.ver
      BY <2>1, <2>3 DEF TypeOK
    <3> QED BY <1>0, <2>2, <3>1, <3>2
  <2>4. CASE k # JobSave
    BY <2>1, <2>4 DEF AgeInv, TypeOK
  <2> QED BY <2>3, <2>4
<1>4. UNCHANGED serverVer \/ Push(Loop)
  BY OneThread DEF Environment, Write, Delete, EmitRemove, Emit, Publish, Drop,
     Connect, EventLoop, HandleFileEvent, AnnounceOnline, ScanGame, RescanGame,
     ReloadPlugin, UpdatePlugins, PluginChanged, Pipeline, NextFile, ReadError,
     RunPlugin, ParseSucceeded, Recheck, SendDropped, SendError, Record,
     ParseFailed, ReportFailure, RecordFailure
<1> QED BY <1>2, <1>3, <1>4

LEMMA MirrorInvInit == ASSUME Init PROVE MirrorInv
<1>1. ContentInv /\ NameInv
  BY DEF Init, ContentInv, NameInv
<1>2. JobInv /\ CacheInv /\ AgeInv
  <2>1. \A k \in Save : k[1] \in Game
    BY DEF Save
  <2> QED BY <2>1 DEF Init, JobInv, CacheInv, AgeInv
<1> QED BY <1>1, <1>2 DEF MirrorInv

LEMMA MirrorInvNext ==
  ASSUME Single, Separate, "outage" \notin Faults,
         TypeOK, TypeOK', GenerationInv, MirrorInv, [Next]_vars
  PROVE  MirrorInv'
<1>1. CASE UNCHANGED vars
  BY <1>1 DEF vars, envVars, pluginVars, pushVars, linkVars, scanVars, threadVars,
     serverVars, MirrorInv, ContentInv, NameInv, JobInv, CacheInv, AgeInv, Fresh,
     ResolvedName, PushedBefore, JobSave, Recording, Out
<1>2. CASE Next
  BY <1>2, ContentNext, NameNext, JobNext, CacheNext, AgeNext DEF MirrorInv
<1> QED BY <1>1, <1>2

LEMMA MirrorInvCorrect ==
  ASSUME Single, Separate, "outage" \notin Faults PROVE Spec => []MirrorInv
<1>1. Init => MirrorInv
  BY MirrorInvInit
<1>2. TypeOK /\ TypeOK' /\ GenerationInv /\ MirrorInv /\ [Next]_vars => MirrorInv'
  BY MirrorInvNext
<1> QED BY <1>1, <1>2, TypeCorrect, GenerationCorrect, PTL DEF Spec

\* The empty server is the empty mirror.
LEMMA MirrorInit == ASSUME Init PROVE Mirror!Init
BY DEF Init, Mirror!Init

\* A push replaces one save by what one parse of one file gave, and no other
\* step touches the saves.
LEMMA MirrorNext ==
  ASSUME Single, TypeOK, MirrorInv, JobInv', [Next]_vars
  PROVE  [Mirror!Next]_<<server, serverVer>>
<1> USE DEF envVars, pluginVars, pushVars, linkVars, scanVars, threadVars, serverVars
<1>1. CASE UNCHANGED <<server, serverVer>>
  BY <1>1
<1>2. CASE Push(Loop)
  <2> DEFINE j == job[Loop]
             k == JobSave
             snap == [ver |-> j.ver, sections |-> Out(j).sections]
  <2>0. pc \in [Thread -> Stage]
    BY DEF TypeOK
  <2>1. /\ pc[Loop] = "send" /\ pc'[Loop] = "sent" /\ UNCHANGED job
        /\ server' = [server EXCEPT ![k] = Merged(server[k], j)]
        /\ serverVer' = [serverVer EXCEPT ![k] = j.ver]
    <3>1. /\ pc[Loop] = "send" /\ Goto(Loop, "sent") /\ UNCHANGED job
          /\ server' = [server EXCEPT ![k] = Merged(server[k], j)]
          /\ serverVer' = [serverVer EXCEPT ![k] = j.ver]
      BY <1>2 DEF Push, JobSave
    <3> QED BY <2>0, <3>1 DEF Goto
  <2>2. /\ j \in Job /\ k \in Save /\ Out(j).error = None
        /\ j.ver = runner[GameOf[j.file]] /\ k[1] = GameOf[j.file]
    BY <2>1, JobInHand DEF MirrorInv, JobInv, JobSave, Save, Job
  <2>3. server'[k] = Out(j).sections
    BY <2>1 DEF JobInv, JobSave, Out
  <2>4. server' = [server EXCEPT ![k] = snap.sections]
    <3>1. server \in [Save -> SectionMap]
      BY DEF TypeOK
    <3>2. Merged(server[k], j) = Out(j).sections
      BY ONLY <2>1, <2>2, <2>3, <3>1
    <3>3. snap.sections = Out(j).sections
      OBVIOUS
    <3> QED BY ONLY <2>1, <3>2, <3>3
  <2>5. snap \in Snapshots
    <3>1. <<j.ver, j.content>> \in Version \X Content
      BY <2>2 DEF Job
    <3>2. Parse[<<j.ver, j.content>>].error = None
          /\ snap = [ver |-> <<j.ver, j.content>>[1],
                     sections |-> Parse[<<j.ver, j.content>>].sections]
      BY <2>2 DEF Out
    <3> QED BY <3>1, <3>2 DEF Snapshots
  <2>6. snap.ver >= serverVer[k]
    BY <2>2 DEF MirrorInv, AgeInv
  <2>7. serverVer' = [serverVer EXCEPT ![k] = snap.ver]
    BY <2>1
  <2>8. Mirror!Replace(k, snap)
    BY <2>4, <2>6, <2>7 DEF Mirror!Replace
  <2> QED BY <2>2, <2>5, <2>8 DEF Mirror!Next
<1>3. UNCHANGED <<server, serverVer>> \/ Push(Loop)
  BY OneThread DEF Environment, Write, Delete, EmitRemove, Emit, Publish, Drop,
     Connect, EventLoop, HandleFileEvent, AnnounceOnline, ScanGame, RescanGame,
     ReloadPlugin, UpdatePlugins, PluginChanged, Pipeline, NextFile, ReadError,
     RunPlugin, ParseSucceeded, Recheck, SendDropped, SendError, Record,
     ParseFailed, ReportFailure, RecordFailure, vars
<1> QED BY <1>1, <1>2, <1>3

\* The pipeline refines SaveMirror: whatever happens to the files, the plugins
\* and the connection, each step of it leaves the server's saves alone or
\* replaces one by a complete snapshot of a plugin at least as new.
THEOREM Implements ==
  ASSUME Single, Separate, "outage" \notin Faults
  PROVE  Spec => ImplementsMirror
<1>1. Init => Mirror!Init
  BY MirrorInit
<1>2. TypeOK /\ MirrorInv /\ MirrorInv' /\ [Next]_vars => [Mirror!Next]_<<server, serverVer>>
  BY MirrorNext DEF MirrorInv
<1> QED
  BY <1>1, <1>2, TypeCorrect, MirrorInvCorrect, PTL DEF Spec, ImplementsMirror, Mirror!Spec

\* Every save on the server is the complete result of one parse, although
\* only changed sections are sent.
THEOREM SavesWhole ==
  ASSUME Single, Separate, "outage" \notin Faults
  PROVE  Spec => []WholeSaves
<1>1. Init => WholeSaves
  BY DEF Init, WholeSaves
<1>2. ASSUME TypeOK, MirrorInv, JobInv', [Next]_vars, WholeSaves PROVE WholeSaves'
  <2>1. [Mirror!Next]_<<server, serverVer>>
    BY <1>2, MirrorNext
  <2>2. ASSUME NEW k \in Save, NEW snap \in Snapshots, Mirror!Replace(k, snap)
        PROVE  WholeSaves'
    <3>1. server' = [server EXCEPT ![k] = snap.sections]
      BY <2>2 DEF Mirror!Replace
    <3>2. PICK vc \in Version \X Content :
             Parse[vc].error = None /\ snap = [ver |-> vc[1], sections |-> Parse[vc].sections]
      BY DEF Snapshots
    <3>3. vc = <<vc[1], vc[2]>> /\ vc[1] \in Version /\ vc[2] \in Content
      BY <3>2
    <3>4. Whole(snap.sections)
      BY <3>2, <3>3 DEF Whole
    <3>5. \A l \in Save : server'[l] \in {server[l], snap.sections}
      BY <1>2, <3>1 DEF TypeOK
    <3>6. ASSUME NEW l \in Save PROVE server'[l] = NoSave \/ Whole(server'[l])
      <4>1. CASE server'[l] = server[l]
        BY <1>2, <4>1 DEF WholeSaves
      <4>2. CASE server'[l] = snap.sections
        BY <3>4, <4>2
      <4> QED BY <3>5, <4>1, <4>2
    <3> QED BY <3>6 DEF WholeSaves
  <2> QED BY <1>2, <2>1, <2>2 DEF Mirror!Next, WholeSaves, Whole
<1> QED
  BY <1>1, <1>2, TypeCorrect, MirrorInvCorrect, PTL DEF Spec, MirrorInv

-----------------------------------------------------------------------------
(***************************************************************************)
(* At rest.  An update of the plugin or of the file shows in the sections  *)
(* that are there: none comes without sections, and none only drops some   *)
(* (a push without changed sections is skipped, whatever has vanished).    *)
(***************************************************************************)
Telling ==
  \A f \in File : \A old, new \in Outputs(f) :
    /\ new.sections # NoSave
    /\ /\ old.name = new.name \/ None \in {old.name, new.name}
       /\ Changed(old.sections, new.sections) = {}
       => new.sections = old.sections

\* What is remembered as pushed is what one parse of the file gave.
CacheOutInv ==
  \A f \in File : cache[f] # None =>
    \E out \in Outputs(f) : /\ out.sections = cache[f].sections
                            /\ out.name \in {None, cache[f].name}

\* The watcher works for watched directories alone; a timer is armed only for
\* a file that differs from what was reported, and a file that came back
\* before its removal was reported has its timer armed.
WatchInv ==
  /\ \A f \in dirty : Watched(f) /\ disk[f] # None /\ disk[f] # hashes[f]
  /\ \A f \in removed : Watched(f) /\ (disk[f] # None => f \in dirty)
  /\ \A i \in 1..Len(events) : Watched(events[i].file)

\* The last event of the file carries what it holds; or it has none.
Reported(f) ==
  \E i \in 1..Len(events) :
    /\ events[i].file = f /\ events[i].data = disk[f]
    /\ \A j \in i+1..Len(events) : events[j].file # f
Unreported(f) == \A i \in 1..Len(events) : events[i].file # f

\* No event is the last one of its file and out of date.
EventInv ==
  \A f \in Tracked : f \in dirty \/ Reported(f) \/ Unreported(f)

\* A remembered failure is one the server has, and is forgotten before the
\* next push.
FailInv ==
  /\ \A f \in File : failures[f] # None => f \in serverFailed
  /\ pc[Loop] \in {"diff", "send", "sent"} => failures[job[Loop].file] = None
  /\ pc[Loop] = "failed" => job[Loop].file \in serverFailed

\* The file will be parsed again because of a new connection or plugin.
Rescan(f) ==
  \/ ~conn
  \/ announce
  \/ GameOf[f] \in toScan
  \/ GameOf[f] \in target[Loop]
  \/ f \in todo[Loop]

\* The server has the file, or the job in hand holds what it holds.
Handled(f) ==
  IF pc[Loop] # "ready" /\ job[Loop].file = f THEN job[Loop].content = disk[f]
  ELSE InSync(f)

\* Of every tracked file something is still to come, or the server has it.
Rest(f) == f \in dirty \/ Reported(f) \/ Rescan(f) \/ Handled(f)
RestInv == \A f \in Tracked : Rest(f)

SyncInv == CacheOutInv /\ WatchInv /\ EventInv /\ FailInv /\ RestInv

-----------------------------------------------------------------------------
\* The queue of events, seen by one file.
LEMMA AppendOther ==
  ASSUME TypeOK, NEW f \in File, NEW e \in Event, e.file # f,
         events' = Append(events, e), disk'[f] = disk[f]
  PROVE  (Reported(f) => Reported(f)') /\ (Unreported(f) => Unreported(f)')
<1>0. events \in Seq(Event)
  BY DEF TypeOK
<1>1. /\ Len(events') = Len(events) + 1 /\ events'[Len(events) + 1] = e
      /\ Len(events) \in Nat
      /\ \A i \in 1..Len(events) : i \in 1..Len(events') /\ events'[i] = events[i]
  BY ONLY <1>0, events' = Append(events, e), e \in Event
<1>2. \A i \in 1..Len(events') : i \in 1..Len(events) \/ events'[i] = e
  BY AppendAt
<1>3. ASSUME Reported(f) PROVE Reported(f)'
  <2>1. PICK i \in 1..Len(events) :
           /\ events[i].file = f /\ events[i].data = disk[f]
           /\ \A j \in i+1..Len(events) : events[j].file # f
    BY <1>3 DEF Reported
  <2>2. ASSUME NEW j \in i+1..Len(events') PROVE events'[j].file # f
    <3>1. i \in Nat \ {0} /\ j \in Nat /\ i < j /\ j \in 1..Len(events')
      BY ONLY <1>1, <2>1, <2>2
    <3>2. CASE events'[j] = e
      BY <3>2
    <3>3. CASE j \in 1..Len(events) /\ events'[j] = events[j]
      <4>1. j \in i+1..Len(events)
        BY ONLY <1>1, <3>1, <3>3
      <4> QED BY <2>1, <3>3, <4>1
    <3> QED BY <3>1, <3>2, <3>3, AppendAt
  <2>3. i \in 1..Len(events') /\ events'[i].file = f /\ events'[i].data = disk'[f]
    BY <1>1, <2>1
  <2> QED BY <2>2, <2>3 DEF Reported
<1>4. ASSUME Unreported(f) PROVE Unreported(f)'
  BY <1>1, <1>2, <1>4 DEF Unreported
<1> QED BY <1>3, <1>4

LEMMA AppendOwn ==
  ASSUME TypeOK, NEW f \in File,
         events' = Append(events, [file |-> f, data |-> disk[f]]), disk'[f] = disk[f]
  PROVE  Reported(f)'
<1> DEFINE n == Len(events) + 1
<1>1. /\ Len(events') = n /\ n \in 1..Len(events')
      /\ events'[n] = [file |-> f, data |-> disk[f]]
  BY DEF TypeOK
<1>2. \A j \in n+1..Len(events') : FALSE
  BY <1>1
<1>3. events'[n].file = f /\ events'[n].data = disk'[f]
  BY <1>1
<1> QED BY <1>1, <1>2, <1>3 DEF Reported

LEMMA TailReported ==
  ASSUME TypeOK, NEW f \in File, events # <<>>, events' = Tail(events),
         disk'[f] = disk[f]
  PROVE  /\ Reported(f) => \/ Reported(f)'
                           \/ /\ Head(events).file = f /\ Head(events).data = disk[f]
                              /\ Unreported(f)'
         /\ Unreported(f) => Unreported(f)'
<1>0. events \in Seq(Event)
  BY DEF TypeOK
<1>1. /\ Len(events') = Len(events) - 1 /\ Len(events) \in Nat \ {0}
      /\ Head(events) = events[1]
  BY <1>0
<1>2. \A i \in 1..Len(events') : i + 1 \in 1..Len(events) /\ events'[i] = events[i + 1]
  BY <1>0
<1>3. \A i \in 2..Len(events) : i - 1 \in 1..Len(events') /\ events'[i - 1] = events[i]
  <2> SUFFICES ASSUME NEW i \in 2..Len(events)
               PROVE  i - 1 \in 1..Len(events') /\ events'[i - 1] = events[i]
    OBVIOUS
  <2>1. i - 1 \in 1..Len(events') /\ i - 1 + 1 = i
    BY <1>1
  <2> QED BY <1>2, <2>1
<1>4. ASSUME Reported(f)
      PROVE  \/ Reported(f)'
             \/ /\ Head(events).file = f /\ Head(events).data = disk[f]
                /\ Unreported(f)'
  <2>1. PICK i \in 1..Len(events) :
           /\ events[i].file = f /\ events[i].data = disk[f]
           /\ \A j \in i+1..Len(events) : events[j].file # f
    BY <1>4 DEF Reported
  <2>2. CASE i = 1
    <3>1. \A j \in 1..Len(events') : events'[j].file # f
      <4> SUFFICES ASSUME NEW j \in 1..Len(events') PROVE events'[j].file # f
        OBVIOUS
      <4>1. j + 1 \in i+1..Len(events)
        BY <1>1, <2>2
      <4> QED BY <1>2, <2>1, <4>1
    <3> QED BY <1>1, <2>1, <2>2, <3>1 DEF Unreported
  <2>3. CASE i # 1
    <3>1. i \in 2..Len(events)
      BY <1>1, <2>1, <2>3
    <3>2. i - 1 \in 1..Len(events') /\ events'[i - 1] = events[i]
      BY <1>3, <3>1
    <3>3. ASSUME NEW j \in i-1+1..Len(events') PROVE events'[j].file # f
      <4>1. j \in 1..Len(events') /\ j + 1 \in i+1..Len(events)
        BY <1>1, <3>1, <3>3
      <4> QED BY <1>2, <2>1, <4>1
    <3> QED BY <2>1, <3>2, <3>3 DEF Reported
  <2> QED BY <2>2, <2>3
<1>5. ASSUME Unreported(f) PROVE Unreported(f)'
  BY <1>2, <1>5 DEF Unreported
<1> QED BY <1>4, <1>5

\* What is remembered as pushed came from one parse of the file.
LEMMA CacheOutNext ==
  ASSUME TypeOK, TypeOK', Single, MirrorInv, CacheOutInv, Next
  PROVE  CacheOutInv'
<1> USE DEF envVars, pluginVars, pushVars, linkVars, scanVars, threadVars, serverVars
<1>1. CASE UNCHANGED cache
  BY <1>1 DEF CacheOutInv
<1>2. ASSUME NEW g \in Game, PluginChanged(Loop, g) PROVE CacheOutInv'
  <2>1. \A f \in File : cache'[f] = None \/ cache'[f] = cache[f]
    BY <1>2 DEF PluginChanged
  <2> QED BY <2>1 DEF CacheOutInv
<1>3. CASE Record(Loop)
  <2> DEFINE j == job[Loop]
             entry == [name |-> j.name, sections |-> Out(j).sections, ver |-> j.ver]
  <2>1. j \in Job /\ j.file \in File /\ pc[Loop] = "sent"
    BY <1>3, JobInHand DEF Record, Job
  <2>2. Out(j) \in Outputs(j.file) /\ Out(j).name \in {None, j.name}
    <3>1. /\ j.content \in Writable[j.file] /\ Out(j).error = None
          /\ Out(j).name \in {None, j.name}
      BY <2>1 DEF MirrorInv, ContentInv, JobInv, ResolvedName
    <3> QED BY <2>1, <3>1, OutOwn
  <2>3. UNCHANGED cache \/ cache' = [cache EXCEPT ![j.file] = entry]
    BY <1>3 DEF Record
  <2>4. entry.name = j.name /\ entry.sections = Out(j).sections
    OBVIOUS
  <2> HIDE DEF entry
  <2>5. CASE cache' = [cache EXCEPT ![j.file] = entry]
    <3> SUFFICES ASSUME NEW f \in File, cache'[f] # None
                 PROVE  \E out \in Outputs(f) :
                          /\ out.sections = cache'[f].sections
                          /\ out.name \in {None, cache'[f].name}
      BY DEF CacheOutInv
    <3>1. CASE f = j.file
      <4>1. cache'[f] = entry
        BY <2>5, <3>1 DEF TypeOK
      <4> QED BY <2>2, <2>4, <3>1, <4>1
    <3>2. CASE f # j.file
      <4>1. cache'[f] = cache[f]
        BY <2>5, <3>2 DEF TypeOK
      <4> QED BY <4>1 DEF CacheOutInv
    <3> QED BY <3>1, <3>2
  <2> QED BY <1>1, <2>3, <2>5
<1>4. UNCHANGED cache \/ (\E g \in Game : PluginChanged(Loop, g)) \/ Record(Loop)
  BY OneThread DEF Environment, Write, Delete, EmitRemove, Emit, Publish, Drop,
     Connect, EventLoop, HandleFileEvent, AnnounceOnline, ScanGame, RescanGame,
     ReloadPlugin, UpdatePlugins, Pipeline, NextFile, ReadError, RunPlugin,
     ParseSucceeded, Recheck, Push, SendDropped, SendError, ParseFailed,
     ReportFailure, RecordFailure
<1> QED BY <1>1, <1>2, <1>3, <1>4

\* Once watched, a directory stays so.
LEMMA WatchedGrows == ASSUME Single, Next PROVE watched \subseteq watched'
BY OneThread DEF Environment, Write, Delete, EmitRemove, Emit, Publish, Drop, Connect,
   EventLoop, HandleFileEvent, AnnounceOnline, ScanGame, Scan, RescanGame, ReloadPlugin,
   UpdatePlugins, PluginChanged, Pipeline, NextFile, ReadError, RunPlugin,
   ParseSucceeded, Recheck, Push, SendDropped, SendError, Record, ParseFailed,
   ReportFailure, RecordFailure, scanVars

\* Only the environment touches the disk and the watcher, and only the event
\* loop takes from its queue.
LEMMA WatcherSteps ==
  ASSUME Single, Next
  PROVE  \/ UNCHANGED <<disk, removed, dirty, hashes, events>>
         \/ \E f \in File : Write(f) \/ Delete(f) \/ EmitRemove(f) \/ Emit(f)
         \/ HandleFileEvent
BY OneThread DEF Environment, Publish, Drop, Connect, EventLoop, AnnounceOnline,
   ScanGame, RescanGame, ReloadPlugin, UpdatePlugins, PluginChanged, Pipeline,
   NextFile, ReadError, RunPlugin, ParseSucceeded, Recheck, Push, SendDropped,
   SendError, Record, ParseFailed, ReportFailure, RecordFailure, envVars

LEMMA WatchNext ==
  ASSUME TypeOK, TypeOK', Single, "flap" \notin Faults, WatchInv, Next
  PROVE  WatchInv'
<1>0. watched \subseteq watched'
  BY WatchedGrows
<1>1. CASE UNCHANGED <<disk, removed, dirty, hashes, events>>
  BY <1>0, <1>1 DEF WatchInv, Watched
<1>2. ASSUME NEW f \in File, Write(f) PROVE WatchInv'
  <2>1. PICK c \in Content : c # hashes[f] /\ disk' = [disk EXCEPT ![f] = c]
    BY <1>2 DEF Write
  <2>2. /\ UNCHANGED <<removed, hashes, events, watched>>
        /\ dirty' = IF Watched(f) THEN dirty \cup {f} ELSE dirty
    BY <1>2 DEF Write, scanVars
  <2>3. disk'[f] # None /\ disk'[f] # hashes[f] /\ \A g \in File \ {f} : disk'[g] = disk[g]
    BY <2>1 DEF TypeOK
  <2>4. dirty \subseteq File /\ removed \subseteq File
    BY DEF TypeOK
  <2> QED BY <2>2, <2>3, <2>4 DEF WatchInv, Watched
<1>3. ASSUME NEW f \in File, Delete(f) PROVE WatchInv'
  <2>1. /\ UNCHANGED <<hashes, events, watched>>
        /\ disk' = [disk EXCEPT ![f] = None]
        /\ dirty' = dirty \ {f}
        /\ removed' = IF Watched(f) THEN removed \cup {f} ELSE removed
    BY <1>3 DEF Delete, scanVars
  <2>2. disk'[f] = None /\ \A g \in File \ {f} : disk'[g] = disk[g]
    BY <2>1 DEF TypeOK
  <2>3. dirty \subseteq File /\ removed \subseteq File
    BY DEF TypeOK
  <2> QED BY <2>1, <2>2, <2>3 DEF WatchInv, Watched
<1>4. ASSUME NEW f \in File, NEW e \in Event, e.file = f, Watched(f),
             events' = Append(events, e), UNCHANGED watched
      PROVE  \A i \in 1..Len(events') : Watched(events[i].file)'
  <2> SUFFICES ASSUME NEW i \in 1..Len(events') PROVE GameOf[events'[i].file] \in watched
    BY <1>4 DEF Watched
  <2>1. CASE events'[i] = e
    BY <1>4, <2>1 DEF Watched
  <2>2. CASE i \in 1..Len(events) /\ events'[i] = events[i]
    BY <2>2 DEF WatchInv, Watched
  <2> QED BY <1>4, <2>1, <2>2, AppendAt
<1>5. ASSUME NEW f \in File, EmitRemove(f) PROVE WatchInv'
  <2> DEFINE e == [file |-> f, data |-> None]
  <2>1. /\ f \in removed /\ removed' = removed \ {f} /\ events' = Append(events, e)
        /\ hashes' = [hashes EXCEPT ![f] = None] /\ UNCHANGED <<disk, dirty, watched>>
    BY <1>5 DEF EmitRemove, scanVars
  <2>2. e \in Event /\ e.file = f /\ Watched(f)
    BY <2>1 DEF Event, WatchInv
  <2> HIDE DEF e
  <2>3. \A i \in 1..Len(events') : Watched(events[i].file)'
    BY <1>4, <2>1, <2>2
  <2>4. \A g \in dirty : disk[g] # None /\ disk[g] # hashes'[g]
    BY <2>1 DEF WatchInv, TypeOK
  <2> QED BY <2>1, <2>3, <2>4 DEF WatchInv, Watched
<1>6. ASSUME NEW f \in File, Emit(f) PROVE WatchInv'
  <2> DEFINE e == [file |-> f, data |-> disk[f]]
  <2>1. /\ f \in dirty \ removed /\ dirty' = dirty \ {f} /\ UNCHANGED <<disk, removed, watched>>
        /\ \/ hashes' = [hashes EXCEPT ![f] = disk[f]] /\ events' = Append(events, e)
           \/ UNCHANGED <<hashes, events>>
    BY <1>6 DEF Emit, scanVars
  <2>2. e \in Event /\ e.file = f /\ Watched(f)
    BY <2>1 DEF Event, WatchInv, TypeOK
  <2> HIDE DEF e
  <2>3. \A i \in 1..Len(events') : Watched(events[i].file)'
    <3>1. CASE UNCHANGED events
      BY <2>1, <3>1 DEF WatchInv, Watched
    <3> QED BY <1>4, <2>1, <2>2, <3>1
  <2>4. \A g \in dirty' : disk[g] # None /\ disk[g] # hashes'[g] /\ Watched(g)
    BY <2>1 DEF WatchInv, TypeOK
  <2> QED BY <2>1, <2>3, <2>4 DEF WatchInv, Watched
<1>7. CASE HandleFileEvent
  <2>1. /\ events # <<>> /\ events' = Tail(events)
        /\ UNCHANGED <<disk, removed, dirty, hashes, watched>>
    BY <1>7 DEF HandleFileEvent, scanVars
  <2>2. ASSUME NEW i \in 1..Len(events') PROVE Watched(events[i].file)'
    <3>1. i + 1 \in 1..Len(events) /\ events'[i] = events[i + 1]
      BY <2>1 DEF TypeOK
    <3> QED BY <2>1, <3>1 DEF WatchInv, Watched
  <2> QED BY <2>1, <2>2 DEF WatchInv, Watched
<1> QED BY <1>1, <1>2, <1>3, <1>5, <1>6, <1>7, WatcherSteps

LEMMA EventNext ==
  ASSUME TypeOK, TypeOK', Single, Faults \subseteq {"write"}, WatchInv, EventInv, Next
  PROVE  EventInv'
<1> SUFFICES ASSUME NEW f \in File, Watched(f)', disk'[f] # None
             PROVE  (f \in dirty \/ Reported(f) \/ Unreported(f))'
  BY DEF EventInv, Tracked
<1>1. CASE UNCHANGED <<disk, removed, dirty, hashes, events>>
  <2>1. CASE Watched(f)
    BY <1>1, <2>1 DEF EventInv, Tracked, Reported, Unreported
  <2>2. CASE ~Watched(f)
    BY <1>1, <2>2 DEF WatchInv, Unreported
  <2> QED BY <2>1, <2>2
<1>2. ASSUME NEW g \in File, Write(g) \/ Delete(g)
      PROVE  (f \in dirty \/ Reported(f) \/ Unreported(f))'
  <2>1. UNCHANGED <<events, watched>>
    BY <1>2 DEF Write, Delete, scanVars
  <2>2. CASE f = g
    BY <1>2, <2>1, <2>2 DEF Write, Delete, TypeOK, Watched
  <2>3. CASE f # g
    <3>1. disk'[f] = disk[f] /\ (f \in dirty => f \in dirty')
      BY <1>2, <2>3 DEF Write, Delete, TypeOK
    <3>2. f \in Tracked
      BY <2>1, <3>1 DEF Tracked, Watched
    <3> QED BY <2>1, <3>1, <3>2 DEF EventInv, Reported, Unreported
  <2> QED BY <2>2, <2>3
<1>3. ASSUME NEW g \in File, EmitRemove(g) \/ Emit(g)
      PROVE  (f \in dirty \/ Reported(f) \/ Unreported(f))'
  <2>1. UNCHANGED <<disk, watched>>
    BY <1>3 DEF EmitRemove, Emit, scanVars
  <2>2. f \in Tracked
    BY <2>1 DEF Tracked, Watched
  <2>3. CASE f = g /\ EmitRemove(g)
    BY <2>2, <2>3 DEF EmitRemove, WatchInv, Tracked
  <2>4. CASE f = g /\ Emit(g)
    <3>1. events' = Append(events, [file |-> f, data |-> disk[f]])
      BY <2>4 DEF Emit, WatchInv
    <3> QED BY <2>1, <3>1, AppendOwn
  <2>5. CASE f # g
    <3>1. f \in dirty => f \in dirty'
      BY <1>3, <2>5 DEF EmitRemove, Emit
    <3>2. UNCHANGED events \/ \E e \in Event : e.file = g /\ events' = Append(events, e)
      <4>1. [file |-> g, data |-> None] \in Event /\ [file |-> g, data |-> disk[g]] \in Event
        BY DEF Event, TypeOK
      <4> QED BY <1>3, <4>1 DEF EmitRemove, Emit
    <3>3. (Reported(f) => Reported(f)') /\ (Unreported(f) => Unreported(f)')
      <4>1. CASE UNCHANGED events
        BY <2>1, <4>1 DEF Reported, Unreported
      <4> QED BY <2>1, <2>5, <3>2, <4>1, AppendOther
    <3> QED BY <2>2, <3>1, <3>3 DEF EventInv
  <2> QED BY <1>3, <2>3, <2>4, <2>5
<1>4. CASE HandleFileEvent
  <2>1. /\ events # <<>> /\ events' = Tail(events)
        /\ UNCHANGED <<disk, removed, dirty, hashes, watched>>
    BY <1>4 DEF HandleFileEvent, scanVars
  <2>2. f \in Tracked
    BY <2>1 DEF Tracked, Watched
  <2> QED BY <2>1, <2>2, TailReported DEF EventInv
<1> QED BY <1>1, <1>2, <1>3, <1>4, WatcherSteps

LEMMA FailNext ==
  ASSUME TypeOK, TypeOK', Single, "outage" \notin Faults, MirrorInv, FailInv, Next
  PROVE  FailInv'
<1> USE DEF envVars, pluginVars, pushVars, linkVars, scanVars, threadVars, serverVars
<1> DEFINE j == job[Loop]
<1>0. pc[Loop] # "ready" => j \in Job /\ j.file \in File /\ Fresh(j)
  BY JobInHand DEF MirrorInv, JobInv, Job
<1>1. ASSUME \A f \in File : failures'[f] # None => failures[f] # None,
             serverFailed \subseteq serverFailed',
             \/ UNCHANGED <<pc, job>>
             \/ pc'[Loop] \notin {"diff", "send", "sent", "failed"}
             \/ UNCHANGED job /\ pc[Loop] = "diff" /\ pc'[Loop] = "send"
      PROVE  FailInv'
  BY <1>0, <1>1 DEF FailInv
<1>2. ASSUME pc[Loop] = "ready" \/ ~Pipeline(Loop) PROVE FailInv'
  <2>1. UNCHANGED <<pc, job>> \/ pc'[Loop] = "run"
    BY <1>2, JobBegins DEF TypeOK
  <2>2. UNCHANGED failures \/ HandleFileEvent \/ \E g \in Game : PluginChanged(Loop, g)
    BY <1>2, OneThread DEF Environment, Write, Delete, EmitRemove, Emit, Publish, Drop,
       Connect, EventLoop, AnnounceOnline, ScanGame, RescanGame, ReloadPlugin,
       UpdatePlugins, Pipeline, NextFile, ReadError, RunPlugin, ParseSucceeded, Recheck,
       Push, SendDropped, SendError, Record, ParseFailed, ReportFailure, RecordFailure
  <2>3. \A f \in File : failures'[f] # None => failures[f] # None
    BY <2>2 DEF HandleFileEvent, PluginChanged, TypeOK
  <2>4. serverFailed \subseteq serverFailed'
    BY <1>2, OneThread DEF Environment, Write, Delete, EmitRemove, Emit, Publish, Drop,
       Connect, EventLoop, HandleFileEvent, AnnounceOnline, ScanGame, RescanGame,
       ReloadPlugin, UpdatePlugins, PluginChanged, Pipeline, NextFile, ReadError,
       RunPlugin, ParseSucceeded, Recheck, Push, SendDropped, SendError, Record,
       ParseFailed, ReportFailure, RecordFailure
  <2> QED BY <1>1, <2>1, <2>3, <2>4
<1>3. CASE ParseSucceeded(Loop)
  <2>1. /\ pc[Loop] = "parsed" /\ UNCHANGED serverFailed
        /\ failures' = [failures EXCEPT ![j.file] = None]
    BY <1>0, <1>3 DEF ParseSucceeded
  <2>2. job'[Loop].file = j.file \/ pc'[Loop] = "ready"
    BY <2>1, <1>3, JobMoves DEF Pipeline
  <2>3. pc'[Loop] \in {"ready", "diff"}
    BY <1>3 DEF ParseSucceeded, Finish, Goto, TypeOK
  <2> QED BY <1>0, <2>1, <2>2, <2>3 DEF FailInv, TypeOK
<1>4. CASE Push(Loop)
  <2>1. /\ pc[Loop] = "send" /\ pc'[Loop] = "sent" /\ UNCHANGED <<failures, job>>
        /\ serverFailed' = serverFailed \ {j.file}
    BY <1>4 DEF Push, Goto, TypeOK
  <2> QED BY <1>0, <2>1 DEF FailInv
<1>5. CASE ReportFailure(Loop)
  <2>1. /\ pc[Loop] = "fail" /\ pc'[Loop] = "failed" /\ UNCHANGED <<failures, job>>
        /\ serverFailed' = serverFailed \cup {j.file}
    BY <1>5 DEF ReportFailure, Goto, TypeOK
  <2> QED BY <1>0, <2>1 DEF FailInv
<1>6. CASE RecordFailure(Loop)
  <2>1. pc[Loop] = "failed" /\ pc'[Loop] = "ready" /\ UNCHANGED serverFailed
    BY <1>6 DEF RecordFailure, Finish, Goto, TypeOK
  <2>2. \A f \in File \ {j.file} : failures'[f] = failures[f]
    BY <1>6 DEF RecordFailure, TypeOK
  <2> QED BY <2>1, <2>2 DEF FailInv
<1>7. CASE RunPlugin(Loop) \/ Recheck(Loop) \/ SendError(Loop) \/ Record(Loop) \/ ParseFailed(Loop)
  <2>1. UNCHANGED <<failures, serverFailed>>
    BY <1>7 DEF RunPlugin, Recheck, SendError, Record, ParseFailed
  <2>2. \/ pc'[Loop] \notin {"diff", "send", "sent", "failed"}
        \/ UNCHANGED job /\ pc[Loop] = "diff" /\ pc'[Loop] = "send"
    BY <1>7 DEF RunPlugin, Recheck, SendError, Record, ParseFailed, Finish, Goto, TypeOK
  <2> QED BY <1>1, <2>1, <2>2
<1> QED BY <1>2, <1>3, <1>4, <1>5, <1>6, <1>7 DEF Pipeline, NextFile, ReadError, SendDropped

-----------------------------------------------------------------------------
\* A parse without a delta finds its sections on the server already.
LEMMA NothingNew ==
  ASSUME TypeOK, Telling, MirrorInv, CacheOutInv, pc[Loop] = "parsed",
         Out(job[Loop]).error = None, Delta(job[Loop]) = {}
  PROVE  server[<<GameOf[job[Loop].file], ResolvedName(job[Loop])>>] = Out(job[Loop]).sections
<1> DEFINE j == job[Loop]
           f == j.file
           name == ResolvedName(j)
           new == Out(j)
<1>1. j \in Job /\ f \in File /\ new \in Outputs(f)
  <2>1. j \in Job /\ f \in File /\ j.content \in Writable[f]
    BY JobInHand DEF MirrorInv, ContentInv, Job
  <2> QED BY <2>1, OutOwn
<1>2. new \in Outcome
  BY <1>1, OutType
<1>3. new.sections \in SectionMap /\ new.sections # NoSave
  BY <1>1, <1>2 DEF Telling, Outcome
<1>4. Changed(PushedBefore(f, name), new.sections) = {}
  BY DEF Delta
<1> HIDE DEF new, name, f
<1>5. cache[f] # None /\ cache[f].name = name
  <2> SUFFICES ASSUME PushedBefore(f, name) = NoSave PROVE FALSE
    BY DEF PushedBefore
  <2>1. \A s \in Section : new.sections[s] = None
    BY <1>4 DEF Changed, NoSave
  <2> QED BY <1>3, <2>1 DEF SectionMap, NoSave
<1>6. PushedBefore(f, name) = cache[f].sections
  BY <1>5 DEF PushedBefore
<1>7. PICK old \in Outputs(f) : old.sections = cache[f].sections /\ old.name \in {None, name}
  BY <1>1, <1>5 DEF CacheOutInv
<1>8. new.name \in {None, name}
  BY DEF ResolvedName, new, name
<1>9. new.sections = cache[f].sections
  <2>1. old.name = new.name \/ None \in {old.name, new.name}
    BY <1>7, <1>8
  <2>2. Changed(old.sections, new.sections) = {}
    BY <1>4, <1>6, <1>7
  <2> QED BY <1>1, <1>7, <2>1, <2>2 DEF Telling
<1>10. server[<<GameOf[f], cache[f].name>>] = cache[f].sections
  BY <1>1, <1>5 DEF MirrorInv, CacheInv, Recording
<1> QED BY <1>5, <1>9, <1>10 DEF new, name, f

\* What the server has of a file changes only with what it depends on.
LEMMA StillInSync ==
  ASSUME NEW f \in File, InSync(f), disk'[f] = disk[f], sticky'[f] = sticky[f],
         runner'[GameOf[f]] = runner[GameOf[f]],
         Parse[<<runner[GameOf[f]], disk[f]>>].error = None =>
           server'[SaveOf(f)] = server[SaveOf(f)],
         f \in serverFailed => f \in serverFailed'
  PROVE  InSync(f)'
<1>1. SaveOf(f)' = SaveOf(f)
  BY DEF SaveOf
<1> QED BY <1>1 DEF InSync

LEMMA StillRest ==
  ASSUME NEW f \in File, Rest(f), disk'[f] = disk[f],
         f \in dirty => f \in dirty', Reported(f) => Reported(f)',
         runner'[GameOf[f]] = runner[GameOf[f]],
         UNCHANGED <<pc, job, sticky, server, serverFailed>>,
         Rescan(f) => Rescan(f)'
  PROVE  Rest(f)'
<1>1. Handled(f) => Handled(f)'
  BY StillInSync DEF Handled
<1> QED BY <1>1 DEF Rest

LEMMA RestEnvironment ==
  ASSUME TypeOK, TypeOK', Single, Faults \subseteq {"write"}, WatchInv, RestInv,
         Environment, NEW f \in File, Watched(f)', disk'[f] # None
  PROVE  Rest(f)'
<1> USE DEF pluginVars, pushVars, linkVars, scanVars, threadVars, serverVars
<1>0. /\ UNCHANGED <<runner, toScan, target, todo, pc, job, sticky, server, serverFailed, watched>>
      /\ Watched(f)
  BY DEF Environment, Write, Delete, EmitRemove, Emit, Publish, Drop, Connect, Watched
<1>1. ASSUME disk[f] # None PROVE Rest(f)
  BY <1>0, <1>1 DEF RestInv, Tracked, Rest
<1>2. ASSUME NEW g \in File, Write(g) \/ Delete(g) PROVE Rest(f)'
  <2>1. UNCHANGED <<events, conn, announce>>
    BY <1>2 DEF Write, Delete
  <2>2. CASE f = g
    BY <1>0, <1>2, <2>2 DEF Write, Delete, TypeOK, Rest
  <2>3. CASE f # g
    <3>1. disk'[f] = disk[f] /\ (f \in dirty => f \in dirty')
      BY <1>2, <2>3 DEF Write, Delete, TypeOK
    <3>2. (Reported(f) => Reported(f)') /\ (Rescan(f) => Rescan(f)')
      BY <1>0, <2>1, <3>1 DEF Reported, Rescan
    <3> QED BY <1>0, <1>1, <3>1, <3>2, StillRest
  <2> QED BY <2>2, <2>3
<1>3. ASSUME NEW g \in File, EmitRemove(g) \/ Emit(g) PROVE Rest(f)'
  <2>1. UNCHANGED <<disk, conn, announce>>
    BY <1>3 DEF EmitRemove, Emit
  <2>2. CASE f = g /\ EmitRemove(g)
    BY <2>1, <2>2 DEF EmitRemove, WatchInv, Rest
  <2>3. CASE f = g /\ Emit(g)
    <3>1. events' = Append(events, [file |-> f, data |-> disk[f]])
      BY <2>3 DEF Emit, WatchInv
    <3> QED BY <2>1, <3>1, AppendOwn DEF Rest
  <2>4. CASE f # g
    <3>1. f \in dirty => f \in dirty'
      BY <1>3, <2>4 DEF EmitRemove, Emit
    <3>2. UNCHANGED events \/ \E e \in Event : e.file = g /\ events' = Append(events, e)
      <4>1. [file |-> g, data |-> None] \in Event /\ [file |-> g, data |-> disk[g]] \in Event
        BY DEF Event, TypeOK
      <4> QED BY <1>3, <4>1 DEF EmitRemove, Emit
    <3>3. Reported(f) => Reported(f)'
      <4>1. CASE UNCHANGED events
        BY <2>1, <4>1 DEF Reported
      <4> QED BY <2>1, <2>4, <3>2, <4>1, AppendOther
    <3>4. Rescan(f) => Rescan(f)'
      BY <1>0, <2>1 DEF Rescan
    <3> QED BY <1>0, <1>1, <2>1, <3>1, <3>3, <3>4, StillRest
  <2> QED BY <1>3, <2>2, <2>3, <2>4
<1>4. ASSUME NEW g \in Game, Publish(g) PROVE Rest(f)'
  <2>1. UNCHANGED <<disk, dirty, events, conn, announce>>
    BY <1>4 DEF Publish, envVars
  <2>2. (Reported(f) => Reported(f)') /\ (Rescan(f) => Rescan(f)')
    BY <1>0, <2>1 DEF Reported, Rescan
  <2> QED BY <1>0, <1>1, <2>1, <2>2, StillRest
<1>5. CASE Drop \/ Connect
  BY <1>5 DEF Drop, Connect, Rest, Rescan, TypeOK
<1> QED BY <1>2, <1>3, <1>4, <1>5 DEF Environment

LEMMA RestLoop ==
  ASSUME TypeOK, TypeOK', Single, Faults \subseteq {"write"}, WatchInv, EventInv, RestInv,
         EventLoop, NEW f \in File, Watched(f)', disk'[f] # None
  PROVE  Rest(f)'
<1> USE DEF envVars, pluginVars, pushVars, linkVars, scanVars, threadVars, serverVars
<1>1. ASSUME Watched(f), disk[f] # None PROVE f \in Tracked /\ Rest(f)
  BY <1>1 DEF RestInv, Tracked, Rest
<1>2. CASE HandleFileEvent
  <2> DEFINE e == Head(events)
  <2>1. /\ pc[Loop] = "ready" /\ todo[Loop] = {} /\ target[Loop] = {} /\ toScan = {}
        /\ events # <<>> /\ events' = Tail(events)
        /\ UNCHANGED <<disk, dirty, runner, sticky, server, serverFailed, conn, announce,
                       watched, toScan, target, todo>>
    BY <1>2 DEF HandleFileEvent, Idle, Ready
  <2>2. Watched(f) /\ disk[f] # None /\ f \in Tracked /\ Rest(f)
    BY <1>1, <2>1 DEF Watched
  <2>3. Rescan(f) => Rescan(f)'
    BY <2>1 DEF Rescan
  <2>4. InSync(f) => InSync(f)'
    BY <2>1, StillInSync
  <2>5. e \in Event /\ 1 \in 1..Len(events) /\ e = events[1]
    <3>1. events \in Seq(Event)
      BY DEF TypeOK
    <3> QED BY <2>1, <3>1
  <2>6. CASE e.file = f /\ e.data # None
    <3>1. job' = [job EXCEPT ![Loop] = NewJob(f, e.data)] /\ Goto(Loop, "run")
      BY <1>2, <2>2, <2>6 DEF HandleFileEvent
    <3>2. pc'[Loop] = "run" /\ job'[Loop].file = f /\ job'[Loop].content = e.data
      BY <3>1 DEF TypeOK, Goto, NewJob
    <3>3. CASE e.data = disk[f]
      BY <2>1, <3>2, <3>3 DEF Rest, Handled
    <3>4. CASE e.data # disk[f]
      <4>1. ~Unreported(f)
        BY <2>5, <2>6 DEF Unreported
      <4>2. f \in dirty \/ Reported(f)
        BY <2>2, <4>1 DEF EventInv
      <4>3. Reported(f) => Reported(f)'
        BY <2>1, <3>4, TailReported
      <4> QED BY <2>1, <4>2, <4>3 DEF Rest
    <3> QED BY <3>3, <3>4
  <2>7. CASE e.file # f \/ e.data = None
    <3>1. Reported(f) => Reported(f)'
      BY <2>1, <2>2, <2>7, TailReported
    <3>2. pc'[Loop] = "ready" \/ job'[Loop].file # f
      BY <1>2, <2>1, <2>7 DEF HandleFileEvent, Goto, NewJob, TypeOK
    <3>3. Handled(f) => Handled(f)'
      BY <2>1, <2>4, <3>2 DEF Handled
    <3> QED BY <2>1, <2>2, <2>3, <3>1, <3>3 DEF Rest
  <2> QED BY <2>6, <2>7
<1>3. CASE AnnounceOnline
  BY <1>3 DEF AnnounceOnline, Rest, Rescan
<1>4. ASSUME NEW g \in Game, ScanGame(g) \/ RescanGame(g) PROVE Rest(f)'
  <2>1. /\ UNCHANGED <<disk, dirty, events, sticky, server, serverFailed, conn, announce,
                       target, pc, job>>
        /\ todo' = [todo EXCEPT ![Loop] = Present(g)]
        /\ watched' = IF Present(g) = {} THEN watched ELSE watched \cup {g}
        /\ todo[Loop] = {}
        /\ toScan \ {g} \subseteq toScan'
    BY <1>4 DEF ScanGame, RescanGame, Scan, Ready, Idle
  <2>2. CASE GameOf[f] = g
    <3>1. f \in Present(g)
      BY <2>1, <2>2 DEF Present, FilesOf
    <3> QED BY <2>1, <3>1 DEF Rest, Rescan, TypeOK
  <2>3. CASE GameOf[f] # g
    <3>1. Watched(f) /\ disk[f] # None
      BY <2>1, <2>3 DEF Watched
    <3>2. runner'[GameOf[f]] = runner[GameOf[f]]
      BY <1>4, <2>3 DEF ScanGame, RescanGame, TypeOK
    <3>3. (Reported(f) => Reported(f)') /\ (Rescan(f) => Rescan(f)')
      BY <2>1, <2>3 DEF Reported, Rescan
    <3> QED BY <1>1, <2>1, <3>1, <3>2, <3>3, StillRest
  <2> QED BY <2>2, <2>3
<1>5. ASSUME NEW g \in Game, ReloadPlugin(g) PROVE Rest(f)'
  <2>1. /\ UNCHANGED <<disk, dirty, events, sticky, server, serverFailed, conn, announce,
                       toScan, todo, pc, job, watched>>
        /\ target' = [target EXCEPT ![Loop] = {g}] /\ target[Loop] = {}
        /\ runner' = [runner EXCEPT ![g] = latest[g]]
    BY <1>5 DEF ReloadPlugin, Idle
  <2>2. CASE GameOf[f] = g
    BY <2>1, <2>2 DEF Rest, Rescan, TypeOK
  <2>3. CASE GameOf[f] # g
    <3>1. runner'[GameOf[f]] = runner[GameOf[f]]
      BY <2>1, <2>3 DEF TypeOK
    <3>2. (Reported(f) => Reported(f)') /\ (Rescan(f) => Rescan(f)')
      BY <2>1 DEF Reported, Rescan
    <3> QED BY <1>1, <2>1, <3>1, <3>2, StillRest DEF Watched
  <2> QED BY <2>2, <2>3
<1> QED BY <1>2, <1>3, <1>4, <1>5 DEF EventLoop

LEMMA RestPlugin ==
  ASSUME TypeOK, TypeOK', Single, RestInv, NEW f \in File, Watched(f)', disk'[f] # None,
         UpdatePlugins(Loop) \/ \E g \in Game : PluginChanged(Loop, g)
  PROVE  Rest(f)'
<1> USE DEF envVars, pluginVars, pushVars, linkVars, scanVars, threadVars, serverVars
<1>0. UNCHANGED <<disk, dirty, events, sticky, server, serverFailed, conn, announce,
                  toScan, pc, job, watched>>
  BY DEF UpdatePlugins, PluginChanged
<1>1. Watched(f) /\ disk[f] # None /\ Rest(f)
  BY <1>0 DEF RestInv, Tracked, Rest, Watched
<1>2. CASE UpdatePlugins(Loop)
  <2> DEFINE newer == {g \in Game : latest[g] > runner[g]}
  <2>1. /\ target' = [target EXCEPT ![Loop] = newer] /\ target[Loop] = {}
        /\ runner' = [g \in Game |-> IF g \in newer THEN latest[g] ELSE runner[g]]
        /\ UNCHANGED todo
    BY <1>2 DEF UpdatePlugins, Idle
  <2> HIDE DEF newer
  <2>2. CASE GameOf[f] \in newer
    BY <2>1, <2>2 DEF Rest, Rescan, TypeOK
  <2>3. CASE GameOf[f] \notin newer
    <3>1. runner'[GameOf[f]] = runner[GameOf[f]]
      BY <2>1, <2>3
    <3>2. (Reported(f) => Reported(f)') /\ (Rescan(f) => Rescan(f)')
      BY <1>0, <2>1 DEF Reported, Rescan
    <3> QED BY <1>0, <1>1, <3>1, <3>2, StillRest
  <2> QED BY <2>2, <2>3
<1>3. ASSUME NEW g \in Game, PluginChanged(Loop, g) PROVE Rest(f)'
  <2>1. /\ target' = [target EXCEPT ![Loop] = @ \ {g}] /\ todo[Loop] = {}
        /\ todo' = [todo EXCEPT ![Loop] = IF g \in watched THEN Present(g) ELSE {}]
        /\ UNCHANGED runner
    BY <1>3 DEF PluginChanged, Ready
  <2>2. CASE GameOf[f] = g
    <3>1. f \in Present(g) /\ g \in watched
      BY <1>1, <2>2 DEF Present, FilesOf, Watched
    <3> QED BY <2>1, <3>1 DEF Rest, Rescan, TypeOK
  <2>3. CASE GameOf[f] # g
    <3>1. (Reported(f) => Reported(f)') /\ (Rescan(f) => Rescan(f)')
      BY <1>0, <2>1, <2>3 DEF Reported, Rescan, TypeOK
    <3> QED BY <1>0, <1>1, <2>1, <3>1, StillRest
  <2> QED BY <2>2, <2>3
<1> QED BY <1>2, <1>3

\* A file whose parse ends with what it holds is known to the server.
LEMMA JobInSync ==
  ASSUME TypeOK, TypeOK', Single, Telling, "outage" \notin Faults,
         MirrorInv, CacheOutInv, FailInv, Pipeline(Loop),
         pc[Loop] # "ready", pc'[Loop] = "ready", conn' = conn,
         NEW f \in File, job[Loop].file = f, job[Loop].content = disk[f]
  PROVE  InSync(f)'
<1> USE DEF envVars, pluginVars, pushVars, linkVars, scanVars, threadVars, serverVars
<1> DEFINE j == job[Loop]
<1>1. j \in Job /\ j.file = f /\ Fresh(j)
  BY JobInHand DEF Job, MirrorInv, JobInv
<1>2. UNCHANGED <<disk, runner, server, serverFailed>>
  BY DEF Pipeline, NextFile, ReadError, RunPlugin, ParseSucceeded, Recheck, Push,
     SendDropped, SendError, Record, ParseFailed, ReportFailure, RecordFailure, Goto, TypeOK
<1>3. pc[Loop] # "run"
  BY DEF Pipeline, NextFile, ReadError, RunPlugin, ParseSucceeded, Recheck, Push,
     SendDropped, SendError, Record, ParseFailed, ReportFailure, RecordFailure, Goto, TypeOK
<1>4. Parse[<<runner[GameOf[f]], disk[f]>>] = Out(j)
  BY <1>3 DEF MirrorInv, JobInv, Out
<1>5. ASSUME Out(j).error # None, f \in serverFailed PROVE InSync(f)'
  BY <1>1, <1>2, <1>4, <1>5 DEF InSync
<1>6. ASSUME Out(j).error = None, sticky'[f] = sticky[f] \/ sticky'[f] = Out(j).name,
             Out(j).name = None => sticky'[f] = sticky[f],
             server[<<GameOf[f], ResolvedName(j)>>] = Out(j).sections
      PROVE  InSync(f)'
  <2>1. SaveOf(f)' = <<GameOf[f], ResolvedName(j)>>
    BY <1>2, <1>4, <1>6 DEF SaveOf, ResolvedName
  <2> QED BY <1>2, <1>4, <1>6, <2>1 DEF InSync
<1>7. CASE ParseSucceeded(Loop)
  <2>1. /\ pc[Loop] = "parsed" /\ Out(j).error = None
        /\ sticky' = IF Out(j).name # None THEN [sticky EXCEPT ![f] = Out(j).name]
                     ELSE sticky
    BY <1>7 DEF ParseSucceeded
  <2>2. Delta(j) = {}
    BY <1>1, <1>7 DEF ParseSucceeded, Goto, TypeOK
  <2>3. server[<<GameOf[f], ResolvedName(j)>>] = Out(j).sections
    BY <2>1, <2>2, NothingNew
  <2> QED BY <1>1, <1>6, <2>1, <2>3 DEF TypeOK
<1>8. CASE Record(Loop)
  <2>1. pc[Loop] = "sent" /\ UNCHANGED sticky
    BY <1>8 DEF Record
  <2>2. server[<<GameOf[f], ResolvedName(j)>>] = Out(j).sections /\ Out(j).error = None
    BY <2>1 DEF MirrorInv, JobInv, JobSave
  <2> QED BY <1>6, <2>1, <2>2
<1>9. CASE ParseFailed(Loop)
  <2>1. Out(j).error # None
    BY <1>9 DEF ParseFailed
  <2>2. failures[f] # None
    BY <1>1, <1>9 DEF ParseFailed, Goto, TypeOK
  <2> QED BY <1>1, <1>5, <2>1, <2>2 DEF FailInv
<1>10. CASE RecordFailure(Loop)
  <2>1. pc[Loop] = "failed" /\ Out(j).error # None
    BY <1>10 DEF RecordFailure, TypeOK
  <2> QED BY <1>5, <2>1 DEF FailInv
<1>11. ParseSucceeded(Loop) \/ Record(Loop) \/ ParseFailed(Loop) \/ RecordFailure(Loop)
  <2>1. ~Recheck(Loop) /\ ~SendError(Loop)
    BY <1>1 DEF Recheck, SendError, Goto, TypeOK
  <2> QED BY <1>3, <2>1 DEF Pipeline, NextFile, ReadError, RunPlugin, Push, SendDropped,
              ReportFailure, Goto, TypeOK
<1> QED BY <1>7, <1>8, <1>9, <1>10, <1>11

\* A push leaves the saves of other files alone.
LEMMA PushElsewhere ==
  ASSUME TypeOK, Separate, MirrorInv, Push(Loop), NEW f \in File, f # job[Loop].file,
         disk[f] # None, Parse[<<runner[GameOf[f]], disk[f]>>].error = None
  PROVE  server'[SaveOf(f)] = server[SaveOf(f)]
<1> DEFINE j == job[Loop]
           vc == <<runner[GameOf[f]], disk[f]>>
           out == Parse[vc]
<1>1. /\ pc[Loop] = "send"
      /\ server' = [server EXCEPT ![JobSave] = Merged(server[JobSave], j)]
  BY DEF Push, JobSave
<1>2. j \in Job /\ j.file \in File /\ j.name \in NamesOf(j.file)
  BY <1>1, JobInHand DEF Job, MirrorInv, JobInv
<1>3. disk[f] \in Writable[f] /\ sticky[f] \in NamesOf(f) \cup {None}
  BY DEF MirrorInv, ContentInv, NameInv
<1>4. vc \in Version \X Writable[f] /\ vc \in Version \X Content
  BY <1>3 DEF TypeOK
<1> HIDE DEF vc
<1>5. out \in Outputs(f) /\ out \in Outcome
  BY <1>4 DEF Outputs, vc
<1> DEFINE name == IF out.name # None THEN out.name ELSE Unknown
<1>6. name \in NamesOf(f)
  BY <1>5 DEF NamesOf
<1>7. SaveOf(f) = <<GameOf[f], IF out.name # None THEN out.name
                               ELSE IF sticky[f] # None THEN sticky[f] ELSE Unknown>>
  BY DEF SaveOf, vc
<1>8. SaveOf(f) \in Save
  BY <1>5, <1>7 DEF Save, Outcome, TypeOK
<1>9. SaveOf(f)[2] \in NamesOf(f) /\ SaveOf(f)[1] = GameOf[f]
  BY <1>3, <1>6, <1>7
<1>10. SaveOf(f) # JobSave
  BY <1>2, <1>9 DEF Separate, JobSave
<1> QED BY <1>1, <1>8, <1>10 DEF TypeOK

LEMMA RestPipeline ==
  ASSUME TypeOK, TypeOK', Single, Separate, Telling, Faults \subseteq {"write"},
         MirrorInv, CacheOutInv, FailInv, RestInv, Pipeline(Loop),
         NEW f \in File, Watched(f)', disk'[f] # None
  PROVE  Rest(f)'
<1> USE DEF envVars, pluginVars, pushVars, linkVars, scanVars, threadVars, serverVars
<1> DEFINE j == job[Loop]
<1>0. UNCHANGED <<disk, dirty, events, runner, announce, watched, toScan, target>>
  BY DEF Pipeline, NextFile, ReadError, RunPlugin, ParseSucceeded, Recheck, Push,
     SendDropped, SendError, Record, ParseFailed, ReportFailure, RecordFailure
<1>1. Watched(f) /\ disk[f] # None /\ Rest(f)
  BY <1>0 DEF RestInv, Tracked, Rest, Watched
<1>2. f \in dirty \/ Reported(f) => f \in dirty' \/ Reported(f)'
  BY <1>0 DEF Reported
<1>3. ASSUME NEW g \in File, NextFile(Loop, g) PROVE Rest(f)'
  <2>1. /\ pc[Loop] = "ready" /\ todo' = [todo EXCEPT ![Loop] = @ \ {g}]
        /\ UNCHANGED <<sticky, server, serverFailed, conn>>
    BY <1>3 DEF NextFile
  <2>2. CASE f = g
    <3>1. job' = [job EXCEPT ![Loop] = NewJob(f, disk[f])] /\ Goto(Loop, "run")
      BY <1>1, <1>3, <2>2 DEF NextFile
    <3>2. job'[Loop].content = disk[f] /\ job'[Loop].file = f /\ pc'[Loop] = "run"
      BY <3>1 DEF NewJob, Goto, TypeOK
    <3> QED BY <1>0, <3>2 DEF Rest, Handled
  <2>3. CASE f # g
    <3>1. Rescan(f) => Rescan(f)'
      BY <1>0, <2>1, <2>3 DEF Rescan, TypeOK
    <3>2. InSync(f) => InSync(f)'
      BY <1>0, <2>1, StillInSync
    <3>3. pc'[Loop] = "ready" \/ job'[Loop].file # f
      BY <1>3, <2>1, <2>3 DEF NextFile, Goto, NewJob, TypeOK
    <3>4. Handled(f) => Handled(f)'
      BY <2>1, <3>2, <3>3 DEF Handled
    <3> QED BY <1>1, <1>2, <3>1, <3>4 DEF Rest
  <2> QED BY <2>2, <2>3
<1>4. CASE pc[Loop] # "ready"
  <2>0. j \in Job /\ j.file \in File /\ UNCHANGED todo
    <3>1. UNCHANGED todo
      BY <1>4 DEF Pipeline, NextFile, ReadError, RunPlugin, ParseSucceeded, Recheck, Push,
         SendDropped, SendError, Record, ParseFailed, ReportFailure, RecordFailure
    <3> QED BY <1>4, <3>1, JobInHand DEF Job
  <2>1. CASE conn' # conn
    <3>1. ~conn'
      BY <2>1 DEF Pipeline, NextFile, ReadError, RunPlugin, ParseSucceeded, Recheck, Push,
         SendDropped, SendError, Record, ParseFailed, ReportFailure, RecordFailure
    <3> QED BY <3>1 DEF Rest, Rescan
  <2>2. CASE conn' = conn
    <3>1. Rescan(f) => Rescan(f)'
      BY <1>0, <2>0, <2>2 DEF Rescan
    <3>2. CASE j.file = f /\ j.content = disk[f]
      <4>1. CASE pc'[Loop] = "ready"
        BY <1>4, <2>2, <3>2, <4>1, JobInSync DEF Rest, Handled
      <4>2. CASE pc'[Loop] # "ready"
        <5>1. job'[Loop].file = j.file /\ job'[Loop].content = j.content
          BY <1>4, <4>2, JobMoves
        <5> QED BY <1>0, <3>2, <4>2, <5>1 DEF Rest, Handled
      <4> QED BY <4>1, <4>2
    <3>3. CASE j.file = f /\ j.content # disk[f]
      BY <1>1, <1>2, <1>4, <3>1, <3>3 DEF Rest, Handled
    <3>4. CASE j.file # f
      <4>1. Handled(f) => InSync(f)
        BY <3>4 DEF Handled
      <4>2. sticky'[f] = sticky[f]
        <5>1. UNCHANGED sticky \/ ParseSucceeded(Loop)
          BY DEF Pipeline, NextFile, ReadError, RunPlugin, Recheck, Push,
             SendDropped, SendError, Record, ParseFailed, ReportFailure, RecordFailure
        <5> QED BY <3>4, <5>1 DEF ParseSucceeded, TypeOK
      <4>3. UNCHANGED server \/ Push(Loop)
        BY DEF Pipeline, NextFile, ReadError, RunPlugin, ParseSucceeded, Recheck,
           SendDropped, SendError, Record, ParseFailed, ReportFailure, RecordFailure
      <4>4. f \in serverFailed => f \in serverFailed'
        BY <3>4 DEF Pipeline, NextFile, ReadError, RunPlugin, ParseSucceeded, Recheck, Push,
           SendDropped, SendError, Record, ParseFailed, ReportFailure, RecordFailure
      <4>5. Parse[<<runner[GameOf[f]], disk[f]>>].error = None =>
              server'[SaveOf(f)] = server[SaveOf(f)]
        BY <1>1, <3>4, <4>3, PushElsewhere
      <4>6. InSync(f) => InSync(f)'
        BY <1>0, <4>2, <4>4, <4>5, StillInSync
      <4>7. pc'[Loop] = "ready" \/ job'[Loop].file # f
        BY <1>4, <3>4, JobMoves
      <4>8. Handled(f) => Handled(f)'
        BY <4>1, <4>6, <4>7 DEF Handled
      <4> QED BY <1>1, <1>2, <3>1, <4>8 DEF Rest
    <3> QED BY <3>2, <3>3, <3>4
  <2> QED BY <2>1, <2>2
<1>5. CASE pc[Loop] = "ready"
  <2>1. \E g \in File : NextFile(Loop, g)
    BY <1>5 DEF Pipeline, ReadError, RunPlugin, ParseSucceeded, Recheck, Push, SendDropped,
       SendError, Record, ParseFailed, ReportFailure, RecordFailure
  <2> QED BY <1>3, <2>1
<1> QED BY <1>4, <1>5

LEMMA RestNext ==
  ASSUME TypeOK, TypeOK', Single, Separate, Telling, Faults \subseteq {"write"},
         MirrorInv, SyncInv, Next
  PROVE  RestInv'
<1> SUFFICES ASSUME NEW f \in File, Watched(f)', disk'[f] # None PROVE Rest(f)'
  BY DEF RestInv, Rest, Tracked
<1> QED BY OneThread, RestEnvironment, RestLoop, RestPlugin, RestPipeline DEF SyncInv

LEMMA SyncInvInit == ASSUME Init PROVE SyncInv
<1>1. Tracked = {} /\ dirty = {} /\ removed = {} /\ events = <<>>
  BY DEF Init, Tracked, Watched
<1> QED BY <1>1 DEF Init, SyncInv, CacheOutInv, WatchInv, EventInv, FailInv, RestInv

LEMMA SyncInvNext ==
  ASSUME Single, Separate, Telling, Faults \subseteq {"write"},
         TypeOK, TypeOK', MirrorInv, SyncInv, [Next]_vars
  PROVE  SyncInv'
<1>1. CASE UNCHANGED vars
  <2> USE <1>1 DEF vars, envVars, pluginVars, pushVars, linkVars, scanVars, threadVars,
                   serverVars
  <2>1. CacheOutInv'
    BY DEF SyncInv, CacheOutInv
  <2>2. WatchInv' /\ FailInv'
    BY DEF SyncInv, WatchInv, FailInv, Watched
  <2>3. ASSUME NEW f \in File
        PROVE  /\ (f \in Tracked)' <=> f \in Tracked
               /\ Reported(f)' <=> Reported(f)
               /\ Unreported(f)' <=> Unreported(f)
               /\ Rescan(f)' <=> Rescan(f)
    BY DEF Tracked, Watched, Reported, Unreported, Rescan
  <2>4. ASSUME NEW f \in File PROVE Handled(f)' <=> Handled(f)
    BY DEF Handled, InSync, SaveOf
  <2>5. EventInv' /\ RestInv'
    BY <2>3, <2>4 DEF SyncInv, EventInv, RestInv, Rest, Tracked
  <2> QED BY <2>1, <2>2, <2>5 DEF SyncInv
<1>2. CASE Next
  <2>1. "outage" \notin Faults /\ "flap" \notin Faults
    OBVIOUS
  <2> QED BY <1>2, <2>1, CacheOutNext, WatchNext, EventNext, FailNext, RestNext DEF SyncInv
<1> QED BY <1>1, <1>2

\* When the pipeline comes to rest while connected, the server holds what is
\* in every file of a watched directory, as the loaded plugin sees it, however
\* writes to the connection failed on the way.
THEOREM InSyncAtRest ==
  ASSUME Single, Separate, Telling, Faults \subseteq {"write"}
  PROVE  Spec => []QuiescentInSync
<1>1. Init => SyncInv
  BY SyncInvInit
<1>2. TypeOK /\ TypeOK' /\ MirrorInv /\ SyncInv /\ [Next]_vars => SyncInv'
  BY SyncInvNext
<1>3. SyncInv => QuiescentInSync
  <2> SUFFICES ASSUME SyncInv, Quiescent, NEW f \in Tracked PROVE InSync(f)
    BY DEF QuiescentInSync
  <2>1. /\ pc[Loop] = "ready" /\ todo[Loop] = {} /\ target[Loop] = {} /\ toScan = {}
        /\ events = <<>> /\ dirty = {} /\ conn /\ ~announce
    BY DEF Quiescent, Idle, Ready
  <2>2. ~Reported(f) /\ ~Rescan(f)
    BY <2>1 DEF Reported, Rescan
  <2> QED BY <2>1, <2>2 DEF SyncInv, RestInv, Rest, Handled
<1>4. Spec => []MirrorInv
  BY MirrorInvCorrect
<1> QED BY <1>1, <1>2, <1>3, <1>4, TypeCorrect, PTL DEF Spec
=============================================================================
