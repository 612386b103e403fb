--------------------------- MODULE GameMod_proofs ---------------------------
(***************************************************************************)
(* Proofs about GameMod for any number of loads, failures and faults, if no *)
(* game is loaded while the loop of the last one starts or registers: its   *)
(* type invariant, and that no save is left with a source that the mod      *)
(* forgets.                                                                 *)
(***************************************************************************)
EXTENDS GameMod, TLAPS

USE ModAssumption

\* A registration is not disturbed by the next load.
Undisturbed == LoadDuring \cap {"spawned", "register", "close"} = {}

-----------------------------------------------------------------------------
(* The invariant.                                                           *)

Early == {"spawned", "register", "close"}
Ending == {"dispose", "forget", "report", "done"}
Unregistered == {"off", "spawned", "register", "done", "escaped"}

\* Only the last loop registers, and what comes after has a source.
LoopInv ==
  /\ \A l \in Loop : l > loads => loop[l].at = "off"
  /\ \A l \in Loop : loop[l].at \in Early => l = loads
  /\ \A l \in Loop : loop[l].at \notin Ending => loop[l].fails < MaxFailures
  /\ \A l \in Loop : loop[l].at = "register" => settings.source = 0
  /\ \A l \in Loop : loop[l].at \notin Unregistered => settings.source # 0
  /\ status = "Connected" => settings.source # 0
  /\ settings.source = 0 =>
       \A l \in Loop : loop[l].at \in {"spawned", "register"} => server.known < loads

\* An item of a queue that names a source names the one in the settings.
OfSource(item) == item[1] \in {"code", "registered"} => item[2][1] = settings.source

\* So does a connection.
WireInv ==
  /\ \A s \in Loop : wire[s].state \in {"dialing", "open"} =>
       settings.source # 0 /\ wire[s].source = settings.source
  /\ \A s \in Loop : wire[s].state # "open" => wire[s].down = <<>> /\ ~wire[s].hello
  /\ \A s \in Loop : \A i \in 1..Len(wire[s].down) : OfSource(wire[s].down[i])

QueueInv ==
  /\ settings.source = 0 => queue = <<>>
  /\ \A i \in 1..Len(queue) : OfSource(queue[i])

\* The settings will be written before anything is collected.
Announced == \E j \in 1..Len(queue) :
               /\ queue[j][1] = "registered"
               /\ \A i \in 1..j : queue[i][1] # "collect"

\* Until the source is on the disk nothing is known of it elsewhere.
DiskInv ==
  /\ settings.source = disk.source \/ disk.source = 0
  /\ disk.source = 0 =>
       /\ server.known <= loads
       /\ stored = {} /\ seen = NoCode
       /\ \A m \in tasks : m[1] # "push"
       /\ settings.source # 0 => Announced
  /\ SourceSaved

Safe == TypeOK /\ LoopInv /\ WireInv /\ QueueInv /\ DiskInv

-----------------------------------------------------------------------------
(* Types, by the variables they are about.                                  *)

LoopRec == [at : Stages, token : Nat, fails : 0..MaxFailures, on : 0..Loads]
WireRec == [state : {"none", "dialing", "open", "lost", "closed"},
            source : 0..Loads, hello : BOOLEAN, down : Seq(Reply)]
Known   == [known : 0..Loads, of : [Source -> [code : Nat, open : BOOLEAN, linked : BOOLEAN]]]

LoopType == loop \in [Loop -> LoopRec] /\ \A l \in Loop : loop[l].at = "await" => loop[l].on # 0
WireType == wire \in [Loop -> WireRec]
FieldType == socket \in 0..Loads /\ status \in {"Disconnected", "Connecting", "Connected"}
SettingsType == settings \in Settings /\ disk \in Settings /\ seen \in Code /\ loads \in 0..Loads
QueueType == queue \in Seq(Action) /\ tasks \subseteq Push \cup Refresh
ServerType == server \in Known /\ stored \subseteq Nat \X Nat
BudgetType == budget \in [Events -> Nat]

LEMMA TypeParts ==
  TypeOK <=> /\ LoopType /\ WireType /\ FieldType /\ SettingsType
             /\ QueueType /\ ServerType /\ BudgetType
BY DEF TypeOK, LoopType, WireType, FieldType, SettingsType, QueueType, ServerType, BudgetType,
       LoopRec, WireRec, Known

LEMMA TypePartsNext ==
  LoopType' /\ WireType' /\ FieldType' /\ SettingsType' /\ QueueType' /\ ServerType' /\ BudgetType'
  => TypeOK'
BY DEF TypeOK, LoopType, WireType, FieldType, SettingsType, QueueType, ServerType, BudgetType,
       LoopRec, WireRec, Known

LEMMA SpendType ==
  ASSUME BudgetType, NEW k \in Events, Spend(k)
  PROVE  BudgetType'
BY DEF BudgetType, Spend, Events

\* A step of a loop, or of anyone who touches no more.
LEMMA LocalStep ==
  ASSUME Safe, LoopType', WireType', FieldType', BudgetType', LoopInv', WireInv',
         UNCHANGED <<settings, disk, queue, tasks, loads, server, stored, seen>>
  PROVE  Safe'
<1>1. SettingsType' /\ QueueType' /\ ServerType'
  BY TypeParts DEF Safe, SettingsType, QueueType, ServerType
<1>2. QueueInv'
  BY DEF Safe, QueueInv, OfSource
<1>3. SourceSaved'
  BY DEF Safe, DiskInv, SourceSaved
<1>4. Announced <=> Announced'
  BY DEF Announced
<1>5. DiskInv'
  BY <1>3, <1>4 DEF Safe, DiskInv
<1> QED BY <1>1, <1>2, <1>5, TypePartsNext DEF Safe

\* One loop moves on, to a place it may be at.
LEMMA MoveLoop ==
  ASSUME Safe, NEW l \in Loop, NEW r \in LoopRec, loop' = [loop EXCEPT ![l] = r],
         UNCHANGED <<settings, loads, server>>,
         r.at # "off" => l <= loads,
         r.at = "await" => r.on # 0,
         r.at \in Early => l = loads,
         r.at \notin Ending => r.fails < MaxFailures,
         r.at = "register" => settings.source = 0,
         r.at \notin Unregistered => settings.source # 0,
         status' = "Connected" => settings.source # 0,
         settings.source = 0 /\ r.at \in {"spawned", "register"} => server.known < loads
  PROVE  LoopType' /\ LoopInv'
<1>1. LoopType
  BY TypeParts DEF Safe
<1>2. loop'[l] = r /\ \A k \in Loop : k # l => loop'[k] = loop[k]
  BY <1>1 DEF LoopType
<1>3. LoopType'
  BY <1>1, <1>2 DEF LoopType
<1>4. loads \in Nat /\ l \in Nat
  BY TypeParts DEF Safe, SettingsType, Loop
<1>5. LoopInv'
  BY <1>2, <1>4 DEF Safe, LoopInv
<1> QED BY <1>3, <1>5

\* One connection changes.
LEMMA MoveWire ==
  ASSUME Safe, NEW s \in Loop, NEW w \in WireRec, wire' = [wire EXCEPT ![s] = w],
         settings' = settings,
         w.state \in {"dialing", "open"} => settings.source # 0 /\ w.source = settings.source,
         w.state # "open" => w.down = <<>> /\ ~w.hello,
         \A i \in 1..Len(w.down) : OfSource(w.down[i])
  PROVE  WireType' /\ WireInv'
<1>1. WireType
  BY TypeParts DEF Safe
<1>2. wire'[s] = w /\ \A k \in Loop : k # s => wire'[k] = wire[k]
  BY <1>1 DEF WireType
<1>3. WireType'
  BY <1>1, <1>2 DEF WireType
<1>4. WireInv'
  BY <1>2 DEF Safe, WireInv, OfSource
<1> QED BY <1>3, <1>4

LEMMA KeepWire ==
  ASSUME Safe, UNCHANGED <<wire, settings>>
  PROVE  WireType' /\ WireInv'
BY TypeParts DEF Safe, WireType, WireInv, OfSource

LEMMA NoWireIn == NoWire \in WireRec /\ \A st \in {"closed", "lost"} :
                    LET w == [NoWire EXCEPT !.state = st]
                    IN  w \in WireRec /\ w.state = st /\ w.down = <<>> /\ ~w.hello
<1>1. <<>> \in Seq(Reply) /\ 0 \in 0..Loads
  OBVIOUS
<1>2. NoWire = [state |-> "none", source |-> 0, hello |-> FALSE, down |-> <<>>]
  BY DEF NoWire
<1>3. NoWire \in WireRec /\ NoWire.down = <<>> /\ ~NoWire.hello
  BY <1>1, <1>2 DEF WireRec
<1>4. ASSUME NEW n \in WireRec, NEW st \in {"closed", "lost"}
      PROVE  LET w == [n EXCEPT !.state = st]
             IN  w \in WireRec /\ w.state = st /\ w.down = n.down /\ w.hello = n.hello
  BY DEF WireRec
<1> QED BY <1>3, <1>4

\* The socket in the field, whichever it is, is disposed.
LEMMA DisposedWire ==
  ASSUME Safe, wire' = Disposed(socket), settings' = settings
  PROVE  WireType' /\ WireInv'
<1>1. CASE socket = 0
  BY <1>1, KeepWire DEF Disposed
<1>2. CASE socket # 0
  <2>1. socket \in Loop
    BY <1>2, TypeParts DEF Safe, FieldType, Loop
  <2>2. wire' = [wire EXCEPT ![socket] = [NoWire EXCEPT !.state = "closed"]]
    BY <1>2 DEF Disposed
  <2> DEFINE w == [NoWire EXCEPT !.state = "closed"]
  <2>3. w \in WireRec /\ w.state = "closed" /\ w.down = <<>> /\ ~w.hello
    BY NoWireIn
  <2>4. Len(w.down) = 0
    BY <2>3
  <2>5. \A i \in 1..Len(w.down) : OfSource(w.down[i])
    BY <2>4
  <2> HIDE DEF w
  <2> QED BY <2>1, <2>2, <2>3, <2>5, MoveWire DEF w
<1> QED BY <1>1, <1>2

\* The forms in which the actions write a loop's next place.
LEMMA GotoForm ==
  ASSUME LoopType, NEW l \in Loop, NEW stage \in Stages, stage # "await", Goto(l, stage)
  PROVE  \E r \in LoopRec : /\ loop' = [loop EXCEPT ![l] = r]
                            /\ r.at = stage /\ r.fails = loop[l].fails
<1> DEFINE r == [loop[l] EXCEPT !.at = stage, !.on = 0]
<1>1. loop[l] \in LoopRec
  BY DEF LoopType
<1>2. r \in LoopRec /\ r.at = stage /\ r.fails = loop[l].fails
  <2>1. 0 \in 0..Loads
    OBVIOUS
  <2> QED BY ONLY <1>1, <2>1, stage \in Stages DEF LoopRec
<1>3. loop' = [loop EXCEPT ![l] = r]
  BY DEF Goto
<1> QED BY <1>2, <1>3

LEMMA LeaveForm ==
  ASSUME LoopType, NEW l \in Loop, Leave(l)
  PROVE  \E r \in LoopRec : /\ loop' = [loop EXCEPT ![l] = r]
                            /\ r.at = "done"
<1> DEFINE r == [Idle EXCEPT !.at = "done"]
<1>1. r \in LoopRec /\ r.at = "done"
  BY DEF LoopRec, Idle, Stages
<1> QED BY <1>1 DEF Leave

LEMMA ThrowForm ==
  ASSUME LoopType, NEW l \in Loop, Throw(l), loop[l].fails < MaxFailures
  PROVE  \E r \in LoopRec : /\ loop' = [loop EXCEPT ![l] = r]
                            /\ r.at = "dispose"
<1> DEFINE r == [loop[l] EXCEPT !.at = "dispose", !.on = 0, !.fails = @ + 1]
<1>1. loop[l] \in LoopRec
  BY DEF LoopType
<1>2. r \in LoopRec /\ r.at = "dispose"
  <2>1. 0 \in 0..Loads /\ loop[l].fails + 1 \in 0..MaxFailures
    BY <1>1 DEF LoopRec
  <2>2. "dispose" \in Stages
    BY DEF Stages
  <2> QED BY ONLY <1>1, <2>1, <2>2 DEF LoopRec
<1>3. loop' = [loop EXCEPT ![l] = r]
  BY DEF Throw
<1> QED BY <1>2, <1>3

\* What a loop that runs may rely on.
LEMMA Running ==
  ASSUME Safe, NEW l \in Loop, loop[l].at # "off"
  PROVE  /\ LoopType /\ WireType /\ FieldType /\ BudgetType
         /\ loop[l] \in LoopRec /\ l <= loads
         /\ loop[l].at \notin Ending => loop[l].fails < MaxFailures
         /\ loop[l].at \notin Unregistered => settings.source # 0
         /\ loop[l].at \in Early => l = loads
<1>1. LoopType /\ WireType /\ FieldType /\ BudgetType /\ SettingsType
  BY TypeParts DEF Safe
<1>2. l \in Nat /\ loads \in Nat /\ ~(l > loads)
  BY <1>1 DEF Safe, LoopInv, SettingsType, Loop
<1> QED BY <1>1, <1>2 DEF Safe, LoopInv, LoopType

Later == Stages \ ({"off", "await"} \cup {"spawned", "register", "close"})

LEMMA GotoInv ==
  ASSUME Safe, NEW l \in Loop, loop[l].at # "off", NEW stage \in Later, Goto(l, stage),
         UNCHANGED <<settings, loads, server>>,
         stage \notin Ending => loop[l].fails < MaxFailures,
         stage \notin Unregistered => settings.source # 0,
         status' = "Connected" => settings.source # 0
  PROVE  LoopType' /\ LoopInv'
<1>1. LoopType /\ l <= loads /\ stage \in Stages /\ stage # "await"
  BY Running DEF Later
<1>2. PICK r \in LoopRec : /\ loop' = [loop EXCEPT ![l] = r]
                           /\ r.at = stage /\ r.fails = loop[l].fails
  BY <1>1, GotoForm
<1>3. r.at \notin Early /\ r.at # "await" /\ r.at \notin {"spawned", "register"}
  BY <1>2 DEF Later, Early
<1> QED BY <1>1, <1>2, <1>3, MoveLoop

LEMMA LeaveInv ==
  ASSUME Safe, NEW l \in Loop, loop[l].at # "off", Leave(l),
         UNCHANGED <<settings, loads, server>>,
         status' = "Connected" => settings.source # 0
  PROVE  LoopType' /\ LoopInv'
<1>1. LoopType /\ l <= loads
  BY Running
<1>2. PICK r \in LoopRec : loop' = [loop EXCEPT ![l] = r] /\ r.at = "done"
  BY <1>1, LeaveForm
<1>3. r.at \in Ending /\ r.at \in Unregistered /\ r.at \notin Early
  BY <1>2 DEF Ending, Unregistered, Early
<1> QED BY <1>1, <1>2, <1>3, MoveLoop

LEMMA ThrowInv ==
  ASSUME Safe, NEW l \in Loop, loop[l].at \notin Unregistered \cup Ending, Throw(l),
         UNCHANGED <<settings, loads, server>>,
         status' = "Connected" => settings.source # 0
  PROVE  LoopType' /\ LoopInv'
<1>1. LoopType /\ l <= loads /\ loop[l].fails < MaxFailures /\ settings.source # 0
  BY Running DEF Unregistered
<1>2. PICK r \in LoopRec : loop' = [loop EXCEPT ![l] = r] /\ r.at = "dispose"
  BY <1>1, ThrowForm
<1>3. r.at \in Ending /\ r.at \notin Early
  BY <1>2 DEF Ending, Early
<1> QED BY <1>1, <1>2, <1>3, MoveLoop

\* Nothing that Connected rests on goes away.
LEMMA StatusKept ==
  ASSUME Safe, status' = status
  PROVE  status' = "Connected" => settings.source # 0
BY DEF Safe, LoopInv

-----------------------------------------------------------------------------
(* The connection loop, action by action.                                   *)

LEMMA StartTaskSafe ==
  ASSUME Safe, NEW l \in Loop, StartTask(l)
  PROVE  Safe'
<1> DEFINE stage == IF settings.source = 0 THEN "register" ELSE "head"
           r == [loop[l] EXCEPT !.at = stage, !.token = loads]
<1>1. loop[l].at = "spawned" /\ UNCHANGED <<settings, disk, queue, tasks, loads, server, stored, seen>>
  BY DEF StartTask, Local, outside
<1>2. /\ LoopType /\ WireType /\ FieldType /\ BudgetType /\ loop[l] \in LoopRec
      /\ l <= loads /\ l = loads /\ loop[l].fails < MaxFailures
  BY <1>1, Running DEF Early, Ending
<1>3. loads \in Nat
  BY TypeParts DEF Safe, SettingsType
<1>4. stage \in Stages
  BY DEF Stages
<1>5. r \in LoopRec /\ r.at = stage /\ r.fails = loop[l].fails
  <2> HIDE DEF stage
  <2> QED BY ONLY <1>2, <1>3, <1>4 DEF LoopRec
<1>6. loop' = [loop EXCEPT ![l] = r]
  BY DEF StartTask
<1>7. status' = IF stage = "register" THEN "Connecting" ELSE status
  BY DEF StartTask
<1>8. status' = "Connected" => settings.source # 0
  BY <1>7, StatusKept
<1>9. settings.source = 0 => server.known < loads
  BY <1>1 DEF Safe, LoopInv
<1>10. LoopType' /\ LoopInv'
  <2>1. r.at = "register" => settings.source = 0
    BY <1>5
  <2>2. r.at # "await" /\ (r.at \notin Unregistered => settings.source # 0)
    BY <1>5 DEF Unregistered
  <2> HIDE DEF r, stage
  <2> QED BY <1>1, <1>2, <1>5, <1>6, <1>8, <1>9, <2>1, <2>2, MoveLoop
<1>11. WireType' /\ WireInv'
  BY <1>1, KeepWire DEF StartTask
<1>12. FieldType' /\ BudgetType'
  BY <1>2, <1>7 DEF StartTask, Local, FieldType, BudgetType
<1> QED BY <1>1, <1>10, <1>11, <1>12, LocalStep

LEMMA CloseRegisterSafe ==
  ASSUME Safe, NEW l \in Loop, CloseRegister(l)
  PROVE  Safe'
<1>1. /\ loop[l].at = "close" /\ status' = "Disconnected" /\ Goto(l, "head")
      /\ UNCHANGED <<wire, socket, settings, disk, queue, tasks, loads, server, stored, seen, budget>>
  BY DEF CloseRegister, Local, outside
<1>2. FieldType /\ BudgetType /\ loop[l].fails < MaxFailures /\ settings.source # 0
  BY <1>1, Running DEF Ending, Unregistered
<1>3. "head" \in Later
  BY DEF Later, Stages
<1>4. LoopType' /\ LoopInv'
  BY <1>1, <1>2, <1>3, GotoInv
<1>5. WireType' /\ WireInv'
  BY <1>1, KeepWire
<1>6. FieldType' /\ BudgetType'
  BY <1>1, <1>2 DEF FieldType, BudgetType
<1> QED BY <1>1, <1>4, <1>5, <1>6, LocalStep

LEMMA AgainSafe ==
  ASSUME Safe, NEW l \in Loop, Again(l)
  PROVE  Safe'
<1>1. /\ loop[l].at \in {"head", "wait"}
      /\ \/ Leave(l) /\ status' = status
         \/ Goto(l, "new") /\ status' = "Connecting"
      /\ UNCHANGED <<wire, socket, settings, disk, queue, tasks, loads, server, stored, seen, budget>>
  BY DEF Again, Local, outside
<1>2. FieldType /\ BudgetType /\ loop[l].fails < MaxFailures /\ settings.source # 0
  BY <1>1, Running DEF Ending, Unregistered
<1>3. "new" \in Later
  BY DEF Later, Stages
<1>4. LoopType' /\ LoopInv'
  BY <1>1, <1>2, <1>3, GotoInv, LeaveInv
<1>5. WireType' /\ WireInv'
  BY <1>1, KeepWire
<1>6. FieldType' /\ BudgetType'
  BY <1>1, <1>2 DEF FieldType, BudgetType
<1> QED BY <1>1, <1>4, <1>5, <1>6, LocalStep

LEMMA NewSocketSafe ==
  ASSUME Safe, NEW l \in Loop, NewSocket(l)
  PROVE  Safe'
<1> DEFINE w == [NoWire EXCEPT !.state = "dialing", !.source = settings.source]
<1>1. /\ loop[l].at = "new" /\ socket' = l /\ status' = status /\ Goto(l, "dial")
      /\ wire' = [wire EXCEPT ![l] = w]
      /\ UNCHANGED <<settings, disk, queue, tasks, loads, server, stored, seen, budget>>
  BY DEF NewSocket, Local, outside
<1>2. FieldType /\ BudgetType /\ loop[l].fails < MaxFailures /\ settings.source # 0
  BY <1>1, Running DEF Ending, Unregistered
<1>3. "dial" \in Later
  BY DEF Later, Stages
<1>4. status' = "Connected" => settings.source # 0
  BY <1>2
<1>5. LoopType' /\ LoopInv'
  BY <1>1, <1>2, <1>3, GotoInv
<1>6. settings.source \in 0..Loads
  BY TypeParts DEF Safe, SettingsType, Settings
<1>7. ASSUME NEW n \in WireRec, NEW src \in 0..Loads
      PROVE  LET v == [n EXCEPT !.state = "dialing", !.source = src]
             IN  v \in WireRec /\ v.state = "dialing" /\ v.source = src
                 /\ v.down = n.down /\ v.hello = n.hello
  BY DEF WireRec
<1>8. NoWire \in WireRec /\ NoWire.down = <<>> /\ ~NoWire.hello
  <2>1. NoWire.down = <<>> /\ ~NoWire.hello
    BY DEF NoWire
  <2> QED BY <2>1, NoWireIn
<1>9. w \in WireRec /\ w.state = "dialing" /\ w.source = settings.source /\ w.down = <<>> /\ ~w.hello
  <2>1. /\ w \in WireRec /\ w.state = "dialing" /\ w.source = settings.source
        /\ w.down = NoWire.down /\ w.hello = NoWire.hello
    BY ONLY <1>6, <1>7, <1>8
  <2> QED BY <1>8, <2>1
<1>10. WireType' /\ WireInv'
  <2>1. \A i \in 1..Len(w.down) : OfSource(w.down[i])
    BY <1>9
  <2> HIDE DEF w
  <2> QED BY <1>1, <1>2, <1>9, <2>1, MoveWire
<1>11. FieldType' /\ BudgetType'
  BY <1>1, <1>2 DEF FieldType, BudgetType, Loop
<1> QED BY <1>1, <1>5, <1>10, <1>11, LocalStep

LEMMA DialedSafe ==
  ASSUME Safe, NEW l \in Loop, Dialed(l)
  PROVE  Safe'
<1> DEFINE w == [wire[l] EXCEPT !.state = "open"]
<1>1. /\ loop[l].at = "dial" /\ wire[l].state = "dialing" /\ Goto(l, "hello")
      /\ wire' = [wire EXCEPT ![l].state = "open"]
      /\ UNCHANGED <<socket, status, settings, disk, queue, tasks, loads, server, stored, seen, budget>>
  BY DEF Dialed, Local, outside
<1>2. WireType /\ FieldType /\ BudgetType /\ loop[l].fails < MaxFailures /\ settings.source # 0
  BY <1>1, Running DEF Ending, Unregistered
<1>3. "hello" \in Later
  BY DEF Later, Stages
<1>4. LoopType' /\ LoopInv'
  BY <1>1, <1>2, <1>3, GotoInv
<1>5. /\ w \in WireRec /\ w.state = "open" /\ w.source = wire[l].source /\ w.down = wire[l].down
      /\ wire' = [wire EXCEPT ![l] = w]
  BY <1>1, <1>2 DEF WireRec, WireType
<1>6. wire[l].source = settings.source /\ \A i \in 1..Len(w.down) : OfSource(w.down[i])
  BY <1>1, <1>5 DEF Safe, WireInv
<1>7. WireType' /\ WireInv'
  <2>1. settings' = settings
    BY <1>1
  <2> HIDE DEF w
  <2> QED BY <1>2, <1>5, <1>6, <2>1, MoveWire
<1>8. FieldType' /\ BudgetType'
  BY <1>1, <1>2 DEF FieldType, BudgetType
<1> QED BY <1>1, <1>4, <1>7, <1>8, LocalStep

\* The connection of a loop whose dial failed, or that broke.
LEMMA WireGone ==
  ASSUME Safe, NEW s \in Loop, NEW st \in {"closed", "lost"},
         wire' = [wire EXCEPT ![s] = [NoWire EXCEPT !.state = st]], settings' = settings
  PROVE  WireType' /\ WireInv'
<1> DEFINE w == [NoWire EXCEPT !.state = st]
<1>1. w \in WireRec /\ w.state = st /\ w.down = <<>> /\ ~w.hello
  BY NoWireIn
<1>2. \A i \in 1..Len(w.down) : OfSource(w.down[i])
  BY <1>1
<1>3. w.state \notin {"dialing", "open"} /\ w.state # "open"
  BY <1>1
<1> HIDE DEF w
<1> QED BY <1>1, <1>2, <1>3, MoveWire DEF w

LEMMA DialFailsSafe ==
  ASSUME Safe, NEW l \in Loop, DialFails(l)
  PROVE  Safe'
<1>1. /\ loop[l].at = "dial" /\ (Throw(l) \/ Leave(l))
      /\ wire' = [wire EXCEPT ![l] = [NoWire EXCEPT !.state = "closed"]]
      /\ UNCHANGED <<socket, status, settings, disk, queue, tasks, loads, server, stored, seen>>
  BY DEF DialFails, outside
<1>2. FieldType /\ BudgetType
  BY <1>1, Running
<1>3. LoopType' /\ LoopInv'
  BY <1>1, StatusKept, ThrowInv, LeaveInv DEF Unregistered, Ending
<1>4. WireType' /\ WireInv'
  BY <1>1, WireGone
<1>5. FieldType' /\ BudgetType'
  <2>1. budget' = budget \/ Spend("refuse")
    BY DEF DialFails
  <2> QED BY <1>1, <1>2, <2>1, SpendType DEF FieldType, BudgetType, Events
<1> QED BY <1>1, <1>3, <1>4, <1>5, LocalStep

LEMMA RegisterFailsSafe ==
  ASSUME Safe, NEW l \in Loop, RegisterFails(l)
  PROVE  Safe'
<1>1. /\ loop[l].at = "register" /\ status' = "Disconnected"
      /\ Goto(l, IF settings.source = 0 THEN "done" ELSE "head")
      /\ UNCHANGED <<wire, socket, settings, disk, queue, tasks, loads, server, stored, seen>>
  BY DEF RegisterFails, outside
<1>2. settings.source = 0 /\ FieldType /\ BudgetType
  BY <1>1, Running DEF Safe, LoopInv
<1>3. "done" \in Later /\ "done" \in Ending /\ "done" \in Unregistered
  BY DEF Later, Stages, Ending, Unregistered
<1>4. LoopType' /\ LoopInv'
  BY <1>1, <1>2, <1>3, GotoInv
<1>5. WireType' /\ WireInv'
  BY <1>1, KeepWire
<1>6. FieldType' /\ BudgetType'
  <2>1. budget' = budget \/ Spend("refuse")
    BY DEF RegisterFails
  <2> QED BY <1>1, <1>2, <2>1, SpendType DEF FieldType, BudgetType, Events
<1> QED BY <1>1, <1>4, <1>5, <1>6, LocalStep

LEMMA RegisterThrowsSafe ==
  ASSUME Safe, NEW l \in Loop, RegisterThrows(l)
  PROVE  Safe'
<1>1. /\ loop[l].at \in {"register", "close"} /\ Goto(l, "escaped")
      /\ UNCHANGED <<wire, socket, status, settings, disk, queue, tasks, loads, server, stored, seen>>
  BY DEF RegisterThrows, outside
<1>2. FieldType /\ BudgetType /\ loop[l].fails < MaxFailures
  BY <1>1, Running DEF Ending
<1>3. "escaped" \in Later /\ "escaped" \in Unregistered
  BY DEF Later, Stages, Unregistered
<1>4. LoopType' /\ LoopInv'
  BY <1>1, <1>2, <1>3, StatusKept, GotoInv
<1>5. WireType' /\ WireInv'
  BY <1>1, KeepWire
<1>6. FieldType' /\ BudgetType'
  <2>1. budget' = budget \/ Spend("refuse")
    BY DEF RegisterThrows
  <2> QED BY <1>1, <1>2, <2>1, SpendType DEF FieldType, BudgetType, Events
<1> QED BY <1>1, <1>4, <1>5, <1>6, LocalStep

LEMMA AwaitEndsSafe ==
  ASSUME Safe, NEW l \in Loop, AwaitEnds(l)
  PROVE  Safe'
<1>1. /\ loop[l].at = "await" /\ (Goto(l, "dispose") \/ Throw(l) \/ Leave(l))
      /\ UNCHANGED <<wire, socket, status, settings, disk, queue, tasks, loads, server, stored, seen, budget>>
  BY DEF AwaitEnds, Local, outside
<1>2. FieldType /\ BudgetType /\ settings.source # 0
  BY <1>1, Running DEF Unregistered
<1>3. "dispose" \in Later /\ "dispose" \in Ending
  BY DEF Later, Stages, Ending
<1>4. LoopType' /\ LoopInv'
  BY <1>1, <1>2, <1>3, GotoInv, ThrowInv, LeaveInv DEF Unregistered, Ending
<1>5. WireType' /\ WireInv'
  BY <1>1, KeepWire
<1>6. FieldType' /\ BudgetType'
  BY <1>1, <1>2 DEF FieldType, BudgetType
<1> QED BY <1>1, <1>4, <1>5, <1>6, LocalStep

LEMMA DisposeSafe ==
  ASSUME Safe, NEW l \in Loop, Dispose(l)
  PROVE  Safe'
<1>1. /\ loop[l].at = "dispose" /\ Goto(l, "forget") /\ wire' = Disposed(socket)
      /\ UNCHANGED <<socket, status, settings, disk, queue, tasks, loads, server, stored, seen, budget>>
  BY DEF Dispose, Local, outside
<1>2. FieldType /\ BudgetType /\ settings.source # 0
  BY <1>1, Running DEF Unregistered
<1>3. "forget" \in Later /\ "forget" \in Ending
  BY DEF Later, Stages, Ending
<1>4. LoopType' /\ LoopInv'
  BY <1>1, <1>2, <1>3, GotoInv
<1>5. WireType' /\ WireInv'
  BY <1>1, DisposedWire
<1>6. FieldType' /\ BudgetType'
  BY <1>1, <1>2 DEF FieldType, BudgetType
<1> QED BY <1>1, <1>4, <1>5, <1>6, LocalStep

LEMMA ForgetSafe ==
  ASSUME Safe, NEW l \in Loop, Forget(l)
  PROVE  Safe'
<1>1. /\ loop[l].at = "forget" /\ Goto(l, "report") /\ socket' = 0
      /\ UNCHANGED <<wire, status, settings, disk, queue, tasks, loads, server, stored, seen, budget>>
  BY DEF Forget, Local, outside
<1>2. FieldType /\ BudgetType /\ settings.source # 0
  BY <1>1, Running DEF Unregistered
<1>3. "report" \in Later /\ "report" \in Ending
  BY DEF Later, Stages, Ending
<1>4. LoopType' /\ LoopInv'
  BY <1>1, <1>2, <1>3, GotoInv
<1>5. WireType' /\ WireInv'
  BY <1>1, KeepWire
<1>6. FieldType' /\ BudgetType'
  BY <1>1, <1>2 DEF FieldType, BudgetType
<1> QED BY <1>1, <1>4, <1>5, <1>6, LocalStep

LEMMA ReportSafe ==
  ASSUME Safe, NEW l \in Loop, Report(l)
  PROVE  Safe'
<1>1. /\ loop[l].at = "report" /\ status' = "Disconnected"
      /\ \/ Leave(l)
         \/ loop[l].fails >= MaxFailures /\ Goto(l, "done")
         \/ ~(loop[l].fails >= MaxFailures) /\ Goto(l, "wait")
      /\ UNCHANGED <<wire, socket, settings, disk, queue, tasks, loads, server, stored, seen, budget>>
  BY DEF Report, Local, outside
<1>2. FieldType /\ BudgetType /\ settings.source # 0 /\ loop[l] \in LoopRec
  BY <1>1, Running DEF Unregistered
<1>3. {"done", "wait"} \subseteq Later /\ "done" \in Ending
  BY DEF Later, Stages, Ending
<1>4. ~(loop[l].fails >= MaxFailures) => loop[l].fails < MaxFailures
  BY <1>2 DEF LoopRec
<1>5. LoopType' /\ LoopInv'
  BY <1>1, <1>2, <1>3, <1>4, GotoInv, LeaveInv
<1>6. WireType' /\ WireInv'
  BY <1>1, KeepWire
<1>7. FieldType' /\ BudgetType'
  BY <1>1, <1>2 DEF FieldType, BudgetType
<1> QED BY <1>1, <1>5, <1>6, <1>7, LocalStep

LEMMA LoseSafe ==
  ASSUME Safe, NEW l \in Loop, Lose(l)
  PROVE  Safe'
<1>1. /\ wire' = [wire EXCEPT ![l] = [NoWire EXCEPT !.state = "lost"]] /\ Spend("lose")
      /\ UNCHANGED <<loop, socket, status, settings, disk, queue, tasks, loads, server, stored, seen>>
  BY DEF Lose, outside
<1>2. LoopType /\ FieldType /\ BudgetType
  BY TypeParts DEF Safe
<1>3. LoopType' /\ LoopInv'
  BY <1>1, <1>2 DEF Safe, LoopType, LoopInv
<1>4. WireType' /\ WireInv'
  BY <1>1, WireGone
<1>5. FieldType' /\ BudgetType'
  BY <1>1, <1>2, SpendType DEF FieldType, Events
<1> QED BY <1>1, <1>3, <1>4, <1>5, LocalStep

LEMMA ListenForm ==
  ASSUME Safe, NEW l \in Loop, loop[l] \in LoopRec
  PROVE  /\ Listen(l) \in LoopRec /\ Listen(l).at \in {"await", "dispose"}
         /\ Listen(l).at = "await" => Listen(l).on # 0
         /\ Listen(l).fails = loop[l].fails
<1> DEFINE ok == ~Cancelled(l) /\ Usable(socket)
           at == IF ok THEN "await" ELSE "dispose"
           on == IF ok THEN socket ELSE 0
<1>1. Listen(l) = [loop[l] EXCEPT !.at = at, !.on = on]
  BY DEF Listen
<1>2. at \in Stages /\ at \in {"await", "dispose"} /\ on \in 0..Loads /\ (at = "await" => on # 0)
  BY TypeParts DEF Safe, FieldType, Stages, Usable
<1> HIDE DEF at, on
<1> QED BY <1>1, <1>2 DEF LoopRec

LEMMA SettleSafe ==
  ASSUME Safe, NEW l \in Loop, Settle(l)
  PROVE  Safe'
<1> DEFINE r == [Listen(l) EXCEPT !.fails = 0]
<1>1. /\ loop[l].at = "settle" /\ loop' = [loop EXCEPT ![l] = r] /\ status' = "Connected"
      /\ UNCHANGED <<wire, socket, settings, disk, queue, tasks, loads, server, stored, seen, budget>>
  BY DEF Settle, Local, outside
<1>2. FieldType /\ BudgetType /\ settings.source # 0 /\ l <= loads /\ loop[l] \in LoopRec
  BY <1>1, Running DEF Unregistered
<1>3. /\ Listen(l) \in LoopRec /\ Listen(l).at \in {"await", "dispose"}
      /\ Listen(l).at = "await" => Listen(l).on # 0
  BY <1>2, ListenForm
<1>4. ASSUME NEW q \in LoopRec
      PROVE  LET v == [q EXCEPT !.fails = 0]
             IN  v \in LoopRec /\ v.at = q.at /\ v.on = q.on /\ v.fails = 0
  BY DEF LoopRec
<1>5. r \in LoopRec /\ r.at = Listen(l).at /\ r.on = Listen(l).on /\ r.fails = 0
  BY <1>3, <1>4
<1>6. r.at \notin Early /\ r.at \notin {"register", "spawned"} /\ 0 < MaxFailures
  BY <1>3, <1>5 DEF Early
<1>7. LoopType' /\ LoopInv'
  <2> HIDE DEF r
  <2> QED BY <1>1, <1>2, <1>3, <1>5, <1>6, MoveLoop
<1>8. WireType' /\ WireInv'
  BY <1>1, KeepWire
<1>9. FieldType' /\ BudgetType'
  BY <1>1, <1>2 DEF FieldType, BudgetType
<1> QED BY <1>1, <1>7, <1>8, <1>9, LocalStep

\* Register: the source is new, and nothing yet depends on another.
LEMMA RegisterResultSafe ==
  ASSUME Safe, NEW l \in Loop, RegisterResult(l)
  PROVE  Safe'
<1> DEFINE src == server.known + 1
           item == <<"registered", <<src, 1>>>>
<1>1. /\ loop[l].at = "register" /\ Goto(l, "close")
      /\ server' = [known |-> src, of |-> [server.of EXCEPT ![src].code = 1, ![src].open = TRUE]]
      /\ settings' = [source |-> src, code |-> <<src, 1>>, linked |-> FALSE]
      /\ queue' = Append(queue, item)
      /\ UNCHANGED <<wire, socket, status, disk, tasks, loads, stored, seen, budget>>
  BY DEF RegisterResult
<1>2. /\ LoopType /\ WireType /\ FieldType /\ BudgetType /\ SettingsType /\ QueueType /\ ServerType
      /\ loop[l] \in LoopRec /\ l = loads /\ loop[l].fails < MaxFailures
  BY <1>1, Running, TypeParts DEF Safe, Early, Ending
<1>3. settings.source = 0 /\ server.known < loads /\ queue = <<>>
  BY <1>1 DEF Safe, LoopInv, QueueInv
<1>4. server.known \in Nat /\ loads \in 0..Loads
  BY <1>2 DEF ServerType, Known, SettingsType
<1>5. src \in 0..Loads /\ src # 0 /\ src <= loads /\ src \in Nat
  BY <1>3, <1>4
<1>6. disk.source = 0 /\ stored = {} /\ seen = NoCode /\ \A m \in tasks : m[1] # "push"
  BY <1>3 DEF Safe, DiskInv
<1>7. settings'.source = src
  BY <1>1
<1> HIDE DEF src
<1>8. <<src, 1>> \in Nat \X Nat
  BY <1>5
<1>9. SettingsType'
  BY <1>1, <1>2, <1>5, <1>8 DEF SettingsType, Settings, Code
<1>10. ServerType'
  <2>1. ASSUME NEW f \in [Source -> [code : Nat, open : BOOLEAN, linked : BOOLEAN]]
        PROVE  [f EXCEPT ![src].code = 1, ![src].open = TRUE]
                 \in [Source -> [code : Nat, open : BOOLEAN, linked : BOOLEAN]]
    OBVIOUS
  <2>2. server.of \in [Source -> [code : Nat, open : BOOLEAN, linked : BOOLEAN]]
    BY <1>2 DEF ServerType, Known
  <2>3. [server.of EXCEPT ![src].code = 1, ![src].open = TRUE]
          \in [Source -> [code : Nat, open : BOOLEAN, linked : BOOLEAN]]
    BY <2>1, <2>2
  <2> QED BY <1>1, <1>2, <1>5, <2>3 DEF ServerType, Known
<1>11. item \in Action /\ item[1] = "registered" /\ item[2][1] = src
  BY <1>8 DEF Action
<1> HIDE DEF item
<1>12. queue' = <<item>> /\ Len(queue') = 1 /\ queue'[1] = item
  BY <1>1, <1>3
<1>13. QueueType'
  BY <1>1, <1>2, <1>11 DEF QueueType
<1>14. QueueInv'
  BY <1>5, <1>7, <1>11, <1>12 DEF QueueInv, OfSource
<1>15. PICK r \in LoopRec : /\ loop' = [loop EXCEPT ![l] = r]
                            /\ r.at = "close" /\ r.fails = loop[l].fails
  BY <1>1, <1>2, GotoForm DEF Stages
<1>16. loop'[l] = r /\ \A k \in Loop : k # l => loop'[k] = loop[k]
  BY <1>2, <1>15 DEF LoopType
<1>17. LoopType'
  BY <1>2, <1>15, <1>16 DEF LoopType
<1>18. LoopInv'
  <2>1. \A k \in Loop : loop'[k].at \in Early => k = loads
    BY <1>2, <1>15, <1>16 DEF Safe, LoopInv
  <2>2. \A k \in Loop : loop'[k].at # "register"
    BY <1>2, <1>15, <1>16 DEF Safe, LoopInv, Early
  <2>3. \A k \in Loop : k > loads => loop'[k].at = "off"
    BY <1>2, <1>4, <1>16 DEF Safe, LoopInv
  <2>4. \A k \in Loop : loop'[k].at \notin Ending => loop'[k].fails < MaxFailures
    BY <1>2, <1>15, <1>16 DEF Safe, LoopInv
  <2> QED BY <1>1, <1>5, <1>7, <2>1, <2>2, <2>3, <2>4 DEF LoopInv
<1>19. WireType' /\ WireInv'
  <2>1. \A s \in Loop : wire[s].state \notin {"dialing", "open"} /\ wire[s].down = <<>> /\ ~wire[s].hello
    BY <1>3 DEF Safe, WireInv
  <2> QED BY <1>1, <1>2, <2>1 DEF WireType, WireInv
<1>20. DiskInv'
  <2>1. Announced'
    BY <1>11, <1>12 DEF Announced
  <2>2. SourceSaved'
    BY <1>1, <1>6 DEF SourceSaved
  <2> QED BY <1>1, <1>5, <1>6, <2>1, <2>2 DEF DiskInv
<1>21. FieldType' /\ BudgetType'
  BY <1>1, <1>2 DEF FieldType, BudgetType
<1> QED BY <1>9, <1>10, <1>13, <1>14, <1>17, <1>18, <1>19, <1>20, <1>21, TypePartsNext DEF Safe

-----------------------------------------------------------------------------
(* Messages.                                                                *)

\* The server sends something on a working connection.
LEMMA Reached ==
  ASSUME Safe, NEW s \in Loop, wire[s].state = "open", NEW x \in Reply, OfSource(x),
         settings' = settings,
         \/ wire' = [wire EXCEPT ![s].down = Append(@, x)]
         \/ wire' = [wire EXCEPT ![s].hello = TRUE, ![s].down = Append(@, x)]
  PROVE  WireType' /\ WireInv'
<1>1. WireType /\ wire[s] \in WireRec
  BY TypeParts DEF Safe, WireType
<1>2. PICK w : /\ wire' = [wire EXCEPT ![s] = w] /\ w \in WireRec /\ w.state = wire[s].state
               /\ w.source = wire[s].source /\ w.down = Append(wire[s].down, x)
  <2> DEFINE v == [wire[s] EXCEPT !.down = Append(@, x)]
             u == [wire[s] EXCEPT !.hello = TRUE, !.down = Append(@, x)]
  <2>1. Append(wire[s].down, x) \in Seq(Reply)
    BY <1>1 DEF WireRec
  <2>2. /\ v \in WireRec /\ v.state = wire[s].state
        /\ v.source = wire[s].source /\ v.down = Append(wire[s].down, x)
    BY <1>1, <2>1 DEF WireRec
  <2>3. /\ u \in WireRec /\ u.state = wire[s].state
        /\ u.source = wire[s].source /\ u.down = Append(wire[s].down, x)
    BY <1>1, <2>1 DEF WireRec
  <2>4. wire' = [wire EXCEPT ![s] = v] \/ wire' = [wire EXCEPT ![s] = u]
    OBVIOUS
  <2> QED BY <2>2, <2>3, <2>4
<1>3. wire[s].down \in Seq(Reply)
  BY <1>1 DEF WireRec
<1>4. \A i \in 1..Len(wire[s].down) : OfSource(wire[s].down[i])
  BY DEF Safe, WireInv
<1>5. \A i \in 1..Len(w.down) : w.down[i] = IF i = Len(w.down) THEN x ELSE wire[s].down[i]
  BY <1>2, <1>3
<1>6. Len(w.down) = Len(wire[s].down) + 1 /\ Len(wire[s].down) \in Nat
  BY <1>2, <1>3
<1>7. \A i \in 1..Len(w.down) : i # Len(w.down) => i \in 1..Len(wire[s].down)
  BY <1>6
<1>8. \A i \in 1..Len(w.down) : OfSource(w.down[i])
  BY <1>4, <1>5, <1>7
<1>9. settings.source # 0 /\ w.source = settings.source
  BY <1>2 DEF Safe, WireInv
<1> QED BY <1>2, <1>8, <1>9, MoveWire

Sent == Push \cup Refresh \cup {<<"online", 0>>}

LEMMA SentKinds ==
  ASSUME NEW m \in Sent
  PROVE  m[1] \in {"push", "refresh", "online"} /\ m[2] \in Nat
BY DEF Sent, Push, Refresh

LEMMA Served ==
  ASSUME Safe, NEW s \in Loop, Usable(s), NEW m \in Sent, Serve(m, s), settings' = settings
  PROVE  /\ WireType' /\ WireInv' /\ ServerType' /\ server'.known = server.known
         /\ m[1] # "push" => stored' = stored
         /\ stored' = stored \/ stored' = stored \cup {<<m[2], settings.source>>}
<1> DEFINE src == wire[s].source
           code == server.of[src].code
           new == code + 1
<1>1. WireType /\ ServerType /\ SettingsType
  BY TypeParts DEF Safe
<1>2. CASE wire[s].state = "lost"
  <2>1. UNCHANGED <<wire, server, stored>>
    BY <1>2 DEF Serve
  <2> QED BY <1>1, <2>1, KeepWire DEF ServerType
<1>3. CASE wire[s].state = "open"
  <2>1. src = settings.source /\ src # 0
    BY <1>3 DEF Safe, WireInv
  <2>2. src \in Source /\ src \in Nat
    BY <1>1, <2>1 DEF SettingsType, Settings, Source
  <2>3. server \in Known /\ server.of[src] \in [code : Nat, open : BOOLEAN, linked : BOOLEAN]
    BY <1>1, <2>2 DEF ServerType, Known
  <2>4. code \in Nat /\ new \in Nat
    BY <2>3
  <2>5. m[1] \in {"push", "refresh", "online"} /\ m[2] \in Nat
    BY SentKinds
  <2>6. CASE m[1] = "push"
    <3>1. stored' = stored \cup {<<m[2], src>>} /\ UNCHANGED <<wire, server>>
      BY <1>3, <2>6 DEF Serve
    <3>2. ServerType'
      BY <1>1, <2>2, <2>5, <3>1 DEF ServerType
    <3> QED BY <2>1, <2>6, <3>1, <3>2, KeepWire
  <2>7. CASE m[1] = "refresh"
    <3> DEFINE x == <<"code", <<src, new>>>>
    <3>1. /\ server' = [server EXCEPT !.of[src].code = new, !.of[src].open = TRUE]
          /\ wire' = [wire EXCEPT ![s].down = Append(@, x)]
          /\ stored' = stored
      BY <1>3, <2>7 DEF Serve
    <3>2. x \in Reply /\ OfSource(x)
      BY <2>1, <2>2, <2>4 DEF Reply, OfSource
    <3>3. server' \in Known /\ server'.known = server.known
      <4>1. ASSUME NEW sv \in Known, NEW a \in Source, NEW n \in Nat
            PROVE  LET t == [sv EXCEPT !.of[a].code = n, !.of[a].open = TRUE]
                   IN  t \in Known /\ t.known = sv.known
        <5> DEFINE f == [sv.of EXCEPT ![a].code = n, ![a].open = TRUE]
                   t == [sv EXCEPT !.of[a].code = n, !.of[a].open = TRUE]
        <5>1. sv.of \in [Source -> [code : Nat, open : BOOLEAN, linked : BOOLEAN]]
          BY DEF Known
        <5>2. f \in [Source -> [code : Nat, open : BOOLEAN, linked : BOOLEAN]]
          BY <5>1
        <5>3. t = [sv EXCEPT !.of = f]
          BY DEF Known
        <5> HIDE DEF f, t
        <5>4. t \in Known /\ t.known = sv.known
          BY <5>2, <5>3 DEF Known
        <5> QED BY <5>4 DEF t
      <4> HIDE DEF new, src
      <4> QED BY <2>2, <2>3, <2>4, <3>1, <4>1
    <3>4. WireType' /\ WireInv'
      <4> HIDE DEF x
      <4> QED BY <1>3, <3>1, <3>2, Reached
    <3> QED BY <1>1, <2>7, <3>1, <3>3, <3>4 DEF ServerType
  <2>8. CASE m[1] = "online"
    <3> DEFINE x == LinkState(src)
    <3>1. /\ wire' = [wire EXCEPT ![s].hello = TRUE, ![s].down = Append(@, x)]
          /\ UNCHANGED <<server, stored>>
      BY <1>3, <2>8 DEF Serve
    <3>2. x \in Reply /\ OfSource(x)
      <4>1. x = <<"linked", 0>> \/ x = <<"code", <<src, code>>>>
        BY DEF LinkState
      <4> QED BY <2>1, <2>2, <2>4, <4>1 DEF Reply, OfSource
    <3>3. WireType' /\ WireInv'
      <4> HIDE DEF x
      <4> QED BY <1>3, <3>1, <3>2, Reached
    <3> QED BY <1>1, <2>8, <3>1, <3>3 DEF ServerType
  <2> QED BY <2>5, <2>6, <2>7, <2>8
<1> QED BY <1>2, <1>3 DEF Usable

\* A step that leaves the settings and the queue alone, and may store a save of this source.
LEMMA StoreStep ==
  ASSUME Safe, UNCHANGED <<settings, disk, queue, loads, seen>>, tasks' \subseteq tasks,
         server'.known = server.known,
         \/ stored' = stored
         \/ disk.source # 0 /\ \E n : stored' = stored \cup {<<n, settings.source>>}
  PROVE  QueueInv' /\ DiskInv'
<1>1. QueueInv'
  BY DEF Safe, QueueInv, OfSource
<1>2. Announced <=> Announced'
  BY DEF Announced
<1>3. SourceSaved'
  <2>1. \A push \in stored' : push \in stored \/ push[2] = disk.source
    BY DEF Safe, DiskInv
  <2> QED BY <2>1 DEF Safe, DiskInv, SourceSaved
<1>4. DiskInv'
  BY <1>2, <1>3 DEF Safe, DiskInv
<1> QED BY <1>1, <1>4

LEMMA SendAsyncSafe ==
  ASSUME Safe, NEW m \in tasks, SendAsync(m)
  PROVE  Safe'
<1>1. /\ tasks' = tasks \ {m}
      /\ IF Usable(socket) THEN Serve(m, socket) ELSE UNCHANGED <<wire, server, stored>>
      /\ UNCHANGED <<loop, socket, status, settings, disk, queue, loads, seen, budget>>
  BY DEF SendAsync
<1>2. LoopType /\ FieldType /\ SettingsType /\ QueueType /\ ServerType /\ BudgetType
  BY TypeParts DEF Safe
<1>3. m \in Sent
  BY <1>2 DEF QueueType, Sent
<1>4. m[1] = "push" => disk.source # 0
  BY DEF Safe, DiskInv
<1>5. /\ WireType' /\ WireInv' /\ ServerType' /\ server'.known = server.known
      /\ m[1] # "push" => stored' = stored
      /\ stored' = stored \/ stored' = stored \cup {<<m[2], settings.source>>}
  <2>1. CASE Usable(socket)
    <3>1. socket \in Loop
      BY <1>2, <2>1 DEF FieldType, Usable, Loop
    <3> QED BY <1>1, <1>3, <2>1, <3>1, Served
  <2>2. CASE ~Usable(socket)
    BY <1>1, <1>2, <2>2, KeepWire DEF ServerType
  <2> QED BY <2>1, <2>2
<1>6. QueueInv' /\ DiskInv'
  BY <1>1, <1>4, <1>5, StoreStep
<1>7. LoopType' /\ LoopInv'
  BY <1>1, <1>2, <1>5 DEF Safe, LoopType, LoopInv
<1>8. FieldType' /\ SettingsType' /\ QueueType' /\ BudgetType'
  BY <1>1, <1>2 DEF FieldType, SettingsType, QueueType, BudgetType
<1> QED BY <1>5, <1>6, <1>7, <1>8, TypePartsNext DEF Safe

LEMMA HelloSafe ==
  ASSUME Safe, NEW l \in Loop, Hello(l)
  PROVE  Safe'
<1>1. /\ loop[l].at = "hello"
      /\ \/ Usable(socket) /\ Serve(<<"online", 0>>, socket) /\ Goto(l, "settle")
         \/ Throw(l) /\ UNCHANGED <<wire, server, stored>>
      /\ UNCHANGED <<socket, status, settings, disk, queue, tasks, loads, seen, budget>>
  BY DEF Hello
<1>2. /\ LoopType /\ FieldType /\ SettingsType /\ QueueType /\ ServerType /\ BudgetType
      /\ loop[l].fails < MaxFailures /\ settings.source # 0 /\ l <= loads
  BY <1>1, Running, TypeParts DEF Safe, Ending, Unregistered
<1>3. WireType' /\ WireInv' /\ ServerType' /\ server'.known = server.known /\ stored' = stored
  <2>1. CASE Usable(socket) /\ Serve(<<"online", 0>>, socket)
    <3>1. socket \in Loop
      BY <1>2, <2>1 DEF FieldType, Usable, Loop
    <3>2. <<"online", 0>> \in Sent /\ <<"online", 0>>[1] # "push"
      BY DEF Sent
    <3> QED BY <1>1, <2>1, <3>1, <3>2, Served
  <2>2. CASE UNCHANGED <<wire, server, stored>>
    BY <1>1, <1>2, <2>2, KeepWire DEF ServerType
  <2> QED BY <1>1, <2>1, <2>2
<1>4. PICK r \in LoopRec : /\ loop' = [loop EXCEPT ![l] = r] /\ r.at \in {"settle", "dispose"}
                           /\ r.at = "settle" => r.fails = loop[l].fails
  <2>1. CASE Goto(l, "settle")
    BY <1>2, <2>1, GotoForm DEF Stages
  <2>2. CASE Throw(l)
    BY <1>2, <2>2, ThrowForm
  <2> QED BY <1>1, <2>1, <2>2
<1>5. loop'[l] = r /\ \A k \in Loop : k # l => loop'[k] = loop[k]
  BY <1>2, <1>4 DEF LoopType
<1>10. loads \in Nat /\ l \in Nat
  BY <1>2 DEF SettingsType, Loop
<1>6. LoopType'
  BY <1>2, <1>4, <1>5 DEF LoopType
<1>7. LoopInv'
  BY <1>1, <1>2, <1>3, <1>4, <1>5, <1>10 DEF Safe, LoopInv, Early, Ending, Unregistered
<1>8. QueueInv' /\ DiskInv'
  BY <1>1, <1>3, StoreStep
<1>9. FieldType' /\ SettingsType' /\ QueueType' /\ BudgetType'
  BY <1>1, <1>2 DEF FieldType, SettingsType, QueueType, BudgetType
<1> QED BY <1>3, <1>6, <1>7, <1>8, <1>9, TypePartsNext DEF Safe

-----------------------------------------------------------------------------
(* The queue of the main thread.                                            *)

LEMMA Enqueue ==
  ASSUME Safe, settings.source # 0, NEW x \in Action, OfSource(x),
         queue' = Append(queue, x), settings' = settings
  PROVE  queue' \in Seq(Action) /\ QueueInv' /\ (Announced => Announced')
<1>1. queue \in Seq(Action)
  BY TypeParts DEF Safe, QueueType
<1>2. /\ queue' \in Seq(Action) /\ Len(queue) \in Nat /\ Len(queue') = Len(queue) + 1
      /\ \A i \in 1..Len(queue) : i \in 1..Len(queue') /\ queue'[i] = queue[i]
      /\ queue'[Len(queue')] = x
      /\ \A i \in 1..Len(queue') : i = Len(queue') \/ i \in 1..Len(queue)
  BY <1>1
<1>3. \A i \in 1..Len(queue') : OfSource(queue'[i])
  BY <1>2 DEF Safe, QueueInv
<1>4. QueueInv'
  BY <1>3 DEF QueueInv, OfSource
<1>5. ASSUME Announced PROVE Announced'
  <2>1. PICK j \in 1..Len(queue) : queue[j][1] = "registered" /\ \A i \in 1..j : queue[i][1] # "collect"
    BY <1>5 DEF Announced
  <2>2. \A i \in 1..j : i \in 1..Len(queue)
    BY <1>2, <2>1
  <2>3. queue'[j][1] = "registered" /\ \A i \in 1..j : queue'[i][1] # "collect"
    BY <1>2, <2>1, <2>2
  <2> QED BY <1>2, <2>1, <2>3 DEF Announced
<1> QED BY <1>2, <1>4, <1>5

LEMMA Dequeue ==
  ASSUME Safe, queue # <<>>, queue' = Tail(queue), settings'.source = settings.source
  PROVE  /\ queue' \in Seq(Action) /\ QueueInv' /\ settings.source # 0
         /\ Head(queue) \in Action /\ OfSource(Head(queue))
         /\ Announced /\ Head(queue)[1] # "registered" => Announced' /\ Head(queue)[1] # "collect"
<1>1. queue \in Seq(Action)
  BY TypeParts DEF Safe, QueueType
<1>2. /\ queue' \in Seq(Action) /\ Len(queue) \in Nat \ {0} /\ Len(queue') = Len(queue) - 1
      /\ \A i \in 1..Len(queue') : i + 1 \in 1..Len(queue) /\ queue'[i] = queue[i + 1]
      /\ Head(queue) = queue[1] /\ Head(queue) \in Action /\ 1 \in 1..Len(queue)
  BY <1>1
<1>3. settings.source # 0
  BY DEF Safe, QueueInv
<1>4. \A i \in 1..Len(queue) : OfSource(queue[i])
  BY DEF Safe, QueueInv
<1>5. QueueInv'
  BY <1>2, <1>3, <1>4 DEF QueueInv, OfSource
<1>6. ASSUME Announced, Head(queue)[1] # "registered"
      PROVE  Announced' /\ Head(queue)[1] # "collect"
  <2>1. PICK j \in 1..Len(queue) : queue[j][1] = "registered" /\ \A i \in 1..j : queue[i][1] # "collect"
    BY <1>6 DEF Announced
  <2>2. j \in Nat /\ j # 1 /\ 1 \in 1..j
    BY <1>2, <1>6, <2>1
  <2>3. j - 1 \in 1..Len(queue') /\ (j - 1) + 1 = j
    BY <1>2, <2>1, <2>2
  <2>4. \A i \in 1..(j - 1) : i \in 1..Len(queue') /\ i + 1 \in 1..j
    BY <1>2, <2>1, <2>2
  <2>5. queue'[j - 1][1] = "registered" /\ \A i \in 1..(j - 1) : queue'[i][1] # "collect"
    BY <1>2, <2>1, <2>3, <2>4
  <2> QED BY <1>2, <2>1, <2>2, <2>3, <2>5 DEF Announced
<1> QED BY <1>2, <1>3, <1>4, <1>5, <1>6

\* A step of the main thread, which leaves the loops and connections alone.
LEMMA MainStep ==
  ASSUME Safe, UNCHANGED <<loop, wire, socket, loads, server, stored>>,
         settings'.source = settings.source, status' = "Connected" => settings.source # 0,
         status' \in {status, "Connected"}, SettingsType', QueueType', BudgetType', QueueInv', DiskInv'
  PROVE  Safe'
<1>1. LoopType /\ WireType /\ FieldType /\ ServerType
  BY TypeParts DEF Safe
<1>2. LoopType' /\ LoopInv'
  BY <1>1 DEF Safe, LoopType, LoopInv
<1>3. WireType' /\ WireInv'
  BY <1>1 DEF Safe, WireType, WireInv, OfSource
<1>4. FieldType' /\ ServerType'
  BY <1>1 DEF FieldType, ServerType
<1> QED BY <1>2, <1>3, <1>4, TypePartsNext DEF Safe

\* The settings are written.
LEMMA Written ==
  ASSUME Safe, settings.source # 0, settings'.source = settings.source, disk' = settings',
         stored' = stored, seen' = seen \/ seen'[1] = settings.source
  PROVE  DiskInv'
<1>1. disk'.source = settings.source
  OBVIOUS
<1>2. \A push \in stored : push[2] = settings.source
  BY DEF Safe, DiskInv, SourceSaved
<1>3. seen # NoCode => seen[1] = settings.source
  BY DEF Safe, DiskInv, SourceSaved
<1>4. SourceSaved'
  BY <1>1, <1>2, <1>3 DEF SourceSaved
<1> QED BY <1>1, <1>4 DEF DiskInv

LEMMA CollectSafe ==
  ASSUME Safe, Collect
  PROVE  Safe'
<1>1. /\ queue # <<>> /\ Head(queue)[1] = "collect" /\ queue' = Tail(queue)
      /\ tasks' \in {tasks, tasks \cup {<<"push", Head(queue)[2]>>}}
      /\ UNCHANGED <<loop, wire, socket, status, settings, disk, loads, server, stored, seen, budget>>
  BY DEF Collect, Take
<1>2. /\ queue' \in Seq(Action) /\ QueueInv' /\ settings.source # 0 /\ Head(queue) \in Action
      /\ Announced => Head(queue)[1] # "collect"
  BY <1>1, Dequeue
<1>3. SettingsType /\ QueueType /\ BudgetType
  BY TypeParts DEF Safe
<1>4. Head(queue)[2] \in Nat
  BY <1>1, <1>2 DEF Action, Reply
<1>5. QueueType'
  <2>1. <<"push", Head(queue)[2]>> \in Push
    BY <1>4 DEF Push
  <2> QED BY <1>1, <1>2, <1>3, <2>1 DEF QueueType
<1>6. disk.source # 0
  BY <1>1, <1>2 DEF Safe, DiskInv
<1>7. DiskInv'
  BY <1>1, <1>6 DEF Safe, DiskInv, SourceSaved
<1>8. SettingsType' /\ BudgetType'
  BY <1>1, <1>3 DEF SettingsType, BudgetType
<1> QED BY <1>1, <1>2, <1>5, <1>7, <1>8, MainStep

LEMMA SaveCredentialsSafe ==
  ASSUME Safe, SaveCredentials
  PROVE  Safe'
<1>1. /\ queue # <<>> /\ Head(queue)[1] = "registered" /\ queue' = Tail(queue)
      /\ disk' = settings /\ seen' = Head(queue)[2]
      /\ UNCHANGED <<loop, wire, socket, status, settings, tasks, loads, server, stored, budget>>
  BY DEF SaveCredentials, Take
<1>2. /\ queue' \in Seq(Action) /\ QueueInv' /\ settings.source # 0 /\ Head(queue) \in Action
      /\ OfSource(Head(queue))
  BY <1>1, Dequeue
<1>3. SettingsType /\ QueueType /\ BudgetType
  BY TypeParts DEF Safe
<1>4. Head(queue)[2] \in Nat \X Nat /\ Head(queue)[2][1] = settings.source
  BY <1>1, <1>2 DEF Action, Reply, OfSource
<1>5. SettingsType' /\ QueueType' /\ BudgetType'
  BY <1>1, <1>2, <1>3, <1>4 DEF SettingsType, QueueType, BudgetType, Code
<1>6. DiskInv'
  BY <1>1, <1>2, <1>4, Written
<1> QED BY <1>1, <1>2, <1>5, <1>6, MainStep

LEMMA SourceLinkedSafe ==
  ASSUME Safe, SourceLinked
  PROVE  Safe'
<1>1. /\ queue # <<>> /\ queue' = Tail(queue) /\ status' = "Connected" /\ disk' = settings'
      /\ settings' = [settings EXCEPT !.linked = TRUE, !.code = NoCode]
      /\ UNCHANGED <<loop, wire, socket, tasks, loads, server, stored, seen, budget>>
  BY DEF SourceLinked, Take
<1>2. SettingsType /\ QueueType /\ BudgetType
  BY TypeParts DEF Safe
<1>3. settings' \in Settings /\ settings'.source = settings.source
  BY <1>1, <1>2 DEF SettingsType, Settings, Code
<1>4. queue' \in Seq(Action) /\ QueueInv' /\ settings.source # 0
  BY <1>1, <1>3, Dequeue
<1>5. SettingsType' /\ QueueType' /\ BudgetType'
  BY <1>1, <1>2, <1>3, <1>4 DEF SettingsType, QueueType, BudgetType
<1>6. DiskInv'
  BY <1>1, <1>3, <1>4, Written
<1> QED BY <1>1, <1>3, <1>4, <1>5, <1>6, MainStep

LEMMA RefreshLinkCodeResultSafe ==
  ASSUME Safe, RefreshLinkCodeResult
  PROVE  Safe'
<1> DEFINE item == Head(queue)
<1>1. /\ queue # <<>> /\ item[1] = "code" /\ queue' = Tail(queue)
      /\ \/ UNCHANGED <<settings, disk, seen>>
         \/ settings' = [settings EXCEPT !.code = item[2]] /\ disk' = settings' /\ seen' = item[2]
      /\ UNCHANGED <<loop, wire, socket, status, tasks, loads, server, stored, budget>>
  BY DEF RefreshLinkCodeResult, Take
<1>2. SettingsType /\ QueueType /\ BudgetType
  BY TypeParts DEF Safe
<1>3. settings'.source = settings.source
  BY <1>1, <1>2 DEF SettingsType, Settings
<1>4. /\ queue' \in Seq(Action) /\ QueueInv' /\ settings.source # 0 /\ item \in Action
      /\ OfSource(item) /\ (Announced => Announced')
  BY <1>1, <1>3, Dequeue
<1>5. item[2] \in Nat \X Nat /\ item[2][1] = settings.source
  BY <1>1, <1>4 DEF Action, Reply, OfSource
<1> HIDE DEF item
<1>6. SettingsType'
  BY <1>1, <1>2, <1>5 DEF SettingsType, Settings, Code
<1>7. QueueType' /\ BudgetType'
  BY <1>1, <1>2, <1>4 DEF QueueType, BudgetType
<1>8. DiskInv'
  <2>1. CASE UNCHANGED <<settings, disk, seen>>
    BY <1>1, <1>4, <2>1 DEF Safe, DiskInv, SourceSaved
  <2>2. CASE disk' = settings' /\ seen' = item[2]
    BY <1>1, <1>3, <1>4, <1>5, <2>2, Written
  <2> QED BY <1>1, <2>1, <2>2
<1>9. status' = "Connected" => settings.source # 0
  BY <1>4
<1> QED BY <1>1, <1>3, <1>4, <1>6, <1>7, <1>8, <1>9, MainStep

LEMMA OnSaveSafe ==
  ASSUME Safe, OnSave
  PROVE  Safe'
<1> DEFINE item == <<"collect", budget["save"]>>
<1>1. /\ status = "Connected" /\ Spend("save") /\ queue' = Append(queue, item)
      /\ UNCHANGED <<loop, wire, socket, status, settings, disk, tasks, loads, server, stored, seen>>
  BY DEF OnSave, outside
<1>2. SettingsType /\ QueueType /\ BudgetType /\ settings.source # 0
  BY <1>1, TypeParts DEF Safe, LoopInv
<1>3. item \in Action /\ OfSource(item)
  BY <1>2 DEF Action, BudgetType, Events, OfSource
<1> HIDE DEF item
<1>4. queue' \in Seq(Action) /\ QueueInv' /\ (Announced => Announced')
  BY <1>1, <1>2, <1>3, Enqueue
<1>5. SettingsType' /\ QueueType' /\ BudgetType'
  BY <1>1, <1>2, <1>4, SpendType DEF SettingsType, QueueType, Events
<1>6. DiskInv'
  BY <1>1, <1>4 DEF Safe, DiskInv, SourceSaved
<1> QED BY <1>1, <1>2, <1>4, <1>5, <1>6, MainStep

LEMMA RequestNewLinkCodeSafe ==
  ASSUME Safe, RequestNewLinkCode
  PROVE  Safe'
<1>1. /\ status = "Connected" /\ Spend("repair") /\ disk' = settings'
      /\ settings' = [settings EXCEPT !.linked = FALSE, !.code = NoCode]
      /\ tasks' = tasks \cup {<<"refresh", budget["repair"]>>}
      /\ UNCHANGED <<loop, wire, socket, status, queue, loads, server, stored, seen>>
  BY DEF RequestNewLinkCode, outside
<1>2. SettingsType /\ QueueType /\ BudgetType /\ settings.source # 0
  BY <1>1, TypeParts DEF Safe, LoopInv
<1>3. settings' \in Settings /\ settings'.source = settings.source
  BY <1>1, <1>2 DEF SettingsType, Settings, Code
<1>4. QueueInv'
  BY <1>1, <1>3 DEF Safe, QueueInv, OfSource
<1>5. <<"refresh", budget["repair"]>> \in Refresh
  BY <1>2 DEF Refresh, BudgetType, Events
<1>6. SettingsType' /\ QueueType' /\ BudgetType'
  BY <1>1, <1>2, <1>3, <1>5, SpendType DEF SettingsType, QueueType, Events
<1>7. DiskInv'
  BY <1>1, <1>2, <1>3, Written
<1> QED BY <1>1, <1>2, <1>3, <1>4, <1>6, <1>7, MainStep

LEMMA HandleMessageSafe ==
  ASSUME Safe, NEW l \in Loop, HandleMessage(l)
  PROVE  Safe'
<1> DEFINE s == loop[l].on
           x == Head(wire[s].down)
           w == [wire[s] EXCEPT !.down = Tail(@)]
           r == Listen(l)
<1>1. /\ loop[l].at = "await" /\ wire[s].down # <<>> /\ wire' = [wire EXCEPT ![s] = w]
      /\ queue' = Append(queue, x) /\ loop' = [loop EXCEPT ![l] = r]
      /\ UNCHANGED <<socket, status, settings, disk, tasks, loads, server, stored, seen, budget>>
  BY DEF HandleMessage, outside
<1>2. /\ LoopType /\ WireType /\ FieldType /\ SettingsType /\ QueueType /\ ServerType /\ BudgetType
      /\ loop[l] \in LoopRec /\ l <= loads /\ settings.source # 0 /\ loop[l].fails < MaxFailures
  BY <1>1, Running, TypeParts DEF Safe, Unregistered, Ending
<1>3. s \in Loop /\ wire[s] \in WireRec
  BY <1>1, <1>2 DEF LoopType, LoopRec, WireType, Loop
<1>4. wire[s].state = "open" /\ wire[s].source = settings.source
      /\ \A i \in 1..Len(wire[s].down) : OfSource(wire[s].down[i])
  BY <1>1, <1>3 DEF Safe, WireInv
<1>5. wire[s].down \in Seq(Reply)
  BY <1>3 DEF WireRec
<1>6. /\ Tail(wire[s].down) \in Seq(Reply) /\ x \in Reply /\ x = wire[s].down[1]
      /\ 1 \in 1..Len(wire[s].down)
      /\ \A i \in 1..Len(Tail(wire[s].down)) :
           Tail(wire[s].down)[i] = wire[s].down[i + 1] /\ i + 1 \in 1..Len(wire[s].down)
  <2>1. ASSUME NEW q \in Seq(Reply), q # <<>>
        PROVE  /\ Tail(q) \in Seq(Reply) /\ Head(q) \in Reply /\ Head(q) = q[1] /\ 1 \in 1..Len(q)
               /\ \A i \in 1..Len(Tail(q)) : Tail(q)[i] = q[i + 1] /\ i + 1 \in 1..Len(q)
    BY ONLY <2>1
  <2> QED BY <1>1, <1>5, <2>1
<1>7. w \in WireRec /\ w.state = "open" /\ w.source = settings.source /\ w.down = Tail(wire[s].down)
  BY <1>3, <1>4, <1>6 DEF WireRec
<1>8. OfSource(x) /\ \A i \in 1..Len(w.down) : OfSource(w.down[i])
  BY <1>4, <1>6, <1>7
<1>9. x \in Action
  BY <1>6 DEF Action
<1>10. /\ r \in LoopRec /\ r.at \in {"await", "dispose"} /\ (r.at = "await" => r.on # 0)
       /\ r.fails = loop[l].fails
  BY <1>2, ListenForm
<1> HIDE DEF s, x, w, r
<1>11. WireType' /\ WireInv'
  BY <1>1, <1>2, <1>3, <1>7, <1>8, MoveWire
<1>12. LoopType' /\ LoopInv'
  <2>1. r.at \notin Early /\ r.at \notin {"register", "spawned"}
    BY <1>10 DEF Early
  <2> QED BY <1>1, <1>2, <1>10, <2>1, MoveLoop
<1>13. queue' \in Seq(Action) /\ QueueInv' /\ (Announced => Announced')
  BY <1>1, <1>2, <1>8, <1>9, Enqueue
<1>14. DiskInv'
  BY <1>1, <1>13 DEF Safe, DiskInv, SourceSaved
<1>15. FieldType' /\ SettingsType' /\ QueueType' /\ ServerType' /\ BudgetType'
  BY <1>1, <1>2, <1>13 DEF FieldType, SettingsType, QueueType, ServerType, BudgetType
<1> QED BY <1>11, <1>12, <1>13, <1>14, <1>15, TypePartsNext DEF Safe

-----------------------------------------------------------------------------
(* The game and the rest of the environment.                                *)

LEMMA StartSafe ==
  ASSUME Safe, Undisturbed, Start
  PROVE  Safe'
<1> DEFINE n == loads + 1
           r == [loop[n] EXCEPT !.at = "spawned", !.on = 0]
<1>1. /\ loads < Loads /\ (loads > 0 => loop[loads].at \in LoadDuring \cup {"off"})
      /\ loads' = n /\ loop' = [loop EXCEPT ![n] = r]
      /\ wire' = Disposed(socket) /\ socket' = 0 /\ status' = "Disconnected"
      /\ UNCHANGED <<settings, disk, queue, tasks, server, stored, seen, budget>>
  BY DEF Start, Goto, outside
<1>2. LoopType /\ FieldType /\ SettingsType /\ QueueType /\ ServerType /\ BudgetType
  BY TypeParts DEF Safe
<1>3. loads \in Nat /\ n \in Loop /\ n \in 0..Loads /\ n > loads /\ n # loads
  BY <1>1, <1>2 DEF SettingsType, Loop
<1>4. loop[n] \in LoopRec /\ loop[n].at = "off" /\ loop[n].fails < MaxFailures
  <2>1. loop[n].at = "off"
    BY <1>3 DEF Safe, LoopInv
  <2> QED BY <1>2, <1>3, <2>1 DEF Safe, LoopInv, LoopType, Ending
<1>5. r \in LoopRec /\ r.at = "spawned" /\ r.fails = loop[n].fails
  <2>1. 0 \in 0..Loads /\ "spawned" \in Stages
    BY DEF Stages
  <2> QED BY ONLY <1>4, <2>1 DEF LoopRec
<1> HIDE DEF n, r
<1>6. loop'[n] = r /\ \A k \in Loop : k # n => loop'[k] = loop[k]
  BY <1>1, <1>2, <1>3 DEF LoopType
<1>7. LoopType'
  BY <1>1, <1>2, <1>3, <1>5, <1>6 DEF LoopType
<1>8. \A k \in Loop : loop[k].at \notin Early
  <2>1. SUFFICES ASSUME NEW k \in Loop, loop[k].at \in Early PROVE FALSE
    OBVIOUS
  <2>2. k = loads /\ loads > 0
    BY <2>1 DEF Safe, LoopInv, Loop
  <2> QED BY <1>1, <2>1, <2>2 DEF Undisturbed, Early
<1>9. disk.source = 0 => server.known <= loads
  BY DEF Safe, DiskInv
<1>10. settings.source = 0 => disk.source = 0
  BY DEF Safe, DiskInv
<1>11. server.known \in Nat /\ (server.known <= loads => server.known < n)
  BY <1>2, <1>3 DEF ServerType, Known, n
<1>12. \A k \in Loop : k > n => loop'[k].at = "off"
  <2>1. \A k \in Loop : k > n => k > loads /\ k # n
    BY <1>3 DEF Loop, n
  <2> QED BY <1>6, <2>1 DEF Safe, LoopInv
<1>13. LoopInv'
  <2>1. \A k \in Loop : loop'[k].at \in Early => k = n
    BY <1>6, <1>8
  <2>2. \A k \in Loop : loop'[k].at \notin Ending => loop'[k].fails < MaxFailures
    BY <1>4, <1>5, <1>6 DEF Safe, LoopInv
  <2>3. \A k \in Loop : loop'[k].at # "register"
    BY <1>5, <1>6, <1>8 DEF Early
  <2>4. \A k \in Loop : loop'[k].at \notin Unregistered => settings.source # 0
    BY <1>5, <1>6 DEF Safe, LoopInv, Unregistered
  <2>5. settings.source = 0 => server.known < n
    BY <1>9, <1>10, <1>11
  <2> QED BY <1>1, <1>12, <2>1, <2>2, <2>3, <2>4, <2>5 DEF LoopInv
<1>14. WireType' /\ WireInv'
  BY <1>1, DisposedWire
<1>15. QueueInv'
  BY <1>1 DEF Safe, QueueInv, OfSource
<1>16. DiskInv'
  <2>1. Announced => Announced'
    BY <1>1 DEF Announced
  <2>2. server.known <= loads => server'.known <= loads'
    BY <1>1, <1>3, <1>11
  <2> QED BY <1>1, <2>1, <2>2 DEF Safe, DiskInv, SourceSaved
<1>17. FieldType' /\ SettingsType' /\ QueueType' /\ ServerType' /\ BudgetType'
  BY <1>1, <1>2, <1>3 DEF FieldType, SettingsType, QueueType, ServerType, BudgetType
<1> QED BY <1>7, <1>13, <1>14, <1>15, <1>16, <1>17, TypePartsNext DEF Safe

LEMMA IdleRec == Idle \in LoopRec /\ Idle.at = "off" /\ Idle.fails = 0
<1>1. 0 \in 0..Loads /\ 0 \in 0..MaxFailures /\ "off" \in Stages
  BY DEF Stages
<1> QED BY <1>1 DEF Idle, LoopRec

LEMMA NoWireFields == NoWire \in WireRec /\ NoWire.state = "none" /\ NoWire.down = <<>> /\ ~NoWire.hello
BY NoWireIn DEF NoWire

\* Nothing runs.
LEMMA AllIdle ==
  ASSUME loop' = [l \in Loop |-> Idle], wire' = [l \in Loop |-> NoWire],
         status' = "Disconnected"
  PROVE  LoopType' /\ LoopInv' /\ WireType' /\ WireInv'
<1>1. \A l \in Loop : loop'[l] = Idle /\ wire'[l] = NoWire
  OBVIOUS
<1>2. LoopType'
  BY <1>1, IdleRec DEF LoopType
<1>3. LoopInv'
  BY <1>1, IdleRec DEF LoopInv, Early, Unregistered
<1>4. WireType'
  BY <1>1, NoWireFields DEF WireType
<1>5. WireInv'
  BY <1>1, NoWireFields DEF WireInv
<1> QED BY <1>2, <1>3, <1>4, <1>5

LEMMA QuitSafe ==
  ASSUME Safe, Quit
  PROVE  Safe'
<1>1. /\ Spend("quit") /\ loop' = [l \in Loop |-> Idle] /\ wire' = [l \in Loop |-> NoWire]
      /\ socket' = 0 /\ status' = "Disconnected" /\ queue' = <<>> /\ tasks' = {}
      /\ settings' = disk /\ UNCHANGED <<disk, loads, server, stored, seen>>
  BY DEF Quit, outside
<1>2. FieldType /\ SettingsType /\ QueueType /\ ServerType /\ BudgetType
  BY TypeParts DEF Safe
<1>3. LoopType' /\ LoopInv' /\ WireType' /\ WireInv'
  BY <1>1, AllIdle
<1>4. FieldType' /\ SettingsType' /\ QueueType' /\ ServerType' /\ BudgetType'
  BY <1>1, <1>2, SpendType DEF FieldType, SettingsType, QueueType, ServerType, Events
<1>5. QueueInv' /\ DiskInv'
  BY <1>1 DEF Safe, QueueInv, DiskInv, SourceSaved
<1> QED BY <1>3, <1>4, <1>5, TypePartsNext DEF Safe

LEMMA LinkSourceSafe ==
  ASSUME Safe, LinkSource
  PROVE  Safe'
<1> DEFINE src == seen[1]
           x == <<"linked", 0>>
           w(l) == IF wire[l].hello /\ wire[l].source = src
                   THEN [wire[l] EXCEPT !.down = Append(@, x)] ELSE wire[l]
<1>1. /\ seen # NoCode /\ Spend("link")
      /\ server' = [server EXCEPT !.of[src].open = FALSE, !.of[src].linked = TRUE]
      /\ wire' = [l \in Loop |-> w(l)]
      /\ UNCHANGED <<loop, socket, status, settings, disk, queue, tasks, loads, stored, seen>>
  BY DEF LinkSource
<1>2. /\ LoopType /\ WireType /\ FieldType /\ SettingsType /\ QueueType /\ ServerType /\ BudgetType
  BY TypeParts DEF Safe
<1>3. src = disk.source /\ disk.source # 0
  BY <1>1 DEF Safe, DiskInv, SourceSaved
<1>4. src \in Source
  BY <1>2, <1>3 DEF SettingsType, Settings, Source
<1> HIDE DEF src
<1>5. server' \in Known /\ server'.known = server.known
  <2>1. server \in Known
    BY <1>2 DEF ServerType
  <2>2. ASSUME NEW sv \in Known, NEW a \in Source
        PROVE  LET t == [sv EXCEPT !.of[a].open = FALSE, !.of[a].linked = TRUE]
               IN  t \in Known /\ t.known = sv.known
    <3> DEFINE f == [sv.of EXCEPT ![a].open = FALSE, ![a].linked = TRUE]
               t == [sv EXCEPT !.of[a].open = FALSE, !.of[a].linked = TRUE]
    <3>1. sv.of \in [Source -> [code : Nat, open : BOOLEAN, linked : BOOLEAN]]
      BY DEF Known
    <3>2. f \in [Source -> [code : Nat, open : BOOLEAN, linked : BOOLEAN]]
      BY <3>1
    <3>3. t = [sv EXCEPT !.of = f]
      BY DEF Known
    <3> HIDE DEF f, t
    <3>4. t \in Known /\ t.known = sv.known
      BY <3>2, <3>3 DEF Known
    <3> QED BY <3>4 DEF t
  <2> QED BY <1>1, <1>4, <2>1, <2>2
<1>6. x \in Reply /\ OfSource(x)
  BY DEF Reply, OfSource
<1> HIDE DEF x
<1>7. ASSUME NEW l \in Loop
      PROVE  /\ w(l) \in WireRec /\ w(l).state = wire[l].state /\ w(l).source = wire[l].source
             /\ w(l).hello = wire[l].hello
             /\ w(l).down = wire[l].down \/ wire[l].state = "open"
             /\ \A i \in 1..Len(w(l).down) : OfSource(w(l).down[i])
  <2>1. wire[l] \in WireRec /\ wire[l].down \in Seq(Reply)
    BY <1>2 DEF WireType, WireRec
  <2>2. \A i \in 1..Len(wire[l].down) : OfSource(wire[l].down[i])
    BY DEF Safe, WireInv
  <2>3. CASE wire[l].hello /\ wire[l].source = src
    <3>1. w(l) = [wire[l] EXCEPT !.down = Append(@, x)]
      BY <2>3
    <3>2. Append(wire[l].down, x) \in Seq(Reply)
      BY <1>6, <2>1
    <3>3. /\ w(l) \in WireRec /\ w(l).state = wire[l].state /\ w(l).source = wire[l].source
          /\ w(l).hello = wire[l].hello /\ w(l).down = Append(wire[l].down, x)
      BY <2>1, <3>1, <3>2 DEF WireRec
    <3>4. \A i \in 1..Len(Append(wire[l].down, x)) :
            \/ Append(wire[l].down, x)[i] = x
            \/ i \in 1..Len(wire[l].down) /\ Append(wire[l].down, x)[i] = wire[l].down[i]
      BY <2>1
    <3>5. wire[l].state = "open"
      BY <2>3 DEF Safe, WireInv
    <3> HIDE DEF w
    <3> QED BY <1>6, <2>2, <3>3, <3>4, <3>5
  <2>4. CASE ~(wire[l].hello /\ wire[l].source = src)
    BY <2>1, <2>2, <2>4
  <2> QED BY <2>3, <2>4
<1> HIDE DEF w
<1>8. \A l \in Loop : wire'[l] = w(l)
  BY <1>1
<1>9. WireType'
  BY <1>1, <1>7, <1>8 DEF WireType
<1>10. WireInv'
  <2>1. \A s \in Loop : wire'[s].state \in {"dialing", "open"} =>
          settings.source # 0 /\ wire'[s].source = settings.source
    BY <1>7, <1>8 DEF Safe, WireInv
  <2>2. \A s \in Loop : wire'[s].state # "open" => wire'[s].down = <<>> /\ ~wire'[s].hello
    BY <1>7, <1>8 DEF Safe, WireInv
  <2>3. \A s \in Loop : \A i \in 1..Len(wire'[s].down) : OfSource(wire'[s].down[i])
    BY <1>7, <1>8
  <2> QED BY <1>1, <2>1, <2>2, <2>3 DEF WireInv, OfSource
<1>11. LoopType' /\ LoopInv'
  BY <1>1, <1>2, <1>5 DEF Safe, LoopType, LoopInv
<1>12. QueueInv' /\ DiskInv'
  BY <1>1, <1>5, StoreStep
<1>13. FieldType' /\ SettingsType' /\ QueueType' /\ ServerType' /\ BudgetType'
  BY <1>1, <1>2, <1>5, SpendType DEF FieldType, SettingsType, QueueType, ServerType, Events
<1> QED BY <1>9, <1>10, <1>11, <1>12, <1>13, TypePartsNext DEF Safe

-----------------------------------------------------------------------------
(* The theorems.                                                            *)

LEMMA InitSafe ==
  ASSUME Init, Budget \in [Events -> Nat]
  PROVE  Safe
<1>1. /\ loop = [l \in Loop |-> Idle] /\ wire = [l \in Loop |-> NoWire]
      /\ socket = 0 /\ status = "Disconnected" /\ queue = <<>> /\ tasks = {} /\ loads = 0
      /\ stored = {} /\ seen = NoCode /\ settings = disk /\ budget = Budget
  BY DEF Init
<1>2. PICK known \in BOOLEAN :
        /\ disk = IF known THEN [source |-> 1, code |-> NoCode, linked |-> TRUE] ELSE NoSettings
        /\ server = [known |-> IF known THEN 1 ELSE 0,
                     of |-> [s \in Source |-> [code |-> 0, open |-> FALSE, linked |-> known /\ s = 1]]]
  BY DEF Init
<1>3. \A l \in Loop : loop[l] = Idle /\ wire[l] = NoWire
  BY <1>1
<1>4. LoopType
  BY <1>1, <1>3, IdleRec DEF LoopType
<1>5. LoopInv
  BY <1>1, <1>3, IdleRec DEF LoopInv, Early, Unregistered
<1>6. WireType
  BY <1>1, <1>3, NoWireFields DEF WireType
<1>7. WireInv
  BY <1>3, NoWireFields DEF WireInv
<1>8. SettingsType
  <2>1. NoCode \in Code
    BY DEF Code
  <2>2. 0 \in 0..Loads /\ 1 \in 0..Loads
    OBVIOUS
  <2>3. [source |-> 1, code |-> NoCode, linked |-> TRUE] \in Settings
    BY <2>1, <2>2 DEF Settings
  <2>4. NoSettings \in Settings
    BY <2>1, <2>2 DEF Settings, NoSettings
  <2> QED BY <1>1, <1>2, <2>1, <2>2, <2>3, <2>4 DEF SettingsType
<1>9. ServerType
  <2>1. (IF known THEN 1 ELSE 0) \in 0..Loads
    OBVIOUS
  <2>2. \A s \in Source : (known /\ s = 1) \in BOOLEAN
    OBVIOUS
  <2>3. [s \in Source |-> [code |-> 0, open |-> FALSE, linked |-> known /\ s = 1]]
          \in [Source -> [code : Nat, open : BOOLEAN, linked : BOOLEAN]]
    BY <2>2
  <2> QED BY <1>1, <1>2, <2>1, <2>3 DEF ServerType, Known
<1>10. FieldType /\ QueueType /\ BudgetType
  BY <1>1 DEF FieldType, QueueType, BudgetType
<1>11. QueueInv
  BY <1>1 DEF QueueInv
<1>12. disk.source = 0 => server.known = 0
  BY <1>2
<1>13. DiskInv
  BY <1>1, <1>12 DEF DiskInv, SourceSaved
<1> QED BY <1>4, <1>5, <1>6, <1>7, <1>8, <1>9, <1>10, <1>11, <1>13, TypeParts DEF Safe

LEMMA NextSafe ==
  ASSUME Safe, Undisturbed, [Next]_vars
  PROVE  Safe'
<1>1. ASSUME NEW l \in Loop, ConnectionLoop(l)
      PROVE  Safe'
  BY <1>1, StartTaskSafe, RegisterResultSafe, CloseRegisterSafe, AgainSafe, NewSocketSafe,
     DialedSafe, HelloSafe, SettleSafe, HandleMessageSafe, AwaitEndsSafe, DisposeSafe,
     ForgetSafe, ReportSafe DEF ConnectionLoop
<1>2. ASSUME NEW l \in Loop, LoopFails(l)
      PROVE  Safe'
  BY <1>2, RegisterFailsSafe, RegisterThrowsSafe, DialFailsSafe DEF LoopFails
<1>3. CASE Drain
  BY <1>3, CollectSafe, SaveCredentialsSafe, SourceLinkedSafe, RefreshLinkCodeResultSafe DEF Drain
<1>4. CASE Send
  BY <1>4, SendAsyncSafe DEF Send
<1>5. CASE UNCHANGED vars
  <2>1. UNCHANGED <<loop, wire, socket, status, settings, disk, queue, tasks, loads,
                    server, stored, seen, budget>>
    BY <1>5 DEF vars, client, outside
  <2>2. LoopType' /\ FieldType' /\ BudgetType' /\ LoopInv'
    BY <2>1, TypeParts DEF Safe, LoopType, FieldType, BudgetType, LoopInv
  <2> QED BY <2>1, <2>2, KeepWire, LocalStep
<1> QED BY <1>1, <1>2, <1>3, <1>4, <1>5, LoseSafe, StartSafe, OnSaveSafe, RequestNewLinkCodeSafe,
           QuitSafe, LinkSourceSafe DEF Next

LEMMA Invariance ==
  ASSUME Undisturbed, Budget \in [Events -> Nat]
  PROVE  Spec => []Safe
<1>1. Init => Safe
  BY InitSafe
<1>2. Safe /\ [Next]_vars => Safe'
  BY NextSafe
<1> QED BY <1>1, <1>2, PTL DEF Spec

\* The mod's state has its types: no loop exceeds its failures, and the
\* server never knows more sources than there were loads of a game.
THEOREM TypeCorrect ==
  ASSUME Undisturbed, Budget \in [Events -> Nat]
  PROVE  Spec => []TypeOK
<1>1. Safe => TypeOK
  BY DEF Safe
<1> QED BY <1>1, Invariance, PTL

\* A game that ends at any moment leaves no save, and no code the player was
\* shown, with a source that is not the one in the settings file.
THEOREM NoneForgotten ==
  ASSUME Undisturbed, Budget \in [Events -> Nat]
  PROVE  Spec => []SourceSaved
<1>1. Safe => SourceSaved
  BY DEF Safe, DiskInv
<1> QED BY <1>1, Invariance, PTL
=============================================================================
