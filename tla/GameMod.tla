------------------------------- MODULE GameMod -------------------------------
(***************************************************************************)
(* The RimWorld mod: a client of the same server that runs inside the game  *)
(* (src/plugins/rimworld/SavecraftRimWorld).  It registers, keeps a         *)
(* connection, follows the link state and pushes the colony after a save.   *)
(*                                                                         *)
(* Threads: the game's main thread, which saves, loads, draws and drains     *)
(* the queue of actions once a frame; a connection loop on the thread pool   *)
(* for each game that was loaded; one task per message to be sent.  The      *)
(* fields they share (the socket, the status, the settings) have no lock.    *)
(*                                                                         *)
(* The Nth load of a game starts the Nth loop, and cancels the token of the  *)
(* loop before; a socket is named after the loop that made it.  A source is  *)
(* the number of its registration, and 0 is none.  The server, the network,  *)
(* the player and the exceptions of ClientWebSocket are external.            *)
(***************************************************************************)
EXTENDS Naturals, Sequences

CONSTANTS Loads,       \* the loads of a game, one after the other
          MaxFailures, \* MaxConsecutiveFailures
          LoadDuring,  \* where the loop of the last load may be at the next one
          NoCode,      \* no link code
          Budget       \* how often the environment does each thing

ASSUME ModAssumption ==
    /\ Loads \in Nat \ {0}
    /\ MaxFailures \in Nat \ {0}
    /\ NoCode \notin Nat \X Nat

Loop   == 1..Loads
Source == 1..Loads
Events == {"refuse", "lose", "quit", "save", "repair", "link", "total"}

Stages == {"off", "spawned", "register", "close", "head", "new", "dial", "hello",
           "settle", "await", "dispose", "forget", "report", "wait",
           "done", "escaped"}

VARIABLES
    loop,     \* the connection loops
    wire,     \* the sockets, by the loop that made them
    socket,   \* the field `socket'
    status,   \* the field `status'; Linked is Connected and settings.linked
    settings, \* the settings in memory, ...
    disk,     \* ... and as they were last written
    queue,    \* mainThreadQueue
    tasks,    \* messages whose task has not sent them yet
    loads,    \* games loaded so far
    server,   \* what the server knows of each source
    stored,   \* saves the server has, with the source they came from
    seen,     \* the last code a letter showed to the player
    budget

client  == <<loop, wire, socket, status, settings, disk, queue, tasks, loads>>
outside == <<server, stored, seen>>
vars    == <<client, outside, budget>>

Code     == (Nat \X Nat) \cup {NoCode}
Settings == [source : 0..Loads, code : Code, linked : BOOLEAN]
Push     == {"push"} \X Nat
Refresh  == {"refresh"} \X Nat
Reply    == ({"code"} \X (Nat \X Nat)) \cup {<<"linked", 0>>}
Action   == Reply \cup ({"registered"} \X (Nat \X Nat)) \cup ({"collect"} \X Nat)

TypeOK ==
    /\ loop \in [Loop -> [at : Stages, token : Nat, fails : 0..MaxFailures, on : 0..Loads]]
    /\ wire \in [Loop -> [state : {"none", "dialing", "open", "lost", "closed"},
                          source : 0..Loads, hello : BOOLEAN, down : Seq(Reply)]]
    /\ socket \in 0..Loads
    /\ status \in {"Disconnected", "Connecting", "Connected"}
    /\ settings \in Settings /\ disk \in Settings
    /\ queue \in Seq(Action)
    /\ tasks \subseteq Push \cup Refresh
    /\ loads \in 0..Loads
    /\ server \in [known : 0..Loads, of : [Source -> [code : Nat, open : BOOLEAN, linked : BOOLEAN]]]
    /\ stored \subseteq Nat \X Nat
    /\ seen \in Code
    /\ budget \in [Events -> Nat]
    /\ \A l \in Loop : loop[l].at = "await" => loop[l].on # 0

Idle == [at |-> "off", token |-> 0, fails |-> 0, on |-> 0]
NoWire == [state |-> "none", source |-> 0, hello |-> FALSE, down |-> <<>>]
NoSettings == [source |-> 0, code |-> NoCode, linked |-> FALSE]

(* A new installation, or one whose source was linked earlier. *)
Init ==
    /\ loop = [l \in Loop |-> Idle]
    /\ wire = [l \in Loop |-> NoWire]
    /\ socket = 0 /\ status = "Disconnected"
    /\ queue = <<>> /\ tasks = {} /\ loads = 0
    /\ stored = {} /\ seen = NoCode
    /\ \E known \in BOOLEAN :
         /\ disk = IF known THEN [source |-> 1, code |-> NoCode, linked |-> TRUE] ELSE NoSettings
         /\ server = [known |-> IF known THEN 1 ELSE 0,
                      of |-> [s \in Source |->
                                [code |-> 0, open |-> FALSE, linked |-> known /\ s = 1]]]
    /\ settings = disk
    /\ budget = Budget

Spend(k) ==
    /\ budget[k] > 0 /\ budget["total"] > 0
    /\ budget' = [budget EXCEPT ![k] = @ - 1, !["total"] = @ - 1]

-----------------------------------------------------------------------------
(* Messages. *)

(* What the server tells a source of its link. *)
LinkState(s) == IF server.of[s].linked THEN <<"linked", 0>>
                                       ELSE <<"code", <<s, server.of[s].code>>>>

(* ClientWebSocket takes a broken connection for an open one for a while. *)
Open(s)   == s # 0 /\ wire[s].state = "open"
Usable(s) == s # 0 /\ wire[s].state \in {"open", "lost"}

(* The server's part of a message that is sent on socket s.  A refresh       *)
(* replaces the code and, other than UnlinkSource, leaves the link.          *)
Serve(m, s) ==
    LET src == wire[s].source
        new == server.of[src].code + 1
    IN  IF wire[s].state = "lost" THEN UNCHANGED <<wire, server, stored>>
        ELSE CASE m[1] = "push" ->
                    /\ stored' = stored \cup {<<m[2], src>>}
                    /\ UNCHANGED <<wire, server>>
               [] m[1] = "refresh" ->
                    /\ server' = [server EXCEPT !.of[src].code = new, !.of[src].open = TRUE]
                    /\ wire' = [wire EXCEPT ![s].down = Append(@, <<"code", <<src, new>>>>)]
                    /\ UNCHANGED stored
               [] m[1] = "online" ->
                    /\ wire' = [wire EXCEPT ![s].hello = TRUE, ![s].down = Append(@, LinkState(src))]
                    /\ UNCHANGED <<server, stored>>

(* SendAsync and SendImmediate: dropped without an open socket, and lost on   *)
(* a broken one.  The check and the write, which may come later and go to    *)
(* another socket, are one step: the write decides, or the check drops.      *)
SendAsync(m) ==
    /\ m \in tasks
    /\ tasks' = tasks \ {m}
    /\ IF Usable(socket) THEN Serve(m, socket) ELSE UNCHANGED <<wire, server, stored>>
    /\ UNCHANGED <<loop, socket, status, settings, disk, queue, loads, seen, budget>>

-----------------------------------------------------------------------------
(* The connection loop. *)

Cancelled(l) == loop[l].token # loads

Goto(l, stage) == loop' = [loop EXCEPT ![l].at = stage, ![l].on = 0]

(* A loop that returns because it was cancelled. *)
Leave(l) == loop' = [loop EXCEPT ![l] = [Idle EXCEPT !.at = "done"]]

(* What an exception of the connection makes of the loop. *)
Throw(l) == loop' = [loop EXCEPT ![l].at = "dispose", ![l].on = 0, ![l].fails = @ + 1]

Local == UNCHANGED <<settings, disk, queue, tasks, loads, outside, budget>>

(* The task starts, and only then reads the token: that of the last load. *)
StartTask(l) ==
    /\ loop[l].at = "spawned"
    /\ LET at == IF settings.source = 0 THEN "register" ELSE "head"
       IN  /\ loop' = [loop EXCEPT ![l].at = at, ![l].token = loads]
           /\ status' = IF at = "register" THEN "Connecting" ELSE status
    /\ UNCHANGED <<wire, socket>> /\ Local

(* Mutant: Register leaves the writing of the settings to the dialog. *)
RegisterResultUnwritten(l) ==
    /\ loop[l].at = "register"
    /\ LET src == server.known + 1
       IN  /\ server' = [known |-> src,
                         of |-> [server.of EXCEPT ![src].code = 1, ![src].open = TRUE]]
           /\ settings' = [source |-> src, code |-> <<src, 1>>, linked |-> FALSE]
    /\ Goto(l, "close")
    /\ UNCHANGED <<wire, socket, status, disk, queue, tasks, loads, stored, seen, budget>>

(* Register: there is an answer, ... *)
RegisterResult(l) ==
    /\ loop[l].at = "register"
    /\ LET src  == server.known + 1
           code == <<src, 1>>
       IN  /\ server' = [known |-> src,
                         of |-> [server.of EXCEPT ![src].code = 1, ![src].open = TRUE]]
           /\ settings' = [source |-> src, code |-> code, linked |-> FALSE]
           /\ queue' = Append(queue, <<"registered", code>>)
    /\ Goto(l, "close")
    /\ UNCHANGED <<wire, socket, status, disk, tasks, loads, stored, seen, budget>>

CloseRegister(l) ==
    /\ loop[l].at = "close"
    /\ status' = "Disconnected"
    /\ Goto(l, "head")
    /\ UNCHANGED <<wire, socket>> /\ Local

(* ... or the dial fails, and there may be no credentials, ... *)
RegisterFails(l) ==
    /\ loop[l].at = "register"
    /\ (Cancelled(l) /\ UNCHANGED budget) \/ Spend("refuse")
    /\ status' = "Disconnected"
    /\ Goto(l, IF settings.source = 0 THEN "done" ELSE "head")
    /\ UNCHANGED <<wire, socket, settings, disk, queue, tasks, loads, outside>>

(* ... or, after the dial, something nobody catches: the loop ends with it. *)
RegisterThrows(l) ==
    /\ loop[l].at \in {"register", "close"}
    /\ (Cancelled(l) /\ UNCHANGED budget) \/ Spend("refuse")
    /\ Goto(l, "escaped")
    /\ UNCHANGED <<wire, socket, status, settings, disk, queue, tasks, loads, outside>>

(* The loop itself, at first or after the delay. *)
Again(l) ==
    /\ loop[l].at \in {"head", "wait"}
    /\ IF Cancelled(l) THEN Leave(l) /\ UNCHANGED status
                       ELSE Goto(l, "new") /\ status' = "Connecting"
    /\ UNCHANGED <<wire, socket>> /\ Local

(* Connect: a socket, with the token of the settings, ... *)
NewSocket(l) ==
    /\ loop[l].at = "new"
    /\ socket' = l
    /\ wire' = [wire EXCEPT ![l] = [NoWire EXCEPT !.state = "dialing", !.source = settings.source]]
    /\ Goto(l, "dial")
    /\ UNCHANGED status /\ Local

(* ... a dial that succeeds, ... *)
Dialed(l) ==
    /\ loop[l].at = "dial" /\ wire[l].state = "dialing"
    /\ wire' = [wire EXCEPT ![l].state = "open"]
    /\ Goto(l, "hello")
    /\ UNCHANGED <<socket, status>> /\ Local

(* ... or not; how a cancelled one shows depends on the runtime. *)
DialFails(l) ==
    /\ loop[l].at = "dial"
    /\ \/ (Cancelled(l) \/ wire[l].state = "closed") /\ UNCHANGED budget
       \/ Spend("refuse")
    /\ wire' = [wire EXCEPT ![l] = [NoWire EXCEPT !.state = "closed"]]
    /\ Throw(l) \/ (Cancelled(l) /\ Leave(l))
    /\ UNCHANGED <<socket, status, settings, disk, queue, tasks, loads, outside>>

(* SourceOnline, on whichever socket the field holds. *)
Hello(l) ==
    /\ loop[l].at = "hello"
    /\ \/ Usable(socket) /\ Serve(<<"online", 0>>, socket) /\ Goto(l, "settle")
       \/ /\ ~Open(socket)
          /\ Throw(l)
          /\ UNCHANGED <<wire, server, stored>>
    /\ UNCHANGED <<socket, status, settings, disk, queue, tasks, loads, seen,
                   budget>>

(* Mutant: The field is not tested for null. *)
ListenUntested(l) ==
    IF Cancelled(l) THEN [loop[l] EXCEPT !.at = "dispose", !.on = 0]
                    ELSE [loop[l] EXCEPT !.at = "await", !.on = socket]

(* ReceiveLoop: wait on the socket of the field, if that may be.  Nothing is  *)
(* lost by testing it in the step before: a test that fails later and a      *)
(* wait that ends at once have the same outcome.                             *)
Listen(l) ==
    LET ok == ~Cancelled(l) /\ Usable(socket)
    IN  [loop[l] EXCEPT !.at = IF ok THEN "await" ELSE "dispose", !.on = IF ok THEN socket ELSE 0]

Settle(l) ==
    /\ loop[l].at = "settle"
    /\ loop' = [loop EXCEPT ![l] = [Listen(l) EXCEPT !.fails = 0]]
    /\ status' = "Connected"
    /\ UNCHANGED <<wire, socket>> /\ Local

(* A message is handled, ... *)
HandleMessage(l) ==
    LET s == loop[l].on IN
    /\ loop[l].at = "await" /\ wire[s].down # <<>>
    /\ wire' = [wire EXCEPT ![s].down = Tail(@)]
    /\ queue' = Append(queue, Head(wire[s].down))
    /\ loop' = [loop EXCEPT ![l] = Listen(l)]
    /\ UNCHANGED <<socket, status, settings, disk, tasks, loads, outside, budget>>

(* Mutant: A socket that the server closes ends the loop, not the wait. *)
AwaitEndsLoop(l) ==
    LET s == loop[l].on IN
    /\ loop[l].at = "await"
    /\ \/ wire[s].state \in {"lost", "closed"} /\ (Goto(l, "done") \/ Throw(l))
       \/ Cancelled(l) /\ (Leave(l) \/ Throw(l))
    /\ UNCHANGED <<wire, socket, status>> /\ Local

(* ... or the wait ends: the server closed it, it broke, it was disposed, or   *)
(* the token was cancelled.                                                 *)
AwaitEnds(l) ==
    LET s == loop[l].on IN
    /\ loop[l].at = "await"
    /\ \/ wire[s].state \in {"lost", "closed"} /\ (Goto(l, "dispose") \/ Throw(l))
       \/ Cancelled(l) /\ (Leave(l) \/ Throw(l))
    /\ UNCHANGED <<wire, socket, status>> /\ Local

(* The end of a connection: the socket of the field is disposed, ... *)
Disposed(s) ==
    IF s = 0 THEN wire
    ELSE [wire EXCEPT ![s] = [NoWire EXCEPT !.state = "closed"]]

Dispose(l) ==
    /\ loop[l].at = "dispose"
    /\ wire' = Disposed(socket)
    /\ Goto(l, "forget")
    /\ UNCHANGED <<socket, status>> /\ Local

(* ... the field is cleared, ... *)
Forget(l) ==
    /\ loop[l].at = "forget"
    /\ socket' = 0
    /\ Goto(l, "report")
    /\ UNCHANGED <<wire, status>> /\ Local

(* ... the status shows it, and the loop gives up or waits. *)
Report(l) ==
    /\ loop[l].at = "report"
    /\ status' = "Disconnected"
    /\ IF Cancelled(l) THEN Leave(l)
       ELSE Goto(l, IF loop[l].fails >= MaxFailures THEN "done" ELSE "wait")
    /\ UNCHANGED <<wire, socket>> /\ Local

-----------------------------------------------------------------------------
(* The main thread. *)

(* FinalizeInit, with Start: the game is loaded. *)
Start ==
    /\ loads < Loads
    /\ loads > 0 => loop[loads].at \in LoadDuring \cup {"off"}
    /\ loads' = loads + 1
    /\ Goto(loads', "spawned")
    /\ wire' = Disposed(socket)
    /\ socket' = 0
    /\ status' = "Disconnected"
    /\ UNCHANGED <<settings, disk, queue, tasks, outside, budget>>

(* The hook of the game's save, or the button that tests a push. *)
OnSave ==
    /\ status = "Connected"
    /\ Spend("save")
    /\ queue' = Append(queue, <<"collect", budget["save"]>>)
    /\ UNCHANGED <<loop, wire, socket, status, settings, disk, tasks, loads, outside>>

(* RequestNewLinkCode: the buttons are there while linked, or with a code. *)
RequestNewLinkCode ==
    /\ status = "Connected"
    /\ settings.linked \/ settings.code # NoCode
    /\ Spend("repair")
    /\ settings' = [settings EXCEPT !.linked = FALSE, !.code = NoCode]
    /\ disk' = settings'
    /\ tasks' = tasks \cup {<<"refresh", budget["repair"]>>}
    /\ UNCHANGED <<loop, wire, socket, status, queue, loads, outside>>

(* GameComponentUpdate takes the actions in their order. *)
Take(kind) ==
    /\ queue # <<>> /\ Head(queue)[1] = kind
    /\ queue' = Tail(queue)
    /\ UNCHANGED <<loop, wire, socket, loads, server, stored, budget>>

(* BuildPushSave: a message to send, or nothing, or an exception. *)
Collect ==
    /\ Take("collect")
    /\ tasks' \in {tasks, tasks \cup {<<"push", Head(queue)[2]>>}}
    /\ UNCHANGED <<status, settings, disk, seen>>

SaveCredentials ==
    /\ Take("registered")
    /\ disk' = settings
    /\ seen' = Head(queue)[2]
    /\ UNCHANGED <<status, settings, tasks>>

SourceLinked ==
    /\ Take("linked")
    /\ settings' = [settings EXCEPT !.linked = TRUE, !.code = NoCode]
    /\ disk' = settings'
    /\ status' = "Connected"
    /\ UNCHANGED <<tasks, seen>>

(* Mutant: A code is kept once there is one. *)
RefreshLinkCodeResultOnce ==
    /\ Take("code")
    /\ IF settings.linked \/ settings.code # NoCode
       THEN UNCHANGED <<settings, disk, seen>>
       ELSE /\ settings' = [settings EXCEPT !.code = Head(queue)[2]]
            /\ disk' = settings'
            /\ seen' = Head(queue)[2]
    /\ UNCHANGED <<status, tasks>>

RefreshLinkCodeResult ==
    /\ Take("code")
    /\ IF settings.linked \/ settings.code = Head(queue)[2]
       THEN UNCHANGED <<settings, disk, seen>>
       ELSE /\ settings' = [settings EXCEPT !.code = Head(queue)[2]]
            /\ disk' = settings'
            /\ seen' = Head(queue)[2]
    /\ UNCHANGED <<status, tasks>>

-----------------------------------------------------------------------------
(* The environment. *)

Lose(s) ==
    /\ wire[s].state = "open"
    /\ Spend("lose")
    /\ wire' = [wire EXCEPT ![s] = [NoWire EXCEPT !.state = "lost"]]
    /\ UNCHANGED <<loop, socket, status, settings, disk, queue, tasks, loads,
                   outside>>

(* The game ends, with or without a crash: nothing stops the mod first. *)
Quit ==
    /\ loads > 0 /\ loop[loads].at # "off"
    /\ Spend("quit")
    /\ loop' = [l \in Loop |-> Idle]
    /\ wire' = [l \in Loop |-> NoWire]
    /\ socket' = 0 /\ status' = "Disconnected"
    /\ queue' = <<>> /\ tasks' = {}
    /\ settings' = disk
    /\ UNCHANGED <<disk, loads, outside>>

(* The player enters the code of the last letter on the web site. *)
LinkSource ==
    /\ seen # NoCode
    /\ Spend("link")
    /\ LET src == seen[1] IN
       /\ server.of[src].open /\ server.of[src].code = seen[2]
       /\ server' = [server EXCEPT !.of[src].open = FALSE, !.of[src].linked = TRUE]
       /\ wire' = [l \in Loop |->
                     IF wire[l].hello /\ wire[l].source = src
                     THEN [wire[l] EXCEPT !.down = Append(@, <<"linked", 0>>)] ELSE wire[l]]
    /\ UNCHANGED <<loop, socket, status, settings, disk, queue, tasks, loads,
                   stored, seen>>

-----------------------------------------------------------------------------
ConnectionLoop(l) ==
    \/ StartTask(l) \/ RegisterResult(l) \/ CloseRegister(l) \/ Again(l) \/ NewSocket(l) \/ Dialed(l) \/ Hello(l) \/ Settle(l)
    \/ HandleMessage(l) \/ AwaitEnds(l) \/ Dispose(l) \/ Forget(l) \/ Report(l)

LoopFails(l) == RegisterFails(l) \/ RegisterThrows(l) \/ DialFails(l)

Drain == Collect \/ SaveCredentials \/ SourceLinked \/ RefreshLinkCodeResult

Send == \E m \in tasks : SendAsync(m)

Next ==
    \/ \E l \in Loop : ConnectionLoop(l) \/ LoopFails(l) \/ Lose(l)
    \/ Drain \/ Send \/ Start \/ OnSave \/ RequestNewLinkCode \/ Quit \/ LinkSource

Spec == Init /\ [][Next]_vars

(* The thread pool runs every loop and every task, and the game draws        *)
(* frames.  A dial that can only fail does.                                 *)
FairSpec ==
    /\ Spec
    /\ \A l \in Loop : WF_vars(ConnectionLoop(l) \/ (wire[l].state = "closed" /\ DialFails(l)))
    /\ WF_vars(Drain)
    /\ WF_vars(Send)

-----------------------------------------------------------------------------
(* Every source that has a save, or whose code the player was shown, is the  *)
(* one in the saved settings: a game that ends at any moment leaves no       *)
(* colony under a source that is forgotten.  Register sets the settings on   *)
(* a background thread, and the main thread writes them later.              *)
SourceSaved ==
    /\ \A push \in stored : push[2] = disk.source
    /\ seen # NoCode => seen[1] = disk.source

(* The last loop waits for messages on a connection the server knows. *)
Online ==
    /\ loads > 0 /\ loop[loads].at = "await"
    /\ LET s == loop[loads].on IN wire[s].state = "open" /\ wire[s].hello

(* Nothing runs: no game, a registration that failed, or MaxFailures. *)
Ended ==
    \/ loads = 0
    \/ loop[loads].at \in {"off", "escaped"}
    \/ loop[loads].at = "done" /\ (loop[loads].fails = MaxFailures \/ settings.source = 0)

(* Whatever connections break and games are loaded, the mod is online in     *)
(* the end, or has given up as it says.                                     *)
EventuallyOnline == <>[](Online \/ Ended)

(* It can also send on that connection, and says so. *)
Ready == Online /\ socket = loop[loads].on /\ status = "Connected"

(* And then it shows the link state of the server: linked, or a code that    *)
(* can be entered - also when news of it was lost or came late.              *)
LinkStateCurrent ==
    <>[](Ready => LET s == server.of[settings.source]
                  IN  \/ settings.linked /\ s.linked
                      \/ settings.code = <<settings.source, s.code>> /\ s.open)

(* SavecraftConnection.cs:150, of Start: "Safe to call multiple times (e.g., *)
(* on game reload) — stops existing connection first."                       *)
ReloadSafe == <>[](Online => Ready)
=============================================================================
