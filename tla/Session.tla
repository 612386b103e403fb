------------------------------- MODULE Session -------------------------------
(***************************************************************************)
(* The daemon's session with the server: the WebSocket client's connect     *)
(* loop (src/internal/wsconn/client.go), the part of the event loop that    *)
(* announces, follows the link state and shuts down                         *)
(* (src/internal/daemon/daemon.go), and the repair requests of the local    *)
(* API (src/cmd/savecraftd/cmd/run.go, src/internal/localapi/server.go).    *)
(*                                                                         *)
(* Goroutines: the connect loop, the event loop, one per repair request.    *)
(* A link code is the number of the code the server issued.  The server is  *)
(* external; it answers SourceOnline, RefreshLinkCode and UnlinkSource as    *)
(* docs/daemon.md and protocol.proto say, and what it sends on a connection  *)
(* that breaks is lost.                                                     *)
(***************************************************************************)
EXTENDS Naturals, Sequences

CONSTANTS Requests, \* the repair requests of the local API
          Capacity, \* the capacity of the channel of messages
          MaxWire,  \* a heartbeat asks for no code while so many answers are on the wire
          None,     \* no code, no message
          Linked,   \* the message SourceLinked
          Budget    \* how often the environment does each thing

Sources == {"drop", "refuse", "link", "age", "resume", "repair", "stop",
            "total"}

ASSUME SessionAssumption ==
    /\ Capacity \in Nat \ {0} /\ MaxWire \in Nat
    /\ None \notin Nat /\ Linked \notin Nat /\ Linked # None
    /\ Budget \in [Sources -> Nat]

VARIABLES
    stage,     \* where connectLoop is
    held,      \* the message serveConn has read and not delivered
    conn,      \* Client.conn is set
    alive,     \* the connection it was set to still works
    connected, \* the Connected channel holds a signal
    force,     \* the forceReconnect channel holds a signal
    wire,      \* messages of the server on their way
    messages,  \* the channel of messages
    canceled,  \* the context is done
    loop,      \* where the event loop is
    linked,    \* Daemon.linked
    code,      \* Daemon.linkCode
    answer,    \* the slot of pendingLinkCode
    request,   \* where each repair request is
    shown,     \* the code the local API shows
    boot,      \* the state the local API reports
    server,    \* what the server knows of the source
    old,       \* codes up to this one are near their expiry
    budget

client == <<stage, held, conn, alive, connected, force, wire, messages>>
link   == <<linked, code, answer, shown, boot>>
vars   == <<client, canceled, loop, link, request, server, old, budget>>

Code    == Nat
Message == Code \cup {Linked}

(* `hello': SourceOnline came on the connection there is. *)
Server == [linked : BOOLEAN, code : Code, hello : BOOLEAN]

TypeOK ==
    /\ stage \in {"dial", "dialed", "serve", "backoff", "done"}
    /\ held \in Message \cup {None}
    /\ {conn, alive, connected, force, canceled, linked} \subseteq BOOLEAN
    /\ wire \in Seq(Message)
    /\ messages \in Seq(Message) /\ Len(messages) <= Capacity
    /\ loop \in {"select", "announce", "resume", "close", "wait", "exited"}
    /\ {code, answer, shown} \subseteq Code \cup {None}
    /\ request \in [Requests -> {"idle", "send", "wait"}]
    /\ boot \in {"registered", "running"}
    /\ server \in Server
    /\ old \in Nat
    /\ budget \in [Sources -> Nat]
    /\ conn => stage = "serve"
    /\ held # None => stage = "serve"
    /\ alive => stage \in {"dialed", "serve"}
    /\ loop = "exited" => stage = "done"

(* A source just registered, with its first code, or one that has run       *)
(* before: the server tells its link state.                                 *)
Init ==
    /\ stage = "dial" /\ held = None
    /\ conn = FALSE /\ alive = FALSE
    /\ connected = FALSE /\ force = FALSE
    /\ wire = <<>> /\ messages = <<>>
    /\ canceled = FALSE
    /\ loop = "select"
    /\ linked = FALSE
    /\ answer = None
    /\ request = [r \in Requests |-> "idle"]
    /\ \E new, known \in BOOLEAN :
         /\ server = [linked |-> known /\ ~new, code |-> 1, hello |-> FALSE]
         /\ code = IF new THEN 1 ELSE None
         /\ shown = IF new THEN 1 ELSE None
    /\ boot = "running"
    /\ old = 0
    /\ budget = Budget

Spend(k) ==
    /\ budget[k] > 0 /\ budget["total"] > 0
    /\ budget' = [budget EXCEPT ![k] = @ - 1, !["total"] = @ - 1]

-----------------------------------------------------------------------------
(* Send: dropped without a connection, lost when it is broken. *)

LinkState(s) == IF s.linked THEN Linked ELSE s.code

(* What the server may make of a message: an unlinked source that comes     *)
(* online may be given a fresh code; what it then tells the source.         *)
NewCode(s) == [s EXCEPT !.code = @ + 1]

Handled(m) ==
    CASE m = "SourceOnline"    -> LET s == [server EXCEPT !.hello = TRUE]
                                  IN  {s} \cup (IF s.linked THEN {} ELSE {NewCode(s)})
      [] m = "RefreshLinkCode" -> {IF server.linked THEN server ELSE NewCode(server)}
      [] m = "UnlinkSource"    -> {NewCode([server EXCEPT !.linked = FALSE])}

Send(m) ==
    IF conn /\ alive
    THEN \E s \in Handled(m) : server' = s /\ wire' = Append(wire, LinkState(s))
    ELSE UNCHANGED <<server, wire>>

-----------------------------------------------------------------------------
(* The connect loop. *)

Stopped == stage' = "done"

(* A dial that succeeds, ... *)
Dial ==
    /\ stage = "dial"
    /\ IF canceled THEN Stopped /\ UNCHANGED <<alive, server>>
       ELSE /\ stage' = "dialed"
            /\ alive' = TRUE
            /\ server' = [server EXCEPT !.hello = FALSE]
    /\ UNCHANGED <<held, conn, connected, force, wire, messages, canceled, loop,
                   link, request, old, budget>>

(* ... or fails. *)
DialFails ==
    /\ stage = "dial"
    /\ Spend("refuse")
    /\ stage' = "backoff"
    /\ UNCHANGED <<held, conn, alive, connected, force, wire, messages, canceled, loop,
                   link, request, server, old>>

(* The connection is published, and signalled in place of an older signal. *)
Publish ==
    /\ stage = "dialed"
    /\ stage' = "serve"
    /\ conn' = TRUE
    /\ connected' = TRUE
    /\ UNCHANGED <<held, alive, force, wire, messages, canceled, loop, link, request,
                   server, old, budget>>

(* Mutant: Every message of a channel that is full is dropped. *)
DeliverOrDrop ==
    /\ held # None
    /\ messages' = IF Len(messages) < Capacity THEN Append(messages, held) ELSE messages
    /\ held' = None
    /\ UNCHANGED <<stage, conn, alive, connected, force, wire, canceled, loop, link,
                   request, server, old, budget>>

(* Mutant: A message is read into the channel that has no room for it. *)
DeliverAnyway ==
    /\ held # None
    /\ messages' = Append(messages, held)
    /\ held' = None
    /\ UNCHANGED <<stage, conn, alive, connected, force, wire, canceled, loop, link,
                   request, server, old, budget>>

Read ==
    /\ stage = "serve" /\ held = None /\ alive /\ wire # <<>>
    /\ held' = Head(wire)
    /\ wire' = Tail(wire)
    /\ UNCHANGED <<stage, conn, alive, connected, force, messages, canceled, loop, link,
                   request, server, old, budget>>

Deliver ==
    /\ held # None /\ Len(messages) < Capacity
    /\ messages' = Append(messages, held)
    /\ held' = None
    /\ UNCHANGED <<stage, conn, alive, connected, force, wire, canceled, loop, link,
                   request, server, old, budget>>

(* Mutant: serveConn delivers what it read, context or not. *)
DisconnectedAfterDelivery ==
    /\ stage = "serve"
    /\ held = None /\ (canceled \/ ~alive)
    /\ stage' = "backoff"
    /\ conn' = FALSE
    /\ alive' = FALSE
    /\ held' = None
    /\ wire' = <<>>
    /\ UNCHANGED <<connected, force, messages, canceled, loop, link, request, server,
                   old, budget>>

(* serveConn returns: the read fails (a context that is done closes the     *)
(* connection), or the context is done while the channel is full.           *)
Disconnected ==
    /\ stage = "serve"
    /\ canceled \/ (held = None /\ ~alive)
    /\ stage' = "backoff"
    /\ conn' = FALSE
    /\ alive' = FALSE
    /\ held' = None
    /\ wire' = <<>>
    /\ UNCHANGED <<connected, force, messages, canceled, loop, link, request, server,
                   old, budget>>

(* waitBackoff: the timer, a forced reconnect, or the end. *)
Backoff ==
    /\ stage = "backoff"
    /\ \/ stage' = "dial" /\ UNCHANGED force
       \/ force /\ stage' = "dial" /\ force' = FALSE
       \/ canceled /\ Stopped /\ UNCHANGED force
    /\ UNCHANGED <<held, conn, alive, connected, wire, messages, canceled, loop, link,
                   request, server, old, budget>>

-----------------------------------------------------------------------------
(* The event loop. *)

(* Mutant: The signal is taken again once the games are scanned. *)
ScanDoneDrains ==
    /\ loop = "announce"
    /\ loop' = "select"
    /\ connected' = FALSE
    /\ UNCHANGED <<stage, held, conn, alive, force, wire, messages, canceled, link,
                   request, server, old, budget>>

(* announceOnline: SourceOnline, then a scan of every game. *)
AnnounceOnline ==
    /\ loop = "select" /\ connected
    /\ connected' = FALSE
    /\ Send("SourceOnline")
    /\ loop' = "announce"
    /\ UNCHANGED <<stage, held, conn, alive, force, messages, canceled, link, request,
                   old, budget>>

ScanDone ==
    /\ loop = "announce"
    /\ loop' = "select"
    /\ UNCHANGED <<client, canceled, link, request, server, old, budget>>

Receive == loop = "select" /\ messages # <<>> /\ messages' = Tail(messages)

HandleSourceLinked ==
    /\ Receive
    /\ Head(messages) = Linked
    /\ linked' = TRUE
    /\ code' = None
    /\ boot' = "running"
    /\ UNCHANGED <<stage, held, conn, alive, connected, force, wire, canceled, loop,
                   answer, shown, request, server, old, budget>>

(* A waiter, or the next one, finds the code in the slot if it was empty. *)
HandleRefreshLinkCodeResult ==
    /\ Receive
    /\ Head(messages) # Linked
    /\ code' = Head(messages)
    /\ shown' = Head(messages)
    /\ boot' = "registered"
    /\ answer' = IF answer = None THEN Head(messages) ELSE answer
    /\ UNCHANGED <<stage, held, conn, alive, connected, force, wire, canceled, loop,
                   linked, request, server, old, budget>>

(* A heartbeat, with maybeRefreshLinkCode. *)
Heartbeat ==
    /\ loop = "select"
    /\ ~linked /\ code # None /\ code <= old
    /\ Len(wire) < MaxWire
    /\ Send("RefreshLinkCode")
    /\ UNCHANGED <<stage, held, conn, alive, connected, force, messages, canceled, loop,
                   link, request, old, budget>>

(* Mutant: ForceReconnect forgets the connection instead of closing it. *)
CloseForResumeForgets ==
    /\ loop = "select"
    /\ Spend("resume")
    /\ conn' = FALSE
    /\ loop' = "resume"
    /\ UNCHANGED <<stage, held, alive, connected, force, wire, messages, canceled, link,
                   request, server, old>>

(* ForceReconnect after the machine woke up: the connection is closed, ... *)
CloseForResume ==
    /\ loop = "select"
    /\ Spend("resume")
    /\ alive' = (alive /\ ~conn)
    /\ wire' = IF conn THEN <<>> ELSE wire
    /\ loop' = "resume"
    /\ UNCHANGED <<stage, held, conn, connected, force, messages, canceled, link, request,
                   server, old>>

(* ... then the backoff is to be skipped. *)
SignalResume ==
    /\ loop = "resume"
    /\ force' = TRUE
    /\ loop' = "select"
    /\ UNCHANGED <<stage, held, conn, alive, connected, wire, messages, canceled, link,
                   request, server, old, budget>>

(* The context is done: sendShutdown (SourceOffline has no answer), ... *)
SendShutdown ==
    /\ loop = "select" /\ canceled
    /\ loop' = "close"
    /\ UNCHANGED <<client, canceled, link, request, server, old, budget>>

(* ... then Client.Close, ... *)
Close ==
    /\ loop = "close"
    /\ alive' = (alive /\ ~conn)
    /\ conn' = FALSE
    /\ loop' = "wait"
    /\ UNCHANGED <<stage, held, connected, force, wire, messages, canceled, link, request,
                   server, old, budget>>

(* ... which waits for the connect loop. *)
CloseReturn ==
    /\ loop = "wait" /\ stage = "done"
    /\ loop' = "exited"
    /\ UNCHANGED <<client, canceled, link, request, server, old, budget>>

-----------------------------------------------------------------------------
(* RequestUnlink, called by a repair request: the slot is drained, ... *)
Drain(r) ==
    /\ request[r] = "idle"
    /\ Spend("repair")
    /\ answer' = None
    /\ request' = [request EXCEPT ![r] = "send"]
    /\ UNCHANGED <<client, canceled, loop, linked, code, shown, boot, server, old>>

(* ... the request sent, ... *)
SendUnlink(r) ==
    /\ request[r] = "send"
    /\ Send("UnlinkSource")
    /\ request' = [request EXCEPT ![r] = "wait"]
    /\ UNCHANGED <<stage, held, conn, alive, connected, force, messages, canceled, loop,
                   link, old, budget>>

(* ... and the answer taken, or the time is over.  Either way the request    *)
(* has its response, and another may come.                                  *)
TakeAnswer(r) ==
    /\ request[r] = "wait" /\ answer # None
    /\ answer' = None
    /\ request' = [request EXCEPT ![r] = "idle"]
    /\ UNCHANGED <<client, canceled, loop, linked, code, shown, boot, server, old, budget>>

Expire(r) ==
    /\ request[r] = "wait"
    /\ request' = [request EXCEPT ![r] = "idle"]
    /\ UNCHANGED <<client, canceled, loop, link, server, old, budget>>

-----------------------------------------------------------------------------
(* The environment. *)

Drop ==
    /\ alive
    /\ Spend("drop")
    /\ alive' = FALSE
    /\ wire' = <<>>
    /\ UNCHANGED <<stage, held, conn, connected, force, messages, canceled, loop, link,
                   request, server, old>>

(* Someone enters the code on the web site. *)
Link ==
    /\ ~server.linked
    /\ Spend("link")
    /\ server' = [server EXCEPT !.linked = TRUE]
    /\ wire' = IF alive /\ server.hello THEN Append(wire, Linked) ELSE wire
    /\ UNCHANGED <<stage, held, conn, alive, connected, force, messages, canceled, loop,
                   link, request, old>>

(* The code there is comes near its expiry. *)
Age ==
    /\ old < server.code
    /\ Spend("age")
    /\ old' = server.code
    /\ UNCHANGED <<client, canceled, loop, link, request, server>>

(* SIGTERM, or POST /shutdown. *)
Stop ==
    /\ ~canceled
    /\ Spend("stop")
    /\ canceled' = TRUE
    /\ UNCHANGED <<client, loop, link, request, server, old>>

-----------------------------------------------------------------------------
ConnectLoop == Dial \/ DialFails \/ Publish \/ Read \/ Deliver \/ Disconnected \/ Backoff

EventLoop ==
    \/ AnnounceOnline \/ ScanDone \/ HandleSourceLinked \/ HandleRefreshLinkCodeResult
    \/ Heartbeat \/ CloseForResume \/ SignalResume \/ SendShutdown \/ Close \/ CloseReturn

Repair == \E r \in Requests : Drain(r) \/ SendUnlink(r) \/ TakeAnswer(r) \/ Expire(r)

Next == ConnectLoop \/ EventLoop \/ Repair \/ Drop \/ Link \/ Age \/ Stop

Spec == Init /\ [][Next]_vars

(* The connect loop and the event loop go on while they can.  That is less   *)
(* than Go gives (`select' takes a ready channel at random), and enough: the *)
(* environment stops in the end.  Nothing is asked of the repair requests.    *)
FairSpec ==
    /\ Spec
    /\ WF_vars(Dial \/ Publish \/ Read \/ Deliver \/ Disconnected \/ Backoff)
    /\ WF_vars(EventLoop)

-----------------------------------------------------------------------------
(* A working connection has been announced on, or the signal to do so is    *)
(* pending: no reconnect goes unnoticed while the event loop is in a scan,   *)
(* and SourceOnline is never sent before the connection can be used.         *)
AnnouncePending ==
    conn /\ alive => server.hello \/ connected

(* Unless the daemon is told to stop, it ends up connected and announced,    *)
(* whatever refused dials, dropped connections and forced reconnects         *)
(* there were.                                                              *)
EventuallyAnnounced == <>[](canceled \/ (conn /\ alive /\ server.hello))

(* Once the context is done, Run returns: the connect loop is left from a    *)
(* read, a full channel of messages, a backoff or a dial.                    *)
StopReturns == canceled ~> loop = "exited"

(* In the end the daemon has the link state the server has: it knows that it *)
(* is linked, or it shows the code that can be entered - also when the       *)
(* answer, or the news of the link, was lost with a connection.  For a       *)
(* source that is linked this speaks of Daemon.linked and of GET /boot, not  *)
(* of GET /link: that is LinkGone.                                           *)
Current ==
    IF server.linked THEN linked /\ boot = "running"
                     ELSE boot = "registered" /\ shown = server.code /\ code = shown
EventuallyCurrent == <>[](canceled \/ Current)

(* docs/daemon.md:99, GET /link: "404 after linking".  The code does not do  *)
(* so: SetState leaves Server.linkCode, which handleLink returns whatever    *)
(* the state is.                                                             *)
LinkGone == <>[](canceled \/ (server.linked => shown = None))

(* docs/daemon.md:17: "If the link code nears expiry, the daemon sends a     *)
(* RefreshLinkCode proto message to get a fresh code."                       *)
CodesRefreshed == <>[](canceled \/ server.linked \/ (shown # None /\ shown > old))
=============================================================================
