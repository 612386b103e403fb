--------------------------- MODULE Session_proofs ---------------------------
(***************************************************************************)
(* Proofs about Session for any repair requests, capacity of the channel    *)
(* and faults: its type invariant, and that a connection which works is     *)
(* announced on or about to be.                                             *)
(***************************************************************************)
EXTENDS Session, TLAPS

USE SessionAssumption

-----------------------------------------------------------------------------
(* Types, in the groups the actions leave alone together.                   *)

FlagType == {conn, alive, connected, force, canceled, linked} \subseteq BOOLEAN

StageType ==
  /\ stage \in {"dial", "dialed", "serve", "backoff", "done"}
  /\ loop \in {"select", "announce", "resume", "close", "wait", "exited"}
  /\ conn => stage = "serve"
  /\ held # None => stage = "serve"
  /\ alive => stage \in {"dialed", "serve"}
  /\ loop = "exited" => stage = "done"

WireType ==
  /\ held \in Message \cup {None}
  /\ wire \in Seq(Message)
  /\ messages \in Seq(Message) /\ Len(messages) <= Capacity

LinkType ==
  /\ {code, answer, shown} \subseteq Code \cup {None}
  /\ boot \in {"registered", "running"}

PeerType ==
  /\ request \in [Requests -> {"idle", "send", "wait"}]
  /\ server \in Server
  /\ old \in Nat
  /\ budget \in [Sources -> Nat]

LEMMA TypeParts ==
  TypeOK <=> FlagType /\ StageType /\ WireType /\ LinkType /\ PeerType
BY DEF TypeOK, FlagType, StageType, WireType, LinkType, PeerType

LEMMA TypePartsNext ==
  FlagType' /\ StageType' /\ WireType' /\ LinkType' /\ PeerType' => TypeOK'
BY DEF TypeOK, FlagType, StageType, WireType, LinkType, PeerType

LEMMA InitTypes == Init => TypeOK
<1> SUFFICES ASSUME Init PROVE TypeOK
  OBVIOUS
<1>1. PICK new, known \in BOOLEAN :
        /\ server = [linked |-> known /\ ~new, code |-> 1, hello |-> FALSE]
        /\ code = IF new THEN 1 ELSE None
        /\ shown = IF new THEN 1 ELSE None
  BY DEF Init
<1>2. FlagType
  BY DEF Init, FlagType
<1>3. StageType
  BY DEF Init, StageType
<1>4. WireType
  <2>1. held = None /\ wire = <<>> /\ messages = <<>>
    BY DEF Init
  <2> QED BY <2>1 DEF WireType
<1>5. LinkType
  BY <1>1 DEF Init, LinkType, Code
<1>6. (known /\ ~new) \in BOOLEAN
  OBVIOUS
<1>7. server \in Server
  BY <1>1, <1>6 DEF Server, Code
<1>8. PeerType
  <2>1. old = 0 /\ budget = Budget /\ request = [r \in Requests |-> "idle"]
    BY DEF Init
  <2> QED BY <1>7, <2>1 DEF PeerType
<1> QED BY <1>2, <1>3, <1>4, <1>5, <1>8, TypeParts

\* What a message makes of the server.
LEMMA HandledType ==
  ASSUME server \in Server, NEW m \in {"SourceOnline", "RefreshLinkCode", "UnlinkSource"},
         NEW s \in Handled(m)
  PROVE  /\ s \in Server
         /\ server.hello => s.hello
         /\ m = "SourceOnline" => s.hello
<1>1. ASSUME NEW t \in Server
      PROVE  NewCode(t) \in Server /\ NewCode(t).hello = t.hello
  <2>1. t.code + 1 \in Nat
    BY DEF Server, Code
  <2> QED BY <2>1 DEF NewCode, Server, Code
<1>2. ASSUME NEW t \in Server
      PROVE  /\ [t EXCEPT !.hello = TRUE] \in Server
             /\ [t EXCEPT !.hello = TRUE].hello = TRUE
             /\ [t EXCEPT !.linked = FALSE] \in Server
             /\ [t EXCEPT !.linked = FALSE].hello = t.hello
  BY DEF Server
<1>3. CASE m = "SourceOnline"
  <2>1. s = [server EXCEPT !.hello = TRUE] \/ s = NewCode([server EXCEPT !.hello = TRUE])
    BY <1>3 DEF Handled
  <2> QED BY <1>1, <1>2, <2>1
<1>4. CASE m = "RefreshLinkCode"
  BY <1>1, <1>4 DEF Handled
<1>5. CASE m = "UnlinkSource"
  BY <1>1, <1>2, <1>5 DEF Handled
<1> QED BY <1>3, <1>4, <1>5

LEMMA SendType ==
  ASSUME TypeOK, NEW m \in {"SourceOnline", "RefreshLinkCode", "UnlinkSource"}, Send(m)
  PROVE  /\ server' \in Server /\ wire' \in Seq(Message)
         /\ server.hello => server'.hello
         /\ m = "SourceOnline" /\ conn /\ alive => server'.hello
<1> USE TypeParts
<1>1. CASE conn /\ alive
  <2>1. PICK s \in Handled(m) : server' = s /\ wire' = Append(wire, LinkState(s))
    BY <1>1 DEF Send
  <2>2. s \in Server /\ (server.hello => s.hello) /\ (m = "SourceOnline" => s.hello)
    BY HandledType DEF PeerType
  <2>3. LinkState(s) \in Message
    BY <2>2 DEF LinkState, Server, Message
  <2>4. wire' \in Seq(Message)
    BY <2>1, <2>3 DEF WireType
  <2> QED BY <2>1, <2>2, <2>4
<1>2. CASE ~(conn /\ alive)
  BY <1>2 DEF Send, WireType, PeerType
<1> QED BY <1>1, <1>2

-----------------------------------------------------------------------------
(* Each group of types, preserved.                                          *)

LEMMA SpendType ==
  ASSUME budget \in [Sources -> Nat], NEW k \in Sources, Spend(k)
  PROVE  budget' \in [Sources -> Nat]
BY DEF Spend, Sources

LEMMA FlagStep == ASSUME TypeOK, Next PROVE FlagType'
<1> USE TypeParts DEF FlagType
<1>1. CASE ConnectLoop
  BY <1>1 DEF ConnectLoop, Dial, DialFails, Publish, Read, Deliver, Disconnected,
              Backoff, link, Stopped
<1>2. CASE EventLoop
  BY <1>2 DEF EventLoop, AnnounceOnline, ScanDone, HandleSourceLinked,
              HandleRefreshLinkCodeResult, Heartbeat, CloseForResume, SignalResume,
              SendShutdown, Close, CloseReturn, client, link, Receive
<1>3. CASE Repair \/ Drop \/ Link \/ Age \/ Stop
  BY <1>3 DEF Repair, Drain, SendUnlink, TakeAnswer, Expire, Drop, Link, Age, Stop,
              client, link
<1> QED BY <1>1, <1>2, <1>3 DEF Next

LEMMA StageStep == ASSUME TypeOK, Next PROVE StageType'
<1> USE TypeParts DEF StageType
<1>1. CASE ConnectLoop
  BY <1>1 DEF ConnectLoop, Dial, DialFails, Publish, Read, Deliver, Disconnected,
              Backoff, link, Stopped
<1>2. CASE EventLoop
  <2>1. CASE AnnounceOnline \/ ScanDone \/ Heartbeat
    BY <2>1 DEF AnnounceOnline, ScanDone, Heartbeat, client, link
  <2>2. CASE HandleSourceLinked \/ HandleRefreshLinkCodeResult
    BY <2>2 DEF HandleSourceLinked, HandleRefreshLinkCodeResult
  <2>3. CASE CloseForResume
    BY <2>3 DEF CloseForResume
  <2>4. CASE SignalResume \/ SendShutdown
    BY <2>4 DEF SignalResume, SendShutdown, client
  <2>5. CASE Close
    BY <2>5 DEF Close
  <2>6. CASE CloseReturn
    BY <2>6 DEF CloseReturn, client
  <2> QED BY <1>2, <2>1, <2>2, <2>3, <2>4, <2>5, <2>6 DEF EventLoop
<1>3. CASE Repair \/ Drop \/ Link \/ Age \/ Stop
  BY <1>3 DEF Repair, Drain, SendUnlink, TakeAnswer, Expire, Drop, Link, Age, Stop,
              client, link
<1> QED BY <1>1, <1>2, <1>3 DEF Next

LEMMA WireStep == ASSUME TypeOK, Next PROVE WireType'
<1> USE TypeParts DEF WireType
<1>1. CASE ConnectLoop
  <2>1. CASE Dial \/ DialFails \/ Publish \/ Backoff
    BY <2>1 DEF Dial, DialFails, Publish, Backoff
  <2>2. CASE Read
    BY <2>2 DEF Read
  <2>3. CASE Deliver
    <3>1. held \in Message /\ Len(messages) < Capacity
          /\ messages' = Append(messages, held) /\ held' = None /\ UNCHANGED wire
      BY <2>3 DEF Deliver
    <3>2. messages' \in Seq(Message) /\ Len(messages') = Len(messages) + 1
      BY <3>1
    <3> QED BY <3>1, <3>2
  <2>4. CASE Disconnected
    BY <2>4 DEF Disconnected
  <2> QED BY <1>1, <2>1, <2>2, <2>3, <2>4 DEF ConnectLoop
<1>2. CASE EventLoop
  <2>1. CASE AnnounceOnline
    <3>1. Send("SourceOnline") /\ UNCHANGED <<held, messages>>
      BY <2>1 DEF AnnounceOnline
    <3> QED BY <3>1, SendType
  <2>2. CASE Heartbeat
    <3>1. Send("RefreshLinkCode") /\ UNCHANGED <<held, messages>>
      BY <2>2 DEF Heartbeat
    <3> QED BY <3>1, SendType
  <2>3. CASE HandleSourceLinked \/ HandleRefreshLinkCodeResult
    <3>1. messages # <<>> /\ messages' = Tail(messages) /\ UNCHANGED <<held, wire>>
      BY <2>3 DEF HandleSourceLinked, HandleRefreshLinkCodeResult, Receive
    <3>2. messages' \in Seq(Message) /\ Len(messages') = Len(messages) - 1
      BY <3>1
    <3> QED BY <3>1, <3>2
  <2>4. CASE CloseForResume
    BY <2>4 DEF CloseForResume
  <2>5. CASE ScanDone \/ SignalResume \/ SendShutdown \/ Close \/ CloseReturn
    BY <2>5 DEF ScanDone, SignalResume, SendShutdown, Close, CloseReturn, client
  <2> QED BY <1>2, <2>1, <2>2, <2>3, <2>4, <2>5 DEF EventLoop
<1>3. CASE Repair
  <2>1. PICK r \in Requests : Drain(r) \/ SendUnlink(r) \/ TakeAnswer(r) \/ Expire(r)
    BY <1>3 DEF Repair
  <2>2. CASE SendUnlink(r)
    <3>1. Send("UnlinkSource") /\ UNCHANGED <<held, messages>>
      BY <2>2 DEF SendUnlink
    <3> QED BY <3>1, SendType
  <2> QED BY <2>1, <2>2 DEF Drain, TakeAnswer, Expire, client
<1>4. CASE Drop
  BY <1>4 DEF Drop
<1>5. CASE Link
  BY <1>5 DEF Link, Message
<1>6. CASE Age \/ Stop
  BY <1>6 DEF Age, Stop, client
<1> QED BY <1>1, <1>2, <1>3, <1>4, <1>5, <1>6 DEF Next

LEMMA LinkStep == ASSUME TypeOK, Next PROVE LinkType'
<1> USE TypeParts DEF LinkType
<1>1. CASE ConnectLoop
  BY <1>1 DEF ConnectLoop, Dial, DialFails, Publish, Read, Deliver, Disconnected,
              Backoff, link
<1>2. CASE EventLoop
  <2>1. CASE HandleSourceLinked
    BY <2>1 DEF HandleSourceLinked
  <2>2. CASE HandleRefreshLinkCodeResult
    <3>1. Head(messages) \in Code
      BY <2>2 DEF HandleRefreshLinkCodeResult, Receive, WireType, Message
    <3> QED BY <2>2, <3>1 DEF HandleRefreshLinkCodeResult
  <2> QED BY <1>2, <2>1, <2>2
          DEF EventLoop, AnnounceOnline, ScanDone, Heartbeat, CloseForResume,
              SignalResume, SendShutdown, Close, CloseReturn, link
<1>3. CASE Repair \/ Drop \/ Link \/ Age \/ Stop
  BY <1>3 DEF Repair, Drain, SendUnlink, TakeAnswer, Expire, Drop, Link, Age, Stop, link
<1> QED BY <1>1, <1>2, <1>3 DEF Next

LEMMA PeerStep == ASSUME TypeOK, Next PROVE PeerType'
<1> USE TypeParts DEF PeerType
<1>1. CASE ConnectLoop
  <2>1. CASE Dial
    BY <2>1 DEF Dial, Server
  <2>2. CASE DialFails
    BY <2>2, SpendType DEF DialFails, Sources
  <2> QED BY <1>1, <2>1, <2>2
          DEF ConnectLoop, Publish, Read, Deliver, Disconnected, Backoff
<1>2. CASE EventLoop
  <2>1. CASE AnnounceOnline
    BY <2>1, SendType DEF AnnounceOnline
  <2>2. CASE Heartbeat
    BY <2>2, SendType DEF Heartbeat
  <2>3. CASE CloseForResume
    BY <2>3, SpendType DEF CloseForResume, Sources
  <2> QED BY <1>2, <2>1, <2>2, <2>3
          DEF EventLoop, ScanDone, HandleSourceLinked, HandleRefreshLinkCodeResult,
              SignalResume, SendShutdown, Close, CloseReturn
<1>3. CASE Repair
  <2>1. PICK r \in Requests : Drain(r) \/ SendUnlink(r) \/ TakeAnswer(r) \/ Expire(r)
    BY <1>3 DEF Repair
  <2>2. CASE Drain(r)
    BY <2>2, SpendType DEF Drain, Sources
  <2>3. CASE SendUnlink(r)
    BY <2>3, SendType DEF SendUnlink
  <2> QED BY <2>1, <2>2, <2>3 DEF TakeAnswer, Expire
<1>4. CASE Drop
  BY <1>4, SpendType DEF Drop, Sources
<1>5. CASE Link
  <2>1. server' \in Server
    BY <1>5 DEF Link, Server
  <2> QED BY <1>5, <2>1, SpendType DEF Link, Sources
<1>6. CASE Age
  <2>1. old' \in Nat
    BY <1>6 DEF Age, Server, Code
  <2> QED BY <1>6, <2>1, SpendType DEF Age, Sources
<1>7. CASE Stop
  BY <1>7, SpendType DEF Stop, Sources
<1> QED BY <1>1, <1>2, <1>3, <1>4, <1>5, <1>6, <1>7 DEF Next

LEMMA TypeSame == TypeOK /\ UNCHANGED vars => TypeOK'
BY DEF TypeOK, vars, client, link

\* The connection, the channels, the link state and the loops stay what they
\* are meant to be, and no connection is published, read or believed alive
\* where connectLoop cannot have it.
THEOREM TypeCorrect == Spec => []TypeOK
<1>1. TypeOK /\ [Next]_vars => TypeOK'
  BY FlagStep, StageStep, WireStep, LinkStep, PeerStep, TypePartsNext, TypeSame
<1> QED BY InitTypes, <1>1, PTL DEF Spec

-----------------------------------------------------------------------------
(* The announcement.                                                        *)

LEMMA AnnounceStep == ASSUME TypeOK, AnnouncePending, Next PROVE AnnouncePending'
<1> USE DEF AnnouncePending
<1>1. CASE ConnectLoop
  <2>1. CASE Dial
    BY <2>1, TypeParts DEF Dial, StageType
  <2>2. CASE Publish
    BY <2>2 DEF Publish
  <2>3. CASE Disconnected
    BY <2>3 DEF Disconnected
  <2>4. CASE DialFails \/ Read \/ Deliver \/ Backoff
    BY <2>4 DEF DialFails, Read, Deliver, Backoff
  <2> QED BY <1>1, <2>1, <2>2, <2>3, <2>4 DEF ConnectLoop
<1>2. CASE EventLoop
  <2>1. CASE AnnounceOnline
    BY <2>1, SendType DEF AnnounceOnline
  <2>2. CASE Heartbeat
    BY <2>2, SendType DEF Heartbeat
  <2>3. CASE CloseForResume \/ Close
    BY <2>3 DEF CloseForResume, Close
  <2> QED BY <1>2, <2>1, <2>2, <2>3
          DEF EventLoop, ScanDone, HandleSourceLinked, HandleRefreshLinkCodeResult,
              SignalResume, SendShutdown, CloseReturn, client
<1>3. CASE Repair
  <2>1. PICK r \in Requests : Drain(r) \/ SendUnlink(r) \/ TakeAnswer(r) \/ Expire(r)
    BY <1>3 DEF Repair
  <2>2. CASE SendUnlink(r)
    BY <2>2, SendType DEF SendUnlink
  <2> QED BY <2>1, <2>2 DEF Drain, TakeAnswer, Expire, client
<1>4. CASE Link
  <2>1. server'.hello = server.hello
    BY <1>4, TypeParts DEF Link, PeerType, Server
  <2> QED BY <1>4, <2>1 DEF Link
<1>5. CASE Drop \/ Age \/ Stop
  BY <1>5 DEF Drop, Age, Stop, client
<1> QED BY <1>1, <1>2, <1>3, <1>4, <1>5 DEF Next

\* For any faults, and for any number of repair requests that send at the
\* same time: no connection the daemon can use stays unannounced and without
\* a signal to announce it.
THEOREM AnnounceNotLost == Spec => []AnnouncePending
<1>1. Init => AnnouncePending
  BY DEF Init, AnnouncePending
<1>2. TypeOK /\ AnnouncePending /\ [Next]_vars => AnnouncePending'
  <2>1. AnnouncePending /\ UNCHANGED vars => AnnouncePending'
    BY DEF AnnouncePending, vars, client
  <2> QED BY <2>1, AnnounceStep
<1> QED BY <1>1, <1>2, TypeCorrect, PTL DEF Spec
=============================================================================
