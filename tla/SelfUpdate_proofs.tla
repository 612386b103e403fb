------------------------- MODULE SelfUpdate_proofs -------------------------
(***************************************************************************)
(* Proofs about SelfUpdate for any number of releases and any faults: what  *)
(* is put in place is what was verified, a daemon is always kept, and no    *)
(* binary is replaced by an older one while no chmod fails and releases are *)
(* announced as what they were built as.  They rest on three goroutines     *)
(* never applying an update at once.                                        *)
(***************************************************************************)
EXTENDS SelfUpdate, TLAPS

LEMMA Constants == MaxVersion \in Nat \ {0} /\ Budget \in [Sources -> Nat]
BY UpdateAssumption

LEMMA BuiltVersion == \A v \in Version : Built[v] \in Version
BY UpdateAssumption

USE Constants

-----------------------------------------------------------------------------
(* Types.                                                                  *)

FlagType == {up, flight, script, trayUp} \subseteq BOOLEAN /\ windows \in BOOLEAN

FileType ==
  /\ exe \in [Binary -> Version \cup {None}]
  /\ aside \in [Binary -> Version \cup {None}]
  /\ staged \in [Binary -> Version \cup {None, Partial}]

CallerType ==
  /\ pc \in [Callers -> Replacing \cup {"idle", "exit", "plain", "exiting"}]
  /\ job \in [Callers -> Job]
  /\ item \in [Callers -> Binary]
  /\ \A c \in Callers : pc[c] # "idle" => up
  /\ \A c \in Callers : pc[c] \in {"cleared", "moved"} => windows

VersionType ==
  /\ published \in Version /\ running \in Version
  /\ pending \in Version \cup {None}
  /\ budget \in [Sources -> Nat]

LEMMA TypeParts == TypeOK <=> FlagType /\ FileType /\ CallerType /\ VersionType
BY DEF TypeOK, FlagType, FileType, CallerType, VersionType

LEMMA TypePartsNext ==
  FlagType' /\ FileType' /\ CallerType' /\ VersionType' => TypeOK'
BY DEF TypeOK, FlagType, FileType, CallerType, VersionType

LEMMA InitTypes == Init => TypeOK
<1> SUFFICES ASSUME Init PROVE TypeOK
  OBVIOUS
<1>1. 1 \in Version
  BY DEF Version
<1>2. FlagType
  BY DEF Init, FlagType
<1>3. FileType
  BY <1>1 DEF Init, FileType
<1>4. [version |-> 1, tray |-> FALSE] \in Job
  BY <1>1 DEF Job
<1>5. CallerType
  BY <1>4 DEF Init, CallerType, Binary
<1>6. VersionType
  BY <1>1 DEF Init, VersionType
<1> QED BY <1>2, <1>3, <1>5, <1>6, TypeParts

LEMMA SpendType ==
  ASSUME budget \in [Sources -> Nat], NEW k \in Sources, Spend(k)
  PROVE  budget' \in [Sources -> Nat]
BY DEF Spend, Sources

LEMMA FlagStep == ASSUME TypeOK, Next PROVE FlagType'
<1> USE TypeParts DEF FlagType
<1>1. CASE \E c \in Callers : Apply(c)
  <2>1. PICK c \in Callers : Apply(c)
    BY <1>1
  <2>2. CASE Refuse(c) \/ FetchFails(c)
    BY <2>2 DEF Refuse, FetchFails, Failed, daemon
  <2>3. CASE Fetch(c) \/ Copy(c) \/ ReplaceFails(c)
    BY <2>3 DEF Fetch, Copy, ReplaceFails, Cleanup, Failed, daemon
  <2>4. CASE Rename(c) \/ ChmodFails(c) \/ RemoveOld(c) \/ MoveAside(c)
    BY <2>4 DEF Rename, ChmodFails, RemoveOld, MoveAside, Installed, Failed, daemon
  <2>5. CASE MoveIn(c) \/ Restore(c)
    BY <2>5 DEF MoveIn, Restore, Cleanup, Failed, Installed, daemon
  <2>6. CASE Exit(c)
    BY <2>6 DEF Exit, Down, RestartDaemon
  <2> QED BY <2>1, <2>2, <2>3, <2>4, <2>5, <2>6 DEF Apply
<1>2. CASE \E v \in Version : HandleUpdateAvailable(v)
  BY <1>2 DEF HandleUpdateAvailable, Enter, Return, daemon
<1>3. CASE CheckSelfUpdate \/ AutoApply \/ HandleRestart
  BY <1>3 DEF CheckSelfUpdate, AutoApply, HandleRestart, Enter, apply
<1>4. CASE PlainRestart \/ PlainExit
  BY <1>4 DEF PlainRestart, PlainExit, RestartDaemon, Down, daemon
<1>5. CASE ServiceManager \/ RunScript \/ OnDaemonUnreachable
  BY <1>5 DEF ServiceManager, RunScript, OnDaemonUnreachable, Start, daemon, apply
<1>6. CASE Publish \/ Crash
  BY <1>6 DEF Publish, Crash, Down, daemon, apply
<1> QED BY <1>1, <1>2, <1>3, <1>4, <1>5, <1>6 DEF Next

\* The binaries change only as what was verified is put in place.
LEMMA FileStep == ASSUME TypeOK, InstalledAsVerified, Next PROVE FileType'
<1> USE TypeParts DEF FileType
<1>1. CASE \E c \in Callers : Apply(c)
  <2>1. PICK c \in Callers : Apply(c)
    BY <1>1
  <2>2. item[c] \in Binary /\ Built[job[c].version] \in Version
    BY BuiltVersion DEF CallerType, Job
  <2>3. CASE Refuse(c) \/ FetchFails(c) \/ Exit(c)
    BY <2>3 DEF Refuse, FetchFails, Exit, files
  <2>4. CASE Fetch(c) \/ Copy(c) \/ ReplaceFails(c)
    BY <2>2, <2>4 DEF Fetch, Copy, ReplaceFails, Cleanup, Set
  <2>5. CASE RemoveOld(c) \/ MoveAside(c)
    BY <2>2, <2>5 DEF RemoveOld, MoveAside, Set
  <2>6. CASE Rename(c) \/ ChmodFails(c) \/ MoveIn(c)
    <3>1. staged[item[c]] = Built[job[c].version]
      BY <2>6 DEF Rename, ChmodFails, MoveIn, InstalledAsVerified
    <3> QED BY <2>2, <2>6, <3>1 DEF Rename, ChmodFails, MoveIn, Set
  <2>7. CASE Restore(c)
    BY <2>2, <2>7 DEF Restore, Cleanup, Set
  <2> QED BY <2>1, <2>3, <2>4, <2>5, <2>6, <2>7 DEF Apply
<1>2. UNCHANGED files => FileType'
  BY DEF files
<1>3. CASE \E v \in Version : HandleUpdateAvailable(v)
  BY <1>2, <1>3 DEF HandleUpdateAvailable
<1> QED BY <1>1, <1>2, <1>3
        DEF Next, CheckSelfUpdate, AutoApply, HandleRestart, PlainRestart, PlainExit,
            ServiceManager, RunScript, OnDaemonUnreachable, Start, Publish, Crash

LEMMA VersionStep == ASSUME TypeOK, InstalledAsVerified, Next PROVE VersionType'
<1> USE TypeParts DEF VersionType
<1>1. CASE \E c \in Callers : Apply(c)
  <2>1. PICK c \in Callers : Apply(c)
    BY <1>1
  <2>2. CASE FetchFails(c)
    BY <2>2, SpendType DEF FetchFails, Sources, daemon
  <2>3. CASE ReplaceFails(c) \/ ChmodFails(c) \/ Restore(c)
    BY <2>3, SpendType DEF ReplaceFails, ChmodFails, Restore, Cleanup, Sources, daemon
  <2>4. CASE Exit(c)
    <3>1. budget' \in [Sources -> Nat]
      BY <2>4, SpendType DEF Exit, Sources
    <3> QED BY <2>4, <3>1 DEF Exit, Down
  <2> QED BY <2>1, <2>2, <2>3, <2>4
          DEF Apply, Refuse, Fetch, Copy, Rename, RemoveOld, MoveAside, MoveIn, daemon
<1>2. CASE \E v \in Version : HandleUpdateAvailable(v)
  BY <1>2, SpendType DEF HandleUpdateAvailable, Sources, daemon
<1>3. CASE CheckSelfUpdate \/ AutoApply
  BY <1>3 DEF CheckSelfUpdate, AutoApply
<1>4. CASE HandleRestart
  BY <1>4, SpendType DEF HandleRestart, Sources
<1>5. CASE PlainRestart
  BY <1>5, SpendType DEF PlainRestart, Sources, daemon
<1>6. CASE PlainExit
  BY <1>6 DEF PlainExit, Down
<1>7. ASSUME Start, exe["daemon"] # None PROVE VersionType'
  BY <1>7 DEF Start, FileType, Binary
<1>8. CASE ServiceManager \/ RunScript \/ OnDaemonUnreachable
  BY <1>7, <1>8 DEF ServiceManager, RunScript, OnDaemonUnreachable, daemon
<1>9. CASE Publish
  <2>1. published' \in Version
    BY <1>9 DEF Publish, Version
  <2> QED BY <1>9, <2>1, SpendType DEF Publish, Sources, daemon
<1>10. CASE Crash
  BY <1>10, SpendType DEF Crash, Down, Sources
<1> QED BY <1>1, <1>2, <1>3, <1>4, <1>5, <1>6, <1>8, <1>9, <1>10 DEF Next

-----------------------------------------------------------------------------
(* One caller at a time applies an update, until the process ends.          *)

Busy == Replacing \cup {"exit"}

Exclusive ==
  \A c \in Callers :
    pc[c] \in Busy => flight /\ \A d \in Callers : d # c => pc[d] \notin Busy

LEMMA ReturnCallers ==
  ASSUME CallerType, NEW c \in Callers, Return(c), up
  PROVE  /\ pc' \in [Callers -> Replacing \cup {"idle", "exit", "plain", "exiting"}]
         /\ \A d \in Callers : d # c => pc'[d] = pc[d]
         /\ pc'[c] \in {"idle", "plain"}
BY DEF Return, Goto, CallerType

LEMMA FailedCallers ==
  ASSUME CallerType, Exclusive, NEW c \in Callers, pc[c] \in Replacing, Failed(c),
         up' = up, windows' = windows
  PROVE  CallerType' /\ Exclusive'
<1>1. up /\ UNCHANGED <<job, item>>
  BY DEF CallerType, Failed, Replacing
<1>2. CASE item[c] = "daemon"
  <2>1. Return(c) /\ flight' = FALSE
    BY <1>2 DEF Failed
  <2>2. CallerType'
    BY <1>1, <2>1, ReturnCallers DEF CallerType
  <2>3. \A d \in Callers : pc'[d] \notin Busy
    BY <1>1, <2>1, ReturnCallers DEF Exclusive, Busy, Replacing
  <2> QED BY <2>2, <2>3 DEF Exclusive
<1>3. CASE item[c] # "daemon"
  <2>1. pc' = [pc EXCEPT ![c] = "exit"] /\ flight' = flight
    BY <1>3 DEF Failed, Goto
  <2>2. CallerType'
    BY <1>1, <2>1 DEF CallerType
  <2> QED BY <2>1, <2>2 DEF CallerType, Exclusive, Busy
<1> QED BY <1>2, <1>3

LEMMA GotoCallers ==
  ASSUME CallerType, Exclusive, NEW c \in Callers, pc[c] \in Replacing,
         NEW p \in Busy, p \in {"cleared", "moved"} => windows, Goto(c, p),
         UNCHANGED <<flight, job, up, windows>>, item' \in [Callers -> Binary]
  PROVE  CallerType' /\ Exclusive'
<1>1. pc' = [pc EXCEPT ![c] = p] /\ up
  BY DEF Goto, CallerType, Replacing
<1>2. CallerType'
  BY <1>1 DEF CallerType, Busy
<1> QED BY <1>1, <1>2 DEF CallerType, Exclusive, Busy

LEMMA InstalledCallers ==
  ASSUME CallerType, Exclusive, NEW c \in Callers, pc[c] \in Replacing, Installed(c),
         UNCHANGED <<up, windows>>
  PROVE  CallerType' /\ Exclusive'
<1>1. \E p \in {"fetch", "exit"} : Goto(c, p)
  BY DEF Installed
<1>2. item' \in [Callers -> Binary]
  BY DEF Installed, CallerType, Binary
<1>3. UNCHANGED <<flight, job>>
  BY DEF Installed
<1> QED BY <1>1, <1>2, <1>3, GotoCallers DEF Busy, Replacing

LEMMA EnterCallers ==
  ASSUME CallerType, Exclusive, NEW c \in Callers, pc[c] = "idle", up,
         NEW v \in Version, NEW t \in BOOLEAN, Enter(c, v, t), UNCHANGED <<up, windows>>
  PROVE  CallerType' /\ Exclusive'
<1>1. CASE flight
  <2>1. Return(c) /\ UNCHANGED <<flight, job, item>>
    BY <1>1 DEF Enter
  <2>2. CallerType'
    BY <2>1, ReturnCallers DEF CallerType
  <2> QED BY <2>1, <2>2, ReturnCallers DEF Exclusive, Busy, Replacing
<1>2. CASE ~flight
  <2>1. /\ flight' = TRUE /\ pc' = [pc EXCEPT ![c] = "fetch"]
        /\ job' = [job EXCEPT ![c] = [version |-> v, tray |-> t]]
        /\ item' = [item EXCEPT ![c] = "daemon"]
    BY <1>2 DEF Enter, Goto
  <2>2. [version |-> v, tray |-> t] \in Job /\ "daemon" \in Binary
    BY DEF Job, Binary
  <2>3. CallerType'
    BY <2>1, <2>2 DEF CallerType, Replacing
  <2>4. \A d \in Callers : pc[d] \notin Busy
    BY <1>2 DEF Exclusive
  <2> QED BY <2>1, <2>3, <2>4 DEF CallerType, Exclusive
<1> QED BY <1>1, <1>2

LEMMA DownCallers == CallerType /\ Down => CallerType' /\ Exclusive'
BY DEF CallerType, Down, Exclusive, Busy, Replacing

LEMMA CallerStep == ASSUME TypeOK, Exclusive, Next PROVE CallerType' /\ Exclusive'
<1> USE TypeParts
<1>1. CASE \E c \in Callers : Apply(c)
  <2>1. PICK c \in Callers : Apply(c)
    BY <1>1
  <2>2. CASE Refuse(c) \/ FetchFails(c)
    BY <2>2, FailedCallers DEF Refuse, FetchFails, Replacing, daemon
  <2>3. CASE ReplaceFails(c) \/ ChmodFails(c) \/ Restore(c)
    BY <2>3, FailedCallers DEF ReplaceFails, ChmodFails, Restore, Cleanup, Replacing, daemon
  <2>4. CASE Fetch(c)
    BY <2>4, GotoCallers DEF Fetch, Busy, Replacing, daemon, CallerType
  <2>5. CASE Copy(c)
    BY <2>5, GotoCallers DEF Copy, Busy, Replacing, daemon, CallerType
  <2>6. CASE RemoveOld(c)
    BY <2>6, GotoCallers DEF RemoveOld, Busy, Replacing, daemon, CallerType
  <2>7. CASE MoveAside(c)
    BY <2>7, GotoCallers DEF MoveAside, Busy, Replacing, daemon, CallerType
  <2>8. CASE Rename(c) \/ MoveIn(c)
    BY <2>8, InstalledCallers DEF Rename, MoveIn, Replacing, daemon
  <2>9. CASE Exit(c)
    BY <2>9, DownCallers DEF Exit
  <2> QED BY <2>1, <2>2, <2>3, <2>4, <2>5, <2>6, <2>7, <2>8, <2>9 DEF Apply
<1>2. CASE \E v \in Version : HandleUpdateAvailable(v)
  BY <1>2, EnterCallers DEF HandleUpdateAvailable, Idle, Callers, daemon
<1>3. CASE AutoApply
  BY <1>3, EnterCallers DEF AutoApply, Callers, VersionType
<1>4. CASE HandleRestart
  <2>1. CASE pending = None
    <3>1. Return("restart") /\ up /\ pc["restart"] = "idle"
          /\ UNCHANGED <<flight, job, item, up, windows>>
      BY <1>4, <2>1 DEF HandleRestart
    <3>2. CallerType'
      BY <3>1, ReturnCallers DEF CallerType, Callers
    <3> QED BY <3>1, <3>2, ReturnCallers DEF Callers, Exclusive, Busy, Replacing
  <2>2. CASE pending # None
    BY <1>4, <2>2, EnterCallers DEF HandleRestart, Callers, VersionType
  <2> QED BY <2>1, <2>2
<1>5. CASE PlainRestart
  <2>1. PICK p \in {"idle", "exiting"} : pc' = [pc EXCEPT !["restart"] = p]
    BY <1>5 DEF PlainRestart, Goto
  <2>2. pc["restart"] = "plain" /\ up /\ UNCHANGED <<flight, job, item, up, windows>>
    BY <1>5 DEF PlainRestart, daemon, CallerType, Callers
  <2>3. CallerType'
    BY <2>1, <2>2 DEF CallerType
  <2> QED BY <2>1, <2>2, <2>3 DEF CallerType, Exclusive, Busy, Replacing
<1>6. CASE PlainExit \/ Crash
  BY <1>6, DownCallers DEF PlainExit, Crash
<1>7. CASE CheckSelfUpdate \/ Publish
  BY <1>7 DEF CheckSelfUpdate, Publish, daemon, apply, CallerType, Exclusive
<1>8. CASE ServiceManager \/ RunScript \/ OnDaemonUnreachable
  <2>1. UNCHANGED <<apply, windows>> /\ (up => up')
    BY <1>8 DEF ServiceManager, RunScript, OnDaemonUnreachable, Start, daemon
  <2> QED BY <2>1 DEF apply, CallerType, Exclusive
<1> QED BY <1>1, <1>2, <1>3, <1>4, <1>5, <1>6, <1>7, <1>8 DEF Next

-----------------------------------------------------------------------------
(* What is put in place was verified.                                      *)

Whole == {"staged", "cleared", "moved"}

\* A step of one caller leaves the others where they were, and not in a
\* replacement.
LEMMA OthersIdle ==
  ASSUME CallerType, Exclusive, NEW c \in Callers, pc[c] \in Replacing,
         NEW p, pc' = [pc EXCEPT ![c] = p], NEW d \in Callers, d # c
  PROVE  pc'[d] = pc[d] /\ pc'[d] \notin Busy
BY DEF CallerType, Exclusive, Busy

LEMMA VerifiedStep ==
  ASSUME TypeOK, Exclusive, InstalledAsVerified, Next
  PROVE  InstalledAsVerified'
<1> USE TypeParts
<1>1. ASSUME NEW c \in Callers, NEW p, p \notin Whole, pc[c] \in Replacing,
             pc' = [pc EXCEPT ![c] = p]
      PROVE  InstalledAsVerified'
  BY <1>1, OthersIdle DEF InstalledAsVerified, Whole, Busy, Replacing, CallerType
<1>2. ASSUME NEW c \in Callers, pc[c] \in Replacing, Failed(c)
      PROVE  InstalledAsVerified'
  BY <1>1, <1>2 DEF Failed, Return, Goto, Whole
<1>3. ASSUME NEW c \in Callers, pc[c] \in Replacing, Installed(c)
      PROVE  InstalledAsVerified'
  BY <1>1, <1>3 DEF Installed, Goto, Whole
<1>4. ASSUME Down PROVE InstalledAsVerified'
  BY <1>4 DEF Down, InstalledAsVerified
<1>5. ASSUME NEW c \in Callers, NEW p, p \notin Whole, pc[c] \notin Whole,
             pc' = [pc EXCEPT ![c] = p], UNCHANGED staged,
             \A d \in Callers : d # c => job'[d] = job[d] /\ item'[d] = item[d]
      PROVE  InstalledAsVerified'
  BY <1>5 DEF InstalledAsVerified, Whole, CallerType
<1>6. ASSUME NEW c \in Callers, pc[c] = "idle", NEW v, NEW t, Enter(c, v, t),
             UNCHANGED staged
      PROVE  InstalledAsVerified'
  <2>1. \A d \in Callers : d # c => job'[d] = job[d] /\ item'[d] = item[d]
    BY <1>6 DEF Enter, CallerType
  <2>2. PICK p \in {"plain", "idle", "fetch"} : pc' = [pc EXCEPT ![c] = p]
    BY <1>6 DEF Enter, Return, Goto
  <2> QED BY <1>5, <1>6, <2>1, <2>2 DEF Whole
<1>7. CASE \E c \in Callers : Apply(c)
  <2>1. PICK c \in Callers : Apply(c)
    BY <1>7
  <2>2. CASE Refuse(c) \/ FetchFails(c) \/ ReplaceFails(c) \/ ChmodFails(c) \/ Restore(c)
    BY <1>2, <2>2
       DEF Refuse, FetchFails, ReplaceFails, ChmodFails, Restore, Cleanup, Replacing
  <2>3. CASE Rename(c) \/ MoveIn(c)
    BY <1>3, <2>3 DEF Rename, MoveIn, Replacing
  <2>4. CASE Fetch(c)
    BY <1>1, <2>4 DEF Fetch, Goto, Replacing, Whole
  <2>5. CASE Copy(c)
    <3>1. /\ pc' = [pc EXCEPT ![c] = "staged"] /\ pc[c] \in Replacing
          /\ staged'[item[c]] = Built[job[c].version] /\ UNCHANGED <<job, item>>
      BY <2>5 DEF Copy, Goto, Set, Replacing, FileType, CallerType
    <3> QED BY <3>1, OthersIdle DEF InstalledAsVerified, Busy, Replacing
  <2>6. CASE RemoveOld(c) \/ MoveAside(c)
    <3>1. PICK p \in Whole : /\ pc' = [pc EXCEPT ![c] = p]
                             /\ pc[c] \in Whole /\ UNCHANGED <<staged, job, item>>
      BY <2>6 DEF RemoveOld, MoveAside, Goto, Whole
    <3> QED BY <3>1, OthersIdle DEF InstalledAsVerified, Whole, Busy, Replacing
  <2>7. CASE Exit(c)
    BY <1>4, <2>7 DEF Exit
  <2> QED BY <2>1, <2>2, <2>3, <2>4, <2>5, <2>6, <2>7 DEF Apply
<1>8. CASE \E v \in Version : HandleUpdateAvailable(v)
  BY <1>6, <1>8 DEF HandleUpdateAvailable, Idle, Callers, files
<1>9. CASE AutoApply
  BY <1>6, <1>9 DEF AutoApply, Callers, files
<1>10. CASE HandleRestart
  <2>1. CASE pending = None
    BY <1>5, <1>10, <2>1 DEF HandleRestart, Return, Goto, Whole, Callers, files
  <2>2. CASE pending # None
    BY <1>6, <1>10, <2>2 DEF HandleRestart, Callers, files
  <2> QED BY <2>1, <2>2
<1>11. CASE PlainRestart
  BY <1>5, <1>11 DEF PlainRestart, Goto, Whole, Callers, files
<1>12. CASE PlainExit \/ Crash
  BY <1>4, <1>12 DEF PlainExit, Crash
<1>13. CASE CheckSelfUpdate \/ Publish \/ ServiceManager \/ RunScript \/ OnDaemonUnreachable
  <2>1. UNCHANGED <<files, apply>>
    BY <1>13 DEF CheckSelfUpdate, Publish, ServiceManager, RunScript, OnDaemonUnreachable,
                 Start
  <2> QED BY <2>1 DEF files, apply, InstalledAsVerified
<1> QED BY <1>7, <1>8, <1>9, <1>10, <1>11, <1>12, <1>13 DEF Next

Safe == TypeOK /\ Exclusive /\ InstalledAsVerified

LEMMA SafeInit == Init => Safe
<1>1. Init => Exclusive /\ InstalledAsVerified
  BY DEF Init, Exclusive, Busy, Replacing, InstalledAsVerified
<1> QED BY <1>1, InitTypes DEF Safe

LEMMA SafeStep == Safe /\ [Next]_vars => Safe'
<1>1. Safe /\ Next => Safe'
  BY FlagStep, FileStep, VersionStep, CallerStep, VerifiedStep, TypePartsNext DEF Safe
<1>2. Safe /\ UNCHANGED vars => Safe'
  <2>1. TypeOK /\ UNCHANGED vars => TypeOK'
    BY DEF TypeOK, vars, files, daemon, apply
  <2>2. Exclusive /\ InstalledAsVerified /\ UNCHANGED vars => (Exclusive /\ InstalledAsVerified)'
    BY DEF Exclusive, InstalledAsVerified, vars, files, apply
  <2> QED BY <2>1, <2>2 DEF Safe
<1> QED BY <1>1, <1>2

LEMMA SafeAlways == Spec => []Safe
BY SafeInit, SafeStep, PTL DEF Spec

\* No file is missing, half copied or of an unknown version at a binary's
\* path or beside it: a copy in progress is only ever a staged file.
THEOREM TypeCorrect == Spec => []TypeOK
BY SafeAlways, PTL DEF Safe

\* Of any number of releases and faults: what a caller is about to put in
\* place is the binary it downloaded and verified.
THEOREM Verified == Spec => []InstalledAsVerified
BY SafeAlways, PTL DEF Safe

-----------------------------------------------------------------------------
(* A daemon is kept.                                                       *)

\* The binary put aside is the only one left while it is moved in and, after a
\* crash there, for good: no process runs then that could touch it.
Kept ==
  /\ exe["daemon"] = None =>
       /\ windows /\ aside["daemon"] # None
       /\ up => \E c \in Callers : pc[c] = "moved" /\ item[c] = "daemon"
  /\ \A c \in Callers :
       pc[c] = "moved" /\ item[c] = "daemon" => windows /\ aside["daemon"] # None

LEMMA KeptStep == ASSUME Safe, Kept, Next PROVE Kept'
<1>1. CallerType /\ FileType /\ Exclusive /\ InstalledAsVerified
  BY TypeParts DEF Safe
<1>2. ASSUME NEW c \in Callers, pc[c] \in Replacing \ {"moved"}
      PROVE  exe["daemon"] # None
  BY <1>1, <1>2 DEF Kept, Exclusive, Busy, Replacing, CallerType
<1>3. ASSUME NEW c \in Callers, pc[c] # "moved", NEW p, p # "moved",
             pc' = [pc EXCEPT ![c] = p], UNCHANGED <<exe, aside, windows, up>>,
             \A d \in Callers : d # c => item'[d] = item[d]
      PROVE  Kept'
  BY <1>1, <1>3 DEF Kept, CallerType
<1>4. ASSUME NEW c \in Callers, pc[c] \in Replacing, NEW p, p # "moved",
             pc' = [pc EXCEPT ![c] = p], exe'["daemon"] # None
      PROVE  Kept'
  BY <1>1, <1>4, OthersIdle DEF Kept, CallerType, Busy, Replacing
<1>5. ASSUME Down, UNCHANGED <<exe, aside, windows>> PROVE Kept'
  BY <1>5 DEF Down, Kept
<1>6. ASSUME NEW c \in Callers, pc[c] = "idle", NEW v, NEW t, Enter(c, v, t),
             UNCHANGED <<exe, aside, windows, up>>
      PROVE  Kept'
  <2>1. \A d \in Callers : d # c => item'[d] = item[d]
    BY <1>1, <1>6 DEF Enter, CallerType
  <2>2. PICK p \in {"plain", "idle", "fetch"} : pc' = [pc EXCEPT ![c] = p]
    BY <1>6 DEF Enter, Return, Goto
  <2> QED BY <1>3, <1>6, <2>1, <2>2
<1>7. CASE \E c \in Callers : Apply(c)
  <2>1. PICK c \in Callers : Apply(c)
    BY <1>7
  <2>2. ASSUME Failed(c) PROVE \E p : p # "moved" /\ pc' = [pc EXCEPT ![c] = p]
    BY <2>2 DEF Failed, Return, Goto
  <2>3. ASSUME Installed(c) PROVE \E p : p # "moved" /\ pc' = [pc EXCEPT ![c] = p]
    BY <2>3 DEF Installed, Goto
  <2>4. CASE Refuse(c) \/ FetchFails(c) \/ ReplaceFails(c)
    <3>1. Failed(c) /\ pc[c] \in Replacing \ {"moved"} /\ UNCHANGED exe
      BY <2>4 DEF Refuse, FetchFails, ReplaceFails, Cleanup, Replacing, files
    <3> QED BY <1>2, <1>4, <2>2, <3>1
  <2>5. CASE Fetch(c) \/ Copy(c) \/ RemoveOld(c)
    <3>1. /\ \E p : p # "moved" /\ pc' = [pc EXCEPT ![c] = p]
          /\ pc[c] \in Replacing \ {"moved"} /\ UNCHANGED exe
      BY <2>5 DEF Fetch, Copy, RemoveOld, Goto, Replacing
    <3> QED BY <1>2, <1>4, <3>1
  <2>6. CASE MoveAside(c)
    <3>1. /\ pc[c] = "cleared" /\ pc' = [pc EXCEPT ![c] = "moved"] /\ windows
          /\ exe["daemon"] # None /\ UNCHANGED <<item, windows, up>>
      BY <1>1, <1>2, <2>6 DEF MoveAside, Goto, Replacing, CallerType, daemon
    <3>2. CASE item[c] = "daemon"
      <4>1. aside'["daemon"] # None
        BY <1>1, <2>6, <3>1, <3>2 DEF MoveAside, Set, FileType, Binary
      <4> QED BY <1>1, <3>1, <3>2, <4>1 DEF Kept, CallerType
    <3>3. CASE item[c] # "daemon"
      <4>1. exe'["daemon"] = exe["daemon"]
        BY <1>1, <2>6, <3>3 DEF MoveAside, Set, FileType, Binary
      <4>2. ASSUME NEW d \in Callers, pc'[d] = "moved" PROVE item[d] # "daemon"
        BY <1>1, <3>1, <3>3, <4>2, OthersIdle DEF Busy, Replacing
      <4> QED BY <3>1, <4>1, <4>2 DEF Kept
    <3> QED BY <3>2, <3>3
  <2>7. CASE Rename(c) \/ ChmodFails(c) \/ MoveIn(c)
    <3>1. /\ Installed(c) \/ Failed(c)
          /\ pc[c] \in Replacing /\ staged[item[c]] = Built[job[c].version]
          /\ exe' = [exe EXCEPT ![item[c]] = staged[item[c]]]
      BY <1>1, <2>7 DEF Rename, ChmodFails, MoveIn, InstalledAsVerified, Replacing, Set
    <3>2. Built[job[c].version] # None
      <4>1. Built[job[c].version] \in Version
        BY <1>1, BuiltVersion DEF CallerType, Job
      <4> QED BY <4>1 DEF Version, None
    <3>3. item[c] # "daemon" => exe["daemon"] # None
      BY <1>1, <2>7 DEF Kept, Rename, ChmodFails, MoveIn, Exclusive, Busy, Replacing, CallerType
    <3>4. exe'["daemon"] # None
      BY <1>1, <3>1, <3>2, <3>3 DEF FileType, Binary
    <3> QED BY <1>4, <2>2, <2>3, <3>1, <3>4
  <2>8. CASE Restore(c)
    <3>1. /\ Failed(c) /\ pc[c] = "moved"
          /\ exe' = [exe EXCEPT ![item[c]] = aside[item[c]]]
      BY <2>8 DEF Restore, Cleanup, Set
    <3>2. exe'["daemon"] # None
      BY <1>1, <3>1 DEF Kept, FileType, Binary, CallerType, Exclusive, Busy, Replacing
    <3> QED BY <1>4, <2>2, <3>1, <3>2 DEF Replacing
  <2>9. CASE Exit(c)
    BY <1>5, <2>9 DEF Exit, files
  <2> QED BY <2>1, <2>4, <2>5, <2>6, <2>7, <2>8, <2>9 DEF Apply
<1>8. CASE \E v \in Version : HandleUpdateAvailable(v)
  BY <1>6, <1>8 DEF HandleUpdateAvailable, Idle, Callers, files, daemon
<1>9. CASE AutoApply
  BY <1>6, <1>9 DEF AutoApply, Callers, files
<1>10. CASE HandleRestart
  <2>1. CASE pending = None
    BY <1>3, <1>10, <2>1 DEF HandleRestart, Return, Goto, Callers, files
  <2>2. CASE pending # None
    BY <1>6, <1>10, <2>2 DEF HandleRestart, Callers, files
  <2> QED BY <2>1, <2>2
<1>11. CASE PlainRestart
  BY <1>3, <1>11 DEF PlainRestart, Goto, Callers, files, daemon
<1>12. CASE PlainExit \/ Crash
  BY <1>5, <1>12 DEF PlainExit, Crash, files
<1>13. CASE CheckSelfUpdate \/ Publish
  BY <1>13 DEF CheckSelfUpdate, Publish, files, daemon, apply, Kept
<1>14. CASE ServiceManager \/ RunScript \/ OnDaemonUnreachable
  <2>1. UNCHANGED <<exe, aside, pc, item, windows>> /\ (exe["daemon"] = None => up' = up)
    BY <1>14 DEF ServiceManager, RunScript, OnDaemonUnreachable, Start, files, daemon, apply
  <2> QED BY <2>1 DEF Kept
<1> QED BY <1>7, <1>8, <1>9, <1>10, <1>11, <1>12, <1>13, <1>14 DEF Next

\* No failure, crash or restart leaves nothing to go back to.
THEOREM DaemonKept == Spec => []BinaryKept
<1>1. Init => Kept
  BY DEF Init, Kept, Binary, None
<1>2. Safe /\ Kept /\ [Next]_vars => Kept'
  <2>1. Kept /\ UNCHANGED vars => Kept'
    BY DEF Kept, vars, files, daemon, apply
  <2> QED BY <2>1, KeptStep
<1>3. Kept => BinaryKept
  BY DEF Kept, BinaryKept
<1> QED BY <1>1, <1>2, <1>3, SafeAlways, PTL DEF Spec

-----------------------------------------------------------------------------
(* No binary is replaced by an older one.                                  *)

\* Releases are announced as the version compiled into them.
Labelled == \A v \in Version : Built[v] = v

NoChmodFailed == budget["chmod"] = Budget["chmod"]
ChmodLeft     == budget["chmod"] <= Budget["chmod"]

LEMMA SpendChmod ==
  ASSUME budget \in [Sources -> Nat], NEW k \in Sources \ {"total"}, Spend(k)
  PROVE  /\ budget'["chmod"] <= budget["chmod"]
         /\ k = "chmod" => budget'["chmod"] < budget["chmod"]
<1>1. /\ budget["chmod"] \in Nat /\ budget[k] \in Nat
  BY DEF Sources
<1>2. CASE k = "chmod"
  <2>1. budget'["chmod"] = budget["chmod"] - 1
    BY <1>2 DEF Spend, Sources
  <2> QED BY <1>1, <2>1
<1>3. CASE k # "chmod"
  <2>1. budget'["chmod"] = budget["chmod"]
    BY <1>3 DEF Spend, Sources
  <2> QED BY <1>1, <1>3, <2>1
<1> QED BY <1>2, <1>3

\* What was spent is not given back.
LEMMA ChmodSpent == ASSUME TypeOK, [Next]_vars PROVE budget'["chmod"] <= budget["chmod"]
<1>1. budget \in [Sources -> Nat] /\ budget["chmod"] \in Nat
  BY TypeParts DEF VersionType, Sources
<1>2. CASE UNCHANGED budget
  BY <1>1, <1>2
<1>3. CASE \E k \in Sources \ {"total"} : Spend(k)
  BY <1>1, <1>3, SpendChmod
<1>4. CASE \E c \in Callers : Apply(c)
  <2>1. PICK c \in Callers : Apply(c)
    BY <1>4
  <2>2. CASE FetchFails(c) \/ ReplaceFails(c) \/ ChmodFails(c) \/ Restore(c) \/ Exit(c)
    BY <1>2, <1>3, <2>2
       DEF FetchFails, ReplaceFails, ChmodFails, Restore, Cleanup, Exit, Sources
  <2> QED BY <1>2, <2>1, <2>2
          DEF Apply, Refuse, Fetch, Copy, Rename, RemoveOld, MoveAside, MoveIn
<1>5. CASE \E v \in Version : HandleUpdateAvailable(v)
  BY <1>3, <1>5 DEF HandleUpdateAvailable, Sources
<1>6. CASE HandleRestart \/ PlainRestart \/ Publish \/ Crash
  BY <1>2, <1>3, <1>6 DEF HandleRestart, PlainRestart, Publish, Crash, Sources
<1>7. CASE \/ CheckSelfUpdate \/ AutoApply \/ PlainExit
           \/ ServiceManager \/ RunScript \/ OnDaemonUnreachable
  BY <1>2, <1>7 DEF CheckSelfUpdate, AutoApply, PlainExit, ServiceManager, RunScript,
                    OnDaemonUnreachable, Start
<1>8. CASE UNCHANGED vars
  BY <1>2, <1>8 DEF vars
<1> QED BY <1>4, <1>5, <1>6, <1>7, <1>8 DEF Next

\* As long as no chmod failed, none fails now.
LEMMA NoChmodFails ==
  ASSUME TypeOK, ChmodLeft, [Next]_vars, NoChmodFailed'
  PROVE  NoChmodFailed /\ \A c \in Callers : ~ChmodFails(c)
<1>1. budget \in [Sources -> Nat] /\ budget["chmod"] \in Nat /\ Budget["chmod"] \in Nat
  BY TypeParts DEF VersionType, Sources
<1>2. NoChmodFailed
  BY <1>1, ChmodSpent DEF NoChmodFailed, ChmodLeft
<1>3. ASSUME NEW c \in Callers, ChmodFails(c) PROVE FALSE
  <2>1. budget'["chmod"] < budget["chmod"]
    BY <1>1, <1>3, SpendChmod DEF ChmodFails, Sources
  <2> QED BY <1>1, <1>2, <2>1 DEF NoChmodFailed
<1> QED BY <1>2, <1>3

\* The caller has put the new daemon in place, and not the tray yet, or is
\* about to exit.
NewIn(c) == pc[c] \in Busy /\ (item[c] = "tray" \/ pc[c] = "exit")

OrderOf(c) ==
  /\ NewIn(c) => exe["daemon"] = job[c].version
  /\ pc[c] # "fetch" \/ NewIn(c) => job[c].version > running
  /\ pc[c] = "moved" => exe[item[c]] = None
  /\ pc[c] = "moved" /\ item[c] = "daemon" => aside["daemon"] = running
  /\ pc[c] = "moved" /\ item[c] = "tray" => aside["tray"] <= exe["daemon"]

TrayBehind == exe["daemon"] # None => exe["tray"] <= exe["daemon"]
NotReplaced == exe["tray"] <= running /\ exe["daemon"] \in {running, None}

\* Until the new daemon is in place, the file is the one that runs; the tray
\* never is ahead of the daemon.
Order ==
  /\ TrayBehind
  /\ up /\ (\A c \in Callers : ~NewIn(c)) => NotReplaced
  /\ \A c \in Callers : pc[c] \in Busy => OrderOf(c)

LEMMA FileInt ==
  ASSUME FileType
  PROVE  /\ exe["daemon"] \in Nat /\ exe["tray"] \in Nat
         /\ aside["daemon"] \in Nat /\ aside["tray"] \in Nat
         /\ "daemon" \in Binary /\ "tray" \in Binary
BY DEF FileType, Binary, Version, None

\* What Order says of the one caller that replaces a file.
LEMMA OrderAt ==
  ASSUME Safe, Order, NEW c \in Callers, pc[c] \in Replacing
  PROVE  /\ TrayBehind /\ OrderOf(c)
         /\ item[c] = "daemon" => NotReplaced
         /\ item[c] = "tray" => /\ exe["daemon"] = job[c].version
                              /\ job[c].version > running
                              /\ exe["tray"] <= exe["daemon"]
         /\ item[c] \in {"daemon", "tray"}
<1>1. /\ CallerType /\ Exclusive /\ pc[c] \in Busy /\ up
      /\ job[c].version \in Nat \ {0}
  BY TypeParts DEF Safe, Busy, CallerType, Replacing, Job, Version
<1>2. item[c] = "daemon" => \A d \in Callers : ~NewIn(d)
  BY <1>1 DEF Exclusive, NewIn, Replacing
<1>3. item[c] = "tray" => NewIn(c)
  BY <1>1 DEF NewIn
<1>4. item[c] \in {"daemon", "tray"}
  BY <1>1 DEF CallerType, Binary
<1>5. OrderOf(c) /\ TrayBehind
  BY <1>1 DEF Order
<1> QED BY <1>1, <1>2, <1>3, <1>4, <1>5 DEF Order, OrderOf, TrayBehind, None

\* What is staged is of the version it is announced as.
LEMMA StagedVersion ==
  ASSUME Labelled, TypeOK, InstalledAsVerified, NEW c \in Callers, pc[c] \in Whole
  PROVE  staged[item[c]] = job[c].version
BY TypeParts DEF Labelled, InstalledAsVerified, Whole, CallerType, Job

LEMMA OrderStep ==
  ASSUME Labelled, Safe, Kept, Order, Next, \A c \in Callers : ~ChmodFails(c)
  PROVE  Order'
<1>1. /\ CallerType /\ FileType /\ Exclusive
      /\ running \in Nat \ {0} /\ \A c \in Callers : job[c].version \in Nat \ {0}
      /\ \A c \in Callers : pc[c] \in Whole => staged[item[c]] = job[c].version
  BY TypeParts, StagedVersion DEF Safe, VersionType, CallerType, Job, Version
\* What holds of the one caller that is busy is enough.
<1>2. ASSUME NEW c \in Callers, pc[c] \in Replacing, NEW p, pc' = [pc EXCEPT ![c] = p],
             TrayBehind', ~NewIn(c)' => NotReplaced', pc'[c] \in Busy => OrderOf(c)'
      PROVE  Order'
  <2>1. \A d \in Callers : d # c => pc'[d] \notin Busy
    BY <1>1, <1>2, OthersIdle
  <2> QED BY <1>2, <2>1 DEF Order, NewIn
<1>3. ASSUME NEW c \in Callers, pc[c] \notin Busy, NEW p \in {"idle", "plain", "exiting"},
             pc' = [pc EXCEPT ![c] = p],
             UNCHANGED <<job, item, exe, aside, up, running>>
      PROVE  Order'
  <2>1. \A d \in Callers : /\ NewIn(d)' = NewIn(d)
                           /\ pc'[d] \in Busy => pc[d] \in Busy /\ pc'[d] = pc[d]
    BY <1>1, <1>3 DEF NewIn, CallerType, Busy, Replacing
  <2> QED BY <1>3, <2>1 DEF Order, OrderOf, TrayBehind, NotReplaced
<1>4. ASSUME Down, UNCHANGED exe PROVE Order'
  BY <1>4 DEF Down, Order, TrayBehind, NewIn, Busy, Replacing
<1>5. ASSUME NEW c \in Callers, pc[c] = "idle", up, NEW v, NEW t, Enter(c, v, t),
             UNCHANGED <<exe, aside, up, running>>
      PROVE  Order'
  <2>1. CASE flight
    BY <1>3, <1>5, <2>1 DEF Enter, Return, Goto, Busy, Replacing
  <2>2. CASE ~flight
    <3>1. \A d \in Callers : pc[d] \notin Busy
      BY <1>1, <2>2 DEF Exclusive
    <3>2. NotReplaced /\ TrayBehind
      BY <1>5, <3>1 DEF Order, NewIn
    <3>3. /\ \A d \in Callers : d # c => pc'[d] \notin Busy
          /\ pc'[c] = "fetch" /\ item'[c] = "daemon"
      BY <1>1, <1>5, <2>2, <3>1 DEF Enter, Goto, CallerType
    <3> QED BY <1>5, <3>2, <3>3 DEF Order, OrderOf, NewIn, NotReplaced, TrayBehind
  <2> QED BY <2>1, <2>2
<1>6. ASSUME NEW c \in Callers, pc[c] \in Replacing \ {"moved"}, Failed(c),
             UNCHANGED <<exe, aside, up, running>>
      PROVE  Order'
  <2>1. CASE item[c] = "daemon"
    <3>1. PICK p \in {"idle", "plain"} : pc' = [pc EXCEPT ![c] = p]
      BY <1>6, <2>1 DEF Failed, Return, Goto
    <3>2. pc'[c] \notin Busy
      BY <1>1, <3>1 DEF CallerType, Busy, Replacing
    <3> QED BY <1>2, <1>6, <2>1, <3>1, <3>2, OrderAt DEF TrayBehind, NotReplaced
  <2>2. CASE item[c] = "tray"
    <3>1. pc' = [pc EXCEPT ![c] = "exit"] /\ UNCHANGED <<job, item>>
      BY <1>6, <2>2 DEF Failed, Goto
    <3>2. pc'[c] = "exit"
      BY <1>1, <3>1 DEF CallerType
    <3> QED BY <1>2, <1>6, <2>2, <3>1, <3>2, OrderAt DEF TrayBehind, NewIn, OrderOf, Busy
  <2> QED BY <1>6, <2>1, <2>2, OrderAt
<1>7. CASE \E c \in Callers : Apply(c)
  <2>1. PICK c \in Callers : Apply(c)
    BY <1>7
  <2>2. CASE Refuse(c) \/ FetchFails(c) \/ ReplaceFails(c)
    BY <1>6, <2>2 DEF Refuse, FetchFails, ReplaceFails, Cleanup, Replacing, files, daemon
  <2>3. CASE Fetch(c) \/ Copy(c) \/ RemoveOld(c)
    <3>1. PICK p \in {"copy", "staged", "cleared"} : pc' = [pc EXCEPT ![c] = p]
      BY <2>3 DEF Fetch, Copy, RemoveOld, Goto
    <3>2. /\ pc[c] \in Replacing \ {"moved"} /\ pc'[c] = p
          /\ UNCHANGED <<exe, job, item, up, running>>
      BY <1>1, <2>3, <3>1 DEF Fetch, Copy, RemoveOld, Replacing, CallerType, daemon
    <3>3. job[c].version > running
      BY <2>3, <3>2, OrderAt DEF OrderOf, Fetch, Copy, RemoveOld
    <3>4. TrayBehind' /\ (~NewIn(c)' => NotReplaced')
      BY <3>1, <3>2, OrderAt DEF TrayBehind, NotReplaced, NewIn, Busy, Replacing
    <3>5. OrderOf(c)'
      BY <3>1, <3>2, <3>3, OrderAt DEF OrderOf, NewIn
    <3>6. pc[c] \in Replacing
      BY <3>2
    <3> QED BY ONLY <1>2, <3>1, <3>4, <3>5, <3>6
  <2>4. CASE MoveAside(c)
    <3>1. /\ pc[c] = "cleared" /\ pc' = [pc EXCEPT ![c] = "moved"] /\ pc'[c] = "moved"
          /\ UNCHANGED <<job, item, up, running>>
          /\ exe' = [exe EXCEPT ![item[c]] = None]
          /\ aside' = [aside EXCEPT ![item[c]] = exe[item[c]]]
      BY <1>1, <2>4 DEF MoveAside, Goto, Set, CallerType, daemon
    <3>2. exe["daemon"] # None
      BY <1>1, <3>1 DEF Kept, Exclusive, Busy, Replacing, CallerType
    <3>3. job[c].version > running
      BY <3>1, OrderAt DEF OrderOf, Replacing
    <3>4. CASE item[c] = "daemon"
      <4>1. exe'["daemon"] = None /\ exe'["tray"] = exe["tray"] /\ aside'["daemon"] = running
        BY <1>1, <3>1, <3>2, <3>4, OrderAt, FileInt DEF FileType, NotReplaced, Replacing
      <4> QED BY <1>2, <3>1, <3>3, <3>4, <4>1, OrderAt
              DEF TrayBehind, NotReplaced, OrderOf, NewIn, Busy, Replacing
    <3>5. CASE item[c] = "tray"
      <4>1. /\ exe'["daemon"] = exe["daemon"] /\ exe'["tray"] = None
            /\ aside'["tray"] = exe["tray"]
        BY <1>1, <3>1, <3>5, FileInt DEF FileType
      <4>2. exe'["tray"] <= exe'["daemon"] /\ aside'["tray"] <= exe'["daemon"]
        BY <1>1, <3>1, <3>5, <4>1, OrderAt, FileInt DEF Replacing, None
      <4> QED BY <1>2, <3>1, <3>3, <3>5, <4>1, <4>2, OrderAt
              DEF TrayBehind, OrderOf, NewIn, Busy, Replacing
    <3> QED BY <3>1, <3>4, <3>5, OrderAt DEF Replacing
  <2>5. CASE Rename(c) \/ MoveIn(c)
    <3>1. /\ Installed(c) /\ pc[c] \in {"staged", "moved"} /\ UNCHANGED <<job, up, running>>
          /\ exe' = [exe EXCEPT ![item[c]] = job[c].version]
      BY <1>1, <2>5 DEF Rename, MoveIn, Whole, Set, daemon, Installed
    <3>2. job[c].version > running
      BY <3>1, OrderAt DEF OrderOf, Replacing
    <3>3. /\ exe'["daemon"] = job[c].version /\ exe'["tray"] <= exe'["daemon"]
      BY <1>1, <3>1, <3>2, OrderAt, FileInt DEF FileType, NotReplaced, Replacing
    <3>4. PICK p \in {"fetch", "exit"} :
            /\ pc' = [pc EXCEPT ![c] = p] /\ pc'[c] = p
            /\ p = "exit" \/ item'[c] = "tray"
      BY <1>1, <3>1 DEF Installed, Goto, CallerType
    <3>5. TrayBehind' /\ NewIn(c)'
      BY <3>3, <3>4 DEF TrayBehind, NewIn, Busy, Replacing
    <3>6. OrderOf(c)'
      BY <3>1, <3>2, <3>3, <3>4 DEF OrderOf
    <3>7. pc[c] \in Replacing
      BY <3>1 DEF Replacing
    <3> QED BY ONLY <1>2, <3>4, <3>5, <3>6, <3>7
  <2>6. CASE Restore(c)
    <3>1. /\ Failed(c) /\ pc[c] = "moved" /\ UNCHANGED <<job, item, up, running>>
          /\ exe' = [exe EXCEPT ![item[c]] = aside[item[c]]]
      BY <2>6 DEF Restore, Cleanup, Set, daemon, Failed
    <3>2. CASE item[c] = "daemon"
      <4>1. exe'["daemon"] = running /\ exe'["tray"] = exe["tray"]
        BY <1>1, <3>1, <3>2, OrderAt, FileInt DEF FileType, OrderOf, Replacing
      <4>2. PICK p \in {"idle", "plain"} : pc' = [pc EXCEPT ![c] = p]
        BY <3>1, <3>2 DEF Failed, Return, Goto
      <4>3. pc'[c] \notin Busy
        BY <1>1, <4>2 DEF CallerType, Busy, Replacing
      <4> QED BY <1>2, <3>1, <3>2, <4>1, <4>2, <4>3, OrderAt
              DEF TrayBehind, NotReplaced, Replacing
    <3>3. CASE item[c] = "tray"
      <4>1. exe'["daemon"] = exe["daemon"] /\ exe'["tray"] <= exe'["daemon"]
        BY <1>1, <3>1, <3>3, OrderAt, FileInt DEF FileType, OrderOf, Replacing
      <4>2. pc' = [pc EXCEPT ![c] = "exit"] /\ pc'[c] = "exit"
        BY <1>1, <3>1, <3>3 DEF Failed, Goto, CallerType
      <4> QED BY <1>2, <3>1, <3>3, <4>1, <4>2, OrderAt
              DEF TrayBehind, OrderOf, NewIn, Busy, Replacing
    <3> QED BY <3>1, <3>2, <3>3, OrderAt DEF Replacing
  <2>7. CASE Exit(c)
    BY <1>4, <2>7 DEF Exit, files
  <2> QED BY <2>1, <2>2, <2>3, <2>4, <2>5, <2>6, <2>7 DEF Apply
<1>8. CASE \E v \in Version : HandleUpdateAvailable(v)
  BY <1>5, <1>8 DEF HandleUpdateAvailable, Idle, Callers, files, daemon
<1>9. CASE AutoApply
  BY <1>5, <1>9 DEF AutoApply, Callers, files
<1>10. CASE HandleRestart
  <2>1. CASE pending = None
    BY <1>3, <1>10, <2>1 DEF HandleRestart, Return, Goto, Callers, files, Busy, Replacing
  <2>2. CASE pending # None
    BY <1>5, <1>10, <2>2 DEF HandleRestart, Callers, files
  <2> QED BY <2>1, <2>2
<1>11. CASE PlainRestart
  BY <1>3, <1>11 DEF PlainRestart, Goto, Callers, files, daemon, Busy, Replacing
<1>12. CASE PlainExit \/ Crash
  BY <1>4, <1>12 DEF PlainExit, Crash, files
<1>13. ASSUME UNCHANGED <<exe, aside, apply, up, running>> PROVE Order'
  BY <1>13 DEF apply, Order, OrderOf, NewIn, TrayBehind, NotReplaced
<1>14. CASE CheckSelfUpdate \/ Publish
  BY <1>13, <1>14 DEF CheckSelfUpdate, Publish, files, daemon
<1>15. ASSUME ~up, exe["daemon"] # None, Start PROVE Order'
  <2>1. \A c \in Callers : pc[c] \notin Busy
    BY <1>1, <1>15 DEF CallerType, Busy, Replacing
  <2> QED BY <1>1, <1>15, <2>1, FileInt
          DEF Start, files, apply, Order, TrayBehind, NotReplaced, NewIn
<1>16. CASE ServiceManager \/ RunScript \/ OnDaemonUnreachable
  BY <1>13, <1>15, <1>16 DEF ServiceManager, RunScript, OnDaemonUnreachable, files, daemon
<1> QED BY <1>7, <1>8, <1>9, <1>10, <1>11, <1>12, <1>14, <1>16 DEF Next

LEMMA NewerStep ==
  ASSUME Labelled, Safe, Order, Next, \A c \in Callers : ~ChmodFails(c),
         NEW b \in Binary, exe[b] # None, exe'[b] # None
  PROVE  exe'[b] >= exe[b]
<1>1. /\ CallerType /\ FileType /\ Exclusive
      /\ running \in Nat \ {0} /\ \A c \in Callers : job[c].version \in Nat \ {0}
      /\ \A c \in Callers : pc[c] \in Whole => staged[item[c]] = job[c].version
  BY TypeParts, StagedVersion DEF Safe, VersionType, CallerType, Job, Version
<1>2. exe[b] \in Nat
  BY <1>1 DEF FileType, Version, None
<1>3. CASE UNCHANGED exe
  BY <1>2, <1>3
<1>4. ASSUME NEW c \in Callers, Rename(c) \/ MoveIn(c) PROVE exe'[b] >= exe[b]
  <2>1. /\ pc[c] \in {"staged", "moved"} /\ exe' = [exe EXCEPT ![item[c]] = job[c].version]
    BY <1>1, <1>4 DEF Rename, MoveIn, Whole, Set
  <2>2. job[c].version > running
    BY <2>1, OrderAt DEF OrderOf, Replacing
  <2>3. item[c] = b => job[c].version >= exe[b]
    BY <1>1, <2>1, <2>2, OrderAt, FileInt DEF NotReplaced, Replacing
  <2> QED BY <1>1, <1>2, <2>1, <2>3 DEF FileType
<1>5. ASSUME NEW c \in Callers, MoveAside(c) \/ Restore(c) PROVE exe'[b] >= exe[b]
  <2>1. item[c] # b
    BY <1>1, <1>5, OrderAt DEF OrderOf, MoveAside, Restore, Set, FileType, Replacing
  <2> QED BY <1>1, <1>2, <1>5, <2>1 DEF MoveAside, Restore, Set, FileType
<1>6. ASSUME NEW c \in Callers,
             Refuse(c) \/ FetchFails(c) \/ Fetch(c) \/ Copy(c) \/ ReplaceFails(c)
               \/ RemoveOld(c) \/ Exit(c)
      PROVE  UNCHANGED exe
  BY <1>6 DEF Refuse, FetchFails, Fetch, Copy, ReplaceFails, Cleanup, RemoveOld, Exit, files
<1>7. CASE \E c \in Callers : Apply(c)
  BY <1>3, <1>4, <1>5, <1>6, <1>7 DEF Apply
<1>8. CASE ~\E c \in Callers : Apply(c)
  <2>1. UNCHANGED exe
    BY <1>8 DEF Next, CheckSelfUpdate, HandleUpdateAvailable, AutoApply, HandleRestart,
                PlainRestart, PlainExit, ServiceManager, RunScript, OnDaemonUnreachable,
                Start, Publish, Crash, files
  <2> QED BY <1>3, <2>1
<1> QED BY <1>7, <1>8

\* The order of the versions holds until a chmod fails.
Ordered == ChmodLeft /\ (NoChmodFailed => Order)

LEMMA OrderedStep ==
  ASSUME Labelled, Safe, Kept, Ordered, [Next]_vars
  PROVE  Ordered'
<1>1. ChmodLeft'
  <2>1. /\ budget["chmod"] \in Nat /\ Budget["chmod"] \in Nat
        /\ budget'["chmod"] \in Nat
    BY SafeStep, TypeParts DEF Safe, TypeOK, Sources
  <2> QED BY <2>1, ChmodSpent DEF Safe, Ordered, ChmodLeft
<1>2. ASSUME NoChmodFailed' PROVE Order'
  <2>1. Order /\ \A c \in Callers : ~ChmodFails(c)
    BY <1>2, NoChmodFails DEF Safe, Ordered
  <2>2. CASE UNCHANGED vars
    BY <2>1, <2>2
       DEF Order, TrayBehind, NotReplaced, OrderOf, NewIn, vars, files, daemon, apply
  <2> QED BY <2>1, <2>2, OrderStep
<1> QED BY <1>1, <1>2 DEF Ordered

\* If releases are announced as the version compiled into them, neither a binary
\* of the daemon nor one of the tray is replaced by an older one, until a chmod
\* fails: whatever is announced and in what order, and although the tray's
\* version is not looked at.
THEOREM Newer ==
  ASSUME \A v \in Version : Built[v] = v
  PROVE  Spec => NoDowngrade
<1>1. Init => Ordered
  <2>1. Init => Order
    BY DEF Init, Order, TrayBehind, NotReplaced, OrderOf, NewIn, Busy, Replacing, Binary, None
  <2>2. Init => ChmodLeft
    BY DEF Init, ChmodLeft, Sources
  <2> QED BY <2>1, <2>2 DEF Ordered
<1>2. Init => Kept
  BY DEF Init, Kept, Binary, None
<1>3. Safe /\ Kept /\ [Next]_vars => Kept'
  <2>1. Kept /\ UNCHANGED vars => Kept'
    BY DEF Kept, vars, files, daemon, apply
  <2> QED BY <2>1, KeptStep
<1>4. Safe /\ Kept /\ Ordered /\ [Next]_vars => Ordered'
  BY OrderedStep DEF Labelled
<1>5. Safe /\ Ordered /\ [Next]_vars =>
        [budget'["chmod"] = Budget["chmod"] =>
           \A b \in Binary : exe[b] # None /\ exe'[b] # None => exe'[b] >= exe[b]]_vars
  <2>1. SUFFICES ASSUME Safe, Ordered, Next, NoChmodFailed', NEW b \in Binary,
                        exe[b] # None, exe'[b] # None
                 PROVE  exe'[b] >= exe[b]
    BY DEF NoChmodFailed
  <2>2. Order /\ \A c \in Callers : ~ChmodFails(c)
    BY <2>1, NoChmodFails DEF Safe, Ordered
  <2> QED BY <2>1, <2>2, NewerStep DEF Labelled
<1> QED BY <1>1, <1>2, <1>3, <1>4, <1>5, SafeAlways, PTL DEF Spec, NoDowngrade
=============================================================================
