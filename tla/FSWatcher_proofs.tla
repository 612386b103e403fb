-------------------------- MODULE FSWatcher_proofs --------------------------
(***************************************************************************)
(* Proofs about FSWatcher for any files, contents, goroutines and channel  *)
(* capacity: its type invariant; that nothing is reported twice in a row   *)
(* when fires of one file do not overlap; and that the last report is      *)
(* current when, moreover, nothing is in flight during Remove.             *)
(***************************************************************************)
EXTENDS FSWatcher, TLAPS

USE WatchAssumption

-----------------------------------------------------------------------------
(* Types.                                                                  *)

LEMMA HeadNotice ==
  ASSUME TypeOK, notices # <<>>
  PROVE  /\ Head(notices) \in File \X {"write", "remove"}
         /\ Head(notices)[1] \in File
         /\ Head(notices)[2] \in {"write", "remove"}
         /\ Tail(notices) \in Seq(File \X {"write", "remove"})
BY DEF TypeOK

LEMMA FireType ==
  ASSUME TypeOK, NEW i \in Fire, fire[i] # None
  PROVE  /\ fire[i] \in Goroutine
         /\ fire[i].file \in File
         /\ fire[i].prev \in Content \cup {None}
         /\ fire[i].data \in Content \cup {None}
BY DEF TypeOK, Goroutine

\* Queueing an event keeps the channel within its capacity.
LEMMA PutType ==
  ASSUME TypeOK, NEW f \in File, NEW data \in Content \cup {None}, Put(f, data)
  PROVE  /\ events' \in Seq([file : File, data : Content \cup {None}])
         /\ Len(events') <= EventCap
         /\ stale' \subseteq File
<1>1. [file |-> f, data |-> data] \in [file : File, data : Content \cup {None}]
  OBVIOUS
<1>2. /\ events' \in Seq([file : File, data : Content \cup {None}])
      /\ Len(events') = Len(events) + 1
  BY <1>1 DEF Put, TypeOK
<1>3. Len(events) \in Nat /\ EventCap \in Nat /\ Len(events) < EventCap
  BY DEF Put, TypeOK
<1>4. Len(events') <= EventCap
  BY <1>2, <1>3
<1>5. stale' \subseteq File
  BY DEF Put, TypeOK
<1> QED BY <1>2, <1>4, <1>5

LEMMA HeadEvent ==
  ASSUME TypeOK, events # <<>>
  PROVE  /\ Len(events) \in Nat /\ Len(events) > 0
         /\ Head(events) = events[1]
         /\ Head(events).file \in File
         /\ Head(events).data \in Content \cup {None}
         /\ Len(Tail(events)) = Len(events) - 1
         /\ \A n \in 1..(Len(events) - 1) : Tail(events)[n] = events[n + 1]
<1> DEFINE Event == [file : File, data : Content \cup {None}]
<1>1. events \in Seq(Event) /\ events # <<>>
  BY DEF TypeOK
<1> HIDE DEF Event
<1>2. /\ Len(events) \in Nat /\ Len(events) > 0
      /\ Head(events) = events[1]
      /\ Head(events) \in Event
      /\ Len(Tail(events)) = Len(events) - 1
      /\ \A n \in 1..(Len(events) - 1) : Tail(events)[n] = events[n + 1]
  BY ONLY <1>1
<1> QED BY <1>2 DEF Event

LEMMA InitType == Init => TypeOK
<1> SUFFICES ASSUME Init PROVE TypeOK
  OBVIOUS
<1>1. /\ events \in Seq([file : File, data : Content \cup {None}])
      /\ Len(events) <= EventCap
      /\ notices \in Seq(File \X {"write", "remove"})
  BY DEF Init
<1>2. /\ fire \in [Fire -> Goroutine \cup {None}]
      /\ \A i \in Fire : fire[i] = None
  BY DEF Init
<1>3. writes \in 0..MaxWrites /\ adds \in 0..MaxAdds
  BY DEF Init
<1> QED BY <1>1, <1>2, <1>3 DEF Init, TypeOK

LEMMA NextType == TypeOK /\ [Next]_vars => TypeOK'
<1> SUFFICES ASSUME TypeOK, [Next]_vars PROVE TypeOK'
  OBVIOUS
<1> USE DEF diskVars, watchVars, timerVars, outVars
<1>1. CASE UNCHANGED vars
  BY <1>1 DEF TypeOK, vars
<1>2. ASSUME NEW f \in File, Write(f) PROVE TypeOK'
  <2>1. notices' \in Seq(File \X {"write", "remove"})
    <3>1. <<f, "write">> \in File \X {"write", "remove"}
      OBVIOUS
    <3> QED BY <1>2, <3>1 DEF Write, Notify, TypeOK
  <2>2. disk' \in [File -> Content \cup {None}]
    BY <1>2 DEF Write, TypeOK
  <2>3. writes' \in 0..MaxWrites
    BY <1>2 DEF Write, TypeOK
  <2> QED BY <1>2, <2>1, <2>2, <2>3 DEF Write, TypeOK
<1>3. ASSUME NEW f \in File, Delete(f) PROVE TypeOK'
  <2>1. notices' \in Seq(File \X {"write", "remove"})
    <3>1. <<f, "remove">> \in File \X {"write", "remove"}
      OBVIOUS
    <3> QED BY <1>3, <3>1 DEF Delete, Notify, TypeOK
  <2>2. disk' \in [File -> Content \cup {None}]
    BY <1>3 DEF Delete, TypeOK
  <2>3. writes' \in 0..MaxWrites
    BY <1>3 DEF Delete, TypeOK
  <2> QED BY <1>3, <2>1, <2>2, <2>3 DEF Delete, TypeOK
<1>4. CASE Schedule
  BY <1>4, HeadNotice DEF Schedule, LoopReady, TypeOK
<1>5. CASE Forget
  BY <1>5, HeadNotice DEF Forget, LoopReady, TypeOK
<1>6. CASE ReportRemoval
  <2>1. removing \in File
    BY <1>6 DEF ReportRemoval, TypeOK
  <2>2. /\ events' \in Seq([file : File, data : Content \cup {None}])
        /\ Len(events') <= EventCap
        /\ stale' \subseteq File /\ UNCHANGED reported
    BY <1>6, <2>1, PutType DEF ReportRemoval, Put, TypeOK
  <2> QED BY <1>6, <2>2 DEF ReportRemoval, TypeOK
<1>7. ASSUME NEW f \in File, Expire(f) PROVE TypeOK'
  <2>1. PICK i \in Fire : fire' = [fire EXCEPT ![i] =
                 [file |-> f, stage |-> "begin", prev |-> None, data |-> None]]
    BY <1>7 DEF Expire, Spawn
  <2> DEFINE g == [file |-> f, stage |-> "begin", prev |-> None, data |-> None]
  <2>2. g \in Goroutine /\ g.stage = "begin"
    BY DEF Goroutine, Stages
  <2>3. fire' = [fire EXCEPT ![i] = g]
    BY <2>1
  <2> HIDE DEF g
  <2>4. /\ fire' \in [Fire -> Goroutine \cup {None}]
        /\ \A k \in Fire : fire'[k] # None /\ fire'[k].stage \in {"store", "emit"}
             => fire'[k].data # None
    BY <2>2, <2>3 DEF TypeOK
  <2>5. armed' \subseteq timers /\ orphans' \subseteq File
    BY <1>7 DEF Expire, TypeOK
  <2> QED BY <1>7, <2>4, <2>5 DEF Expire, TypeOK
<1>8. ASSUME NEW i \in Fire, Begin(i) PROVE TypeOK'
  <2> DEFINE g == [fire[i] EXCEPT !.stage = "read", !.prev = hashes[fire[i].file]]
  <2>1. g \in Goroutine /\ g.stage = "read"
    <3>1. fire[i] \in Goroutine /\ fire[i].file \in File /\ "read" \in Stages
      BY <1>8, FireType DEF Begin, Stages
    <3>2. hashes[fire[i].file] \in Content \cup {None}
      BY <3>1 DEF TypeOK
    <3> QED BY ONLY <3>1, <3>2 DEF Goroutine
  <2>2. fire' = [fire EXCEPT ![i] = g]
    BY <1>8 DEF Begin, Advance
  <2> HIDE DEF g
  <2>3. /\ fire' \in [Fire -> Goroutine \cup {None}]
        /\ \A k \in Fire : fire'[k] # None /\ fire'[k].stage \in {"store", "emit"}
             => fire'[k].data # None
    BY <2>1, <2>2 DEF TypeOK
  <2>4. /\ timers' \subseteq File /\ armed' \subseteq timers'
        /\ orphans' \subseteq File
    BY <1>8, FireType DEF Begin, TypeOK
  <2> QED BY <1>8, <2>3, <2>4 DEF Begin, TypeOK
<1>9. ASSUME NEW i \in Fire, Read(i) PROVE TypeOK'
  <2> DEFINE c == disk[fire[i].file]
             g == [fire[i] EXCEPT !.stage = "store", !.data = c]
             r == IF c \in {None, fire[i].prev} THEN None ELSE g
  <2>1. c \in Content \cup {None}
    BY <1>9, FireType DEF Read, TypeOK
  <2>2. g \in Goroutine /\ g.stage = "store" /\ g.data = c
    BY <1>9, <2>1, FireType DEF Read, Goroutine, Stages
  <2>3. fire' = [fire EXCEPT ![i] = r]
    BY <1>9 DEF Read, Advance
  <2>4. r \in Goroutine \cup {None} /\ (r # None => r = g /\ c # None)
    BY <2>2
  <2> HIDE DEF r, g, c
  <2>5. fire' \in [Fire -> Goroutine \cup {None}]
    BY <2>3, <2>4 DEF TypeOK
  <2>6. ASSUME NEW k \in Fire, fire'[k] # None,
               fire'[k].stage \in {"store", "emit"}
        PROVE  fire'[k].data # None
    BY <2>2, <2>3, <2>4, <2>6 DEF TypeOK
  <2> QED BY <1>9, <2>5, <2>6 DEF Read, TypeOK
<1>10. ASSUME NEW i \in Fire, Store(i) PROVE TypeOK'
  <2> DEFINE g == [fire[i] EXCEPT !.stage = "emit"]
  <2>1. g \in Goroutine /\ g.stage = "emit" /\ g.data = fire[i].data
    BY <1>10, FireType DEF Store, Goroutine, Stages
  <2>2. fire' = [fire EXCEPT ![i] = g]
    BY <1>10 DEF Store, Advance
  <2>3. fire[i].data # None
    BY <1>10 DEF Store, TypeOK
  <2> HIDE DEF g
  <2>4. fire' \in [Fire -> Goroutine \cup {None}]
    BY <2>1, <2>2 DEF TypeOK
  <2>5. ASSUME NEW k \in Fire, fire'[k] # None,
               fire'[k].stage \in {"store", "emit"}
        PROVE  fire'[k].data # None
    BY <2>1, <2>2, <2>3, <2>5 DEF TypeOK
  <2>6. hashes' \in [File -> Content \cup {None}]
    BY <1>10, FireType DEF Store, TypeOK
  <2> QED BY <1>10, <2>4, <2>5, <2>6 DEF Store, TypeOK
<1>11. ASSUME NEW i \in Fire, Emit(i) PROVE TypeOK'
  <2>1. /\ events' \in Seq([file : File, data : Content \cup {None}])
        /\ Len(events') <= EventCap
        /\ stale' \subseteq File /\ UNCHANGED reported
    BY <1>11, FireType, PutType DEF Emit, Put, TypeOK
  <2>2. fire' = [fire EXCEPT ![i] = None]
    BY <1>11 DEF Emit, Advance
  <2>3. fire' \in [Fire -> Goroutine \cup {None}]
    BY <2>2 DEF TypeOK
  <2>4. ASSUME NEW k \in Fire, fire'[k] # None,
               fire'[k].stage \in {"store", "emit"}
        PROVE  fire'[k].data # None
    BY <2>2, <2>4 DEF TypeOK
  <2> QED BY <1>11, <2>1, <2>3, <2>4 DEF Emit, TypeOK
<1>12. CASE Take
  <2>1. /\ events' \in Seq([file : File, data : Content \cup {None}])
        /\ Len(events') = Len(events) - 1
    BY <1>12 DEF Take, TypeOK
  <2>2. Len(events') <= EventCap
    BY <2>1 DEF TypeOK
  <2>3. /\ Head(events).file \in File
        /\ Head(events).data \in Content \cup {None}
    BY <1>12, HeadEvent DEF Take
  <2>4. reported' \in [File -> Content \cup {None}]
    BY <1>12, <2>3 DEF Take, TypeOK
  <2> QED BY <1>12, <2>1, <2>2, <2>4 DEF Take, TypeOK
<1>13. CASE Remove
  <2>1. notices' \in Seq(File \X {"write", "remove"})
    <3>1. notices # <<>> => <<Head(notices)>> \in Seq(File \X {"write", "remove"})
      BY HeadNotice
    <3>2. notices' \in {<<>>} \cup (IF "leftover" \in Timing /\ notices # <<>>
                                   THEN {<<Head(notices)>>} ELSE {})
      BY <1>13 DEF Remove
    <3>3. <<>> \in Seq(File \X {"write", "remove"})
      OBVIOUS
    <3>4. CASE "leftover" \in Timing /\ notices # <<>>
      BY ONLY <3>1, <3>2, <3>3, <3>4
    <3>5. CASE ~("leftover" \in Timing /\ notices # <<>>)
      BY ONLY <3>2, <3>3, <3>5
    <3> QED BY <3>4, <3>5
  <2> QED BY <1>13, <2>1 DEF Remove, TypeOK
<1>14. CASE Add
  BY <1>14 DEF Add, TypeOK
<1>15. CASE Close
  BY <1>15 DEF Close, TypeOK
<1> QED
  BY <1>1, <1>2, <1>3, <1>4, <1>5, <1>6, <1>7, <1>8, <1>9, <1>10, <1>11,
     <1>12, <1>13, <1>14, <1>15 DEF Next, LoopStep, FireStep

\* Every reachable state of the watcher is well typed, whatever its timing.
THEOREM WatcherTypeCorrect == Spec => []TypeOK
<1>1. Init => TypeOK
  BY InitType
<1>2. TypeOK /\ [Next]_vars => TypeOK'
  BY NextType
<1> QED BY <1>1, <1>2, PTL DEF Spec

-----------------------------------------------------------------------------
(* No duplicate reports.  What a goroutine compared with must still be what *)
(* is stored, or nothing, when it stores: that holds because fires of one  *)
(* file do not overlap and everybody else only deletes hashes.             *)

At(i, f) == fire[i] # None /\ fire[i].file = f

OneFirePerFile ==
  \A i, j \in Fire, f \in File : At(i, f) /\ At(j, f) => i = j

HashKnown(i) ==
  LET g == fire[i] IN
  /\ g.stage = "read" => hashes[g.file] \in {g.prev, None}
  /\ g.stage = "store" => hashes[g.file] # g.data
  /\ g.stage = "emit" => hashes[g.file] \in {g.data, None}

DedupInv ==
  /\ OneFirePerFile
  /\ \A i \in Fire : fire[i] # None => HashKnown(i)

LEMMA DedupNext ==
  ASSUME "slow" \notin Timing
  PROVE  TypeOK /\ DedupInv /\ [Next]_vars => DedupInv'
<1> SUFFICES ASSUME TypeOK, DedupInv, [Next]_vars PROVE DedupInv'
  OBVIOUS
<1> USE DEF diskVars, watchVars, timerVars, outVars
<1>0. ASSUME UNCHANGED <<fire, hashes>> PROVE DedupInv'
  BY <1>0 DEF DedupInv, OneFirePerFile, HashKnown, At
<1>1. ASSUME NEW F \in SUBSET File, UNCHANGED fire,
             hashes' = [h \in File |-> IF h \in F THEN None ELSE hashes[h]]
      PROVE  DedupInv'
  <2>1. OneFirePerFile'
    BY <1>1 DEF DedupInv, OneFirePerFile, At
  <2>2. ASSUME NEW k \in Fire, fire[k] # None PROVE HashKnown(k)'
    <3>1. /\ fire[k].file \in File
          /\ fire[k].stage \in {"store", "emit"} => fire[k].data # None
      BY <2>2, FireType DEF TypeOK
    <3>2. hashes'[fire[k].file] \in {None, hashes[fire[k].file]}
      BY <1>1, <3>1
    <3> QED BY <1>1, <2>2, <3>1, <3>2 DEF DedupInv, HashKnown
  <2> QED BY <1>1, <2>1, <2>2 DEF DedupInv
<1>2. ASSUME NEW i \in Fire, fire[i] # None, UNCHANGED hashes,
             NEW r, fire' = [fire EXCEPT ![i] = r],
             r # None => r.file = fire[i].file /\ HashKnown(i)'
      PROVE  DedupInv'
  <2>1. \A k \in Fire : fire'[k] = IF k = i THEN r ELSE fire[k]
    BY <1>2 DEF TypeOK
  <2>2. \A k \in Fire, f \in File : At(k, f)' => At(k, f)
    BY <1>2, <2>1 DEF At
  <2>3. OneFirePerFile'
    BY <2>2 DEF DedupInv, OneFirePerFile
  <2>4. ASSUME NEW k \in Fire, fire'[k] # None PROVE HashKnown(k)'
    BY <1>2, <2>1, <2>4 DEF DedupInv, HashKnown
  <2> QED BY <2>3, <2>4 DEF DedupInv
<1>3. CASE Forget
  <2>1. PICK f \in File : hashes' = [hashes EXCEPT ![f] = None] /\ UNCHANGED fire
    BY <1>3, HeadNotice DEF Forget, LoopReady
  <2>2. hashes' = [h \in File |-> IF h \in {f} THEN None ELSE hashes[h]]
    BY <2>1 DEF TypeOK
  <2> QED BY <1>1, <2>1, <2>2
<1>4. CASE Remove
  <2>1. hashes' = [h \in File |-> IF h \in File THEN None ELSE hashes[h]]
    BY <1>4 DEF Remove
  <2> QED BY <1>1, <1>4, <2>1 DEF Remove
<1>5. ASSUME NEW f \in File, Expire(f) PROVE DedupInv'
  <2> DEFINE g == [file |-> f, stage |-> "begin", prev |-> None, data |-> None]
  <2>1. PICK i \in Fire : fire[i] = None /\ fire' = [fire EXCEPT ![i] = g]
    BY <1>5 DEF Expire, Spawn
  <2>2. g.file = f /\ g.stage = "begin" /\ Running(f) = {} /\ UNCHANGED hashes
    BY <1>5 DEF Expire
  <2> HIDE DEF g
  <2>3. \A k \in Fire : fire'[k] = IF k = i THEN g ELSE fire[k]
    BY <2>1 DEF TypeOK
  <2>4. OneFirePerFile'
    <3>1. \A k \in Fire : ~At(k, f)
      BY <2>2 DEF Running, At
    <3>2. \A k \in Fire, h \in File : At(k, h)' => At(k, h) \/ (k = i /\ h = f)
      BY <2>2, <2>3 DEF At
    <3> QED BY <3>1, <3>2 DEF DedupInv, OneFirePerFile
  <2>5. ASSUME NEW k \in Fire, fire'[k] # None PROVE HashKnown(k)'
    BY <2>2, <2>3, <2>5 DEF DedupInv, HashKnown
  <2> QED BY <2>4, <2>5 DEF DedupInv
<1>6. ASSUME NEW i \in Fire, Begin(i) PROVE DedupInv'
  <2> DEFINE g == [fire[i] EXCEPT !.stage = "read", !.prev = hashes[fire[i].file]]
  <2>1. /\ g.file = fire[i].file /\ g.stage = "read"
        /\ g.prev = hashes[fire[i].file]
    BY <1>6, FireType DEF Begin, Goroutine
  <2>2. fire' = [fire EXCEPT ![i] = g] /\ UNCHANGED hashes
    BY <1>6 DEF Begin, Advance
  <2> HIDE DEF g
  <2>3. HashKnown(i)'
    BY <2>1, <2>2 DEF HashKnown, TypeOK
  <2> QED BY <1>2, <1>6, <2>1, <2>2, <2>3 DEF Begin
<1>7. ASSUME NEW i \in Fire, Read(i) PROVE DedupInv'
  <2> DEFINE c == disk[fire[i].file]
             g == [fire[i] EXCEPT !.stage = "store", !.data = c]
             r == IF c \in {None, fire[i].prev} THEN None ELSE g
  <2>1. g.file = fire[i].file /\ g.stage = "store" /\ g.data = c
    BY <1>7, FireType DEF Read, Goroutine
  <2>2. fire' = [fire EXCEPT ![i] = r] /\ UNCHANGED hashes
    BY <1>7 DEF Read, Advance
  <2>3. hashes[fire[i].file] \in {fire[i].prev, None}
    BY <1>7 DEF Read, DedupInv, HashKnown
  <2>4. r # None => r = g /\ hashes[fire[i].file] # c
    BY <2>3
  <2> HIDE DEF r, g, c
  <2>5. r # None => HashKnown(i)'
    BY <2>1, <2>2, <2>4 DEF HashKnown, TypeOK
  <2> QED BY <1>2, <1>7, <2>1, <2>2, <2>4, <2>5 DEF Read
<1>8. ASSUME NEW i \in Fire, Store(i) PROVE DedupInv'
  <2> DEFINE g == [fire[i] EXCEPT !.stage = "emit"]
  <2>1. g.file = fire[i].file /\ g.stage = "emit" /\ g.data = fire[i].data
    BY <1>8, FireType DEF Store, Goroutine
  <2>2. /\ fire' = [fire EXCEPT ![i] = g]
        /\ hashes' = [hashes EXCEPT ![fire[i].file] = fire[i].data]
        /\ fire[i] # None
    BY <1>8 DEF Store, Advance
  <2> HIDE DEF g
  <2>3. \A k \in Fire : fire'[k] = IF k = i THEN g ELSE fire[k]
    BY <2>2 DEF TypeOK
  <2>4. \A k \in Fire, f \in File : At(k, f)' => At(k, f)
    BY <2>1, <2>2, <2>3 DEF At
  <2>5. OneFirePerFile'
    BY <2>4 DEF DedupInv, OneFirePerFile
  <2>6. ASSUME NEW k \in Fire, fire'[k] # None PROVE HashKnown(k)'
    <3>1. CASE k = i
      <4>1. hashes'[fire[i].file] = fire[i].data
        BY <2>2, FireType DEF TypeOK
      <4> QED BY <2>1, <2>3, <3>1, <4>1 DEF HashKnown
    <3>2. CASE k # i
      <4>1. fire'[k] = fire[k] /\ fire[k] # None
        BY <2>3, <2>6, <3>2
      <4>2. fire[k].file # fire[i].file
        BY <2>2, <3>2, <4>1, FireType DEF DedupInv, OneFirePerFile, At
      <4>3. hashes'[fire[k].file] = hashes[fire[k].file]
        BY <2>2, <4>1, <4>2, FireType DEF TypeOK
      <4> QED BY <4>1, <4>3 DEF DedupInv, HashKnown
    <3> QED BY <3>1, <3>2
  <2> QED BY <2>5, <2>6 DEF DedupInv
<1>9. ASSUME NEW i \in Fire, Emit(i) PROVE DedupInv'
  BY <1>2, <1>9 DEF Emit, Advance
<1> QED
  <2>1. CASE UNCHANGED vars
    BY <1>0, <2>1 DEF vars
  <2>2. ASSUME NEW f \in File, Write(f) \/ Delete(f) PROVE DedupInv'
    BY <1>0, <2>2 DEF Write, Delete
  <2>3. CASE Schedule \/ ReportRemoval
    BY <1>0, <2>3 DEF Schedule, ReportRemoval
  <2>4. CASE Take \/ Add \/ Close
    BY <1>0, <2>4 DEF Take, Add, Close
  <2> QED
    BY <1>3, <1>4, <1>5, <1>6, <1>7, <1>8, <1>9, <2>1, <2>2, <2>3, <2>4
    DEF Next, LoopStep, FireStep

\* When a fire is done before the file's next timer expires, no content is
\* reported twice in a row, however resets, removals and unwatching interleave
\* with it.
THEOREM NoDuplicate ==
  ASSUME "slow" \notin Timing
  PROVE  Spec => []NoDuplicateReport
<1>1. Init => DedupInv
  <2> SUFFICES ASSUME Init PROVE DedupInv
    OBVIOUS
  <2>1. \A i \in Fire : fire[i] = None
    BY DEF Init
  <2> QED BY <2>1 DEF DedupInv, OneFirePerFile, At
<1>2. TypeOK /\ DedupInv /\ [Next]_vars => DedupInv'
  BY DedupNext
<1>3. DedupInv => NoDuplicateReport
  BY DEF DedupInv, HashKnown, NoDuplicateReport
<1> QED BY <1>1, <1>2, <1>3, WatcherTypeCorrect, PTL DEF Spec

-----------------------------------------------------------------------------
(* The last report is current.  While a directory is watched, a file whose *)
(* content differs from the last report has a notification waiting, a      *)
(* timer running, or a goroutine that will read it or has read it          *)
(* (FileReported); the hash stands for a report made or about to be made,  *)
(* so that suppressing an event is right (HashReported, PrevReported).     *)

NoticeFor(f) == \E n \in 1..Len(notices) : notices[n][1] = f

\* Every removal in the queue is followed by a write.
LastIsWrite(f) ==
  \A n \in 1..Len(notices) : notices[n] = <<f, "remove">> =>
    \E m \in 1..Len(notices) : m > n /\ notices[m] = <<f, "write">>

Due(f) == f \in armed \cup orphans \/ NoticeFor(f)

WillReport(f) ==
  \E i \in Fire : At(i, f) /\ (\/ fire[i].stage \in {"begin", "read"}
                               \/ fire[i].data = disk[f])

\* The last content the daemon gets of f is c, from its queue or, when nothing
\* of f is queued, from what it handled; or its scan ran with f queued.
Said(f, c) ==
  \/ f \in stale
  \/ Queued(f) = {} /\ reported[f] = c
  \/ \E k \in Queued(f) : /\ events[k].data = c
                          /\ \A n \in Queued(f) : n <= k

DiskReported(f) ==
  \A c \in Content : disk[f] = c =>
    /\ LastIsWrite(f)
    /\ Said(f, c) \/ Due(f) \/ WillReport(f)
    /\ \A i \in Fire : At(i, f) /\ fire[i].stage \in {"store", "emit"} =>
         fire[i].data = c \/ Due(f)

HashReported(f) ==
  \A c \in Content : hashes[f] = c =>
    \/ Said(f, c)
    \/ \E i \in Fire : At(i, f) /\ fire[i].stage = "emit" /\ fire[i].data = c

PrevReported(f) ==
  \A i \in Fire, c \in Content :
    At(i, f) /\ fire[i].stage = "read" /\ fire[i].prev = c => Said(f, c)

FileReported(f) == DiskReported(f) /\ HashReported(f) /\ PrevReported(f)

\* An unwatched directory has left nothing behind.
NothingLeft ==
  /\ notices = <<>>
  /\ armed = {} /\ orphans = {}
  /\ \A f \in File : hashes[f] = None
  /\ \A i \in Fire : fire[i] = None

ReportInv ==
  /\ closed => ~watching
  /\ watching \/ closed \/ NothingLeft
  /\ watching => \A f \in File : FileReported(f)

LEMMA SaidKept ==
  ASSUME NEW h \in File, NEW c, UNCHANGED <<events, reported, stale>>
  PROVE  Said(h, c) => Said(h, c)'
BY DEF Said, Queued

\* Positions in the channel after an event is appended, or taken.
LEMMA QueuedAppended ==
  ASSUME TypeOK, NEW f \in File, NEW data \in Content \cup {None},
         Put(f, data), NEW h \in File
  PROVE  /\ Len(events) \in Nat
         /\ Queued(h) \subseteq 1..Len(events)
         /\ \A n \in Queued(h) : events'[n] = events[n]
         /\ events'[Len(events) + 1].data = data
         /\ Queued(h)' = IF f = h /\ data # None
                         THEN Queued(h) \cup {Len(events) + 1} ELSE Queued(h)
<1> DEFINE e == [file |-> f, data |-> data]
           k == Len(events)
<1>1. e.file = f /\ e.data = data
  OBVIOUS
<1>2. /\ k \in Nat /\ Len(events') = k + 1
      /\ events'[k + 1] = e
      /\ \A n \in 1..k : events'[n] = events[n]
  BY DEF Put, TypeOK
<1> HIDE DEF e
<1>3. Queued(h)' = {n \in 1..(k + 1) : events'[n].file = h
                                       /\ events'[n].data # None}
  BY <1>2 DEF Queued
<1>4. Queued(h) = {n \in 1..k : events[n].file = h /\ events[n].data # None}
  BY DEF Queued
<1> HIDE DEF k
<1>5. \A n : n \in 1..(k + 1) <=> n \in 1..k \/ n = k + 1
  BY <1>2
<1>6. \A n : n \in Queued(h)' <=> n \in Queued(h)
                              \/ (n = k + 1 /\ f = h /\ data # None)
  BY <1>1, <1>2, <1>3, <1>4, <1>5
<1>7. Queued(h)' = IF f = h /\ data # None
                  THEN Queued(h) \cup {k + 1} ELSE Queued(h)
  BY <1>6
<1> QED BY <1>1, <1>2, <1>4, <1>7 DEF k

\* The content of a new event is the last of its file; other files' stay.
LEMMA PutSaid ==
  ASSUME TypeOK, NEW f \in File, NEW data \in Content \cup {None},
         Put(f, data), NEW h \in File
  PROVE  /\ data # None => Said(f, data)'
         /\ \A c : Said(h, c) /\ (h # f \/ data = None) => Said(h, c)'
<1> DEFINE k == Len(events)
<1>1. /\ k \in Nat
      /\ \A g \in File :
           /\ Queued(g) \subseteq 1..k
           /\ \A n \in Queued(g) : events'[n] = events[n]
           /\ Queued(g)' = IF f = g /\ data # None
                           THEN Queued(g) \cup {k + 1} ELSE Queued(g)
      /\ events'[k + 1].data = data
  BY QueuedAppended
<1>2. /\ UNCHANGED reported
      /\ stale' = IF data = None THEN stale ELSE stale \ {f}
  BY DEF Put
<1> HIDE DEF k
<1>3. ASSUME data # None PROVE Said(f, data)'
  <2>1. k + 1 \in Queued(f)' /\ \A n \in Queued(f)' : n <= k + 1
    BY <1>1, <1>3
  <2> QED BY <2>1, <1>1 DEF Said
<1>4. ASSUME NEW c, Said(h, c), h # f \/ data = None PROVE Said(h, c)'
  <2>1. Queued(h)' = Queued(h) /\ \A n \in Queued(h) : events'[n] = events[n]
    BY <1>1, <1>4
  <2>2. h \in stale => h \in stale'
    BY <1>2, <1>4
  <2> QED BY <1>2, <1>4, <2>1, <2>2 DEF Said
<1> QED BY <1>3, <1>4

\* While the directory is watched, an event taken from the channel becomes the
\* content handled last.
LEMMA TakeSaid ==
  ASSUME TypeOK, watching, Take, NEW h \in File, NEW c, Said(h, c)
  PROVE  Said(h, c)'
<1> DEFINE k == Len(events)
           e == Head(events)
<1>1. /\ k \in Nat /\ k > 0 /\ Len(events') = k - 1
      /\ e = events[1] /\ e.file \in File
      /\ \A n \in 1..(k - 1) : events'[n] = events[n + 1]
  BY HeadEvent DEF Take
<1>2. /\ stale' = stale
      /\ reported' = IF e.data # None
                     THEN [reported EXCEPT ![e.file] = e.data] ELSE reported
  BY DEF Take
<1>3. /\ Queued(h) = {n \in 1..k : events[n].file = h /\ events[n].data # None}
      /\ Queued(h)' = {n \in 1..(k - 1) : events'[n].file = h
                                          /\ events'[n].data # None}
  BY <1>1 DEF Queued
<1> HIDE DEF k, e
<1>4. \A n \in Nat : n \in Queued(h)' <=> n + 1 \in Queued(h) /\ n # 0
  BY <1>1, <1>3
<1>5. CASE h \in stale
  BY <1>2, <1>5 DEF Said
<1>6. CASE Queued(h) = {} /\ reported[h] = c
  <2>1. Queued(h)' = {}
    BY <1>3, <1>4, <1>6
  <2>2. ~(e.file = h /\ e.data # None)
    BY <1>1, <1>3, <1>6
  <2>3. reported'[h] = reported[h]
    BY <1>1, <1>2, <2>2 DEF TypeOK
  <2> QED BY <1>6, <2>1, <2>3 DEF Said
<1>7. ASSUME NEW n \in Queued(h), events[n].data = c,
             \A m \in Queued(h) : m <= n
      PROVE  Said(h, c)'
  <2>1. n \in 1..k /\ events[n].file = h /\ events[n].data # None
    BY <1>3
  <2>2. CASE n = 1
    <3>1. Queued(h)' = {}
      <4> SUFFICES ASSUME NEW m \in Queued(h)' PROVE FALSE
        OBVIOUS
      <4>1. m \in Nat /\ m > 0
        BY <1>1, <1>3
      <4>2. m + 1 \in Queued(h)
        BY <1>4, <4>1
      <4> QED BY <1>7, <2>2, <4>1, <4>2
    <3>2. e.file = h /\ e.data = c /\ c # None
      BY <1>1, <1>7, <2>1, <2>2
    <3>3. reported'[h] = c
      BY <1>1, <1>2, <3>2 DEF TypeOK
    <3> QED BY <3>1, <3>3 DEF Said
  <2>3. CASE n # 1
    <3>1. n - 1 \in 1..(k - 1) /\ (n - 1) + 1 = n
      BY <1>1, <2>1, <2>3
    <3>2. n - 1 \in Queued(h)' /\ events'[n - 1].data = c
      BY <1>1, <1>3, <1>7, <2>1, <3>1
    <3>3. ASSUME NEW m \in Queued(h)' PROVE m <= n - 1
      <4>1. m \in Nat /\ m # 0
        BY <1>1, <1>3
      <4>2. m + 1 \in Queued(h)
        BY <1>4, <4>1
      <4>3. m + 1 <= n
        BY <1>7, <4>2
      <4> QED BY <2>1, <4>1, <4>3
    <3> QED BY <3>2, <3>3 DEF Said
  <2> QED BY <2>2, <2>3
<1> QED BY <1>5, <1>6, <1>7 DEF Said

LEMMA PairParts ==
  ASSUME NEW a, NEW b, NEW x, x = <<a, b>>
  PROVE  x[1] = a /\ x[2] = b
OBVIOUS

LEMMA NoticeAppended ==
  ASSUME TypeOK, NEW f \in File, NEW op \in {"write", "remove"},
         notices' = Append(notices, <<f, op>>)
  PROVE  /\ NoticeFor(f)'
         /\ \A h \in File : NoticeFor(h) => NoticeFor(h)'
         /\ \A h \in File : h # f /\ LastIsWrite(h) => LastIsWrite(h)'
         /\ op = "write" => LastIsWrite(f)'
<1> DEFINE k == Len(notices)
<1>1. k \in Nat /\ Len(notices') = k + 1
  BY DEF TypeOK
<1>2. notices'[k + 1] = <<f, op>>
  BY DEF TypeOK
<1>3. \A n \in 1..k : notices'[n] = notices[n]
  BY DEF TypeOK
<1> HIDE DEF k
<1>4. Len(notices) = k
  BY DEF k
<1>5. NoticeFor(f)'
  BY <1>1, <1>2 DEF NoticeFor
<1>6. ASSUME NEW h \in File, NoticeFor(h) PROVE NoticeFor(h)'
  BY <1>1, <1>3, <1>4, <1>6 DEF NoticeFor
<1>7. ASSUME NEW h \in File, h # f, LastIsWrite(h) PROVE LastIsWrite(h)'
  <2> SUFFICES ASSUME NEW n \in 1..(k + 1), notices'[n] = <<h, "remove">>
               PROVE  \E m \in 1..(k + 1) : m > n /\ notices'[m] = <<h, "write">>
    BY <1>1 DEF LastIsWrite
  <2>1. n \in 1..k
    BY <1>1, <1>2, <1>7
  <2>2. PICK m \in 1..k : m > n /\ notices[m] = <<h, "write">>
    BY <2>1, <1>3, <1>4, <1>7 DEF LastIsWrite
  <2> QED BY <2>2, <1>1, <1>3
<1>8. ASSUME op = "write" PROVE LastIsWrite(f)'
  <2> SUFFICES ASSUME NEW n \in 1..(k + 1), notices'[n] = <<f, "remove">>
               PROVE  \E m \in 1..(k + 1) : m > n /\ notices'[m] = <<f, "write">>
    BY <1>1 DEF LastIsWrite
  <2>1. n # k + 1
    <3>1. notices'[k + 1][2] = "write"
      BY ONLY <1>2, <1>8, PairParts
    <3>2. notices'[n] = <<f, "remove">>
      OBVIOUS
    <3>3. notices'[n][2] = "remove"
      BY ONLY <3>2, PairParts
    <3> QED BY ONLY <3>1, <3>3
  <2> QED BY <2>1, <1>1, <1>2, <1>8
<1> QED BY <1>5, <1>6, <1>7, <1>8

LEMMA NoticeTaken ==
  ASSUME TypeOK, notices # <<>>, notices' = Tail(notices), NEW h \in File
  PROVE  /\ Head(notices)[1] # h /\ NoticeFor(h) => NoticeFor(h)'
         /\ LastIsWrite(h) => LastIsWrite(h)'
         /\ Head(notices) = <<h, "remove">> /\ LastIsWrite(h) => NoticeFor(h)'
<1> DEFINE k == Len(notices)
<1>1. k \in Nat /\ k > 0 /\ Len(notices') = k - 1
  BY DEF TypeOK
<1>2. notices[1] = Head(notices)
  BY DEF TypeOK
<1>3. \A n \in 1..(k - 1) : notices'[n] = notices[n + 1]
  BY DEF TypeOK
<1> HIDE DEF k
<1>4. Len(notices) = k
  BY DEF k
<1>5. ASSUME NEW n \in 1..k, n # 1
      PROVE  n - 1 \in 1..(k - 1) /\ notices'[n - 1] = notices[n]
  <2>1. n - 1 \in 1..(k - 1) /\ (n - 1) + 1 = n
    BY <1>1, <1>5
  <2> QED BY <2>1, <1>3
<1>6. ASSUME Head(notices)[1] # h, NoticeFor(h) PROVE NoticeFor(h)'
  <2>1. PICK n \in 1..k : notices[n][1] = h
    BY <1>4, <1>6 DEF NoticeFor
  <2>2. n # 1
    BY <2>1, <1>2, <1>6
  <2> QED BY <2>1, <2>2, <1>1, <1>5 DEF NoticeFor
<1>7. ASSUME LastIsWrite(h) PROVE LastIsWrite(h)'
  <2> SUFFICES ASSUME NEW n \in 1..(k - 1), notices'[n] = <<h, "remove">>
               PROVE  \E m \in 1..(k - 1) : m > n /\ notices'[m] = <<h, "write">>
    BY <1>1 DEF LastIsWrite
  <2>1. n + 1 \in 1..k /\ notices[n + 1] = <<h, "remove">>
    BY <1>1, <1>3
  <2>2. PICK m \in 1..k : m > n + 1 /\ notices[m] = <<h, "write">>
    BY <2>1, <1>4, <1>7 DEF LastIsWrite
  <2>3. m # 1
    BY <2>2
  <2>4. m - 1 \in 1..(k - 1) /\ notices'[m - 1] = notices[m]
    BY <2>3, <1>5
  <2>5. m - 1 > n
    BY <2>2, <1>1
  <2> QED BY <2>2, <2>4, <2>5
<1>8. ASSUME Head(notices) = <<h, "remove">>, LastIsWrite(h)
      PROVE  NoticeFor(h)'
  <2>0. LastIsWrite(h) /\ notices[1] = <<h, "remove">> /\ 1 \in 1..k
    BY <1>1, <1>2, <1>8
  <2>1. PICK m \in 1..k : m > 1 /\ notices[m] = <<h, "write">>
    BY ONLY <2>0, <1>4 DEF LastIsWrite
  <2>2. m # 1
    BY <2>1
  <2>3. m - 1 \in 1..(k - 1) /\ notices'[m - 1] = notices[m]
    BY <2>2, <1>5
  <2>4. notices'[m - 1][1] = h
    BY ONLY <2>1, <2>3, PairParts
  <2> QED BY <2>3, <2>4, <1>1 DEF NoticeFor
<1> QED BY <1>6, <1>7, <1>8

\* What a step leaves alone stays reported.
LEMMA ReportFrame ==
  ASSUME NEW h \in File, FileReported(h),
         disk'[h] = disk[h], \A c : Said(h, c) => Said(h, c)',
         hashes'[h] \in {hashes[h], None},
         \A i \in Fire : At(i, h)' <=> At(i, h),
         \A i \in Fire : At(i, h) => fire'[i] = fire[i],
         LastIsWrite(h) => LastIsWrite(h)',
         Due(h) => Due(h)'
  PROVE  FileReported(h)'
<1>1. DiskReported(h)'
  BY DEF FileReported, DiskReported, WillReport
<1>2. HashReported(h)'
  BY DEF FileReported, HashReported
<1>3. PrevReported(h)'
  BY DEF FileReported, PrevReported
<1> QED BY <1>1, <1>2, <1>3 DEF FileReported

\* A step of a goroutine of file f does not concern the goroutines of others.
LEMMA OtherFires ==
  ASSUME TypeOK, NEW i \in Fire, NEW f \in File, NEW r,
         fire' = [fire EXCEPT ![i] = r],
         fire[i] = None \/ fire[i].file = f,
         r = None \/ r.file = f,
         NEW h \in File, h # f
  PROVE  /\ \A k \in Fire : At(k, h)' <=> At(k, h)
         /\ \A k \in Fire : At(k, h) => fire'[k] = fire[k]
<1>1. \A k \in Fire : fire'[k] = IF k = i THEN r ELSE fire[k]
  BY DEF TypeOK
<1> QED BY <1>1 DEF At

\* With one goroutine per file, those of f after a step of i are i or none.
LEMMA OnlyFire ==
  ASSUME TypeOK, DedupInv, NEW i \in Fire, NEW f \in File, At(i, f), NEW r,
         fire' = [fire EXCEPT ![i] = r]
  PROVE  /\ fire'[i] = r
         /\ \A k \in Fire : At(k, f) => k = i
         /\ \A k \in Fire : At(k, f)' => k = i
<1>1. \A k \in Fire : fire'[k] = IF k = i THEN r ELSE fire[k]
  BY DEF TypeOK
<1>2. \A k \in Fire : At(k, f) => k = i
  BY DEF DedupInv, OneFirePerFile
<1> QED BY <1>1, <1>2 DEF At

LEMMA ReportNext ==
  ASSUME Timing = {}
  PROVE  TypeOK /\ DedupInv /\ ReportInv /\ [Next]_vars => ReportInv'
<1> SUFFICES ASSUME TypeOK, DedupInv, ReportInv, [Next]_vars PROVE ReportInv'
  OBVIOUS
<1> USE DEF diskVars, watchVars, timerVars, outVars
<1>1. ASSUME UNCHANGED <<watching, closed>>,
             watching => \A h \in File : FileReported(h)',
             ~watching /\ ~closed => NothingLeft'
      PROVE  ReportInv'
  BY <1>1 DEF ReportInv
<1>2. ASSUME watching PROVE ~closed /\ \A h \in File : FileReported(h)
  BY <1>2 DEF ReportInv
<1>3. ASSUME ~watching, ~closed PROVE NothingLeft
  BY <1>3 DEF ReportInv
<1>4. ASSUME UNCHANGED <<disk, watching, closed, notices, armed, orphans, fire,
                         hashes>>,
             watching => \A h \in File : \A c : Said(h, c) => Said(h, c)'
      PROVE  ReportInv'
  <2>1. ASSUME watching, NEW h \in File PROVE FileReported(h)'
    <3>1. /\ \A k \in Fire : At(k, h)' <=> At(k, h)
          /\ LastIsWrite(h) => LastIsWrite(h)'
          /\ Due(h) => Due(h)'
      BY <1>4 DEF At, LastIsWrite, Due, NoticeFor
    <3> QED BY <1>2, <1>4, <2>1, <3>1, ReportFrame
  <2>2. ASSUME ~watching, ~closed PROVE NothingLeft'
    BY <1>3, <1>4, <2>2 DEF NothingLeft
  <2> QED BY <1>1, <1>4, <2>1, <2>2
<1>0. ASSUME UNCHANGED outVars
      PROVE  \A h \in File : \A c : Said(h, c) => Said(h, c)'
  BY <1>0, SaidKept
<1>5. ASSUME NEW f \in File, Write(f) PROVE ReportInv'
  <2>1. /\ UNCHANGED <<watching, closed, armed, orphans, fire, hashes, outVars>>
        /\ \A h \in File : h # f => disk'[h] = disk[h]
        /\ watching => notices' = Append(notices, <<f, "write">>)
        /\ ~watching => notices' = notices
    BY <1>5 DEF Write, Notify, TypeOK
  <2>2. ASSUME watching, NEW h \in File PROVE FileReported(h)'
    <3>1. /\ NoticeFor(f)' /\ LastIsWrite(f)'
          /\ NoticeFor(h) => NoticeFor(h)'
          /\ h # f /\ LastIsWrite(h) => LastIsWrite(h)'
      BY <2>1, <2>2, NoticeAppended
    <3>2. CASE h # f
      <4>1. \A k \in Fire : At(k, h)' <=> At(k, h)
        BY <2>1 DEF At
      <4>2. Due(h) => Due(h)'
        BY <2>1, <3>1 DEF Due
      <4> QED BY <1>0, <1>2, <2>1, <2>2, <3>1, <3>2, <4>1, <4>2, ReportFrame
    <3>3. CASE h = f
      <4>1. DiskReported(f)'
        BY <3>1 DEF DiskReported, Due
      <4>2. HashReported(f)' /\ PrevReported(f)'
        BY <1>0, <1>2, <2>1, <2>2 DEF FileReported, HashReported, PrevReported, At
      <4> QED BY <3>3, <4>1, <4>2 DEF FileReported
    <3> QED BY <3>2, <3>3
  <2>3. ASSUME ~watching, ~closed PROVE NothingLeft'
    BY <1>3, <2>1, <2>3 DEF NothingLeft
  <2> QED BY <1>1, <2>1, <2>2, <2>3
<1>6. ASSUME NEW f \in File, Delete(f) PROVE ReportInv'
  <2>1. /\ UNCHANGED <<watching, closed, armed, orphans, fire, hashes, outVars>>
        /\ \A h \in File : h # f => disk'[h] = disk[h]
        /\ disk'[f] = None
        /\ watching => notices' = Append(notices, <<f, "remove">>)
        /\ ~watching => notices' = notices
    BY <1>6 DEF Delete, Notify, TypeOK
  <2>2. ASSUME watching, NEW h \in File PROVE FileReported(h)'
    <3>1. /\ NoticeFor(h) => NoticeFor(h)'
          /\ h # f /\ LastIsWrite(h) => LastIsWrite(h)'
      BY <2>1, <2>2, NoticeAppended
    <3>2. CASE h # f
      <4>1. \A k \in Fire : At(k, h)' <=> At(k, h)
        BY <2>1 DEF At
      <4>2. Due(h) => Due(h)'
        BY <2>1, <3>1 DEF Due
      <4> QED BY <1>0, <1>2, <2>1, <2>2, <3>1, <3>2, <4>1, <4>2, ReportFrame
    <3>3. CASE h = f
      <4>1. DiskReported(f)'
        BY <2>1 DEF DiskReported
      <4>2. HashReported(f)' /\ PrevReported(f)'
        BY <1>0, <1>2, <2>1, <2>2 DEF FileReported, HashReported, PrevReported, At
      <4> QED BY <3>3, <4>1, <4>2 DEF FileReported
    <3> QED BY <3>2, <3>3
  <2>3. ASSUME ~watching, ~closed PROVE NothingLeft'
    BY <1>3, <2>1, <2>3 DEF NothingLeft
  <2> QED BY <1>1, <2>1, <2>2, <2>3
<1>7. CASE Schedule
  <2> DEFINE f == Head(notices)[1]
  <2>1. /\ UNCHANGED <<disk, watching, closed, orphans, fire, hashes, outVars>>
        /\ notices # <<>> /\ notices' = Tail(notices)
        /\ armed' = armed \cup {f}
    BY <1>7 DEF Schedule, LoopReady
  <2>2. ASSUME watching, NEW h \in File PROVE FileReported(h)'
    <3>1. /\ f # h /\ NoticeFor(h) => NoticeFor(h)'
          /\ LastIsWrite(h) => LastIsWrite(h)'
      BY <2>1, NoticeTaken
    <3>2. Due(h) => Due(h)'
      BY <2>1, <3>1 DEF Due
    <3>3. \A k \in Fire : At(k, h)' <=> At(k, h)
      BY <2>1 DEF At
    <3> QED BY <1>0, <1>2, <2>1, <2>2, <3>1, <3>2, <3>3, ReportFrame
  <2>3. ASSUME ~watching, ~closed PROVE NothingLeft'
    BY <1>3, <2>1, <2>3 DEF NothingLeft
  <2> QED BY <1>1, <2>1, <2>2, <2>3
<1>8. CASE Forget
  <2>0. PICK f \in File : f = Head(notices)[1]
    BY <1>8, HeadNotice DEF Forget, LoopReady
  <2>1. /\ UNCHANGED <<disk, watching, closed, orphans, fire, outVars>>
        /\ notices # <<>> /\ notices' = Tail(notices)
        /\ Head(notices)[2] = "remove"
        /\ armed' = armed \ {f}
        /\ hashes' = [hashes EXCEPT ![f] = None]
    BY <1>8, <2>0 DEF Forget, LoopReady
  <2>2. f \in File /\ Head(notices) = <<f, "remove">>
    BY <2>0, <2>1, HeadNotice
  <2>3. \A h \in File : hashes'[h] = IF h = f THEN None ELSE hashes[h]
    BY <2>1, <2>2 DEF TypeOK
  <2>4. ASSUME watching, NEW h \in File PROVE FileReported(h)'
    <3>1. /\ f # h /\ NoticeFor(h) => NoticeFor(h)'
          /\ LastIsWrite(h) => LastIsWrite(h)'
      BY <2>0, <2>1, NoticeTaken
    <3>2. LastIsWrite(f) => NoticeFor(f)' /\ LastIsWrite(f)'
      BY <2>1, <2>2, NoticeTaken
    <3>3. CASE h # f
      <4>1. Due(h) => Due(h)'
        BY <2>1, <3>1, <3>3 DEF Due
      <4>2. \A k \in Fire : At(k, h)' <=> At(k, h)
        BY <2>1 DEF At
      <4>3. hashes'[h] = hashes[h]
        BY <2>3, <3>3
      <4> QED BY <1>0, <1>2, <2>1, <2>4, <3>1, <4>1, <4>2, <4>3, ReportFrame
    <3>4. CASE h = f
      <4>1. \A c \in Content : disk[f] = c => LastIsWrite(f)
        BY <1>2, <2>2, <2>4 DEF FileReported, DiskReported
      <4>2. DiskReported(f)'
        BY <2>1, <3>2, <4>1 DEF DiskReported, Due
      <4>3. HashReported(f)'
        BY <2>2, <2>3 DEF HashReported
      <4>4. PrevReported(f)'
        BY <1>0, <1>2, <2>1, <2>2, <2>4 DEF FileReported, PrevReported, At
      <4> QED BY <3>4, <4>2, <4>3, <4>4 DEF FileReported
    <3> QED BY <3>3, <3>4
  <2>5. ASSUME ~watching, ~closed PROVE NothingLeft'
    BY <1>3, <2>1, <2>5 DEF NothingLeft
  <2> QED BY <1>1, <2>1, <2>4, <2>5
<1>9. ASSUME NEW f \in File, Expire(f) PROVE ReportInv'
  <2> DEFINE g == [file |-> f, stage |-> "begin", prev |-> None, data |-> None]
  <2>1. PICK i \in Fire : fire[i] = None /\ fire' = [fire EXCEPT ![i] = g]
    BY <1>9 DEF Expire, Spawn
  <2>2. /\ UNCHANGED <<disk, watching, closed, notices, hashes, outVars>>
        /\ armed \cup orphans \subseteq armed' \cup orphans' \cup {f}
        /\ f \in armed \cup orphans
        /\ Running(f) = {}
    BY <1>9 DEF Expire
  <2>3. g # None /\ g.file = f /\ g.stage = "begin"
    BY DEF Goroutine, Stages
  <2> HIDE DEF g
  <2>4. \A k \in Fire : fire'[k] = IF k = i THEN g ELSE fire[k]
    BY <2>1 DEF TypeOK
  <2>5. ASSUME watching, NEW h \in File PROVE FileReported(h)'
    <3>1. LastIsWrite(h) => LastIsWrite(h)'
      BY <2>2 DEF LastIsWrite
    <3>2. CASE h # f
      <4>1. Due(h) => Due(h)'
        BY <2>2, <3>2 DEF Due, NoticeFor
      <4>2. /\ \A k \in Fire : At(k, h)' <=> At(k, h)
            /\ \A k \in Fire : At(k, h) => fire'[k] = fire[k]
        BY <2>1, <2>3, <3>2, OtherFires
      <4> QED BY <1>0, <1>2, <2>2, <2>5, <3>1, <4>1, <4>2, ReportFrame
    <3>3. CASE h = f
      <4>1. \A k \in Fire : ~At(k, f)
        BY <2>2 DEF Running, At
      <4>2. /\ \A k \in Fire : At(k, f)' => k = i
            /\ At(i, f)' /\ fire'[i].stage = "begin"
        BY <2>3, <2>4, <4>1 DEF At
      <4>3. DiskReported(f)'
        BY <1>0, <1>2, <2>2, <2>5, <3>1, <3>3, <4>2
        DEF FileReported, DiskReported, WillReport
      <4>4. HashReported(f)'
        BY <1>0, <1>2, <2>2, <2>5, <4>1 DEF FileReported, HashReported
      <4>5. PrevReported(f)'
        BY <4>2 DEF PrevReported
      <4> QED BY <3>3, <4>3, <4>4, <4>5 DEF FileReported
    <3> QED BY <3>2, <3>3
  <2>6. ASSUME ~watching, ~closed PROVE FALSE
    BY <1>3, <2>2, <2>6 DEF NothingLeft
  <2> QED BY <1>1, <2>2, <2>5, <2>6
<1>10. ASSUME NEW i \in Fire, Begin(i) PROVE ReportInv'
  <2>0. PICK f \in File : f = fire[i].file
    BY <1>10, FireType DEF Begin
  <2> DEFINE g == [fire[i] EXCEPT !.stage = "read", !.prev = hashes[f]]
  <2>1. /\ UNCHANGED <<disk, watching, closed, notices, hashes, outVars>>
        /\ armed' \cup orphans' = armed \cup orphans
        /\ fire[i] # None /\ fire[i].stage = "begin"
        /\ fire' = [fire EXCEPT ![i] = g]
    BY <1>10, <2>0 DEF Begin, Advance
  <2>2. f \in File /\ At(i, f)
    BY <2>0, <2>1 DEF At
  <2>3. g # None /\ g.file = f /\ g.stage = "read" /\ g.prev = hashes[f]
    <3>1. fire[i] \in Goroutine /\ hashes[f] \in Content \cup {None}
      BY <2>0, <2>1, FireType DEF TypeOK
    <3>2. g \in Goroutine
      BY <3>1 DEF Goroutine, Stages
    <3> QED BY <2>0, <3>1, <3>2 DEF Goroutine
  <2> HIDE DEF g
  <2>4. ASSUME watching, NEW h \in File PROVE FileReported(h)'
    <3>1. /\ LastIsWrite(h) => LastIsWrite(h)'
          /\ Due(h) => Due(h)'
      BY <2>1 DEF LastIsWrite, Due, NoticeFor
    <3>2. CASE h # f
      <4>1. /\ \A k \in Fire : At(k, h)' <=> At(k, h)
            /\ \A k \in Fire : At(k, h) => fire'[k] = fire[k]
        BY <2>1, <2>2, <2>3, <3>2, OtherFires DEF At
      <4> QED BY <1>0, <1>2, <2>1, <2>4, <3>1, <4>1, ReportFrame
    <3>3. CASE h = f
      <4>1. /\ \A k \in Fire : At(k, f) => k = i
            /\ \A k \in Fire : At(k, f)' => k = i
            /\ fire'[i] = g
        BY <2>1, <2>2, OnlyFire
      <4>2. At(i, f)'
        BY <2>3, <4>1 DEF At
      <4>3. DiskReported(f)'
        BY <1>0, <1>2, <2>1, <2>2, <2>3, <2>4, <3>1, <3>3, <4>1, <4>2
        DEF FileReported, DiskReported, WillReport
      <4>4. \A c \in Content : hashes[f] = c => Said(f, c)
        BY <1>0, <1>2, <2>1, <2>2, <2>4, <4>1 DEF FileReported, HashReported
      <4>5. HashReported(f)'
        BY <1>0, <2>1, <4>4 DEF HashReported
      <4>6. PrevReported(f)'
        BY <1>0, <2>1, <2>3, <4>1, <4>4 DEF PrevReported
      <4> QED BY <3>3, <4>3, <4>5, <4>6 DEF FileReported
    <3> QED BY <3>2, <3>3
  <2>5. ASSUME ~watching, ~closed PROVE FALSE
    BY <1>3, <2>1, <2>5 DEF NothingLeft
  <2> QED BY <1>1, <2>1, <2>4, <2>5
<1>11. ASSUME NEW i \in Fire, Read(i) PROVE ReportInv'
  <2>0. PICK f \in File : f = fire[i].file
    BY <1>11, FireType DEF Read
  <2> DEFINE g == [fire[i] EXCEPT !.stage = "store", !.data = disk[f]]
             r == IF disk[f] \in {None, fire[i].prev} THEN None ELSE g
  <2>1. /\ UNCHANGED <<disk, watching, closed, notices, armed, orphans, hashes,
                       outVars>>
        /\ fire[i] # None /\ fire[i].stage = "read"
        /\ fire' = [fire EXCEPT ![i] = r]
    BY <1>11, <2>0 DEF Read, Advance
  <2>2. f \in File /\ At(i, f)
    BY <2>0, <2>1 DEF At
  <2>3. g # None /\ g.file = f /\ g.stage = "store" /\ g.data = disk[f]
    <3>1. fire[i] \in Goroutine /\ disk[f] \in Content \cup {None}
      BY <2>0, <2>1, FireType DEF TypeOK
    <3>2. g \in Goroutine
      BY <3>1 DEF Goroutine, Stages
    <3> QED BY <2>0, <3>1, <3>2 DEF Goroutine
  <2>4. \/ r = None /\ disk[f] = None
        \/ r = None /\ fire[i].prev # None /\ disk[f] = fire[i].prev
        \/ r = g
    OBVIOUS
  <2> HIDE DEF r, g
  <2>5. ASSUME watching, NEW h \in File PROVE FileReported(h)'
    <3>1. /\ LastIsWrite(h) => LastIsWrite(h)'
          /\ Due(h) => Due(h)'
      BY <2>1 DEF LastIsWrite, Due, NoticeFor
    <3>2. CASE h # f
      <4>1. /\ \A k \in Fire : At(k, h)' <=> At(k, h)
            /\ \A k \in Fire : At(k, h) => fire'[k] = fire[k]
        BY <2>1, <2>2, <2>3, <2>4, <3>2, OtherFires DEF At
      <4> QED BY <1>0, <1>2, <2>1, <2>5, <3>1, <4>1, ReportFrame
    <3>3. CASE h = f
      <4>1. /\ \A k \in Fire : At(k, f) => k = i
            /\ \A k \in Fire : At(k, f)' => k = i
            /\ fire'[i] = r
        BY <2>1, <2>2, OnlyFire
      <4>2. ASSUME NEW c \in Content, disk[f] = c
            PROVE  Said(f, c) \/ WillReport(f)'
        <5>1. CASE fire[i].prev # None /\ disk[f] = fire[i].prev
          BY <1>2, <2>1, <2>2, <2>5, <4>2, <5>1 DEF FileReported, PrevReported
        <5>2. CASE r = g
          <6>1. At(i, f)' /\ fire'[i].data = disk'[f]
            BY <2>1, <2>3, <4>1, <5>2 DEF At
          <6> QED BY <6>1 DEF WillReport
        <5> QED BY <2>4, <4>2, <5>1, <5>2
      <4>3. \A k \in Fire : At(k, f)' => fire'[k].stage = "store"
                                         /\ fire'[k].data = disk[f]
        BY <2>3, <2>4, <4>1 DEF At
      <4>4. DiskReported(f)'
        BY <1>0, <1>2, <2>1, <2>2, <2>5, <3>1, <3>3, <4>2, <4>3
        DEF FileReported, DiskReported
      <4>5. \A c \in Content : hashes[f] = c => Said(f, c)
        BY <1>0, <1>2, <2>1, <2>2, <2>5, <4>1 DEF FileReported, HashReported
      <4>6. HashReported(f)'
        BY <1>0, <2>1, <4>5 DEF HashReported
      <4>7. PrevReported(f)'
        BY <4>3 DEF PrevReported
      <4> QED BY <3>3, <4>4, <4>6, <4>7 DEF FileReported
    <3> QED BY <3>2, <3>3
  <2>6. ASSUME ~watching, ~closed PROVE FALSE
    BY <1>3, <2>1, <2>6 DEF NothingLeft
  <2> QED BY <1>1, <2>1, <2>5, <2>6
<1>12. ASSUME NEW i \in Fire, Store(i) PROVE ReportInv'
  <2>0. PICK f \in File : f = fire[i].file
    BY <1>12, FireType DEF Store
  <2> DEFINE g == [fire[i] EXCEPT !.stage = "emit"]
  <2>1. /\ UNCHANGED <<disk, watching, closed, notices, armed, orphans, outVars>>
        /\ fire[i] # None /\ fire[i].stage = "store"
        /\ fire' = [fire EXCEPT ![i] = g]
        /\ hashes' = [hashes EXCEPT ![f] = fire[i].data]
    BY <1>12, <2>0 DEF Store, Advance
  <2>2. f \in File /\ At(i, f)
    BY <2>0, <2>1 DEF At
  <2>3. g # None /\ g.file = f /\ g.stage = "emit" /\ g.data = fire[i].data
    <3>1. fire[i] \in Goroutine /\ "emit" \in Stages
      BY <2>1, FireType DEF Stages
    <3>2. /\ g \in Goroutine
          /\ g.file = fire[i].file /\ g.stage = "emit" /\ g.data = fire[i].data
      BY ONLY <3>1 DEF Goroutine
    <3> QED BY ONLY <3>2, <2>0, WatchAssumption
  <2> HIDE DEF g
  <2>4. \A h \in File : hashes'[h] = IF h = f THEN fire[i].data ELSE hashes[h]
    BY <2>1, <2>2 DEF TypeOK
  <2>5. ASSUME watching, NEW h \in File PROVE FileReported(h)'
    <3>1. /\ LastIsWrite(h) => LastIsWrite(h)'
          /\ Due(h) => Due(h)'
      BY <2>1 DEF LastIsWrite, Due, NoticeFor
    <3>2. CASE h # f
      <4>1. /\ \A k \in Fire : At(k, h)' <=> At(k, h)
            /\ \A k \in Fire : At(k, h) => fire'[k] = fire[k]
        BY <2>1, <2>2, <2>3, <3>2, OtherFires DEF At
      <4>2. hashes'[h] = hashes[h]
        BY <2>4, <3>2
      <4> QED BY <1>0, <1>2, <2>1, <2>5, <3>1, <4>1, <4>2, ReportFrame
    <3>3. CASE h = f
      <4>1. /\ \A k \in Fire : At(k, f) => k = i
            /\ \A k \in Fire : At(k, f)' => k = i
            /\ fire'[i] = g
        BY <2>1, <2>2, OnlyFire
      <4>2. At(i, f)'
        BY <2>3, <4>1 DEF At
      <4>3. ASSUME NEW c \in Content, disk[f] = c
            PROVE  /\ Said(f, c) \/ Due(f) \/ fire[i].data = c
                   /\ fire[i].data = c \/ Due(f)
        BY <1>0, <1>2, <2>1, <2>2, <2>5, <4>1, <4>3
        DEF FileReported, DiskReported, WillReport
      <4>4. fire[i].data = disk[f] => WillReport(f)'
        BY <2>1, <2>3, <4>1, <4>2 DEF WillReport
      <4>5. DiskReported(f)'
        BY <1>0, <1>2, <2>1, <2>2, <2>3, <2>5, <3>1, <3>3, <4>1, <4>3, <4>4
        DEF FileReported, DiskReported
      <4>6. HashReported(f)'
        BY <2>2, <2>3, <2>4, <4>1, <4>2 DEF HashReported
      <4>7. PrevReported(f)'
        BY <2>3, <4>1 DEF PrevReported
      <4> QED BY <3>3, <4>5, <4>6, <4>7 DEF FileReported
    <3> QED BY <3>2, <3>3
  <2>6. ASSUME ~watching, ~closed PROVE FALSE
    BY <1>3, <2>1, <2>6 DEF NothingLeft
  <2> QED BY <1>1, <2>1, <2>5, <2>6
<1>13. ASSUME NEW i \in Fire, Emit(i) PROVE ReportInv'
  <2>0. PICK f \in File : f = fire[i].file
    BY <1>13, FireType DEF Emit
  <2>1. /\ UNCHANGED <<disk, watching, closed, notices, armed, orphans, hashes>>
        /\ fire[i] # None /\ fire[i].stage = "emit"
        /\ fire' = [fire EXCEPT ![i] = None]
    BY <1>13, <2>0 DEF Emit, Advance
  <2>2. f \in File /\ At(i, f)
    BY <2>0, <2>1 DEF At
  <2>3. fire[i].data # None
    BY <2>1 DEF TypeOK
  <2>4. watching => Put(f, fire[i].data)
    BY <1>2, <1>13, <2>0 DEF Emit
  <2>5. hashes[f] \in {fire[i].data, None}
    BY <2>0, <2>1 DEF DedupInv, HashKnown
  <2>6. ASSUME watching, NEW h \in File PROVE FileReported(h)'
    <3>1. /\ LastIsWrite(h) => LastIsWrite(h)'
          /\ Due(h) => Due(h)'
      BY <2>1 DEF LastIsWrite, Due, NoticeFor
    <3>0. PICK data \in Content : data = fire[i].data
      BY <2>1, <2>3, FireType
    <3>2. /\ Said(f, data)'
          /\ h # f => \A c : Said(h, c) => Said(h, c)'
      BY <2>2, <2>3, <2>4, <2>6, <3>0, PutSaid
    <3>3. CASE h # f
      <4>1. /\ \A k \in Fire : At(k, h)' <=> At(k, h)
            /\ \A k \in Fire : At(k, h) => fire'[k] = fire[k]
        BY <2>1, <2>2, <3>3, OtherFires DEF At
      <4> QED BY <1>0, <1>2, <2>1, <2>6, <3>1, <3>2, <3>3, <4>1, ReportFrame
    <3>4. CASE h = f
      <4>1. \A k \in Fire : ~At(k, f)'
        <5>1. fire'[i] = None /\ \A k \in Fire : At(k, f)' => k = i
          BY <2>1, <2>2, OnlyFire
        <5> QED BY <5>1 DEF At
      <4>2. \A c \in Content : disk[f] = c =>
              LastIsWrite(f) /\ (data = c \/ Due(f))
        BY <3>0, <1>0, <1>2, <2>1, <2>2, <2>6 DEF FileReported, DiskReported
      <4>3. DiskReported(f)'
        BY <1>0, <1>2, <2>1, <2>2, <2>6, <3>1, <3>2, <3>4, <4>1, <4>2
        DEF FileReported, DiskReported
      <4>4. HashReported(f)'
        BY <2>1, <2>5, <3>0, <3>2, <3>4 DEF HashReported
      <4>5. PrevReported(f)'
        BY <4>1 DEF PrevReported
      <4> QED BY <3>4, <4>3, <4>4, <4>5 DEF FileReported
    <3> QED BY <3>3, <3>4
  <2>7. ASSUME ~watching, ~closed PROVE FALSE
    BY <1>3, <2>1, <2>7 DEF NothingLeft
  <2> QED BY <1>1, <2>1, <2>6, <2>7
<1>14. CASE Remove
  BY <1>14 DEF Remove, ReportInv, NothingLeft
<1>15. CASE Add
  <2>1. /\ NothingLeft /\ ~closed /\ watching' = TRUE
        /\ UNCHANGED <<disk, closed, notices, fire, hashes, events>>
        /\ \A h \in File : disk[h] # None => reported'[h] = disk[h]
        /\ stale' = {h \in File : Queued(h) # {}}
    BY <1>3, <1>15 DEF Add
  <2>2. ASSUME NEW h \in File PROVE FileReported(h)'
    <3>1. Len(notices') = 0
      BY <2>1 DEF NothingLeft
    <3>2. \A k \in Fire : ~At(k, h)'
      BY <2>1 DEF NothingLeft, At
    <3>4. \A c \in Content : disk[h] = c => Said(h, c)'
      BY <2>1 DEF Said, Queued
    <3>3. DiskReported(h)'
      BY <2>1, <3>1, <3>2, <3>4 DEF DiskReported, LastIsWrite
    <3> QED BY <2>1, <3>2, <3>3
        DEF NothingLeft, FileReported, HashReported, PrevReported
  <2> QED BY <2>1, <2>2 DEF ReportInv
<1>16. CASE Close
  BY <1>16 DEF Close, ReportInv
<1> QED
  <2>1. CASE UNCHANGED vars
    BY <1>0, <1>4, <2>1 DEF vars
  <2>2. CASE ReportRemoval
    <3>1. removing \in File
      BY <2>2 DEF ReportRemoval, TypeOK
    <3>2. ASSUME NEW h \in File, NEW c, Said(h, c) PROVE Said(h, c)'
      <4>1. Put(removing, None) \/ UNCHANGED outVars
        BY <2>2 DEF ReportRemoval
      <4> QED BY <1>0, <3>1, <3>2, <4>1, PutSaid
    <3> QED BY <1>4, <2>2, <3>2 DEF ReportRemoval
  <2>3. CASE Take
    BY <1>4, <2>3, TakeSaid DEF Take
  <2> QED
    BY <1>5, <1>6, <1>7, <1>8, <1>9, <1>10, <1>11, <1>12, <1>13, <1>14, <1>15,
       <1>16, <2>1, <2>2, <2>3 DEF Next, LoopStep, FireStep

\* When fires do not overlap and nothing is in flight during Remove, the last
\* report of a watched file is what the file holds, for any number of files,
\* changes and goroutines and any capacity of the channel.
THEOREM ReportsCurrent ==
  ASSUME Timing = {}
  PROVE  Spec => []LastReportCurrent
<1>1. Init => DedupInv /\ ReportInv
  <2> SUFFICES ASSUME Init PROVE DedupInv /\ ReportInv
    OBVIOUS
  <2>1. /\ \A i \in Fire : fire[i] = None
        /\ \A f \in File : hashes[f] = None
        /\ notices = <<>> /\ reported = disk /\ events = <<>> /\ ~closed
    BY DEF Init
  <2>2. \A i \in Fire, f \in File : ~At(i, f)
    BY <2>1 DEF At
  <2>3. \A f \in File : FileReported(f)
    <3>1. Len(notices) = 0
      BY <2>1
    <3> SUFFICES ASSUME NEW f \in File PROVE FileReported(f)
      OBVIOUS
    <3>2. LastIsWrite(f)
      BY <3>1 DEF LastIsWrite
    <3>3. DiskReported(f)
      BY <2>1, <2>2, <3>2 DEF DiskReported, Said, Queued
    <3>4. HashReported(f) /\ PrevReported(f)
      BY <2>1, <2>2 DEF HashReported, PrevReported
    <3> QED BY <3>3, <3>4 DEF FileReported
  <2>4. watching
    BY DEF Init
  <2> QED BY <2>1, <2>2, <2>3, <2>4 DEF DedupInv, OneFirePerFile, ReportInv
<1>2. TypeOK /\ DedupInv /\ ReportInv /\ [Next]_vars => DedupInv' /\ ReportInv'
  BY DedupNext, ReportNext
<1>3. TypeOK /\ ReportInv => LastReportCurrent
  <2> SUFFICES ASSUME TypeOK, ReportInv, NEW f \in File,
                      watching, Settled(f), disk[f] # None, f \notin stale
               PROVE  reported[f] = disk[f]
    BY DEF LastReportCurrent
  <2>1. \A i \in Fire : ~At(i, f)
    BY DEF Settled, Running, At
  <2>2. ~Due(f)
    BY DEF Settled, Due, NoticeFor
  <2>3. disk[f] \in Content /\ Queued(f) = {}
    BY DEF Settled, TypeOK
  <2> QED BY <2>1, <2>2, <2>3
      DEF ReportInv, FileReported, DiskReported, WillReport, Said
<1> QED BY <1>1, <1>2, <1>3, WatcherTypeCorrect, PTL DEF Spec
=============================================================================
