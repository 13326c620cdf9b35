------------------------- MODULE PeriodicLogProofs -------------------------
(***************************************************************************)
(* Theorems about the write-ahead log for every set of records and every   *)
(* bound.  The key is the lemma AuthoritySteps: however the process is     *)
(* interrupted, the file the next open() would read changes in four ways   *)
(* only.                                                                   *)
(***************************************************************************)
EXTENDS PeriodicLog, SequenceTheorems, TLAPS

-----------------------------------------------------------------------------
(* Sequences: how the buffer of the writer and its file make up what the
   recovery has copied. *)

(* Moving the first buffered entry to the file leaves their concatenation. *)
LEMMA SpillOne ==
  ASSUME NEW S, NEW w \in Seq(S), NEW b \in Seq(S), b # <<>>
  PROVE  Append(w, Head(b)) \o Tail(b) = w \o b
<1>1. Head(b) \in S /\ Tail(b) \in Seq(S) /\ Len(Tail(b)) = Len(b) - 1
      /\ \A i \in 1..Len(Tail(b)) : Tail(b)[i] = b[i+1]
  BY HeadTailProperties
<1>2. Head(b) = b[1]
  OBVIOUS
<1>3. Len(b) \in Nat \ {0} /\ Len(w) \in Nat
  BY EmptySeq, LenProperties
<1> DEFINE l == Append(w, Head(b))
<1>4. l \in Seq(S) /\ Len(l) = Len(w) + 1 /\ l[Len(w) + 1] = Head(b)
      /\ \A i \in 1..Len(w) : l[i] = w[i]
  BY <1>1, AppendProperties
<1> HIDE DEF l
<1>5. l \o Tail(b) \in Seq(S) /\ Len(l \o Tail(b)) = Len(w) + Len(b)
      /\ \A i \in 1..(Len(w) + Len(b)) :
            (l \o Tail(b))[i] = IF i <= Len(l) THEN l[i] ELSE Tail(b)[i - Len(l)]
  <2>1. l \o Tail(b) \in Seq(S) /\ Len(l \o Tail(b)) = Len(l) + Len(Tail(b))
        /\ \A i \in 1..(Len(l) + Len(Tail(b))) :
            (l \o Tail(b))[i] = IF i <= Len(l) THEN l[i] ELSE Tail(b)[i - Len(l)]
    BY <1>1, <1>4, ConcatProperties
  <2>2. Len(l) + Len(Tail(b)) = Len(w) + Len(b)
    BY <1>1, <1>3, <1>4
  <2> QED BY <2>1, <2>2
<1>6. w \o b \in Seq(S) /\ Len(w \o b) = Len(w) + Len(b)
      /\ \A i \in 1..(Len(w) + Len(b)) :
            (w \o b)[i] = IF i <= Len(w) THEN w[i] ELSE b[i - Len(w)]
  BY ConcatProperties
<1>7. ASSUME NEW i \in 1..(Len(w) + Len(b))
      PROVE  (l \o Tail(b))[i] = (w \o b)[i]
  <2>1. CASE i <= Len(w)
    BY <2>1, <1>3, <1>4, <1>5, <1>6
  <2>2. CASE i = Len(w) + 1
    BY <2>2, <1>2, <1>3, <1>4, <1>5, <1>6
  <2>3. CASE i > Len(w) + 1
    <3>1. i - Len(l) \in 1..Len(Tail(b)) /\ (i - Len(l)) + 1 = i - Len(w)
      BY <2>3, <1>1, <1>3, <1>4
    <3>2. Tail(b)[i - Len(l)] = b[i - Len(w)]
      BY <3>1, <1>1
    <3> QED BY <3>2, <2>3, <1>3, <1>4, <1>5, <1>6
  <2>4. i <= Len(w) \/ i = Len(w) + 1 \/ i > Len(w) + 1
    BY <1>3
  <2> QED BY <2>1, <2>2, <2>3, <2>4, Zenon
<1>8. QED
  BY <1>5, <1>6, <1>7, SeqEqual

(* Concatenation is associative, as the library states it. *)
LEMMA Associative ==
  ASSUME NEW S, NEW x \in Seq(S), NEW y \in Seq(S), NEW z \in Seq(S)
  PROVE  (x \o y) \o z = x \o (y \o z)
<1>1. QED
  BY ConcatAssociative, SMTT(20)

(* Buffering one more entry appends it to what file and buffer make up. *)
LEMMA BufferOne ==
  ASSUME NEW S, NEW w \in Seq(S), NEW b \in Seq(S), NEW e \in S
  PROVE  w \o Append(b, e) = (w \o b) \o <<e>>
<1>1. Append(b, e) = b \o <<e>>
  BY AppendIsConcat
<1> DEFINE t == <<e>>
<1>2. t \in Seq(S)
  OBVIOUS
<1> HIDE DEF t
<1>3. (w \o b) \o t = w \o (b \o t)
  BY <1>2, Associative, SMTT(20)
<1> QED BY <1>1, <1>3 DEF t

(* Reading one more entry into the buffer extends the prefix read so far. *)
LEMMA ReadOne ==
  ASSUME NEW S, NEW w \in Seq(S), NEW b \in Seq(S), NEW s \in Seq(S),
         NEW p \in 1..Len(s)
  PROVE  w \o b = SubSeq(s, 1, p - 1) => w \o Append(b, s[p]) = SubSeq(s, 1, p)
<1>1. s[p] \in S /\ Len(s) \in Nat
  BY ElementOfSeq, LenProperties
<1>2. \A e \in S : w \o Append(b, e) = (w \o b) \o <<e>>
  BY BufferOne, SMTT(20)
<1>3. 1 \in 1..Len(s) /\ p \in 1..Len(s)
  BY <1>1
<1>4. SubSeq(s, 1, p) = SubSeq(s, 1, p - 1) \o <<s[p]>>
  BY <1>3, SubSeqRecursiveSecond
<1> QED
  BY <1>1, <1>2, <1>4

-----------------------------------------------------------------------------
(* Files. *)

(* Appending adds one value to those a file holds. *)
LEMMA RecordsOfAppend ==
  ASSUME NEW f \in Seq(Entry), NEW e \in Entry
  PROVE  RecordsOf(Append(f, e)) = RecordsOf(f) \cup ({e} \cap Records)
<1>1. Len(f) \in Nat /\ DOMAIN f = 1..Len(f)
  BY LenProperties
<1>2. Append(f, e) \in Seq(Entry) /\ Len(Append(f, e)) = Len(f) + 1
      /\ (\A i \in 1..Len(f) : Append(f, e)[i] = f[i])
      /\ Append(f, e)[Len(f) + 1] = e
  BY AppendProperties
<1>3. DOMAIN Append(f, e) = 1..(Len(f) + 1)
  BY <1>2, LenProperties
<1>4. {Append(f, e)[i] : i \in 1..(Len(f) + 1)} = {f[i] : i \in 1..Len(f)} \cup {e}
  BY <1>1, <1>2
<1> QED
  BY <1>1, <1>3, <1>4 DEF RecordsOf

(* An empty file holds no record. *)
LEMMA RecordsOfEmpty == RecordsOf(<<>>) = {}
BY DEF RecordsOf
-----------------------------------------------------------------------------
(* The state keeps its type. *)
LEMMA InitType == Init => TypeOK
<1> SUFFICES ASSUME Init PROVE TypeOK
  OBVIOUS
<1>1. <<>> \in Seq(Entry)
  BY EmptySeq
<1>2. DOMAIN logs = {}
  BY DEF Init
<1>3. crashes \in 0..MaxCrashes /\ faults \in 0..MaxFaults
  BY BoundsAssumption DEF Init
<1>4. pc \in PC
  BY DEF Init, PC
<1>5. \A n \in DOMAIN logs : logs[n] \in Seq(Entry)
  BY <1>2
<1>6. writing \in Seq(Entry) /\ recovering \in Seq(Entry) /\ buf \in Seq(Entry)
  BY <1>1 DEF Init
<1>7. lastCounter \in Nat /\ pos \in Nat \ {0}
  BY DEF Init
<1>10. damaged \in BOOLEAN
  BY DEF Init
<1>8. DOMAIN logs \subseteq Nat /\ own \subseteq DOMAIN logs
  BY <1>2 DEF Init
<1>9. exists \subseteq {"writing", "recovering"}
      /\ applied \subseteq Records /\ rolled \subseteq Records /\ acked \subseteq Records
  BY DEF Init
<1> QED
  BY <1>3, <1>4, <1>5, <1>6, <1>7, <1>8, <1>9, <1>10 DEF TypeOK

(* The steps of open() before the recovery keep the types. *)
LEMMA OpenType == TypeOK /\ Open => TypeOK'
<1> SUFFICES ASSUME TypeOK, Open PROVE TypeOK'
  OBVIOUS
<1> USE DEF TypeOK, PC, disk, memory, history
<1>1. CASE OpenRetry
  BY <1>1 DEF OpenRetry, StartProcess
<1>2. CASE OpenFresh
  BY <1>2 DEF OpenFresh, StartProcess
<1>3. CASE OpenHeader
  <2>1. writing' \in Seq(Entry)
    BY <1>3, AppendProperties DEF OpenHeader, Entry
  <2> QED BY <1>3, <2>1 DEF OpenHeader
<1>4. CASE OpenRename
  BY <1>4 DEF OpenRename, StartProcess
<1>5. CASE OpenCreate
  BY <1>5 DEF OpenCreate
<1> QED
  BY <1>1, <1>2, <1>3, <1>4, <1>5 DEF Open

(* The steps of recovery() keep the types. *)
LEMMA RecoveryType == TypeOK /\ Recovery => TypeOK'
<1> SUFFICES ASSUME TypeOK, Recovery PROVE TypeOK'
  OBVIOUS
<1> USE DEF TypeOK, PC, disk, memory, history
<1>1. CASE Copy
  <2>1. pos \in 1..Len(recovering)
    BY <1>1, LenProperties DEF Copy
  <2>2. recovering[pos] \in Entry
    BY <2>1, ElementOfSeq
  <2>3. buf' \in Seq(Entry)
    BY <1>1, <2>2, AppendProperties DEF Copy
  <2>4. lastCounter' \in Nat
    BY <1>1 DEF Copy, atoi
  <2>5. applied' \subseteq Records
    BY <1>1 DEF Copy
  <2> QED BY <1>1, <2>3, <2>4, <2>5 DEF Copy
<1>2. CASE CopyEnd
  BY <1>2 DEF CopyEnd
<1>3. CASE CopyReadFails
  BY <1>3, BoundsAssumption DEF CopyReadFails, Fault
<1>4. CASE Flush
  <2>1. writing' \in Seq(Entry)
    BY <1>4, ConcatProperties DEF Flush
  <2> QED BY <1>4, <2>1 DEF Flush
<1>5. CASE FlushFails
  BY <1>5, BoundsAssumption DEF FlushFails, Fault
<1>6. CASE Remove
  BY <1>6 DEF Remove
<1>7. CASE RemoveFails
  BY <1>7, BoundsAssumption DEF RemoveFails, Fault
<1> QED
  BY <1>1, <1>2, <1>3, <1>4, <1>5, <1>6, <1>7 DEF Recovery

(* The steps of rollover() keep the types. *)
LEMMA RolloverType == TypeOK /\ Rollover => TypeOK'
<1> SUFFICES ASSUME TypeOK, Rollover PROVE TypeOK'
  OBVIOUS
<1> USE DEF TypeOK, PC, disk, memory, history
<1>1. CASE RollRename
  <2>1. DOMAIN logs' = DOMAIN logs \cup {lastCounter}
    BY <1>1 DEF RollRename
  <2>2. \A n \in DOMAIN logs' : logs'[n] \in Seq(Entry)
    BY <1>1, <2>1 DEF RollRename
  <2>3. rolled' \subseteq Records
    BY <1>1 DEF RollRename, RecordsOf
  <2> QED BY <1>1, <2>1, <2>2, <2>3 DEF RollRename
<1>2. CASE RollRenameFails
  BY <1>2, BoundsAssumption DEF RollRenameFails, Fault
<1>3. CASE RollCreate
  BY <1>3 DEF RollCreate
<1>4. CASE RollCreateFails
  BY <1>4, BoundsAssumption DEF RollCreateFails, Fault
<1>5. CASE RollHeader
  <2>1. writing' \in Seq(Entry)
    BY <1>5, AppendProperties DEF RollHeader, Entry
  <2> QED BY <1>5, <2>1 DEF RollHeader
<1>6. CASE RollHeaderFails
  BY <1>6, BoundsAssumption DEF RollHeaderFails, Fault
<1> QED
  BY <1>1, <1>2, <1>3, <1>4, <1>5, <1>6 DEF Rollover

(* A write, its failure and a death keep the types. *)
LEMMA OtherType ==
  ASSUME TypeOK, Spill \/ Crash \/ (\E r \in Records : Write(r) \/ WriteFails(r))
  PROVE  TypeOK'
<1> USE DEF TypeOK, PC, disk, memory, history
<1>1. CASE Spill
  <2>1. Head(buf) \in Entry /\ buf' \in Seq(Entry)
    BY <1>1, HeadTailProperties DEF Spill
  <2>2. writing' \in Seq(Entry)
    BY <1>1, <2>1, AppendProperties DEF Spill
  <2> QED BY <1>1, <2>1, <2>2 DEF Spill
<1>2. CASE Crash
  BY <1>2, BoundsAssumption DEF Crash
<1>3. ASSUME NEW r \in Records, Write(r) PROVE TypeOK'
  <2>1. writing' \in Seq(Entry)
    BY <1>3, AppendProperties DEF Write, Entry
  <2> QED BY <1>3, <2>1 DEF Write
<1>4. ASSUME NEW r \in Records, WriteFails(r) PROVE TypeOK'
  BY <1>4, BoundsAssumption DEF WriteFails, Fault
<1> QED
  BY <1>1, <1>2, <1>3, <1>4

(* Every step keeps the types. *)
LEMMA NextType == TypeOK /\ [Next]_vars => TypeOK'
<1> SUFFICES ASSUME TypeOK, [Next]_vars PROVE TypeOK'
  OBVIOUS
<1>1. CASE UNCHANGED vars
  BY <1>1 DEF TypeOK, vars, disk, memory, history
<1> QED
  BY <1>1, OpenType, RecoveryType, RolloverType, OtherType DEF Next

(* Every variable of the log keeps its type. *)
THEOREM TypeCorrect == Spec => []TypeOK
<1>1. QED
  BY InitType, NextType, PTL DEF Spec
-----------------------------------------------------------------------------
(* What the directory holds at each system call, and how far the numbers of
   the process's own logs go. *)
LEMMA DirectoryStep == TypeOK /\ Directory /\ [Next]_vars => Directory'
<1> SUFFICES ASSUME TypeOK, Directory, [Next]_vars PROVE Directory'
  OBVIOUS
<1> USE DEF Directory, disk, memory, history
<1>1. CASE Open
  <2>1. CASE OpenRetry
    BY <2>1 DEF OpenRetry, StartProcess, TypeOK
  <2>2. CASE OpenFresh
    BY <2>2 DEF OpenFresh, StartProcess
  <2>3. CASE OpenHeader
    BY <2>3 DEF OpenHeader
  <2>4. CASE OpenRename
    BY <2>4 DEF OpenRename, StartProcess
  <2>5. CASE OpenCreate
    BY <2>5 DEF OpenCreate
  <2> QED BY <1>1, <2>1, <2>2, <2>3, <2>4, <2>5 DEF Open
<1>2. CASE Recovery
  <2>1. CASE Copy
    BY <2>1 DEF Copy
  <2>2. CASE CopyEnd
    BY <2>2 DEF CopyEnd
  <2>3. CASE CopyReadFails
    BY <2>3 DEF CopyReadFails
  <2>4. CASE Flush
    BY <2>4 DEF Flush
  <2>5. CASE FlushFails
    BY <2>5 DEF FlushFails
  <2>6. CASE Remove
    BY <2>6 DEF Remove
  <2>7. CASE RemoveFails
    BY <2>7 DEF RemoveFails
  <2> QED BY <1>2, <2>1, <2>2, <2>3, <2>4, <2>5, <2>6, <2>7 DEF Recovery
<1>3. CASE Spill
  BY <1>3 DEF Spill
<1>4. CASE Rollover
  <2>1. CASE RollRename
    BY <2>1 DEF RollRename
  <2>2. CASE RollRenameFails
    BY <2>2 DEF RollRenameFails
  <2>3. CASE RollCreate
    BY <2>3 DEF RollCreate
  <2>4. CASE RollCreateFails
    BY <2>4 DEF RollCreateFails
  <2>5. CASE RollHeader
    BY <2>5 DEF RollHeader
  <2>6. CASE RollHeaderFails
    BY <2>6 DEF RollHeaderFails
  <2> QED BY <1>4, <2>1, <2>2, <2>3, <2>4, <2>5, <2>6 DEF Rollover
<1>5. CASE Crash
  BY <1>5 DEF Crash
<1>6. ASSUME NEW r \in Records, Write(r) PROVE Directory'
  BY <1>6 DEF Write
<1>7. CASE UNCHANGED vars
  BY <1>7 DEF vars
<1>8. ASSUME NEW r \in Records, WriteFails(r) PROVE Directory'
  BY <1>8 DEF WriteFails
<1> QED
  BY <1>1, <1>2, <1>3, <1>4, <1>5, <1>6, <1>7, <1>8 DEF Next

(* No step puts the counter at or below a log this process has rolled. *)
LEMMA OwnBelowStep ==
  TypeOK /\ Directory /\ OwnBelow /\ [Next]_vars => OwnBelow'
<1> SUFFICES ASSUME TypeOK, Directory, OwnBelow, [Next]_vars PROVE OwnBelow'
  OBVIOUS
<1> USE DEF OwnBelow, disk, memory, history
<1>1. own \subseteq Nat /\ lastCounter \in Nat
  BY DEF TypeOK
<1>2. CASE Open
  BY <1>2 DEF Open, OpenRetry, OpenFresh, OpenHeader, OpenRename, OpenCreate,
              StartProcess
<1>3. CASE Recovery
  BY <1>3 DEF Recovery, Copy, CopyEnd, CopyReadFails, Flush, FlushFails,
              Remove, RemoveFails
<1>4. CASE Spill
  BY <1>4 DEF Spill
<1>5. CASE Rollover
  <2>1. CASE RollRename
    BY <1>1, <2>1 DEF RollRename
  <2>2. CASE RollRenameFails
    BY <2>2 DEF RollRenameFails
  <2>3. CASE RollCreate
    BY <2>3 DEF RollCreate
  <2>4. CASE RollCreateFails
    <3>1. "writing" \notin exists
      BY <2>4 DEF RollCreateFails, Directory
    <3> QED BY <2>4, <3>1 DEF RollCreateFails
  <2>5. CASE RollHeader
    BY <1>1, <2>5 DEF RollHeader
  <2>6. CASE RollHeaderFails
    BY <1>1, <2>6 DEF RollHeaderFails
  <2> QED BY <1>5, <2>1, <2>2, <2>3, <2>4, <2>5, <2>6 DEF Rollover
<1>6. CASE Crash
  BY <1>6 DEF Crash
<1>7. ASSUME NEW r \in Records, Write(r) PROVE OwnBelow'
  BY <1>7 DEF Write
<1>8. CASE UNCHANGED vars
  BY <1>8 DEF vars
<1>9. ASSUME NEW r \in Records, WriteFails(r) PROVE OwnBelow'
  BY <1>9 DEF WriteFails
<1> QED
  BY <1>2, <1>3, <1>4, <1>5, <1>6, <1>7, <1>8, <1>9 DEF Next
-----------------------------------------------------------------------------
(* What the recovery has appended is what it has read. *)
ReaderInv == ReaderPosition /\ RecoveryPrefix

(* Before the first read the copy is the empty prefix. *)
LEMMA NothingReadYet ==
  ASSUME NEW s \in Seq(Entry)
  PROVE  <<>> \o <<>> = SubSeq(s, 1, 1 - 1) /\ 1 <= Len(s) + 1
<1>1. SubSeq(s, 1, 0) = <<>>
  BY SubSeqEmpty
<1>2. <<>> \in Seq(Entry)
  BY EmptySeq
<1>3. <<>> \o <<>> = <<>>
  BY <1>2, ConcatEmptySeq
<1>4. Len(s) \in Nat
  BY LenProperties
<1> QED
  BY <1>1, <1>3, <1>4

(* Every step keeps what was copied equal to what was read. *)
LEMMA ReaderStep ==
  TypeOK /\ Directory /\ ReaderInv /\ [Next]_vars => ReaderInv'
<1> SUFFICES ASSUME TypeOK, Directory, ReaderInv, [Next]_vars PROVE ReaderInv'
  OBVIOUS
<1> USE DEF ReaderInv, ReaderPosition, RecoveryPrefix, disk, memory, history
<1>1. /\ writing \in Seq(Entry) /\ buf \in Seq(Entry)
      /\ recovering \in Seq(Entry) /\ Len(recovering) \in Nat /\ pos \in Nat \ {0}
  BY LenProperties DEF TypeOK
<1>2. CASE Open
  <2>1. CASE OpenRetry
    BY <1>1, <2>1, NothingReadYet DEF OpenRetry, StartProcess
  <2>2. CASE OpenCreate
    <3>1. writing = <<>>
      BY <2>2 DEF OpenCreate, Directory
    <3> QED BY <1>1, <2>2, <3>1, NothingReadYet DEF OpenCreate
  <2>3. CASE OpenFresh \/ OpenHeader \/ OpenRename
    BY <2>3 DEF OpenFresh, OpenHeader, OpenRename, StartProcess
  <2> QED BY <1>2, <2>1, <2>2, <2>3 DEF Open
<1>3. CASE Recovery
  <2>1. CASE Copy
    <3>1. SUFFICES ASSUME ~damaged
                   PROVE  /\ writing \o Append(buf, recovering[pos])
                               = SubSeq(recovering, 1, pos)
                          /\ pos + 1 <= Len(recovering) + 1
      BY <1>1, <2>1 DEF Copy
    <3>2. pos \in 1..Len(recovering)
      BY <1>1, <2>1 DEF Copy
    <3>3. writing \o buf = SubSeq(recovering, 1, pos - 1)
      BY <2>1, <3>1 DEF Copy
    <3>4. writing \o Append(buf, recovering[pos]) = SubSeq(recovering, 1, pos)
      BY <1>1, <3>2, <3>3, ReadOne
    <3> QED BY <1>1, <3>2, <3>4
  <2>2. CASE CopyEnd
    BY <1>1, <2>2 DEF CopyEnd
  <2>3. CASE CopyReadFails \/ FlushFails \/ RemoveFails
    BY <2>3 DEF CopyReadFails, FlushFails, RemoveFails
  <2>4. CASE Flush
    <3>1. SUFFICES ASSUME ~damaged
                   PROVE  writing' = recovering /\ pos = Len(recovering) + 1
      BY <2>4 DEF Flush
    <3>2. pos = Len(recovering) + 1 /\ pos - 1 = Len(recovering)
      BY <1>1, <2>4, <3>1 DEF Flush
    <3>3. writing \o buf = SubSeq(recovering, 1, pos - 1)
      BY <2>4, <3>1 DEF Flush
    <3>4. writing \o buf = SubSeq(recovering, 1, Len(recovering))
      BY <3>2, <3>3, Zenon
    <3>5. SubSeq(recovering, 1, Len(recovering)) = recovering
      BY <1>1, SubSeqFull
    <3> QED BY <2>4, <3>2, <3>4, <3>5 DEF Flush
  <2>5. CASE Remove
    BY <2>5 DEF Remove
  <2> QED BY <1>3, <2>1, <2>2, <2>3, <2>4, <2>5 DEF Recovery
<1>4. CASE Spill
  <2>1. Append(writing, Head(buf)) \o Tail(buf) = writing \o buf
    BY <1>1, <1>4, SpillOne DEF Spill
  <2> QED BY <1>4, <2>1 DEF Spill
<1>5. CASE Rollover
  BY <1>5 DEF Rollover, RollRename, RollRenameFails, RollCreate, RollCreateFails,
              RollHeader, RollHeaderFails
<1>6. CASE Crash
  BY <1>6 DEF Crash
<1>7. ASSUME NEW r \in Records, Write(r) PROVE ReaderInv'
  BY <1>7 DEF Write
<1>8. CASE UNCHANGED vars
  BY <1>8 DEF vars
<1>9. ASSUME NEW r \in Records, WriteFails(r) PROVE ReaderInv'
  BY <1>9 DEF WriteFails
<1> QED
  BY <1>2, <1>3, <1>4, <1>5, <1>6, <1>7, <1>8, <1>9 DEF Next

-----------------------------------------------------------------------------
(* The four things a step can do to the file the next open() would read. *)
Stays == /\ Authority' = Authority
         /\ UNCHANGED <<acked, rolled>>
GetsCounter == /\ \E n \in Nat : Authority' = Append(<<>>, n)
               /\ Authority = <<>>
               /\ UNCHANGED <<acked, rolled>>
GetsRecord(r) == /\ r \notin acked
                 /\ Authority' = Append(Authority, r)
                 /\ acked' = acked \cup {r}
                 /\ UNCHANGED rolled
IsPutAway == /\ Authority' = <<>>
             /\ rolled' = rolled \cup Live
             /\ UNCHANGED acked

(* Short of a dropped failure, every step does one of the four. *)
LEMMA AuthoritySteps ==
  ASSUME TypeOK, Directory, ReaderInv, [Next]_vars, ~damaged'
  PROVE  /\ ~damaged
         /\ Stays \/ GetsCounter \/ (\E r \in Records : GetsRecord(r)) \/ IsPutAway
<1> USE DEF disk, memory, history, Authority
<1>1. CASE Open
  <2>1. CASE OpenHeader
    BY <2>1 DEF OpenHeader, Directory, GetsCounter, TypeOK
  <2>2. CASE OpenRetry
    BY <2>2 DEF OpenRetry, StartProcess, Stays
  <2>3. CASE OpenFresh
    BY <2>3 DEF OpenFresh, StartProcess, Directory, Stays
  <2>4. CASE OpenRename
    BY <2>4 DEF OpenRename, StartProcess, Stays
  <2>5. CASE OpenCreate
    BY <2>5 DEF OpenCreate, Directory, Stays
  <2> QED BY <1>1, <2>1, <2>2, <2>3, <2>4, <2>5 DEF Open
<1>2. CASE Recovery
  <2>1. CASE Copy \/ CopyEnd
    BY <2>1 DEF Copy, CopyEnd, Stays
  <2>2. CASE Flush
    BY <2>2 DEF Flush, Directory, Stays
  <2>3. CASE Remove
    BY <2>3 DEF Remove, Directory, Stays, ReaderInv, RecoveryPrefix
  <2>4. CASE CopyReadFails \/ FlushFails \/ RemoveFails
    BY <2>4 DEF CopyReadFails, FlushFails, RemoveFails
  <2> QED BY <1>2, <2>1, <2>2, <2>3, <2>4 DEF Recovery
<1>3. CASE Spill
  BY <1>3 DEF Spill, Directory, Stays
<1>4. CASE Rollover
  <2>1. CASE RollRename
    BY <2>1 DEF RollRename, Directory, IsPutAway, Live
  <2>2. CASE RollHeader
    BY <2>2 DEF RollHeader, Directory, GetsCounter, TypeOK
  <2>3. CASE RollRenameFails \/ RollCreateFails \/ RollHeaderFails
    BY <2>3 DEF RollRenameFails, RollCreateFails, RollHeaderFails, Stays
  <2>4. CASE RollCreate
    BY <2>4 DEF RollCreate, Stays
  <2> QED BY <1>4, <2>1, <2>2, <2>3, <2>4 DEF Rollover
<1>5. CASE Crash
  BY <1>5 DEF Crash, Stays
<1>6. ASSUME NEW r \in Records, Write(r)
      PROVE  ~damaged /\ GetsRecord(r)
  BY <1>6 DEF Write, GetsRecord, Directory
<1>7. CASE UNCHANGED vars
  BY <1>7 DEF vars, Stays
<1>8. ASSUME NEW r \in Records, WriteFails(r)
      PROVE  ~damaged' => ~damaged /\ Stays
  BY <1>8 DEF WriteFails, Stays
<1> QED
  BY <1>1, <1>2, <1>3, <1>4, <1>5, <1>6, <1>7, <1>8 DEF Next
-----------------------------------------------------------------------------
(* Nothing acknowledged is lost and nothing is recorded twice. *)
Kept == Accounting /\ RecordedOnce

(* A log with nothing but its counter holds no record. *)
LEMMA OneCounter ==
  ASSUME NEW n \in Nat
  PROVE  /\ Append(<<>>, n) \in Seq(Entry)
         /\ Len(Append(<<>>, n)) = 1
         /\ DOMAIN Append(<<>>, n) = 1..1
         /\ Append(<<>>, n)[1] = n
         /\ RecordsOf(Append(<<>>, n)) = {}
<1>1. <<>> \in Seq(Entry) /\ Len(<<>>) = 0
  BY EmptySeq
<1>2. n \in Entry /\ {n} \cap Records = {}
  BY RecordsAssumption DEF Entry
<1>3. /\ Append(<<>>, n) \in Seq(Entry)
      /\ Len(Append(<<>>, n)) = 0 + 1
      /\ Append(<<>>, n)[0 + 1] = n
  BY <1>1, <1>2, AppendProperties
<1>4. RecordsOf(Append(<<>>, n)) = RecordsOf(<<>>) \cup ({n} \cap Records)
  BY <1>1, <1>2, RecordsOfAppend
<1>5. DOMAIN Append(<<>>, n) = 1..1
  BY <1>3, LenProperties
<1> QED
  BY <1>2, <1>3, <1>4, <1>5, RecordsOfEmpty

(* Every step keeps the accounting of acknowledged records. *)
LEMMA KeptStep ==
  TypeOK /\ Directory /\ ReaderInv /\ Kept /\ [Next]_vars => Kept'
<1> SUFFICES ASSUME TypeOK, Directory, ReaderInv, Kept, [Next]_vars, ~damaged'
             PROVE  /\ acked' = Live' \cup rolled'
                    /\ Live' \cap rolled' = {}
                    /\ \A i \in 2..Len(Authority') : Authority'[i] \in Records
                    /\ \A i, j \in DOMAIN Authority' :
                          Authority'[i] \in Records /\ Authority'[i] = Authority'[j]
                            => i = j
  BY DEF Kept, Accounting, RecordedOnce
<1>1. ~damaged
  BY AuthoritySteps
<1>2. /\ acked = Live \cup rolled
      /\ Live \cap rolled = {}
      /\ \A i \in 2..Len(Authority) : Authority[i] \in Records
      /\ \A i, j \in DOMAIN Authority :
            Authority[i] \in Records /\ Authority[i] = Authority[j] => i = j
  BY <1>1 DEF Kept, Accounting, RecordedOnce
<1>3. Authority \in Seq(Entry) /\ Len(Authority) \in Nat
      /\ DOMAIN Authority = 1..Len(Authority)
  BY LenProperties DEF Authority, TypeOK
<1>4. Live = RecordsOf(Authority) /\ Live' = RecordsOf(Authority')
  BY DEF Live, RecordsOf
<1>5. CASE Stays
  BY <1>2, <1>4, <1>5 DEF Stays
<1>6. CASE GetsCounter
  <2>1. PICK n \in Nat : Authority' = Append(<<>>, n)
    BY <1>6 DEF GetsCounter
  <2>2. Live' = {} /\ Live = {}
    BY <1>4, <1>6, <2>1, OneCounter, RecordsOfEmpty DEF GetsCounter
  <2>3. Len(Authority') = 1 /\ DOMAIN Authority' = 1..1
    BY <2>1, OneCounter
  <2> QED BY <1>2, <1>6, <2>2, <2>3 DEF GetsCounter
<1>7. CASE \E r \in Records : GetsRecord(r)
  <2>1. PICK r \in Records : GetsRecord(r)
    BY <1>7
  <2>2. r \in Entry /\ r \notin Live /\ r \notin rolled
    BY <1>2, <2>1 DEF GetsRecord, Entry
  <2>3. Live' = Live \cup {r}
    BY <1>3, <1>4, <2>1, <2>2, RecordsOfAppend DEF GetsRecord
  <2>4. /\ Authority' \in Seq(Entry)
        /\ Len(Authority') = Len(Authority) + 1
        /\ \A i \in 1..Len(Authority) : Authority'[i] = Authority[i]
        /\ Authority'[Len(Authority) + 1] = r
    BY <1>3, <2>1, <2>2, AppendProperties DEF GetsRecord
  <2>5. DOMAIN Authority' = 1..(Len(Authority) + 1)
    BY <2>4, LenProperties
  <2>6. \A i \in 1..Len(Authority) : Authority[i] # r
    BY <1>3, <1>4, <2>2 DEF RecordsOf
  <2>7. \A i \in 2..Len(Authority') : Authority'[i] \in Records
    <3> SUFFICES ASSUME NEW i \in 2..Len(Authority') PROVE Authority'[i] \in Records
      OBVIOUS
    <3>1. i \in 2..Len(Authority) \/ i = Len(Authority) + 1
      BY <1>3, <2>4
    <3> QED BY <1>2, <1>3, <2>4, <3>1
  <2>8. ASSUME NEW i \in DOMAIN Authority', NEW j \in DOMAIN Authority',
               Authority'[i] \in Records, Authority'[i] = Authority'[j]
        PROVE  i = j
    <3>1. i \in 1..(Len(Authority) + 1) /\ j \in 1..(Len(Authority) + 1)
      BY <2>5, <2>8
    <3>2. CASE i \in 1..Len(Authority) /\ j \in 1..Len(Authority)
      BY <1>2, <1>3, <2>4, <2>8, <3>2
    <3>3. CASE i = Len(Authority) + 1 \/ j = Len(Authority) + 1
      BY <1>3, <2>4, <2>6, <2>8, <3>1, <3>3
    <3> QED BY <1>3, <3>1, <3>2, <3>3
  <2> QED BY <1>2, <2>1, <2>2, <2>3, <2>7, <2>8 DEF GetsRecord
<1>8. CASE IsPutAway
  <2>1. Live' = {}
    BY <1>4, <1>8, RecordsOfEmpty DEF IsPutAway
  <2>2. Len(Authority') = 0 /\ DOMAIN Authority' = {}
    BY <1>8 DEF IsPutAway
  <2> QED BY <1>2, <1>8, <2>1, <2>2 DEF IsPutAway
<1> QED
  BY <1>5, <1>6, <1>7, <1>8, AuthoritySteps

-----------------------------------------------------------------------------
(* The inductive invariant. *)
LEMMA InitIInv == Init => IInv
<1> SUFFICES ASSUME Init PROVE IInv
  OBVIOUS
<1>1. TypeOK
  BY InitType
<1>2. Directory /\ OwnBelow /\ ReaderPosition /\ RecoveryPrefix
  BY DEF Init, Directory, OwnBelow, ReaderPosition, RecoveryPrefix
<1>3. Authority = <<>> /\ Len(Authority) = 0 /\ DOMAIN Authority = {}
  BY DEF Init, Authority
<1>4. Live = {}
  BY <1>3, RecordsOfEmpty DEF Live
<1>5. Accounting /\ RecordedOnce
  BY <1>3, <1>4 DEF Init, Accounting, RecordedOnce
<1> QED
  BY <1>1, <1>2, <1>5 DEF IInv

(* Every step keeps the inductive invariant. *)
LEMMA NextIInv == IInv /\ [Next]_vars => IInv'
BY NextType, DirectoryStep, OwnBelowStep, ReaderStep, KeptStep
   DEF IInv, ReaderInv, Kept

(* The inductive invariant holds in every state the log reaches. *)
THEOREM Invariance == Spec => []IInv
<1>1. QED
  BY InitIInv, NextIInv, PTL DEF Spec

(* A recovery can start again wherever it was interrupted, and ends with the
   file it started from (periodic_log.cpp lines 164-213). *)
THEOREM RecoverySound == Spec => []RecoveryPrefix
<1>1. IInv => RecoveryPrefix
  BY DEF IInv
<1> QED
  BY <1>1, Invariance, PTL

(* No record appears twice in the file the next recovery reads. *)
THEOREM NoDoubleCount == Spec => []RecordedOnce
<1>1. IInv => RecordedOnce
  BY DEF IInv
<1> QED
  BY <1>1, Invariance, PTL

-----------------------------------------------------------------------------
(* A process never overwrites one of its own logs (line 222). *)
THEOREM OwnLogsSafe == Spec => OwnLogsFrozen
<1> DEFINE A == \A n \in own \cap own' : logs'[n] = logs[n]
<1>1. ASSUME IInv, [Next]_vars PROVE A
  <2> USE DEF disk, memory, history
  <2>1. CASE RollRename
    <3>1. \A n \in own : n < lastCounter
      BY <1>1, <2>1 DEF RollRename, IInv, OwnBelow
    <3>2. lastCounter \in Nat /\ own \subseteq Nat /\ own \subseteq DOMAIN logs
      BY <1>1 DEF IInv, TypeOK
    <3> QED BY <2>1, <3>1, <3>2 DEF RollRename
  <2>2. CASE ~RollRename
    <3>1. logs' = logs
      <4>1. CASE Open
        BY <4>1 DEF Open, OpenRetry, OpenFresh, OpenHeader, OpenRename, OpenCreate
      <4>2. CASE Recovery
        BY <4>2 DEF Recovery, Copy, CopyEnd, CopyReadFails, Flush, FlushFails,
                    Remove, RemoveFails
      <4>3. CASE \/ Spill \/ Crash \/ UNCHANGED vars
                 \/ \E r \in Records : Write(r) \/ WriteFails(r)
        BY <4>3 DEF Spill, Crash, Write, WriteFails, vars
      <4>4. CASE Rollover
        BY <2>2, <4>4 DEF Rollover, RollRenameFails, RollCreate, RollCreateFails,
                          RollHeader, RollHeaderFails
      <4> QED BY <1>1, <4>1, <4>2, <4>3, <4>4 DEF Next
    <3> QED BY <3>1
  <2> QED BY <2>1, <2>2
<1>2. IInv /\ [Next]_vars => [A]_vars
  BY <1>1
<1> QED
  BY <1>2, Invariance, PTL DEF Spec, OwnLogsFrozen

-----------------------------------------------------------------------------
(* The log implements the journal: a step that hits a dropped failure is its
   Damage, every other step is an Append, a Roll or invisible. *)
THEOREM ImplementsJournal == Spec => JournalSpec
<1>1. Init => J!Init
  <2> SUFFICES ASSUME Init PROVE J!Init
    OBVIOUS
  <2>1. Live = {}
    BY RecordsOfEmpty DEF Init, Live, Authority
  <2> QED BY <2>1 DEF Init, J!Init
<1>2. IInv /\ [Next]_vars => [J!Next]_(J!vars)
  <2> SUFFICES ASSUME IInv, [Next]_vars PROVE J!Next \/ UNCHANGED J!vars
    OBVIOUS
  <2>1. CASE damaged'
    <3>1. damaged' = TRUE
      <4>1. TypeOK'
        BY NextType DEF IInv
      <4>2. damaged' \in BOOLEAN
        BY <4>1 DEF TypeOK
      <4> QED BY <2>1, <4>2
    <3> QED BY <3>1 DEF J!Next, J!Damage
  <2>2. CASE ~damaged'
    <3>1. TypeOK /\ Directory /\ ReaderInv /\ TypeOK'
      BY NextType DEF IInv, ReaderInv
    <3>2. ~damaged
      BY <2>2, <3>1, AuthoritySteps
    <3>3. damaged' = damaged
      BY <2>2, <3>1, <3>2 DEF TypeOK
    <3>4. Authority \in Seq(Entry)
      BY <3>1 DEF Authority, TypeOK
    <3>5. Live = RecordsOf(Authority) /\ Live' = RecordsOf(Authority')
      BY DEF Live, RecordsOf
    <3>6. CASE Stays
      BY <3>3, <3>5, <3>6 DEF Stays, J!vars
    <3>7. CASE GetsCounter
      <4>1. PICK n \in Nat : Authority' = Append(<<>>, n)
        BY <3>7 DEF GetsCounter
      <4>2. Live' = Live
        BY <3>5, <3>7, <4>1, OneCounter, RecordsOfEmpty DEF GetsCounter
      <4> QED BY <3>3, <3>7, <4>2 DEF GetsCounter, J!vars
    <3>8. CASE \E r \in Records : GetsRecord(r)
      <4>1. PICK r \in Records : GetsRecord(r)
        BY <3>8
      <4>2. Live' = Live \cup {r}
        BY <3>4, <3>5, <4>1, RecordsOfAppend DEF GetsRecord, Entry
      <4>3. J!Append(r)
        BY <3>3, <4>1, <4>2 DEF GetsRecord, J!Append
      <4> QED BY <4>3 DEF J!Next
    <3>9. CASE IsPutAway
      <4>1. Live' = {}
        BY <3>5, <3>9, RecordsOfEmpty DEF IsPutAway
      <4>2. J!Roll
        BY <3>3, <3>9, <4>1 DEF IsPutAway, J!Roll
      <4> QED BY <4>2 DEF J!Next
    <3> QED BY <2>2, <3>1, <3>6, <3>7, <3>8, <3>9, AuthoritySteps
  <2> QED BY <2>1, <2>2
<1> QED
  BY <1>1, <1>2, Invariance, PTL DEF Spec, JournalSpec, J!Spec

(* Short of a dropped failure, what write() acknowledged (line 245) is in the
   live file or in a rolled one, and not in both. *)
THEOREM NothingLost == Spec => []J!KeptOnce
<1>1. IInv => J!KeptOnce
  BY DEF IInv, Accounting, J!KeptOnce
<1> QED
  BY <1>1, Invariance, PTL

-----------------------------------------------------------------------------
(* Replay. *)
LEMMA ReplayStep ==
  TypeOK /\ Directory /\ ReaderInv /\ Accounting /\ ReplayedSoFar /\ [Next]_vars
    => ReplayedSoFar'
<1> SUFFICES ASSUME TypeOK, Directory, ReaderInv, Accounting, ReplayedSoFar,
                    [Next]_vars, ~damaged'
             PROVE  ReplayedSoFar'
  BY DEF ReplayedSoFar
<1> USE DEF disk, memory, history
<1>1. ~damaged
  BY AuthoritySteps
<1>2. /\ pc \in {"copy", "flush", "remove"} =>
           \A i \in 2..(pos - 1) : recovering[i] \in applied
      /\ pc \in {"ready", "closed", "rollCreate", "rollHeader"} =>
           \A i \in 2..Len(writing) : writing[i] \in applied
  BY <1>1 DEF ReplayedSoFar
<1>3. /\ writing \in Seq(Entry) /\ Len(writing) \in Nat
      /\ recovering \in Seq(Entry) /\ Len(recovering) \in Nat
      /\ pos \in Nat \ {0} /\ lastCounter \in Nat
  BY LenProperties DEF TypeOK
<1>4. CASE Open
  <2>1. CASE OpenRetry \/ OpenFresh \/ OpenRename
    BY <2>1 DEF OpenRetry, OpenFresh, OpenRename, StartProcess, ReplayedSoFar
  <2>2. CASE OpenHeader
    <3>1. Len(writing') = 1
      BY <1>3, <2>2, OneCounter DEF OpenHeader, Directory
    <3> QED BY <2>2, <3>1 DEF OpenHeader, ReplayedSoFar
  <2>3. CASE OpenCreate
    BY <1>1, <2>3 DEF OpenCreate, ReaderInv, ReaderPosition, ReplayedSoFar
  <2> QED BY <1>4, <2>1, <2>2, <2>3 DEF Open
<1>5. CASE Recovery
  <2>1. CASE Copy
    <3>1. pos = 1 \/ (pos \in 2..Len(recovering) /\ recovering[pos] \in Records)
      BY <1>1, <1>3, <2>1 DEF Copy, Directory, Accounting, Authority
    <3>2. pos # 1 => recovering[pos] \in applied'
      BY <2>1, <3>1 DEF Copy
    <3>3. applied \subseteq applied'
      BY <2>1 DEF Copy
    <3>4. \A i \in 2..pos : recovering[i] \in applied'
      <4> SUFFICES ASSUME NEW i \in 2..pos PROVE recovering[i] \in applied'
        OBVIOUS
      <4>1. i \in 2..(pos - 1) \/ i = pos
        BY <1>3
      <4> QED BY <1>2, <1>3, <2>1, <3>2, <3>3, <4>1 DEF Copy
    <3> QED BY <1>3, <2>1, <3>4 DEF Copy, ReplayedSoFar
  <2>2. CASE CopyEnd
    BY <1>2, <2>2 DEF CopyEnd, ReplayedSoFar
  <2>3. CASE Flush
    BY <1>2, <2>3 DEF Flush, ReplayedSoFar
  <2>4. CASE Remove
    <3>1. writing = recovering /\ pos - 1 = Len(writing)
      BY <1>1, <1>3, <2>4 DEF Remove, ReaderInv, RecoveryPrefix
    <3> QED BY <1>2, <2>4, <3>1 DEF Remove, ReplayedSoFar
  <2>5. CASE CopyReadFails \/ FlushFails \/ RemoveFails
    BY <2>5 DEF CopyReadFails, FlushFails, RemoveFails
  <2> QED BY <1>5, <2>1, <2>2, <2>3, <2>4, <2>5 DEF Recovery
<1>6. CASE Spill
  BY <1>2, <1>6 DEF Spill, ReplayedSoFar
<1>7. CASE Rollover
  <2>1. CASE RollRename
    BY <2>1 DEF RollRename, ReplayedSoFar
  <2>2. CASE RollHeader
    <3>1. Len(writing') = 1
      BY <1>3, <2>2, OneCounter DEF RollHeader, Directory
    <3> QED BY <2>2, <3>1 DEF RollHeader, ReplayedSoFar
  <2>3. CASE RollRenameFails \/ RollCreateFails
    BY <1>2, <2>3 DEF RollRenameFails, RollCreateFails, ReplayedSoFar
  <2>4. CASE RollCreate \/ RollHeaderFails
    BY <1>2, <2>4 DEF RollCreate, RollHeaderFails, ReplayedSoFar
  <2> QED BY <1>7, <2>1, <2>2, <2>3, <2>4 DEF Rollover
<1>8. CASE Crash
  BY <1>8 DEF Crash, ReplayedSoFar
<1>9. ASSUME NEW r \in Records, Write(r) PROVE ReplayedSoFar'
  <2>1. /\ Len(writing') = Len(writing) + 1
        /\ \A i \in 1..Len(writing) : writing'[i] = writing[i]
        /\ writing'[Len(writing) + 1] = r
    BY <1>3, <1>9, AppendProperties DEF Write, Entry
  <2>2. ASSUME NEW i \in 2..Len(writing') PROVE writing'[i] \in applied'
    <3>1. i \in 2..Len(writing) \/ i = Len(writing) + 1
      BY <1>3, <2>1
    <3> QED BY <1>2, <1>3, <1>9, <2>1, <3>1 DEF Write
  <2> QED BY <1>9, <2>2 DEF Write, ReplayedSoFar
<1>10. CASE UNCHANGED vars
  BY <1>2, <1>10 DEF vars, ReplayedSoFar
<1>11. ASSUME NEW r \in Records, WriteFails(r) PROVE ReplayedSoFar'
  BY <1>2, <1>11 DEF WriteFails, ReplayedSoFar
<1> QED
  BY <1>4, <1>5, <1>6, <1>7, <1>8, <1>9, <1>10, <1>11 DEF Next

(* Once open() is done, every record the log holds after its first entry has
   been replayed into memory (line 194). *)
THEOREM ReplaySound == Spec => []ReplayComplete
<1>1. Init => ReplayedSoFar
  BY DEF Init, ReplayedSoFar
<1>2. IInv /\ ReplayedSoFar /\ [Next]_vars => ReplayedSoFar'
  BY ReplayStep DEF IInv, ReaderInv
<1>3. ReplayedSoFar => ReplayComplete
  BY DEF ReplayedSoFar, ReplayComplete
<1> QED
  BY <1>1, <1>2, <1>3, Invariance, PTL DEF Spec
=============================================================================
