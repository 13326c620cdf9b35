---------------------------- MODULE PeriodicLog ----------------------------
(***************************************************************************)
(* core/periodic_log.cpp: the write-ahead log kept by each DistTable.      *)
(*                                                                         *)
(* Three kinds of file: <prefix>.writing takes the new records,            *)
(* <prefix>.recovering is the previous .writing while open() copies it     *)
(* back, <prefix>-<n>.log is a .writing that a rollover has put away.      *)
(* The first entry of a .writing is a counter in decimal, the others are   *)
(* records.  Every system call is a step, and the process may die between  *)
(* any two of them.  The calls of open() and rollover() are sequenced by   *)
(* pc; write() holds the mutex rollover() holds, so it only runs at        *)
(* "ready".                                                                *)
(***************************************************************************)
EXTENDS Integers, Sequences

CONSTANTS Records,      \* what the callers write: each write a new event
          MaxCounter,   \* bound: rollovers stop at this counter
          MaxCrashes,   \* bound: process deaths
          MaxFaults     \* bound: failing system calls

ASSUME RecordsAssumption == Records \cap Nat = {}
ASSUME BoundsAssumption == /\ MaxCounter \in Nat
                           /\ MaxCrashes \in Nat
                           /\ MaxFaults \in Nat

VARIABLES
  exists,       \* which of "writing" and "recovering" are in the directory
  writing,      \* entries of <prefix>.writing (empty when absent)
  recovering,   \* entries of <prefix>.recovering (empty when absent)
  logs,         \* <prefix>-<n>.log : n -> entries
  buf,          \* entries append(data, false) has not pushed out yet
  lastCounter,  \* last_counter_
  pos,          \* the recovery's reader: next entry of .recovering to read
  pc,           \* the next system call
  applied,      \* records this process has put into its in-memory counts
  own,          \* numbers of the logs this process has rolled
  rolled,       \* every record ever handed to a numbered log
  acked,        \* every record whose write() returned OK
  damaged,      \* a dropped failure has struck a recovery
  crashes, faults

disk == <<exists, writing, recovering, logs>>
memory == <<buf, lastCounter, pos, applied, own>>
history == <<rolled, acked, damaged>>
vars == <<disk, memory, history, pc, crashes, faults>>

Entry == Records \cup Nat
PC == {"down", "create", "openHeader", "copy", "flush", "remove",
       "ready", "rollCreate", "rollHeader", "closed"}

(* atoi of an entry: a record starts with 'C' or 'I', and atoi of that is 0 *)
atoi(e) == IF e \in Nat THEN e ELSE 0

RecordsOf(file) == {file[i] : i \in DOMAIN file} \cap Records

(* The file the next open() would take the records from. *)
Authority == IF "recovering" \in exists THEN recovering ELSE writing
Live == RecordsOf(Authority)

Init == /\ exists = {} /\ writing = <<>> /\ recovering = <<>>
        /\ logs = [n \in {} |-> <<>>]
        /\ buf = <<>> /\ lastCounter = 0 /\ pos = 1 /\ pc = "down"
        /\ applied = {} /\ own = {}
        /\ rolled = {} /\ acked = {} /\ damaged = FALSE
        /\ crashes = 0 /\ faults = 0

Fault == /\ faults < MaxFaults
         /\ faults' = faults + 1

-----------------------------------------------------------------------------
(* open(0, visitor), one branch per state of the directory *)

(* mutant: the log starts one below the counter it is given, as getIterator *)
StartBelowCounter == /\ pc = "down"
                     /\ lastCounter' = 0 - 1
                     /\ applied' = {} /\ own' = {}
                     /\ buf' = <<>> /\ pos' = 1

StartProcess == /\ pc = "down"
                /\ lastCounter' = 0
                /\ applied' = {} /\ own' = {}
                /\ buf' = <<>> /\ pos' = 1

(* mutant: a retried recovery goes on with the .writing it left *)
OpenRetryKeepsWriting ==
  /\ StartProcess
  /\ "recovering" \in exists
  /\ exists' = exists \cup {"writing"} /\ writing' = writing
  /\ pc' = "copy"
  /\ UNCHANGED <<recovering, logs, history, crashes, faults>>

(* .recovering is there: an earlier recovery died; start it again, with an
   empty .writing *)
OpenRetry == /\ StartProcess
             /\ "recovering" \in exists
             /\ exists' = exists \cup {"writing"} /\ writing' = <<>>
             /\ pc' = "copy"
             /\ UNCHANGED <<recovering, logs, history, crashes, faults>>

OpenFresh == /\ StartProcess
             /\ exists = {}
             /\ exists' = {"writing"} /\ writing' = <<>>
             /\ pc' = "openHeader"
             /\ UNCHANGED <<recovering, logs, history, crashes, faults>>

OpenHeader == /\ pc = "openHeader"
              /\ writing' = Append(writing, lastCounter)
              /\ pc' = "ready"
              /\ UNCHANGED <<exists, recovering, logs, memory, history, crashes, faults>>

OpenRename == /\ StartProcess
              /\ exists = {"writing"}
              /\ exists' = {"recovering"}
              /\ recovering' = writing /\ writing' = <<>>
              /\ pc' = "create"
              /\ UNCHANGED <<logs, history, crashes, faults>>

OpenCreate == /\ pc = "create"
              /\ exists' = exists \cup {"writing"}
              /\ pc' = "copy"
              /\ UNCHANGED <<writing, recovering, logs, memory, history, crashes, faults>>

(* mutant: the counter is taken but not copied *)
CopyDropsCounter == /\ pc = "copy"
                    /\ pos <= Len(recovering)
                    /\ IF pos = 1
                         THEN /\ lastCounter' = atoi(recovering[pos])
                              /\ UNCHANGED <<applied, buf>>
                         ELSE /\ applied' = applied \cup ({recovering[pos]} \cap Records)
                              /\ buf' = Append(buf, recovering[pos])
                              /\ UNCHANGED lastCounter
                    /\ pos' = pos + 1
                    /\ UNCHANGED <<disk, own, history, pc, crashes, faults>>

(* mutant: the entry after the counter is not visited either *)
CopySkipsVisit == /\ pc = "copy"
                  /\ pos <= Len(recovering)
                  /\ IF pos <= 2
                       THEN /\ lastCounter' = atoi(recovering[1])
                            /\ UNCHANGED applied
                       ELSE /\ applied' = applied \cup ({recovering[pos]} \cap Records)
                            /\ UNCHANGED lastCounter
                  /\ buf' = Append(buf, recovering[pos])
                  /\ pos' = pos + 1
                  /\ UNCHANGED <<disk, own, history, pc, crashes, faults>>

(* recovery(): the first entry is the counter whatever it is, the others go
   to the visitor; each is appended without a flush *)
Copy == /\ pc = "copy"
        /\ pos <= Len(recovering)
        /\ IF pos = 1
             THEN /\ lastCounter' = atoi(recovering[pos])
                  /\ UNCHANGED applied
             ELSE /\ applied' = applied \cup ({recovering[pos]} \cap Records)
                  /\ UNCHANGED lastCounter
        /\ buf' = Append(buf, recovering[pos])
        /\ pos' = pos + 1
        /\ UNCHANGED <<disk, own, history, pc, crashes, faults>>

(* the writer's buffer fills up and part of it reaches the file by itself *)
Spill == /\ pc \in {"copy", "flush"}
         /\ buf # <<>>
         /\ writing' = Append(writing, Head(buf))
         /\ buf' = Tail(buf)
         /\ UNCHANGED <<exists, recovering, logs, lastCounter, pos, applied, own,
                        history, pc, crashes, faults>>

(* mutants: no flush before the remove; the end of the file is missed *)
CopyEndNoFlush == /\ pc = "copy"
                  /\ pos > Len(recovering)
                  /\ pc' = "remove"
                  /\ UNCHANGED <<disk, memory, history, crashes, faults>>
CopyEndMissed == /\ pc = "copy"
                 /\ pos > Len(recovering) + 1
                 /\ pc' = "flush"
                 /\ UNCHANGED <<disk, memory, history, crashes, faults>>

CopyEnd == /\ pc = "copy"
           /\ pos > Len(recovering)
           /\ pc' = "flush"
           /\ UNCHANGED <<disk, memory, history, crashes, faults>>

(* a read that fails looks like the end of the file: the rest is dropped *)
CopyReadFails == /\ pc = "copy"
                 /\ Fault
                 /\ pos <= Len(recovering)
                 /\ pc' = "flush"
                 /\ damaged' = TRUE
                 /\ UNCHANGED <<disk, memory, rolled, acked, crashes>>

Flush == /\ pc = "flush"
         /\ writing' = writing \o buf
         /\ buf' = <<>>
         /\ pc' = "remove"
         /\ UNCHANGED <<exists, recovering, logs, lastCounter, pos, applied, own,
                        history, crashes, faults>>

(* the status of flush() is overwritten *)
FlushFails == /\ pc = "flush"
              /\ Fault
              /\ buf' = <<>>
              /\ pc' = "remove"
              /\ damaged' = TRUE
              /\ UNCHANGED <<disk, lastCounter, pos, applied, own, rolled, acked, crashes>>

Remove == /\ pc = "remove"
          /\ exists' = exists \ {"recovering"}
          /\ recovering' = <<>>
          /\ pc' = "ready"
          /\ UNCHANGED <<writing, logs, memory, history, crashes, faults>>

(* so is the status of remove(): recovery() returns OK and .recovering stays *)
RemoveFails == /\ pc = "remove"
               /\ Fault
               /\ pc' = "ready"
               /\ damaged' = TRUE
               /\ UNCHANGED <<disk, memory, rolled, acked, crashes>>

-----------------------------------------------------------------------------
(* write(data); DistTable's owner counts the record before it logs it *)
Write(r) == /\ pc = "ready"
            /\ r \notin acked
            /\ writing' = Append(writing, r)
            /\ applied' = applied \cup {r}
            /\ acked' = acked \cup {r}
            /\ UNCHANGED <<exists, recovering, logs, buf, lastCounter, pos, own,
                           rolled, damaged, pc, crashes, faults>>

(* the append fails, or a failed rollover has left the writer closed: the
   record is counted in memory and in no log *)
WriteFails(r) == /\ \/ pc = "ready" /\ Fault
                    \/ pc = "closed" /\ UNCHANGED faults
                 /\ r \notin acked
                 /\ applied' = applied \cup {r}
                 /\ UNCHANGED <<disk, buf, lastCounter, pos, own, history, pc, crashes>>

-----------------------------------------------------------------------------
(* rollover(); a caller that finds the writer closed by a failed rollover
   still renames *)
RollRename == /\ pc \in {"ready", "closed"}
              /\ lastCounter < MaxCounter
              /\ "writing" \in exists
              /\ logs' = [n \in DOMAIN logs \cup {lastCounter} |->
                            IF n = lastCounter THEN writing ELSE logs[n]]
              /\ exists' = exists \ {"writing"} /\ writing' = <<>>
              /\ rolled' = rolled \cup RecordsOf(writing)
              /\ own' = own \cup {lastCounter}
              /\ pc' = "rollCreate"
              /\ UNCHANGED <<recovering, buf, lastCounter, pos, applied,
                             acked, damaged, crashes, faults>>

(* the writer was closed before the rename that fails *)
RollRenameFails == /\ pc = "ready"
                   /\ Fault
                   /\ pc' = "closed"
                   /\ UNCHANGED <<disk, memory, history, crashes>>

RollCreate == /\ pc = "rollCreate"
              /\ exists' = exists \cup {"writing"}
              /\ pc' = "rollHeader"
              /\ UNCHANGED <<writing, recovering, logs, memory, history, crashes, faults>>

RollCreateFails == /\ pc = "rollCreate"
                   /\ Fault
                   /\ pc' = "closed"
                   /\ UNCHANGED <<disk, memory, history, crashes>>

(* mutant: the counter is written but not counted *)
RollHeaderNoCount == /\ pc = "rollHeader"
                     /\ writing' = Append(writing, lastCounter)
                     /\ pc' = "ready"
                     /\ UNCHANGED <<exists, recovering, logs, memory,
                                    history, crashes, faults>>

(* the header is the counter of the log just put away; only then ++ *)
RollHeader == /\ pc = "rollHeader"
              /\ writing' = Append(writing, lastCounter)
              /\ lastCounter' = lastCounter + 1
              /\ pc' = "ready"
              /\ UNCHANGED <<exists, recovering, logs, buf, pos, applied, own,
                             history, crashes, faults>>

RollHeaderFails == /\ pc = "rollHeader"
                   /\ Fault
                   /\ lastCounter' = lastCounter + 1
                   /\ pc' = "ready"
                   /\ UNCHANGED <<disk, buf, pos, applied, own, history, crashes>>

-----------------------------------------------------------------------------
(* the process dies, or gives up because open() returned a failure *)
Crash == /\ pc # "down"
         /\ crashes < MaxCrashes
         /\ crashes' = crashes + 1
         /\ pc' = "down"
         /\ UNCHANGED <<disk, memory, history, faults>>

Open == OpenRetry \/ OpenFresh \/ OpenHeader \/ OpenRename \/ OpenCreate
Recovery == Copy \/ CopyEnd \/ CopyReadFails \/ Flush \/ FlushFails
            \/ Remove \/ RemoveFails
Rollover == RollRename \/ RollRenameFails \/ RollCreate \/ RollCreateFails
            \/ RollHeader \/ RollHeaderFails

Next == \/ Open \/ Recovery \/ Spill \/ Rollover \/ Crash
        \/ \E r \in Records : Write(r) \/ WriteFails(r)

(* open() and rollover() are straight-line code of one thread *)
Spec == /\ Init
        /\ [][Next]_vars
        /\ WF_vars(Open \/ Recovery)
        /\ WF_vars(RollCreate \/ RollCreateFails \/ RollHeader \/ RollHeaderFails)
-----------------------------------------------------------------------------
TypeOK ==
  /\ exists \subseteq {"writing", "recovering"}
  /\ writing \in Seq(Entry) /\ recovering \in Seq(Entry) /\ buf \in Seq(Entry)
  /\ DOMAIN logs \subseteq Nat
  /\ \A n \in DOMAIN logs : logs[n] \in Seq(Entry)
  /\ lastCounter \in Nat /\ pos \in Nat \ {0}
  /\ pc \in PC
  /\ applied \subseteq Records /\ own \subseteq DOMAIN logs
  /\ rolled \subseteq Records /\ acked \subseteq Records
  /\ damaged \in BOOLEAN
  /\ crashes \in 0..MaxCrashes /\ faults \in 0..MaxFaults

(* While a recovery runs (lines 176-201), what it has put into the new
   .writing, pushed out or not, is exactly what it has read of .recovering:
   a death at any point leaves a .recovering from which it can start again. *)
RecoveryPrefix ==
  ~damaged => /\ pc \in {"copy", "flush"} =>
                   writing \o buf = SubSeq(recovering, 1, pos - 1)
              /\ pc \in {"flush", "remove"} => pos = Len(recovering) + 1
              /\ pc = "remove" => writing = recovering

(* open() replays the log into memory (the visitor, line 194): once it is
   done, every record the log still holds is in the counts, but for a record
   that stands where the counter should be (line 189). *)
ReplayComplete ==
  ~damaged /\ pc \in {"ready", "closed", "rollCreate", "rollHeader"} =>
    \A i \in 2..Len(writing) : writing[i] \in applied

(* No crash and no retried recovery makes a record appear twice in the file
   the next recovery reads: it would be counted twice. *)
RecordedOnce ==
  ~damaged => \A i, j \in DOMAIN Authority :
                Authority[i] \in Records /\ Authority[i] = Authority[j] => i = j

(* A process never overwrites a log it has itself rolled over (line 222):
   a failed or retried rollover never renames onto the same number. *)
OwnLogsFrozen == [][\A n \in own \cap own' : logs'[n] = logs[n]]_vars

(* Every failure but the three whose status recovery() drops (lines 177, 204
   and 205) leaves what write() acknowledged in the live file or in a rolled
   one, across any number of crashes: PeriodicLog implements Journal. *)
J == INSTANCE Journal WITH live <- Live
JournalSpec == J!Spec

(* With the process restarted after each death, open() ends. *)
OpenEnds == pc = "down" ~> pc = "ready"

-----------------------------------------------------------------------------
(* The inductive invariant behind the theorems of PeriodicLogProofs. *)

(* what is in the directory at each system call *)
Directory ==
  /\ "writing" \notin exists => writing = <<>>
  /\ "recovering" \notin exists => recovering = <<>>
  /\ pc = "openHeader" => exists = {"writing"} /\ writing = <<>>
  /\ pc = "create" => exists = {"recovering"}
  /\ pc \in {"copy", "flush", "remove"} => exists = {"writing", "recovering"}
  /\ pc \in {"ready", "rollHeader"} => "writing" \in exists
  /\ pc \in {"rollCreate", "rollHeader"} => writing = <<>>
  /\ pc = "rollCreate" => "writing" \notin exists
  /\ ~damaged /\ pc \in {"ready", "closed", "rollCreate", "rollHeader"} =>
       "recovering" \notin exists

(* how far the numbers of this process's own logs go *)
OwnBelow ==
  /\ pc \in {"openHeader", "create", "copy", "flush", "remove"} => own = {}
  /\ pc = "ready" \/ (pc = "closed" /\ "writing" \in exists) =>
       \A n \in own : n < lastCounter
  /\ pc \in {"rollCreate", "rollHeader"} => \A n \in own : n <= lastCounter

(* where the recovery's reader stands *)
ReaderPosition ==
  ~damaged => /\ pc = "create" => buf = <<>> /\ pos = 1
              /\ pc = "copy" => pos <= Len(recovering) + 1

(* acknowledged records are accounted for, and a counter only comes first *)
Accounting ==
  ~damaged => /\ acked = Live \cup rolled
              /\ Live \cap rolled = {}
              /\ \A i \in 2..Len(Authority) : Authority[i] \in Records

IInv == TypeOK /\ Directory /\ OwnBelow /\ ReaderPosition /\ RecoveryPrefix
        /\ Accounting /\ RecordedOnce

(* what the visitor has seen when the reader is at pos *)
ReplayedSoFar ==
  ~damaged =>
    /\ pc \in {"copy", "flush", "remove"} =>
         \A i \in 2..(pos - 1) : recovering[i] \in applied
    /\ pc \in {"ready", "closed", "rollCreate", "rollHeader"} =>
         \A i \in 2..Len(writing) : writing[i] \in applied
=============================================================================
