----------------------------- MODULE NewsTrends -----------------------------
(***************************************************************************)
(* core/news_trends.cpp over DistTable::train and reload: the distribution *)
(* of clicks over categories, rebuilt by each training in a second map     *)
(* that is then swapped with the served one, and written to a table file.  *)
(*                                                                         *)
(* A query takes the pointer of the served map and walks the map without   *)
(* a lock (lines 117-128); the persistent thread trains meanwhile.  Walking*)
(* a std::map that is being changed is undefined; here the walk sees each  *)
(* entry as it is when it gets there, the mildest of the outcomes.         *)
(*                                                                         *)
(* An entry is absent, <<v, "count">> while training v counts              *)
(* clicks and <<v, "share">> once dumpTable has normalised it.             *)
(***************************************************************************)
EXTENDS Integers, FiniteSets

CONSTANTS Readers,
          Categories,   \* numbers: a walk visits them in increasing order
          MaxTrainings, \* bound
          MaxRestarts   \* bound

ASSUME NewsTrendsAssumption ==
  Categories \subseteq Nat /\ MaxTrainings \in Nat /\ MaxRestarts \in Nat

VARIABLES
  map,        \* the two maps
  served,     \* map_dist_: which of them is served; the other is trained
  training,   \* number of the training that runs, or ran last
  found,      \* the categories this training's clicks fall in
  pc,         \* the persistent thread's next step
  tmp, file,  \* the table being written and the one in place: by which
              \* training, and what distribution
  rpc, ptr, todo, got,    \* each query's step, pointer, entries to go, answer
  taken,      \* the served distribution when the query took its pointer
  overlaps,   \* how many trainings the query has run alongside
  restarts

trainer == <<map, served, training, found, pc, tmp, file>>
queries == <<rpc, ptr, todo, got, taken, overlaps>>
vars == <<trainer, queries, restarts>>

Absent == <<0, "absent">>
Empty == [c \in Categories |-> Absent]
Share(v, cs) == [c \in Categories |-> IF c \in cs THEN <<v, "share">> ELSE Absent]
spare == 3 - served

Init == /\ map = [m \in {1, 2} |-> IF m = 1 THEN Share(0, Categories) ELSE Empty]
        /\ served = 1 /\ training = 0 /\ found = {} /\ pc = "idle"
        /\ file = [by |-> 0, dist |-> Share(0, Categories)]
        /\ tmp = file
        /\ rpc = [r \in Readers |-> "idle"]
        /\ ptr = [r \in Readers |-> 1]
        /\ todo = [r \in Readers |-> {}]
        /\ got = [r \in Readers |-> Empty]
        /\ taken = [r \in Readers |-> Empty]
        /\ overlaps = [r \in Readers |-> 0]
        /\ restarts = 0

-----------------------------------------------------------------------------
(* train(), in the persistent thread *)

(* mutant: the map that is cleared and refilled is the served one *)
trainBeforeServed ==
  /\ pc = "idle"
  /\ training < MaxTrainings
  /\ training' = training + 1
  /\ map' = [map EXCEPT ![served] = Empty]
  /\ \E cs \in SUBSET Categories : found' = cs
  /\ pc' = "train"
  /\ overlaps' = [r \in Readers |-> IF rpc[r] = "walk" THEN overlaps[r] + 1 ELSE overlaps[r]]
  /\ UNCHANGED <<served, tmp, file, rpc, ptr, todo, got, taken, restarts>>

trainBefore ==
  /\ pc = "idle"
  /\ training < MaxTrainings
  /\ training' = training + 1
  /\ map' = [map EXCEPT ![spare] = Empty]
  /\ \E cs \in SUBSET Categories : found' = cs
  /\ pc' = "train"
  /\ overlaps' = [r \in Readers |-> IF rpc[r] = "walk" THEN overlaps[r] + 1 ELSE overlaps[r]]
  /\ UNCHANGED <<served, tmp, file, rpc, ptr, todo, got, taken, restarts>>

(* a click of the rolled logs, one category at a time *)
trainClick(c) ==
  /\ pc = "train"
  /\ c \in found
  /\ map[spare][c] = Absent
  /\ map' = [map EXCEPT ![spare][c] = <<training, "count">>]
  /\ UNCHANGED <<served, training, found, pc, tmp, file, queries, restarts>>

createTable ==
  /\ pc = "train"
  /\ \A c \in found : map[spare][c] # Absent
  /\ tmp' = [by |-> training, dist |-> Empty]
  /\ pc' = "dumpTable"
  /\ UNCHANGED <<map, served, training, found, file, queries, restarts>>

(* mutant: the table is written over the one in place *)
dumpTableInPlace ==
  /\ pc = "dumpTable"
  /\ map' = [map EXCEPT ![spare] = Share(training, found)]
  /\ tmp' = [by |-> training, dist |-> Share(training, found)]
  /\ file' = [by |-> training, dist |-> map[spare]]
  /\ pc' = "trainCompleted"
  /\ UNCHANGED <<served, training, found, queries, restarts>>

(* normalises the trained map in place and writes it in one record *)
dumpTable ==
  /\ pc = "dumpTable"
  /\ map' = [map EXCEPT ![spare] = Share(training, found)]
  /\ tmp' = [by |-> training, dist |-> Share(training, found)]
  /\ pc' = "trainCompleted"
  /\ UNCHANGED <<served, training, found, file, queries, restarts>>

(* mutant: the other map is taken to be the next one *)
trainCompletedNext ==
  /\ pc = "trainCompleted"
  /\ served' = served + 1
  /\ pc' = "rename"
  /\ UNCHANGED <<map, training, found, tmp, file, queries, restarts>>

trainCompleted ==
  /\ pc = "trainCompleted"
  /\ served' = spare
  /\ pc' = "rename"
  /\ UNCHANGED <<map, training, found, tmp, file, queries, restarts>>

rename ==
  /\ pc = "rename"
  /\ file' = tmp
  /\ pc' = "idle"
  /\ UNCHANGED <<map, served, training, found, tmp, queries, restarts>>

-----------------------------------------------------------------------------
(* queryCurrentTrends, in a network thread *)
queryCurrentTrends(r) ==
  /\ rpc[r] = "idle"
  /\ rpc' = [rpc EXCEPT ![r] = "walk"]
  /\ ptr' = [ptr EXCEPT ![r] = served]
  /\ todo' = [todo EXCEPT ![r] = Categories]
  /\ got' = [got EXCEPT ![r] = Empty]
  /\ taken' = [taken EXCEPT ![r] = map[served]]
  /\ overlaps' = [overlaps EXCEPT ![r] = IF pc = "idle" THEN 0 ELSE 1]
  /\ UNCHANGED <<trainer, restarts>>

walk(r) ==
  /\ rpc[r] = "walk"
  /\ \E c \in todo[r] :
       /\ \A d \in todo[r] : c <= d
       /\ got' = [got EXCEPT ![r][c] = map[ptr[r]][c]]
       /\ todo' = [todo EXCEPT ![r] = @ \ {c}]
       /\ rpc' = [rpc EXCEPT ![r] = IF todo[r] = {c} THEN "answered" ELSE "walk"]
  /\ UNCHANGED <<trainer, ptr, taken, overlaps, restarts>>

(* queries that are over keep nothing *)
Forget(rs) ==
  /\ rpc' = [r \in Readers |-> IF r \in rs THEN "idle" ELSE rpc[r]]
  /\ ptr' = [r \in Readers |-> IF r \in rs THEN 1 ELSE ptr[r]]
  /\ todo' = [r \in Readers |-> IF r \in rs THEN {} ELSE todo[r]]
  /\ got' = [r \in Readers |-> IF r \in rs THEN Empty ELSE got[r]]
  /\ taken' = [r \in Readers |-> IF r \in rs THEN Empty ELSE taken[r]]
  /\ overlaps' = [r \in Readers |-> IF r \in rs THEN 0 ELSE overlaps[r]]

answer(r) ==
  /\ rpc[r] = "answered"
  /\ Forget({r})
  /\ UNCHANGED <<trainer, restarts>>

-----------------------------------------------------------------------------
(* The process dies: killed, or by LOG(FATAL) because a call of the training
   failed (service_glue.cpp:114-122; nothing a failing call has done matters to
   the next process).  The next one reloads the table: reloadBefore,
   loadDistribution and reloadCompleted, before any query is served. *)
Restart ==
  /\ restarts < MaxRestarts
  /\ restarts' = restarts + 1
  /\ map' = [m \in {1, 2} |-> IF m = 2 THEN file.dist ELSE Empty]
  /\ served' = 2
  /\ pc' = "idle"
  /\ Forget(Readers)
  /\ UNCHANGED <<training, found, tmp, file>>

train == trainBefore \/ (\E c \in Categories : trainClick(c)) \/ createTable
         \/ dumpTable \/ trainCompleted \/ rename

Next == \/ train
        \/ \E r \in Readers : queryCurrentTrends(r) \/ walk(r) \/ answer(r)
        \/ Restart

Spec == Init /\ [][Next]_vars
-----------------------------------------------------------------------------
Entry == {Absent} \cup ((0..MaxTrainings) \X {"count", "share"})

TypeOK == /\ map \in [{1, 2} -> [Categories -> Entry]]
          /\ served \in {1, 2}
          /\ training \in 0..MaxTrainings
          /\ found \subseteq Categories
          /\ pc \in {"idle", "train", "dumpTable", "trainCompleted", "rename"}
          /\ file.dist \in [Categories -> Entry] /\ tmp.dist \in [Categories -> Entry]
          /\ rpc \in [Readers -> {"idle", "walk", "answered"}]
          /\ ptr \in [Readers -> {1, 2}]
          /\ todo \in [Readers -> SUBSET Categories]
          /\ got \in [Readers -> [Categories -> Entry]]
          /\ taken \in [Readers -> [Categories -> Entry]]
          /\ overlaps \in [Readers -> 0..(MaxTrainings + 1)]

(* A query that runs alongside at most one training answers with one whole
   distribution, the one served when it began, shares and never counts:
   the swap (line 96) makes the second map safe to fill. *)
ReadsOneDistribution ==
  \A r \in Readers : rpc[r] = "answered" /\ overlaps[r] <= 1 =>
    /\ got[r] = taken[r]
    /\ \A c \in Categories : got[r][c] # Absent => got[r][c][2] = "share"

(* The table in place is one training's complete result, never the half of
   one, wherever training fails or the process dies. *)
TableComplete ==
  \A c \in Categories : file.dist[c] # Absent => file.dist[c] = <<file.by, "share">>
=============================================================================
