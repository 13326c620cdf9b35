--------------------------- MODULE PredictionProofs ---------------------------
(***************************************************************************)
(* Theorems about the trained and the reloaded tables and the queries that *)
(* walk them without a lock, for any number of query threads, categories,  *)
(* users, trainings, reloads, conversions and deaths.                      *)
(***************************************************************************)
EXTENDS Prediction, SequenceTheorems, TLAPS

-----------------------------------------------------------------------------
(* The news trends *)

Shares == {d \in [Categories -> Entry] : \A c \in Categories : d[c] # Absent => d[c][2] = "share"}

(* What is served holds shares; what is about to be served, and the table
   about to be put in place, are the training's result. *)
Trained ==
  /\ pc # "idle" => training > 0
  /\ map[served] \in Shares
  /\ pc = "trainCompleted" => map[spare] = Share(training, found)
  /\ pc \in {"trainCompleted", "rename"} =>
       tmp.by = training /\ tmp.dist = Share(training, found)
  /\ TableComplete

(* A query with at most one training alongside walks a map nobody fills. *)
Walks(r) ==
  /\ overlaps[r] <= training
  /\ taken[r] \in Shares
  /\ rpc[r] = "walk" /\ overlaps[r] <= 1 =>
       /\ map[ptr[r]] = taken[r]
       /\ overlaps[r] = 0 => pc = "idle"
       /\ overlaps[r] = 0 \/ pc \in {"train", "dumpTable", "trainCompleted"} => ptr[r] = served
       /\ \A c \in Categories \ todo[r] : got[r][c] = taken[r][c]
  /\ rpc[r] = "answered" /\ overlaps[r] <= 1 => got[r] = taken[r]

Walking == \A r \in Readers : Walks(r)

TrendsInv == TypeOK /\ Trained /\ Walking

(* Shares of a training, the empty distribution and counts are of their kinds. *)
LEMMA Kinds ==
  ASSUME NEW v \in 0..MaxTrainings, NEW cs \in SUBSET Categories
  PROVE  /\ Share(v, cs) \in Shares
         /\ Empty \in Shares
         /\ <<v, "count">> \in Entry
         /\ \A c \in Categories : Share(v, cs)[c] # Absent => Share(v, cs)[c] = <<v, "share">>
<1> QED
  BY NewsTrendsAssumption DEF Share, Shares, Empty, Entry, Absent

(* A fresh start serves and keeps an empty distribution. *)
LEMMA TrendsInit == Init => TrendsInv
<1> SUFFICES ASSUME Init PROVE TrendsInv
  OBVIOUS
<1>1. 0 \in 0..MaxTrainings
  BY NewsTrendsAssumption
<1>2. Share(0, Categories) \in Shares /\ Empty \in Shares
  BY <1>1, Kinds
<1>3. Shares \subseteq [Categories -> Entry]
  BY DEF Shares
<1>4. TypeOK
  <2>1. 0 \in 0..(MaxTrainings + 1)
    BY NewsTrendsAssumption
  <2>2. map \in [{1, 2} -> [Categories -> Entry]] /\ file.dist \in [Categories -> Entry]
    BY <1>2, <1>3 DEF Init
  <2>3. /\ tmp.dist \in [Categories -> Entry]
        /\ got \in [Readers -> [Categories -> Entry]]
        /\ taken \in [Readers -> [Categories -> Entry]]
    BY <1>2, <1>3 DEF Init
  <2>4. /\ served \in {1, 2} /\ training \in 0..MaxTrainings /\ found \subseteq Categories
        /\ pc \in {"idle", "train", "dumpTable", "trainCompleted", "rename"}
    BY <1>1 DEF Init
  <2>5. /\ rpc \in [Readers -> {"idle", "walk", "answered"}]
        /\ ptr \in [Readers -> {1, 2}]
        /\ todo \in [Readers -> SUBSET Categories]
        /\ overlaps \in [Readers -> 0..(MaxTrainings + 1)]
    BY <2>1 DEF Init
  <2> QED
    BY <2>2, <2>3, <2>4, <2>5 DEF TypeOK
<1>5. TableComplete
  BY <1>1, Kinds DEF Init, TableComplete
<1>6. Trained
  BY <1>2, <1>5 DEF Init, Trained
<1>7. Walking
  BY <1>2 DEF Init, Walking, Walks
<1> QED
  BY <1>4, <1>6, <1>7 DEF TrendsInv

(* Every step of the trainer, of a query or of a restart keeps TrendsInv. *)
LEMMA TrendsStep == TrendsInv /\ [Next]_vars => TrendsInv'
<1> SUFFICES ASSUME TrendsInv, [Next]_vars PROVE TrendsInv'
  OBVIOUS
<1> USE DEF TrendsInv
<1>t. /\ map \in [{1, 2} -> [Categories -> Entry]]
      /\ served \in {1, 2} /\ spare \in {1, 2} /\ spare # served
      /\ training \in 0..MaxTrainings /\ training \in Nat
      /\ found \in SUBSET Categories
      /\ Shares \subseteq [Categories -> Entry]
  BY NewsTrendsAssumption DEF TypeOK, spare, Shares
<1>k. /\ Share(training, found) \in Shares /\ Empty \in Shares
      /\ \A c \in Categories : Share(training, found)[c] # Absent =>
                              Share(training, found)[c] = <<training, "share">>
  BY <1>t, Kinds
<1>1. CASE trainBefore
  <2>1. /\ pc = "idle" /\ pc' = "train" /\ training < MaxTrainings /\ training' = training + 1
        /\ map' = [map EXCEPT ![spare] = Empty]
        /\ found' \in SUBSET Categories
        /\ overlaps' = [r \in Readers |-> IF rpc[r] = "walk" THEN overlaps[r] + 1 ELSE overlaps[r]]
        /\ UNCHANGED <<served, tmp, file, rpc, ptr, todo, got, taken>>
    BY <1>1 DEF trainBefore
  <2>2. /\ map' \in [{1, 2} -> [Categories -> Entry]] /\ map'[served] = map[served]
        /\ training' \in 0..MaxTrainings /\ training' > 0
    BY <1>t, <1>k, <2>1, NewsTrendsAssumption
  <2>3. \A r \in Readers : overlaps[r] \in Nat /\ overlaps[r] <= training
    BY NewsTrendsAssumption DEF TypeOK, Walking, Walks
  <2>4. \A r \in Readers :
          /\ overlaps'[r] \in Nat /\ overlaps'[r] <= training'
          /\ rpc[r] = "walk" => overlaps'[r] = overlaps[r] + 1
          /\ rpc[r] # "walk" => overlaps'[r] = overlaps[r]
    BY <1>t, <2>1, <2>3
  <2>5. overlaps' \in [Readers -> 0..(MaxTrainings + 1)]
    <3>1. \A n \in Nat : n <= training' => n \in 0..(MaxTrainings + 1)
      BY <2>2, NewsTrendsAssumption
    <3>2. \A r \in Readers : overlaps'[r] \in 0..(MaxTrainings + 1)
      BY <2>4, <3>1
    <3> QED
      BY <2>1, <3>2
  <2>6. TypeOK'
    BY <2>1, <2>2, <2>5 DEF TypeOK
  <2>7. Trained'
    BY <2>1, <2>2 DEF Trained, TableComplete
  <2>8. Walking'
    <3> SUFFICES ASSUME NEW r \in Readers
                 PROVE  /\ taken'[r] \in Shares
                        /\ rpc'[r] = "walk" /\ overlaps'[r] <= 1 =>
                             /\ map'[ptr'[r]] = taken'[r]
                             /\ overlaps'[r] # 0
                             /\ ptr'[r] = served'
                             /\ \A c \in Categories \ todo'[r] : got'[r][c] = taken'[r][c]
                        /\ rpc'[r] = "answered" /\ overlaps'[r] <= 1 => got'[r] = taken'[r]
      BY <2>4 DEF Walking, Walks
    <3>0. overlaps[r] \in Nat /\ (rpc[r] = "walk" => overlaps'[r] = overlaps[r] + 1)
      BY <2>3, <2>4
    <3>1. rpc[r] = "walk" /\ overlaps'[r] <= 1 => overlaps[r] = 0
      BY <3>0
    <3>2. rpc[r] = "walk" => overlaps'[r] # 0
      BY <3>0
    <3>3. overlaps'[r] <= 1 /\ rpc[r] # "walk" => overlaps[r] <= 1
      BY <2>4
    <3> QED
      BY <2>1, <2>2, <3>1, <3>2, <3>3 DEF Walking, Walks
  <2> QED
    BY <2>6, <2>7, <2>8
<1>2. ASSUME NEW c \in Categories, trainClick(c)
      PROVE  TrendsInv'
  <2>1. /\ pc = "train" /\ map' = [map EXCEPT ![spare][c] = <<training, "count">>]
        /\ UNCHANGED <<served, training, found, pc, tmp, file, queries>>
    BY <1>2 DEF trainClick
  <2>2. map' \in [{1, 2} -> [Categories -> Entry]] /\ map'[served] = map[served]
    BY <1>t, <2>1, Kinds
  <2>3. TypeOK' /\ Trained'
    BY <2>1, <2>2 DEF TypeOK, Trained, TableComplete, queries
  <2>4. Walking'
    BY <2>1, <2>2 DEF Walking, Walks, queries
  <2> QED
    BY <2>3, <2>4
<1>3. CASE createTable
  <2>1. /\ pc = "train" /\ pc' = "dumpTable" /\ tmp'.dist = Empty
        /\ UNCHANGED <<map, served, training, found, file, queries>>
    BY <1>3 DEF createTable
  <2>2. TypeOK'
    BY <1>t, <1>k, <2>1 DEF TypeOK, queries
  <2>3. Trained'
    BY <2>1 DEF Trained, TableComplete
  <2>4. Walking'
    BY <2>1 DEF Walking, Walks, queries
  <2> QED
    BY <2>2, <2>3, <2>4
<1>4. CASE dumpTable
  <2>1. /\ pc = "dumpTable" /\ pc' = "trainCompleted"
        /\ map' = [map EXCEPT ![spare] = Share(training, found)]
        /\ tmp'.by = training /\ tmp'.dist = Share(training, found)
        /\ UNCHANGED <<served, training, found, file, queries>>
    BY <1>4 DEF dumpTable
  <2>2. /\ map' \in [{1, 2} -> [Categories -> Entry]] /\ map'[served] = map[served]
        /\ map'[spare] = Share(training, found)
    BY <1>t, <1>k, <2>1
  <2>3. TypeOK'
    BY <1>t, <1>k, <2>1, <2>2 DEF TypeOK, queries
  <2>4. Trained'
    <3>1. spare' = spare /\ Share(training, found)' = Share(training, found)
      BY <2>1 DEF spare, Share
    <3> QED
      BY <2>1, <2>2, <3>1 DEF Trained, TableComplete
  <2>5. Walking'
    BY <2>1, <2>2 DEF Walking, Walks, queries
  <2> QED
    BY <2>3, <2>4, <2>5
<1>5. CASE trainCompleted
  <2>1. /\ pc = "trainCompleted" /\ pc' = "rename" /\ served' = spare
        /\ UNCHANGED <<map, training, found, tmp, file, queries>>
    BY <1>5 DEF trainCompleted
  <2>2. TypeOK'
    BY <1>t, <2>1 DEF TypeOK, queries
  <2>3. Trained'
    BY <1>k, <2>1 DEF Trained, TableComplete, Share
  <2>4. Walking'
    BY <2>1 DEF Walking, Walks, queries
  <2> QED
    BY <2>2, <2>3, <2>4
<1>6. CASE rename
  <2>1. /\ pc = "rename" /\ pc' = "idle" /\ file' = tmp
        /\ UNCHANGED <<map, served, training, found, tmp, queries>>
    BY <1>6 DEF rename
  <2>2. TypeOK'
    BY <2>1 DEF TypeOK, queries
  <2>3. Trained'
    BY <1>k, <2>1 DEF Trained, TableComplete
  <2>4. Walking'
    BY <2>1 DEF Walking, Walks, queries
  <2> QED
    BY <2>2, <2>3, <2>4
<1>7. ASSUME NEW r \in Readers, queryCurrentTrends(r)
      PROVE  TrendsInv'
  <2>1. /\ rpc' = [rpc EXCEPT ![r] = "walk"] /\ ptr' = [ptr EXCEPT ![r] = served]
        /\ todo' = [todo EXCEPT ![r] = Categories] /\ got' = [got EXCEPT ![r] = Empty]
        /\ taken' = [taken EXCEPT ![r] = map[served]]
        /\ overlaps' = [overlaps EXCEPT ![r] = IF pc = "idle" THEN 0 ELSE 1]
        /\ UNCHANGED trainer
    BY <1>7 DEF queryCurrentTrends
  <2>2. PICK n \in {0, 1} :
          /\ overlaps' = [overlaps EXCEPT ![r] = n]
          /\ n = 0 => pc = "idle"
          /\ n = 1 => training > 0
          /\ n <= training /\ n \in 0..(MaxTrainings + 1)
    <3>1. CASE pc = "idle"
      BY <1>t, <2>1, <3>1, NewsTrendsAssumption
    <3>2. CASE pc # "idle"
      BY <1>t, <2>1, <3>2, NewsTrendsAssumption DEF Trained
    <3> QED
      BY <3>1, <3>2
  <2>3. map[served] \in Shares /\ map[served] \in [Categories -> Entry]
    BY <1>t DEF Trained
  <2>4. TypeOK'
    <3>1. /\ rpc' \in [Readers -> {"idle", "walk", "answered"}]
          /\ ptr' \in [Readers -> {1, 2}]
          /\ todo' \in [Readers -> SUBSET Categories]
      BY <1>t, <2>1 DEF TypeOK
    <3>2. /\ got' \in [Readers -> [Categories -> Entry]]
          /\ taken' \in [Readers -> [Categories -> Entry]]
      BY <1>t, <1>k, <2>1, <2>3 DEF TypeOK
    <3>3. overlaps' \in [Readers -> 0..(MaxTrainings + 1)]
      <4>1. overlaps \in [Readers -> 0..(MaxTrainings + 1)]
        BY DEF TypeOK
      <4> QED
        BY <2>2, <4>1
    <3> QED
      BY <2>1, <3>1, <3>2, <3>3 DEF TypeOK, trainer
  <2>5. Trained'
    BY <2>1 DEF Trained, TableComplete, trainer, spare, Share
  <2>6. Walking'
    <3> SUFFICES ASSUME NEW q \in Readers
                 PROVE  Walks(q)'
      BY DEF Walking, Walks
    <3>1. CASE q = r
      <4>1. /\ rpc'[q] = "walk" /\ ptr'[q] = served /\ todo'[q] = Categories
            /\ taken'[q] = map[served] /\ overlaps'[q] = n
        <5>1. \A f \in {rpc, ptr, todo, taken, overlaps} : DOMAIN f = Readers
          BY DEF TypeOK
        <5> QED
          BY <2>1, <2>2, <3>1, <5>1
      <4> QED
        BY <2>1, <2>2, <2>3, <4>1 DEF trainer, Walks
    <3>2. CASE q # r
      <4>1. /\ rpc'[q] = rpc[q] /\ ptr'[q] = ptr[q] /\ todo'[q] = todo[q] /\ got'[q] = got[q]
            /\ taken'[q] = taken[q] /\ overlaps'[q] = overlaps[q]
        BY <2>1, <2>2, <3>2
      <4> QED
        BY <2>1, <4>1 DEF trainer, Walking, Walks
    <3> QED
      BY <3>1, <3>2
  <2> QED
    BY <2>4, <2>5, <2>6
<1>8. ASSUME NEW r \in Readers, walk(r)
      PROVE  TrendsInv'
  <2>1. PICK c \in todo[r] :
          /\ got' = [got EXCEPT ![r][c] = map[ptr[r]][c]]
          /\ todo' = [todo EXCEPT ![r] = @ \ {c}]
          /\ rpc' = [rpc EXCEPT ![r] = IF todo[r] = {c} THEN "answered" ELSE "walk"]
    BY <1>8 DEF walk
  <2>2. rpc[r] = "walk" /\ UNCHANGED <<trainer, ptr, taken, overlaps>>
    BY <1>8 DEF walk
  <2>3. c \in Categories /\ map[ptr[r]][c] \in Entry
    BY <1>t DEF TypeOK
  <2>4. /\ got' \in [Readers -> [Categories -> Entry]]
        /\ todo' \in [Readers -> SUBSET Categories]
        /\ rpc' \in [Readers -> {"idle", "walk", "answered"}]
    BY <2>1, <2>3 DEF TypeOK
  <2>5. TypeOK' /\ Trained'
    BY <2>2, <2>4 DEF TypeOK, Trained, TableComplete, trainer, spare, Share
  <2>6. Walking'
    <3> SUFFICES ASSUME NEW q \in Readers
                 PROVE  Walks(q)'
      BY DEF Walking, Walks
    <3>1. CASE q = r
      <4>1. /\ todo'[r] = todo[r] \ {c} /\ got'[r] = [got[r] EXCEPT ![c] = map[ptr[r]][c]]
            /\ rpc'[r] = IF todo[r] = {c} THEN "answered" ELSE "walk"
        BY <2>1 DEF TypeOK
      <4>2. got[r] \in [Categories -> Entry] /\ taken[r] \in [Categories -> Entry]
        BY DEF TypeOK
      <4>3. ASSUME overlaps[r] <= 1
            PROVE  \A d \in Categories \ todo'[r] : got'[r][d] = taken[r][d]
        <5>1. map[ptr[r]] = taken[r] /\ \A d \in Categories \ todo[r] : got[r][d] = taken[r][d]
          BY <2>2, <4>3 DEF Walking, Walks
        <5> QED
          BY <4>1, <4>2, <5>1
      <4>4. ASSUME overlaps[r] <= 1, rpc'[r] = "answered"
            PROVE  got'[r] = taken[r]
        <5>1. todo'[r] = {}
          BY <4>1, <4>4
        <5>2. got'[r] \in [Categories -> Entry]
          BY <2>4
        <5> QED
          BY <4>2, <4>3, <4>4, <5>1, <5>2
      <4>5. ASSUME overlaps[r] <= 1
            PROVE  /\ map[ptr[r]] = taken[r]
                   /\ overlaps[r] = 0 => pc = "idle"
                   /\ overlaps[r] = 0 \/ pc \in {"train", "dumpTable", "trainCompleted"} => ptr[r] = served
        BY <2>2, <4>5 DEF Walking, Walks
      <4>6. overlaps[r] <= training /\ taken[r] \in Shares
        BY DEF Walking, Walks
      <4> QED
        BY <2>2, <3>1, <4>3, <4>4, <4>5, <4>6 DEF trainer, Walks
    <3>2. CASE q # r
      <4>1. rpc'[q] = rpc[q] /\ todo'[q] = todo[q] /\ got'[q] = got[q]
        BY <2>1, <3>2 DEF TypeOK
      <4> QED
        BY <2>2, <4>1 DEF trainer, Walking, Walks
    <3> QED
      BY <3>1, <3>2
  <2> QED
    BY <2>5, <2>6
<1>9. ASSUME NEW rs \in SUBSET Readers, Forget(rs)
      PROVE  /\ rpc' \in [Readers -> {"idle", "walk", "answered"}]
             /\ ptr' \in [Readers -> {1, 2}]
             /\ todo' \in [Readers -> SUBSET Categories]
             /\ got' \in [Readers -> [Categories -> Entry]]
             /\ taken' \in [Readers -> [Categories -> Entry]]
             /\ overlaps' \in [Readers -> 0..(MaxTrainings + 1)]
             /\ \A q \in rs : rpc'[q] = "idle" /\ taken'[q] \in Shares /\ overlaps'[q] <= training
             /\ \A q \in Readers \ rs :
                  /\ rpc'[q] = rpc[q] /\ ptr'[q] = ptr[q] /\ todo'[q] = todo[q]
                  /\ got'[q] = got[q] /\ taken'[q] = taken[q] /\ overlaps'[q] = overlaps[q]
  <2>1. /\ rpc' \in [Readers -> {"idle", "walk", "answered"}]
        /\ ptr' \in [Readers -> {1, 2}]
        /\ todo' \in [Readers -> SUBSET Categories]
    BY <1>9 DEF Forget, TypeOK
  <2>2. /\ got' \in [Readers -> [Categories -> Entry]]
        /\ taken' \in [Readers -> [Categories -> Entry]]
    BY <1>t, <1>k, <1>9 DEF Forget, TypeOK
  <2>3. overlaps' \in [Readers -> 0..(MaxTrainings + 1)]
    <3>1. 0 \in 0..(MaxTrainings + 1)
      BY NewsTrendsAssumption
    <3> QED
      BY <1>9, <3>1 DEF Forget, TypeOK
  <2>4. \A q \in rs : rpc'[q] = "idle" /\ taken'[q] = Empty /\ overlaps'[q] = 0
    BY <1>9 DEF Forget
  <2>5. \A q \in Readers \ rs :
          /\ rpc'[q] = rpc[q] /\ ptr'[q] = ptr[q] /\ todo'[q] = todo[q]
          /\ got'[q] = got[q] /\ taken'[q] = taken[q] /\ overlaps'[q] = overlaps[q]
    BY <1>9 DEF Forget
  <2> QED
    BY <1>t, <1>k, <2>1, <2>2, <2>3, <2>4, <2>5
<1>10. ASSUME NEW r \in Readers, answer(r)
       PROVE  TrendsInv'
  <2>1. {r} \in SUBSET Readers /\ Forget({r}) /\ UNCHANGED trainer
    BY <1>10 DEF answer
  <2>2. TypeOK' /\ Trained'
    BY <1>9, <2>1 DEF TypeOK, Trained, TableComplete, trainer, spare, Share
  <2>3. Walking'
    <3> SUFFICES ASSUME NEW q \in Readers
                 PROVE  Walks(q)'
      BY DEF Walking, Walks
    <3>1. CASE q = r
      BY <1>9, <2>1, <3>1 DEF trainer, Walks
    <3>2. CASE q # r
      <4>1. /\ rpc'[q] = rpc[q] /\ ptr'[q] = ptr[q] /\ todo'[q] = todo[q] /\ got'[q] = got[q]
            /\ taken'[q] = taken[q] /\ overlaps'[q] = overlaps[q]
        BY <1>9, <2>1, <3>2
      <4> QED
        BY <2>1, <4>1 DEF trainer, Walking, Walks
    <3> QED
      BY <3>1, <3>2
  <2> QED
    BY <2>2, <2>3
<1>11. CASE Restart
  <2>1. Readers \in SUBSET Readers /\ Forget(Readers)
    BY <1>11 DEF Restart
  <2>2. /\ map' = [m \in {1, 2} |-> IF m = 2 THEN file.dist ELSE Empty]
        /\ served' = 2 /\ pc' = "idle" /\ UNCHANGED <<training, found, tmp, file>>
    BY <1>11 DEF Restart
  <2>3. file.dist \in Shares
    BY DEF Trained, TableComplete, Shares, TypeOK
  <2>4. map' \in [{1, 2} -> [Categories -> Entry]] /\ map'[served'] \in Shares
    BY <1>t, <1>k, <2>2, <2>3
  <2>5. TypeOK'
    BY <1>9, <2>1, <2>2, <2>4 DEF TypeOK
  <2>6. Trained'
    BY <2>2, <2>4 DEF Trained, TableComplete
  <2>7. Walking'
    BY <1>9, <2>1, <2>2 DEF Walking, Walks
  <2> QED
    BY <2>5, <2>6, <2>7
<1>12. CASE UNCHANGED vars
  BY <1>12 DEF vars, trainer, queries, TypeOK, Trained, Walking, Walks, TableComplete, spare, Share
<1> QED
  BY <1>1, <1>2, <1>3, <1>4, <1>5, <1>6, <1>7, <1>8, <1>10, <1>11, <1>12 DEF Next, train

(* The two facts of the readers and of the file, from the invariant. *)
LEMMA TrendsGood == TrendsInv => ReadsOneDistribution /\ TableComplete
  BY DEF TrendsInv, Walking, Walks, Trained, Shares, ReadsOneDistribution
(* Trainings, queries of the trends and restarts by themselves: a query answers
   with one whole distribution of shares (news_trends.cpp:94-128), and the
   table in place is always one training's complete result. *)
THEOREM TrendsCorrect == Spec => [](TypeOK /\ ReadsOneDistribution /\ TableComplete)
<1>1. TrendsInv => TypeOK /\ ReadsOneDistribution /\ TableComplete
  BY TrendsGood DEF TrendsInv
<1> QED
  BY <1>1, TrendsInit, TrendsStep, PTL DEF Spec

-----------------------------------------------------------------------------
(* The trends within the predictions: reloads, the converter and what else a
   query does leave them alone. *)
LEMMA TrendsWithin ==
  ASSUME [PredictionNext]_predictionVars
  PROVE  [Next]_vars
<1>1. CASE train
  BY <1>1 DEF Next
<1>2. CASE reload
  BY <1>2 DEF reload, reloadBefore, loadDistribution, readFails, reloadCompleted
<1>3. CASE dumpUserInterests \/ dumpUser \/ close
  BY <1>3 DEF dumpUserInterests, dumpUser, close
<1>4. ASSUME NEW r \in Readers, predict(r)
      PROVE  [Next]_vars
  <2>1. CASE queryUserInterests(r) \/ walkUser(r) \/ reply(r)
    BY <2>1 DEF queryUserInterests, walkUser, reply
  <2>2. CASE queryNewsTrends(r)
    BY <2>2 DEF queryNewsTrends, Next
  <2>3. CASE predictUserInterests(r)
    BY <2>3 DEF predictUserInterests, Next
  <2> QED
    BY <1>4, <2>1, <2>2, <2>3 DEF predict
<1>5. ASSUME NEW r \in Readers, walk(r)
      PROVE  [Next]_vars
  BY <1>5 DEF Next
<1>6. CASE Reopen
  BY <1>6 DEF Reopen, Next
<1>7. CASE UNCHANGED predictionVars
  BY <1>7 DEF predictionVars
<1> QED
  BY <1>1, <1>2, <1>3, <1>4, <1>5, <1>6, <1>7 DEF PredictionNext

(* The predictions implement the news trends: a training runs as it does when
   nobody reloads, converts or predicts. *)
THEOREM PredictionRefinesTrends == PredictionSpec => Spec
<1>1. PredictionInit => Init
  BY DEF PredictionInit
<1> QED
  BY <1>1, TrendsWithin, PTL DEF PredictionSpec, Spec
-----------------------------------------------------------------------------
(* The users' table and the predictions *)

Row == [user : Users, by : 1..MaxConversions]

TablesTyped ==
  /\ upc \in {"idle", "load", "reloadCompleted"}
  /\ upc # "idle" => pc = "idle"
  /\ userMap \in [{1, 2} -> [Users -> 0..MaxConversions]]
  /\ userServed \in {1, 2}
  /\ pos \in Nat \ {0}
  /\ tableOf \in [{1, 2} -> [by : 0..MaxConversions, whole : BOOLEAN, lost : SUBSET Users]]
  /\ userFile \in Seq(Row)
  /\ toWrite \in Seq(Users)
  /\ converting \in BOOLEAN
  /\ lost \subseteq Users
  /\ conversions \in 1..MaxConversions

(* What the converter has written, has lost and has yet to write are all the users. *)
Converted ==
  /\ \A i \in DOMAIN userFile : userFile[i].by = conversions
  /\ \A u \in Users : \/ \E i \in DOMAIN userFile : userFile[i].user = u
                      \/ u \in lost
                      \/ converting /\ \E i \in DOMAIN toWrite : toWrite[i] = u

(* What a reload nobody has disturbed has read. *)
WholeRows(m) == \A u \in Users \ tableOf[m].lost : userMap[m][u] = tableOf[m].by

Reloaded ==
  /\ upc = "load" /\ tableOf[bak].whole =>
       /\ ~converting
       /\ tableOf[bak].by = conversions /\ tableOf[bak].lost = lost
       /\ \A u \in Users : userMap[bak][u] \in {0, conversions}
       /\ \A i \in DOMAIN userFile : i < pos => userMap[bak][userFile[i].user] # 0
  /\ upc = "reloadCompleted" /\ tableOf[bak].whole => WholeRows(bak)
  /\ tableOf[userServed].whole => WholeRows(userServed)

(* A query with at most one reload alongside walks a row nobody changes. *)
WalksRow(q) ==
  /\ q.step = "long" =>
       /\ q.user \in Users
       /\ q.overlaps = 0 => upc = "idle"
       /\ q.overlaps <= 1 =>
            /\ q.row # 0 /\ userMap[q.ptr][q.user] = q.row
            /\ q.overlaps = 0 \/ upc # "idle" => q.ptr = userServed
            /\ q.todo \subseteq Interests[q.user]
            /\ q.read = (Interests[q.user] \ q.todo) \X {q.row}
  /\ q.step = "current" /\ q.overlaps <= 1 =>
       q.read = Named(q) \X {q.row}

WalkingRows == \A r \in Readers : WalksRow(query[r])

(* The record of a reader without a query is of its type. *)
LEMMA AsleepTyped ==
  /\ Asleep \in Query
  /\ Asleep.step = "idle"
<1> QED
  BY PredictionAssumption DEF Asleep, Query

(* The first table of the users is whole, and what is served was read from it. *)
LEMMA PredictionInitially ==
  PredictionInit => TablesTyped /\ Converted /\ Reloaded /\ query \in [Readers -> Query] /\ WalkingRows
<1> SUFFICES ASSUME PredictionInit
             PROVE  TablesTyped /\ Converted /\ Reloaded /\ query \in [Readers -> Query] /\ WalkingRows
  OBVIOUS
<1>1. /\ upc = "idle" /\ userServed = 1 /\ pos = 1
      /\ userMap = [m \in {1, 2} |-> IF m = 1 THEN [u \in Users |-> 1] ELSE NoRows]
      /\ tableOf = [m \in {1, 2} |-> [by |-> 1, whole |-> TRUE, lost |-> {}]]
      /\ userFile = Rows(InOrder, 1)
      /\ toWrite = <<>> /\ converting = FALSE /\ conversions = 1 /\ lost = {}
      /\ query = [r \in Readers |-> Asleep]
  BY DEF PredictionInit
<1>2. 1 \in 1..MaxConversions /\ 0 \in 0..MaxConversions /\ 1 \in 0..MaxConversions
  BY PredictionAssumption
<1>3. /\ InOrder \in Seq(Users) /\ DOMAIN userFile = DOMAIN InOrder
      /\ \A i \in DOMAIN InOrder : userFile[i] = [user |-> InOrder[i], by |-> 1]
  BY <1>1, PredictionAssumption DEF Rows
<1>4. userFile \in Seq(Row)
  <2>1. /\ Len(InOrder) \in Nat /\ DOMAIN InOrder = 1..Len(InOrder)
        /\ \A i \in DOMAIN InOrder : InOrder[i] \in Users
    BY <1>3
  <2>2. \A i \in 1..Len(InOrder) : [user |-> InOrder[i], by |-> 1] \in Row
    BY <1>2, <2>1 DEF Row
  <2>3. userFile = [i \in 1..Len(InOrder) |-> [user |-> InOrder[i], by |-> 1]]
    BY <1>1, <2>1 DEF Rows
  <2> QED
    BY <2>1, <2>2, <2>3, IsASeq
<1>5. TablesTyped
  <2>1. userMap \in [{1, 2} -> [Users -> 0..MaxConversions]]
    BY <1>1, <1>2 DEF NoRows
  <2>2. tableOf \in [{1, 2} -> [by : 0..MaxConversions, whole : BOOLEAN, lost : SUBSET Users]]
    BY <1>1, <1>2
  <2>3. toWrite \in Seq(Users)
    BY <1>1
  <2>4. converting \in BOOLEAN
    BY <1>1
  <2>5. /\ upc \in {"idle", "load", "reloadCompleted"} /\ upc = "idle"
        /\ userServed \in {1, 2} /\ pos \in Nat \ {0} /\ conversions \in 1..MaxConversions
        /\ lost \subseteq Users
    BY <1>1, <1>2
  <2> QED
    BY <1>4, <2>1, <2>2, <2>3, <2>4, <2>5 DEF TablesTyped
<1>6. Converted
  <2>1. \A i \in DOMAIN userFile : userFile[i].by = 1 /\ userFile[i].user = InOrder[i]
    BY <1>3
  <2>2. \A u \in Users : \E i \in DOMAIN userFile : userFile[i].user = u
    BY <1>3, <2>1, PredictionAssumption
  <2> QED
    BY <1>1, <2>1, <2>2 DEF Converted
<1>7. Reloaded
  BY <1>1 DEF Reloaded, WholeRows
<1>8. query \in [Readers -> Query] /\ WalkingRows
  BY <1>1, AsleepTyped DEF WalkingRows, WalksRow
<1> QED
  BY <1>5, <1>6, <1>7, <1>8
TablesInv == TablesTyped /\ Converted /\ Reloaded

(* A step of the training or of a query leaves the users' table alone. *)
LEMMA TablesQuiet ==
  ASSUME TablesInv, UNCHANGED interests, upc = "idle" \/ pc' = pc
  PROVE  TablesInv'
<1>1. UNCHANGED <<upc, userMap, userServed, pos, tableOf, userFile, toWrite, converting, conversions, lost>>
  BY DEF interests, table, converter
<1>2. TablesTyped'
  BY <1>1 DEF TablesInv, TablesTyped
<1>3. Converted'
  BY <1>1 DEF TablesInv, Converted
<1>4. Reloaded'
  BY <1>1 DEF TablesInv, Reloaded, WholeRows, bak
<1> QED
  BY <1>2, <1>3, <1>4 DEF TablesInv

(* A step of a reload. *)
LEMMA TablesReload ==
  ASSUME TablesInv, reload
  PROVE  TablesInv'
<1> USE DEF TablesInv
<1>t. /\ userServed \in {1, 2} /\ bak \in {1, 2} /\ bak # userServed
      /\ userMap \in [{1, 2} -> [Users -> 0..MaxConversions]]
      /\ tableOf \in [{1, 2} -> [by : 0..MaxConversions, whole : BOOLEAN, lost : SUBSET Users]]
      /\ conversions \in 1..MaxConversions /\ conversions \in 0..MaxConversions
      /\ converting \in BOOLEAN /\ lost \subseteq Users
      /\ userFile \in Seq(Row) /\ pos \in Nat \ {0}
  BY PredictionAssumption DEF TablesTyped, bak
<1>n. NoRows \in [Users -> 0..MaxConversions] /\ \A u \in Users : NoRows[u] = 0
  BY PredictionAssumption DEF NoRows
<1>1. CASE reloadBefore
  <2>1. /\ pc = "idle" /\ upc = "idle" /\ upc' = "load" /\ pos' = 1
        /\ userMap' = [userMap EXCEPT ![bak] = NoRows]
        /\ tableOf' = [tableOf EXCEPT ![bak] = Opened]
        /\ UNCHANGED <<vars, userServed, userFile, toWrite, converting, conversions, lost>>
    BY <1>1 DEF reloadBefore, converter
  <2>2. /\ userMap' \in [{1, 2} -> [Users -> 0..MaxConversions]]
        /\ userMap'[bak] = NoRows /\ userMap'[userServed] = userMap[userServed]
    BY <1>t, <1>n, <2>1
  <2>3. /\ tableOf' \in [{1, 2} -> [by : 0..MaxConversions, whole : BOOLEAN, lost : SUBSET Users]]
        /\ tableOf'[bak].by = conversions /\ (tableOf'[bak].whole => ~converting)
        /\ tableOf'[bak].lost = lost
        /\ tableOf'[userServed] = tableOf[userServed]
    BY <1>t, <2>1 DEF Opened
  <2>4. TablesTyped'
    BY <2>1, <2>2, <2>3 DEF TablesTyped, vars, trainer
  <2>5. Converted'
    BY <2>1 DEF Converted
  <2>6. Reloaded'
    <3>1. bak' = bak
      BY <2>1 DEF bak
    <3>2. \A i \in DOMAIN userFile : ~(i < pos')
      BY <1>t, <2>1
    <3> QED
      BY <1>n, <2>1, <2>2, <2>3, <3>1, <3>2 DEF Reloaded, WholeRows
  <2> QED
    BY <2>4, <2>5, <2>6
<1>2. CASE loadDistribution /\ pos \in DOMAIN userFile
  <2> DEFINE rec == userFile[pos]
  <2>1. /\ upc = "load" /\ pos' = pos + 1
        /\ userMap' = [userMap EXCEPT ![bak] = Insert(@, rec)]
        /\ UNCHANGED <<vars, upc, userServed, tableOf, userFile, toWrite, converting, conversions, lost>>
    BY <1>2 DEF loadDistribution, converter
  <2>2. rec \in Row /\ rec.user \in Users /\ rec.by \in 1..MaxConversions /\ rec.by = conversions
    <3>1. rec \in Row
      BY <1>t, <1>2
    <3> QED
      BY <1>2, <3>1 DEF Row, Converted
  <2> HIDE DEF rec
  <2>3. PICK users \in [Users -> 0..MaxConversions] :
          /\ userMap' = [userMap EXCEPT ![bak] = users]
          /\ users[rec.user] # 0
          /\ \A u \in Users : users[u] = userMap[bak][u] \/ users[u] = conversions
          /\ \A u \in Users : userMap[bak][u] # 0 => users[u] # 0
    <3>1. userMap' = [userMap EXCEPT ![bak] = Insert(userMap[bak], rec)]
      BY <2>1
    <3>2. rec.by \in 0..MaxConversions /\ rec.by # 0
      BY <2>2
    <3>3. CASE userMap[bak][rec.user] = 0
      <4> DEFINE users == [userMap[bak] EXCEPT ![rec.user] = rec.by]
      <4>1. userMap' = [userMap EXCEPT ![bak] = users]
        BY <3>1, <3>3 DEF Insert
      <4>2. userMap[bak] \in [Users -> 0..MaxConversions]
        BY <1>t
      <4>3. /\ users \in [Users -> 0..MaxConversions]
            /\ users[rec.user] # 0
            /\ \A u \in Users : users[u] = userMap[bak][u] \/ users[u] = conversions
            /\ \A u \in Users : userMap[bak][u] # 0 => users[u] # 0
        BY <2>2, <3>2, <4>2
      <4> HIDE DEF users
      <4> QED
        BY <4>1, <4>3
    <3>4. CASE userMap[bak][rec.user] # 0
      <4>1. userMap' = [userMap EXCEPT ![bak] = userMap[bak]]
        BY <3>1, <3>4 DEF Insert
      <4>2. userMap[bak] \in [Users -> 0..MaxConversions]
        BY <1>t
      <4> QED
        BY <3>4, <4>1, <4>2
    <3> QED
      BY <3>3, <3>4
  <2>4. /\ userMap' \in [{1, 2} -> [Users -> 0..MaxConversions]]
        /\ userMap'[bak] = users /\ userMap'[userServed] = userMap[userServed]
    BY <1>t, <2>3
  <2>5. TablesTyped'
    BY <1>t, <2>1, <2>4 DEF TablesTyped, vars, trainer
  <2>6. Converted'
    BY <2>1 DEF Converted
  <2>7. Reloaded'
    <3>1. bak' = bak
      BY <2>1 DEF bak
    <3>2. ASSUME tableOf[bak].whole
          PROVE  /\ \A u \in Users : users[u] \in {0, conversions}
                 /\ \A i \in DOMAIN userFile : i < pos' => users[userFile[i].user] # 0
      <4>1. /\ \A u \in Users : userMap[bak][u] \in {0, conversions}
            /\ \A i \in DOMAIN userFile : i < pos => userMap[bak][userFile[i].user] # 0
        BY <2>1, <3>2 DEF Reloaded
      <4>2. \A i \in DOMAIN userFile : i < pos' => i < pos \/ i = pos
        BY <1>t, <2>1
      <4>3. \A i \in DOMAIN userFile : userFile[i].user \in Users
        <5>1. \A i \in DOMAIN userFile : userFile[i] \in Row
          BY <1>t
        <5> QED
          BY <5>1 DEF Row
      <4> QED
        BY <2>3, <4>1, <4>2, <4>3 DEF rec
    <3>3. tableOf[bak].whole => ~converting /\ tableOf[bak].by = conversions /\ tableOf[bak].lost = lost
      BY <2>1 DEF Reloaded
    <3>4. tableOf[userServed].whole => WholeRows(userServed)
      BY DEF Reloaded
    <3> QED
      BY <2>1, <2>4, <3>1, <3>2, <3>3, <3>4 DEF Reloaded, WholeRows
  <2> QED
    BY <2>5, <2>6, <2>7
<1>3. CASE loadDistribution /\ pos \notin DOMAIN userFile
  <2>1. /\ upc = "load" /\ upc' = "reloadCompleted"
        /\ UNCHANGED <<vars, userMap, pos, userServed, tableOf, userFile, toWrite, converting, conversions, lost>>
    BY <1>3 DEF loadDistribution, converter
  <2>2. TablesTyped'
    BY <2>1 DEF TablesTyped, vars, trainer
  <2>3. Converted'
    BY <2>1 DEF Converted
  <2>4. Reloaded'
    <3>1. bak' = bak
      BY <2>1 DEF bak
    <3>2. \A i \in DOMAIN userFile : i < pos
      BY <1>t, <1>3
    <3>3. ASSUME tableOf[bak].whole
          PROVE  WholeRows(bak)
      <4>1. /\ ~converting /\ tableOf[bak].by = conversions /\ tableOf[bak].lost = lost
            /\ \A u \in Users : userMap[bak][u] \in {0, conversions}
            /\ \A i \in DOMAIN userFile : userMap[bak][userFile[i].user] # 0
        BY <2>1, <3>2, <3>3 DEF Reloaded
      <4>2. \A u \in Users \ lost : \E i \in DOMAIN userFile : userFile[i].user = u
        BY <4>1 DEF Converted
      <4> QED
        BY <4>1, <4>2 DEF WholeRows
    <3> QED
      BY <2>1, <3>1, <3>3 DEF Reloaded, WholeRows
  <2> QED
    BY <2>2, <2>3, <2>4
<1>4. CASE readFails
  <2>1. /\ upc = "load" /\ upc' = "reloadCompleted"
        /\ tableOf' = [tableOf EXCEPT ![bak].whole = FALSE]
        /\ UNCHANGED <<vars, userMap, pos, userServed, userFile, toWrite, converting, conversions, lost>>
    BY <1>4 DEF readFails, converter
  <2>2. /\ tableOf' \in [{1, 2} -> [by : 0..MaxConversions, whole : BOOLEAN, lost : SUBSET Users]]
        /\ ~tableOf'[bak].whole /\ tableOf'[userServed] = tableOf[userServed]
    BY <1>t, <2>1
  <2>3. TablesTyped'
    BY <2>1, <2>2 DEF TablesTyped, vars, trainer
  <2>4. Converted'
    BY <2>1 DEF Converted
  <2>5. Reloaded'
    <3>1. bak' = bak
      BY <2>1 DEF bak
    <3> QED
      BY <2>1, <2>2, <3>1 DEF Reloaded, WholeRows
  <2> QED
    BY <2>3, <2>4, <2>5
<1>5. CASE reloadCompleted
  <2>1. /\ upc = "reloadCompleted" /\ upc' = "idle" /\ userServed' = bak
        /\ UNCHANGED <<vars, userMap, pos, tableOf, userFile, toWrite, converting, conversions, lost>>
    BY <1>5 DEF reloadCompleted, converter
  <2>2. TablesTyped'
    BY <1>t, <2>1 DEF TablesTyped, vars, trainer
  <2>3. Converted'
    BY <2>1 DEF Converted
  <2>4. Reloaded'
    BY <2>1 DEF Reloaded, WholeRows
  <2> QED
    BY <2>2, <2>3, <2>4
<1> QED
  BY <1>1, <1>2, <1>3, <1>4, <1>5 DEF reload

(* A file and one more record. *)
LEMMA OneMore ==
  ASSUME NEW S, NEW f \in Seq(S), NEW m \in Seq(S), Len(m) = 1
  PROVE  /\ f \o m \in Seq(S) /\ DOMAIN (f \o m) = 1..(Len(f) + 1)
         /\ \A i \in DOMAIN f : (f \o m)[i] = f[i] /\ i \in DOMAIN (f \o m)
         /\ (f \o m)[Len(f) + 1] = m[1]
         /\ Len(f) + 1 \in DOMAIN (f \o m)
         /\ \A i \in DOMAIN (f \o m) : i \in DOMAIN f \/ i = Len(f) + 1
<1>1. /\ f \o m \in Seq(S) /\ Len(f \o m) = Len(f) + Len(m)
      /\ \A i \in 1..(Len(f) + Len(m)) :
            (f \o m)[i] = IF i <= Len(f) THEN f[i] ELSE m[i - Len(f)]
  BY ConcatProperties
<1>2. Len(f) \in Nat /\ DOMAIN f = 1..Len(f)
  OBVIOUS
<1>3. DOMAIN (f \o m) = 1..Len(f \o m)
  BY <1>1
<1> QED
  BY <1>1, <1>2, <1>3

(* A step of the converter. *)
LEMMA TablesConverter ==
  ASSUME TablesInv, dumpUserInterests \/ dumpUser \/ close
  PROVE  TablesInv'
<1> USE DEF TablesInv
<1>t. /\ userServed \in {1, 2} /\ bak \in {1, 2} /\ bak # userServed
      /\ upc \in {"idle", "load", "reloadCompleted"}
      /\ tableOf \in [{1, 2} -> [by : 0..MaxConversions, whole : BOOLEAN, lost : SUBSET Users]]
      /\ conversions \in 1..MaxConversions
      /\ userFile \in Seq(Row) /\ toWrite \in Seq(Users)
  BY DEF TablesTyped, bak
<1>1. CASE dumpUserInterests
  <2>1. /\ ~converting /\ conversions < MaxConversions
        /\ converting' = TRUE /\ conversions' = conversions + 1
        /\ userFile' = <<>> /\ toWrite' = InOrder /\ lost' = {} /\ tableOf' = Disturbed
        /\ UNCHANGED <<vars, upc, userMap, userServed, pos>>
    BY <1>1 DEF dumpUserInterests
  <2>2. /\ tableOf' \in [{1, 2} -> [by : 0..MaxConversions, whole : BOOLEAN, lost : SUBSET Users]]
        /\ tableOf'[userServed] = tableOf[userServed]
        /\ tableOf'[bak].by = tableOf[bak].by /\ tableOf'[bak].lost = tableOf[bak].lost
        /\ (tableOf'[bak].whole => tableOf[bak].whole /\ upc # "load")
    <3>1. CASE upc = "load"
      <4>1. tableOf' = [tableOf EXCEPT ![bak].whole = FALSE]
        BY <2>1, <3>1 DEF Disturbed
      <4> QED
        BY <1>t, <4>1
    <3>2. CASE upc # "load"
      BY <1>t, <2>1, <3>2 DEF Disturbed
    <3> QED
      BY <3>1, <3>2
  <2>3. conversions' \in 1..MaxConversions
    BY <1>t, <2>1, PredictionAssumption
  <2>4. TablesTyped'
    BY <2>1, <2>2, <2>3, PredictionAssumption DEF TablesTyped, vars, trainer
  <2>5. Converted'
    BY <2>1, PredictionAssumption DEF Converted
  <2>6. Reloaded'
    <3>1. bak' = bak
      BY <2>1 DEF bak
    <3> QED
      BY <2>1, <2>2, <3>1 DEF Reloaded, WholeRows
  <2> QED
    BY <2>4, <2>5, <2>6
<1>2. CASE close
  <2>1. /\ converting /\ converting' = FALSE /\ toWrite = <<>>
        /\ UNCHANGED <<vars, upc, userMap, userServed, pos, tableOf, userFile, toWrite, conversions, lost>>
    BY <1>2 DEF close, table
  <2>2. TablesTyped'
    BY <2>1 DEF TablesTyped, vars, trainer
  <2>3. Converted'
    BY <1>2, <2>1 DEF Converted
  <2>4. Reloaded'
    BY <2>1 DEF Reloaded, WholeRows, bak
  <2> QED
    BY <2>2, <2>3, <2>4
<1>3. CASE dumpUser /\ userFile' = userFile \o Rows(<<Head(toWrite)>>, conversions) /\ UNCHANGED lost
  <2> DEFINE more == Rows(<<Head(toWrite)>>, conversions)
  <2>1. /\ converting /\ toWrite # <<>>
        /\ userFile' = userFile \o more /\ toWrite' = Tail(toWrite)
        /\ UNCHANGED <<vars, upc, userMap, userServed, pos, tableOf, converting, conversions, lost>>
    BY <1>3 DEF dumpUser, table
  <2>2. /\ Head(toWrite) \in Users /\ toWrite' \in Seq(Users)
        /\ \A i \in DOMAIN toWrite : i # 1 => i - 1 \in DOMAIN toWrite' /\ toWrite'[i - 1] = toWrite[i]
        /\ toWrite[1] = Head(toWrite)
    BY <1>t, <2>1
  <2>3. more \in Seq(Row) /\ Len(more) = 1 /\ more[1] = [user |-> Head(toWrite), by |-> conversions]
    <3>1. DOMAIN <<Head(toWrite)>> = 1..1 /\ <<Head(toWrite)>>[1] = Head(toWrite)
      OBVIOUS
    <3>2. more = [i \in 1..1 |-> [user |-> <<Head(toWrite)>>[i], by |-> conversions]]
      BY <3>1 DEF Rows
    <3>3. \A i \in 1..1 : [user |-> <<Head(toWrite)>>[i], by |-> conversions] \in Row
      BY <1>t, <2>2, <3>1 DEF Row
    <3> DEFINE row == [user |-> Head(toWrite), by |-> conversions]
    <3>4. more = <<row>> /\ row \in Row
      BY <3>1, <3>2, <3>3
    <3> HIDE DEF more, row
    <3>5. more \in Seq(Row) /\ Len(more) = 1 /\ more[1] = row
      BY <3>4
    <3> QED
      BY <3>5 DEF row
  <2> HIDE DEF more
  <2>4. /\ userFile' \in Seq(Row) /\ DOMAIN userFile' = 1..(Len(userFile) + 1)
        /\ \A i \in DOMAIN userFile : userFile'[i] = userFile[i] /\ i \in DOMAIN userFile'
        /\ userFile'[Len(userFile) + 1] = more[1]
        /\ Len(userFile) + 1 \in DOMAIN userFile'
        /\ \A i \in DOMAIN userFile' : i \in DOMAIN userFile \/ i = Len(userFile) + 1
    BY <1>t, <2>1, <2>3, OneMore, SMTT(20)
  <2>5. TablesTyped'
    BY <2>1, <2>2, <2>4 DEF TablesTyped, vars, trainer
  <2>6. Converted'
    <3>1. \A i \in DOMAIN userFile' : userFile'[i].by = conversions'
      BY <2>1, <2>3, <2>4 DEF Converted
    <3>2. ASSUME NEW u \in Users
          PROVE  \/ \E i \in DOMAIN userFile' : userFile'[i].user = u
                 \/ u \in lost'
                 \/ converting' /\ \E i \in DOMAIN toWrite' : toWrite'[i] = u
      <4>1. CASE \E i \in DOMAIN userFile : userFile[i].user = u
        BY <2>4, <4>1
      <4>2. ASSUME NEW i \in DOMAIN toWrite, toWrite[i] = u
            PROVE  \/ \E j \in DOMAIN userFile' : userFile'[j].user = u
                   \/ \E j \in DOMAIN toWrite' : toWrite'[j] = u
        <5>1. CASE i = 1
          <6>1. more[1].user = u
            BY <2>2, <2>3, <4>2, <5>1
          <6> QED
            BY <2>4, <6>1
        <5>2. CASE i # 1
          BY <2>2, <4>2, <5>2
        <5> QED
          BY <5>1, <5>2
      <4> QED
        BY <2>1, <4>1, <4>2 DEF Converted
    <3> QED
      BY <3>1, <3>2 DEF Converted
  <2>7. Reloaded'
    <3>1. ~(upc = "load" /\ tableOf[bak].whole)
      BY <2>1 DEF Reloaded
    <3>2. bak' = bak
      BY <2>1 DEF bak
    <3> QED
      BY <2>1, <3>1, <3>2 DEF Reloaded, WholeRows
  <2> QED
    BY <2>5, <2>6, <2>7
<1>4. CASE dumpUser /\ lost' = lost \cup {Head(toWrite)} /\ UNCHANGED userFile
  <2> DEFINE u0 == Head(toWrite)
  <2>1. /\ converting /\ toWrite # <<>> /\ toWrite' = Tail(toWrite)
        /\ lost' = lost \cup {u0}
        /\ UNCHANGED <<vars, upc, userMap, userServed, pos, tableOf, userFile, converting, conversions>>
    BY <1>4 DEF dumpUser, table
  <2>2. /\ u0 \in Users /\ toWrite' \in Seq(Users)
        /\ \A i \in DOMAIN toWrite : i # 1 => i - 1 \in DOMAIN toWrite' /\ toWrite'[i - 1] = toWrite[i]
        /\ toWrite[1] = u0
    BY <1>t, <2>1
  <2> HIDE DEF u0
  <2>4. TablesTyped'
    BY <2>1, <2>2 DEF TablesTyped, vars, trainer
  <2>5. Converted'
    <3>1. ASSUME NEW u \in Users, NEW i \in DOMAIN toWrite, toWrite[i] = u
          PROVE  u \in lost' \/ \E j \in DOMAIN toWrite' : toWrite'[j] = u
      <4>1. CASE i = 1
        BY <2>1, <2>2, <3>1, <4>1
      <4>2. CASE i # 1
        BY <2>2, <3>1, <4>2
      <4> QED
        BY <4>1, <4>2
    <3> QED
      BY <2>1, <3>1 DEF Converted
  <2>6. Reloaded'
    <3>1. ~(upc = "load" /\ tableOf[bak].whole)
      BY <2>1 DEF Reloaded
    <3>2. bak' = bak
      BY <2>1 DEF bak
    <3> QED
      BY <2>1, <3>1, <3>2 DEF Reloaded, WholeRows
  <2> QED
    BY <2>4, <2>5, <2>6
<1>5. dumpUser => \/ userFile' = userFile \o Rows(<<Head(toWrite)>>, conversions) /\ UNCHANGED lost
                  \/ lost' = lost \cup {Head(toWrite)} /\ UNCHANGED userFile
  BY DEF dumpUser
<1> QED
  BY <1>1, <1>2, <1>3, <1>4, <1>5

(* The next process has read the table as it finds it. *)
LEMMA TablesReopen ==
  ASSUME TablesInv, Reopen
  PROVE  TablesInv'
<1> USE DEF TablesInv
<1>1. PICK users \in [Users -> 0..MaxConversions] :
        /\ LoadedFrom(users)
        /\ userMap' = [m \in {1, 2} |-> IF m = 2 THEN users ELSE NoRows]
  BY DEF Reopen
<1>2. /\ upc' = "idle" /\ userServed' = 2 /\ pos' = 1
      /\ tableOf' = [m \in {1, 2} |-> Opened]
      /\ UNCHANGED <<userFile, toWrite, converting, conversions, lost>>
  BY DEF Reopen, converter
<1>3. TablesTyped'
  <2>1. NoRows \in [Users -> 0..MaxConversions]
    BY PredictionAssumption DEF NoRows
  <2>2. userMap' \in [{1, 2} -> [Users -> 0..MaxConversions]]
    BY <1>1, <2>1
  <2>3. conversions \in 0..MaxConversions /\ (~converting) \in BOOLEAN /\ lost \subseteq Users
    <3>1. conversions \in 1..MaxConversions /\ MaxConversions \in Nat
      BY PredictionAssumption DEF TablesTyped
    <3>2. (~converting) \in BOOLEAN
      BY Zenon
    <3>3. lost \subseteq Users
      BY DEF TablesTyped
    <3> QED
      BY <3>1, <3>2, <3>3
  <2>4. tableOf' \in [{1, 2} -> [by : 0..MaxConversions, whole : BOOLEAN, lost : SUBSET Users]]
    BY <1>2, <2>3 DEF Opened
  <2> QED
    BY <1>2, <2>2, <2>4 DEF TablesTyped
<1>4. Converted'
  BY <1>2 DEF Converted
<1>5. Reloaded'
  <2>1. /\ tableOf'[userServed'].by = conversions /\ (tableOf'[userServed'].whole => ~converting)
        /\ tableOf'[userServed'].lost = lost
        /\ userMap'[userServed'] = users
    BY <1>1, <1>2 DEF Opened
  <2>2. ASSUME ~converting, NEW u \in Users \ lost
        PROVE  users[u] = conversions
    <3> DEFINE at == {i \in DOMAIN userFile : userFile[i].user = u}
    <3>1. at # {} /\ \A i \in at : userFile[i].by = conversions
      BY <2>2 DEF Converted
    <3>2. IF at = {} THEN users[u] = 0
          ELSE \E i \in at : (\A j \in at : i <= j) /\ users[u] = userFile[i].by
      BY <1>1 DEF LoadedFrom
    <3> HIDE DEF at
    <3> QED
      BY <3>1, <3>2
  <2> QED
    BY <1>2, <2>1, <2>2 DEF Reloaded, WholeRows
<1> QED
  BY <1>3, <1>4, <1>5

(* Every step keeps the users' tables, in the file and in memory, in order. *)
LEMMA TablesStep ==
  ASSUME TablesInv, [PredictionNext]_predictionVars
  PROVE  TablesInv'
<1>1. CASE upc = "idle" /\ train /\ UNCHANGED <<interests, query>>
  BY <1>1, TablesQuiet
<1>2. ASSUME NEW r \in Readers, predict(r)
      PROVE  UNCHANGED interests /\ pc' = pc
  <2>1. CASE queryUserInterests(r) \/ walkUser(r) \/ reply(r)
    BY <2>1 DEF queryUserInterests, walkUser, reply, vars, trainer
  <2>2. CASE queryNewsTrends(r)
    BY <2>2 DEF queryNewsTrends, queryCurrentTrends, trainer
  <2>3. CASE predictUserInterests(r)
    BY <2>3 DEF predictUserInterests, answer, trainer
  <2> QED
    BY <1>2, <2>1, <2>2, <2>3 DEF predict
<1>3. ASSUME NEW r \in Readers, predict(r)
      PROVE  TablesInv'
  BY <1>2, <1>3, TablesQuiet
<1>4. ASSUME NEW r \in Readers, walk(r) /\ UNCHANGED <<interests, query>>
      PROVE  TablesInv'
  BY <1>4, TablesQuiet DEF walk, trainer
<1>5. CASE UNCHANGED predictionVars
  BY <1>5, TablesQuiet DEF predictionVars, vars, trainer
<1> QED
  BY <1>1, <1>3, <1>4, <1>5, TablesReload, TablesConverter, TablesReopen DEF PredictionNext
RowsInv == query \in [Readers -> Query] /\ WalkingRows

(* Only the map that is being read into changes, and only its reload's steps
   change which one is served. *)
LEMMA RowsReload ==
  ASSUME TablesInv, RowsInv, reload
  PROVE  RowsInv'
<1>t. /\ userServed \in {1, 2} /\ bak \in {1, 2} /\ bak # userServed
      /\ userMap \in [{1, 2} -> [Users -> 0..MaxConversions]]
  BY DEF TablesInv, TablesTyped, bak
<1>q. query \in [Readers -> Query] /\ \A r \in Readers : query[r].ptr \in {1, 2} /\ query[r].overlaps \in Nat
  BY DEF RowsInv, Query
<1>1. CASE reloadBefore
  <2>1. /\ upc = "idle" /\ upc' = "load" /\ query' = Alongside /\ userServed' = userServed
        /\ userMap' = [userMap EXCEPT ![bak] = NoRows]
    BY <1>1 DEF reloadBefore
  <2>2. userMap'[userServed] = userMap[userServed]
    BY <1>t, <2>1
  <2>3. ASSUME NEW r \in Readers
        PROVE  query'[r] \in Query /\ WalksRow(query[r])'
    <3> DEFINE q == query[r]
    <3>1. CASE q.step = "long"
      <4>1. query'[r] = [q EXCEPT !.overlaps = q.overlaps + 1]
        BY <2>1, <3>1 DEF Alongside
      <4>2. q \in Query /\ q.overlaps \in Nat /\ WalksRow(q)
        BY <1>q DEF RowsInv, WalkingRows
      <4> HIDE DEF q
      <4>3. /\ query'[r] \in Query
            /\ query'[r].step = q.step /\ query'[r].user = q.user /\ query'[r].row = q.row
            /\ query'[r].ptr = q.ptr /\ query'[r].todo = q.todo /\ query'[r].read = q.read
            /\ query'[r].overlaps = q.overlaps + 1
        BY <4>1, <4>2 DEF Query
      <4>4. query'[r].overlaps # 0 /\ (query'[r].overlaps <= 1 => q.overlaps = 0)
        BY <4>2, <4>3
      <4> QED
        BY <2>1, <2>2, <3>1, <4>2, <4>3, <4>4 DEF WalksRow
    <3>2. CASE q.step # "long"
      <4>1. query'[r] = query[r]
        BY <2>1, <3>2 DEF Alongside
      <4>2. query[r] \in Query /\ WalksRow(query[r])
        BY <1>q DEF RowsInv, WalkingRows
      <4> QED
        BY <3>2, <4>1, <4>2 DEF WalksRow
    <3> QED
      BY <3>1, <3>2
  <2>4. query' \in [Readers -> Query]
    BY <2>1, <2>3 DEF Alongside
  <2> QED
    BY <2>3, <2>4 DEF RowsInv, WalkingRows
<1>2. CASE loadDistribution
  <2>1. /\ upc = "load" /\ upc' \in {"load", "reloadCompleted"} /\ userServed' = userServed /\ query' = query
        /\ userMap'[userServed] = userMap[userServed]
    <3>1. CASE pos \in DOMAIN userFile
      BY <1>t, <1>2, <3>1 DEF loadDistribution
    <3>2. CASE pos \notin DOMAIN userFile
      BY <1>2, <3>2 DEF loadDistribution
    <3> QED
      BY <3>1, <3>2
  <2>2. ASSUME NEW r \in Readers
        PROVE  WalksRow(query[r])'
    <3> DEFINE q == query[r]
    <3>1. q' = q /\ WalksRow(q)
      BY <2>1 DEF RowsInv, WalkingRows
    <3>2. q.step = "long" /\ q.overlaps <= 1 => (q.overlaps = 0 \/ upc # "idle" => q.ptr = userServed)
      BY <3>1 DEF WalksRow
    <3>3. q.step = "long" /\ q.overlaps <= 1 => q.ptr = userServed /\ q.overlaps # 0
      BY <2>1, <3>1, <3>2 DEF WalksRow
    <3>4. q.step = "long" /\ q.overlaps <= 1 => userMap'[q.ptr][q.user] = userMap[q.ptr][q.user]
      BY <2>1, <3>3
    <3>5. q.step = "long" => q.overlaps # 0
      BY <2>1, <3>1 DEF WalksRow
    <3> HIDE DEF q
    <3> QED
      BY <2>1, <3>1, <3>3, <3>4, <3>5 DEF WalksRow, q
  <2> QED
    BY <2>1, <2>2 DEF RowsInv, WalkingRows
<1>3. CASE readFails
  <2>1. /\ upc = "load" /\ upc' = "reloadCompleted"
        /\ UNCHANGED <<userServed, userMap, query>>
    BY <1>3 DEF readFails
  <2> QED
    BY <2>1 DEF RowsInv, WalkingRows, WalksRow
<1>4. CASE reloadCompleted
  <2>1. /\ upc = "reloadCompleted" /\ upc' = "idle" /\ UNCHANGED <<userMap, query>>
    BY <1>4 DEF reloadCompleted
  <2> QED
    BY <2>1 DEF RowsInv, WalkingRows, WalksRow
<1> QED
  BY <1>1, <1>2, <1>3, <1>4 DEF reload

(* A query's own step: only its own record changes. *)
LEMMA RowsSet ==
  ASSUME RowsInv, NEW r \in Readers, NEW new \in Query, Set(r, new),
         UNCHANGED interests, WalksRow(new)
  PROVE  RowsInv'
<1>1. UNCHANGED <<upc, userMap, userServed>>
  BY DEF interests, table
<1>2. query' \in [Readers -> Query]
  BY DEF RowsInv, Set
<1>3. ASSUME NEW s \in Readers
      PROVE  WalksRow(query[s])'
  <2>1. query'[s] = IF s = r THEN new ELSE query[s]
    BY DEF RowsInv, Set
  <2>2. WalksRow(query'[s])
    BY <2>1 DEF RowsInv, WalkingRows
  <2> QED
    BY <1>1, <2>2 DEF WalksRow
<1> QED
  BY <1>2, <1>3 DEF RowsInv, WalkingRows

(* A step of a query keeps what all queries know of the rows they walk. *)
LEMMA RowsPredict ==
  ASSUME TablesInv, RowsInv, NEW r \in Readers, predict(r)
  PROVE  RowsInv'
<1> DEFINE q == query[r]
<1>q. /\ q \in Query /\ WalksRow(q)
      /\ q.overlaps \in Nat /\ q.read \subseteq Categories \X (1..MaxConversions)
      /\ q.todo \subseteq Categories /\ q.ptr \in {1, 2} /\ q.user \in Users \cup {0}
      /\ q.row \in 0..MaxConversions
  BY DEF RowsInv, WalkingRows, Query
<1>t. /\ userServed \in {1, 2}
      /\ userMap \in [{1, 2} -> [Users -> 0..MaxConversions]]
  BY DEF TablesInv, TablesTyped
<1>1. CASE queryUserInterests(r)
  <2>1. PICK u \in Users :
          Set(r, [Asleep EXCEPT
                    !.step = IF userMap[userServed][u] = 0 THEN "current" ELSE "long",
                    !.user = u, !.ptr = userServed, !.row = userMap[userServed][u],
                    !.todo = IF userMap[userServed][u] = 0 THEN {} ELSE Interests[u],
                    !.overlaps = IF upc = "idle" THEN 0 ELSE 1])
    BY <1>1 DEF queryUserInterests
  <2>2. UNCHANGED interests
    BY <1>1 DEF queryUserInterests
  <2> DEFINE v == userMap[userServed][u]
  <2>3. v \in 0..MaxConversions /\ Interests[u] \subseteq Categories
    BY <1>t, PredictionAssumption
  <2> HIDE DEF v
  <2>4. PICK n \in {0, 1} : n = IF upc = "idle" THEN 0 ELSE 1
    OBVIOUS
  <2>5. PICK s \in {"current", "long"} : s = IF v = 0 THEN "current" ELSE "long"
    OBVIOUS
  <2>6. PICK d \in SUBSET Categories : d = IF v = 0 THEN {} ELSE Interests[u]
    BY <2>3
  <2> DEFINE new == [Asleep EXCEPT !.step = s, !.user = u, !.ptr = userServed, !.row = v,
                                   !.todo = d, !.overlaps = n]
  <2>7. Set(r, new)
    BY <2>1, <2>4, <2>5, <2>6 DEF v
  <2>8. /\ new \in Query
        /\ new.step = s /\ new.user = u /\ new.ptr = userServed /\ new.row = v
        /\ new.todo = d /\ new.overlaps = n /\ new.read = {}
    <3> DEFINE a == Asleep
    <3>1. a \in Query /\ a.read = {}
      BY AsleepTyped DEF Asleep
    <3>2. s \in {"idle", "long", "current", "trends", "answered"} /\ u \in Users \cup {0} /\ n \in Nat
      OBVIOUS
    <3> HIDE DEF a
    <3>3. ASSUME NEW b, b = [a EXCEPT !.step = s, !.user = u, !.ptr = userServed, !.row = v,
                                      !.todo = d, !.overlaps = n]
          PROVE  /\ b \in Query
                 /\ b.step = s /\ b.user = u /\ b.ptr = userServed /\ b.row = v
                 /\ b.todo = d /\ b.overlaps = n /\ b.read = {}
      BY <1>t, <2>3, <3>1, <3>2, <3>3 DEF Query
    <3> QED
      BY <3>3 DEF a
  <2> HIDE DEF new
  <2>9. WalksRow(new)
    <3>1. CASE v = 0
      <4>1. new.step = "current"
        BY <2>5, <2>8, <3>1
      <4>2. Named(new) = {}
        BY <2>8, <3>1 DEF Named
      <4>3. Named(new) \X {new.row} = {}
        BY <4>2
      <4> QED
        BY <2>8, <4>1, <4>3 DEF WalksRow
    <3>2. CASE v # 0
      <4>1. new.step = "long" /\ d = Interests[u]
        BY <2>5, <2>6, <2>8, <3>2
      <4>2. (Interests[u] \ d) \X {v} = {}
        BY <4>1
      <4> QED
        BY <2>4, <2>8, <3>2, <4>1, <4>2 DEF WalksRow, v
    <3> QED
      BY <3>1, <3>2
  <2> QED
    BY <2>2, <2>7, <2>8, <2>9, RowsSet
<1>2. CASE walkUser(r)
  <2> DEFINE v == userMap[q.ptr][q.user]
  <2>1. /\ q.step = "long" /\ q.user \in Users /\ UNCHANGED interests
        /\ v \in 0..MaxConversions
    BY <1>2, <1>q, <1>t DEF walkUser, WalksRow
  <2>2. CASE q.todo = {}
    <3> DEFINE new == [q EXCEPT !.step = "current"]
    <3>1. Set(r, new)
      BY <1>2, <2>2 DEF walkUser
    <3>2. /\ new \in Query /\ new.step = "current" /\ new.overlaps = q.overlaps
          /\ new.read = q.read /\ new.row = q.row /\ new.user = q.user
      BY <1>q DEF Query
    <3> HIDE DEF new
    <3>3. WalksRow(new)
      <4>1. q.overlaps <= 1 => q.row # 0 /\ q.read = (Interests[q.user] \ {}) \X {q.row}
        BY <1>q, <2>1, <2>2 DEF WalksRow
      <4>2. Interests[q.user] \ {} = Interests[q.user]
        OBVIOUS
      <4>3. q.row # 0 => Named(new) = Interests[q.user]
        BY <3>2 DEF Named
      <4> QED
        BY <3>2, <4>1, <4>2, <4>3 DEF WalksRow
    <3> QED
      BY <2>1, <3>1, <3>2, <3>3, RowsSet
  <2>3. CASE q.todo # {}
    <3>1. PICK c \in q.todo :
            Set(r, [q EXCEPT !.todo = @ \ {c}, !.read = IF v = 0 THEN @ ELSE @ \cup {<<c, v>>}])
      BY <1>2, <2>3 DEF walkUser
    <3>2. PICK read \in SUBSET (Categories \X (1..MaxConversions)) :
            read = IF v = 0 THEN q.read ELSE q.read \cup {<<c, v>>}
      <4>1. CASE v = 0
        BY <1>q, <4>1
      <4>2. CASE v # 0
        <5>1. v \in 1..MaxConversions /\ c \in Categories
          BY <1>q, <2>1, <4>2, PredictionAssumption
        <5> DEFINE more == q.read \cup {<<c, v>>}
        <5>2. more \in SUBSET (Categories \X (1..MaxConversions))
          BY <1>q, <5>1
        <5> QED
          BY <4>2, <5>2
      <4> QED
        BY <4>1, <4>2
    <3> DEFINE new == [q EXCEPT !.todo = q.todo \ {c}, !.read = read]
    <3>3. Set(r, new)
      BY <3>1, <3>2
    <3>4. /\ new \in Query /\ new.step = q.step /\ new.overlaps = q.overlaps /\ new.ptr = q.ptr
          /\ new.read = read /\ new.row = q.row /\ new.user = q.user /\ new.todo = q.todo \ {c}
      BY <1>q DEF Query
    <3> HIDE DEF new
    <3>5. WalksRow(new)
      <4>1. ASSUME q.overlaps <= 1
            PROVE  read = (Interests[q.user] \ (q.todo \ {c})) \X {q.row}
        <5>1. v = q.row /\ v # 0 /\ q.todo \subseteq Interests[q.user]
              /\ q.read = (Interests[q.user] \ q.todo) \X {q.row}
          BY <1>q, <2>1, <4>1 DEF WalksRow
        <5>2. read = q.read \cup {<<c, q.row>>}
          BY <3>2, <5>1
        <5>3. c \in Interests[q.user] /\ c \in q.todo
          BY <5>1
        <5> HIDE DEF q, v
        <5> QED
          BY <5>1, <5>2, <5>3
      <4> QED
        BY <1>q, <2>1, <3>4, <4>1 DEF WalksRow
    <3> QED
      BY <2>1, <3>3, <3>4, <3>5, RowsSet
  <2> QED
    BY <2>2, <2>3
<1>3. CASE queryNewsTrends(r)
  <2> DEFINE long == {e[1] : e \in q.read}
             new  == [Asleep EXCEPT !.step = "trends", !.user = q.user, !.row = q.row,
                                    !.long = long, !.torn = q.overlaps > 1]
  <2>1. Set(r, new) /\ UNCHANGED interests
    BY <1>3 DEF queryNewsTrends
  <2>2. long \subseteq Categories
    BY <1>q
  <2> HIDE DEF long
  <2>3. new \in Query /\ new.step = "trends"
    <3>1. (q.overlaps > 1) \in BOOLEAN
      BY <1>q
    <3> QED
      BY <1>q, <2>2, <3>1, AsleepTyped DEF Query, Asleep
  <2> HIDE DEF new
  <2>4. WalksRow(new)
    BY <2>3 DEF WalksRow
  <2> QED
    BY <2>1, <2>3, <2>4, RowsSet
<1>4. CASE predictUserInterests(r)
  <2> DEFINE news == {c \in Categories : got[r][c] # Absent}
             cats(now) == Mix(q.long, now, news)
  <2>1. PICK now \in {{}, kCategory} :
          Set(r, [q EXCEPT !.step = "answered", !.known = now # {}, !.answer = cats(now),
                           !.status = IF cats(now) = {} THEN "Corruption" ELSE "OK"])
    BY <1>4 DEF predictUserInterests
  <2>2. UNCHANGED interests
    BY <1>4 DEF predictUserInterests
  <2>3. PICK a \in SUBSET Categories : a = cats(now)
    BY PredictionAssumption DEF Mix
  <2>4. PICK s \in {"Corruption", "OK"} : s = IF cats(now) = {} THEN "Corruption" ELSE "OK"
    OBVIOUS
  <2>k. PICK known \in BOOLEAN : known = (now # {})
    BY Zenon
  <2> HIDE DEF cats
  <2> DEFINE new == [q EXCEPT !.step = "answered", !.known = known, !.answer = a, !.status = s]
  <2>5. Set(r, new)
    BY <2>1, <2>3, <2>4, <2>k
  <2>6. new \in Query /\ new.step = "answered"
    BY <1>q DEF Query
  <2> HIDE DEF new
  <2>7. WalksRow(new)
    BY <2>6 DEF WalksRow
  <2> QED
    BY <2>2, <2>5, <2>6, <2>7, RowsSet
<1>5. CASE reply(r)
  <2>1. Set(r, Asleep) /\ UNCHANGED interests
    BY <1>5 DEF reply
  <2>2. WalksRow(Asleep)
    BY AsleepTyped DEF WalksRow
  <2> QED
    BY <2>1, <2>2, AsleepTyped, RowsSet
<1> QED
  BY <1>1, <1>2, <1>3, <1>4, <1>5 DEF predict

(* Every step keeps what the queries know of the rows they walk. *)
LEMMA RowsStep ==
  ASSUME TablesInv, RowsInv, [PredictionNext]_predictionVars
  PROVE  RowsInv'
<1>1. CASE UNCHANGED <<interests, query>>
  BY <1>1 DEF RowsInv, WalkingRows, WalksRow, interests, table
<1>2. CASE dumpUserInterests \/ dumpUser \/ close
  <2>1. UNCHANGED <<upc, userMap, userServed, query>>
    BY <1>2 DEF dumpUserInterests, dumpUser, close, table
  <2> QED
    BY <2>1 DEF RowsInv, WalkingRows, WalksRow
<1>3. CASE Reopen
  <2>1. query' = [r \in Readers |-> Asleep]
    BY <1>3 DEF Reopen
  <2>2. query' \in [Readers -> Query] /\ \A r \in Readers : query'[r].step = "idle"
    BY <2>1, AsleepTyped
  <2> QED
    BY <2>2 DEF RowsInv, WalkingRows, WalksRow
<1>4. CASE UNCHANGED predictionVars
  BY <1>1, <1>4 DEF predictionVars
<1> QED
  BY <1>1, <1>2, <1>3, <1>4, RowsReload, RowsPredict DEF PredictionNext

-----------------------------------------------------------------------------
(* What an undisturbed prediction knows of the long-term interests is the whole
   row it found, so mixing it with the current ones leaves a category unless the
   row names only others. *)
Foreign(q) == Named(q) # {} /\ Named(q) \cap kCategory = {}

Mixes(q) ==
  /\ q.step = "trends" /\ ~q.torn => q.long = Named(q)
  /\ q.step = "answered" /\ q.known /\ ~q.torn =>
       /\ q.answer = {} <=> Foreign(q)
       /\ q.status = IF q.answer = {} THEN "Corruption" ELSE "OK"

Mixing == \A r \in Readers : Mixes(query[r])

(* A query's step concerns that query alone. *)
LEMMA MixesSet ==
  ASSUME RowsInv, Mixing, NEW r \in Readers, NEW new, Set(r, new), Mixes(new)
  PROVE  Mixing'
  BY DEF RowsInv, Mixing, Mixes, Set

(* A step of a query keeps what the answers are mixed of. *)
LEMMA MixesPredict ==
  ASSUME RowsInv, Mixing, NEW r \in Readers, predict(r)
  PROVE  Mixing'
<1> DEFINE q == query[r]
<1>q. q \in Query /\ WalksRow(q) /\ Mixes(q)
  BY DEF RowsInv, WalkingRows, Mixing
<1>1. CASE queryUserInterests(r)
  <2>1. PICK u \in Users :
          Set(r, [Asleep EXCEPT
                    !.step = IF userMap[userServed][u] = 0 THEN "current" ELSE "long",
                    !.user = u, !.ptr = userServed, !.row = userMap[userServed][u],
                    !.todo = IF userMap[userServed][u] = 0 THEN {} ELSE Interests[u],
                    !.overlaps = IF upc = "idle" THEN 0 ELSE 1])
    BY <1>1 DEF queryUserInterests
  <2> DEFINE new == [Asleep EXCEPT
                       !.step = IF userMap[userServed][u] = 0 THEN "current" ELSE "long",
                       !.user = u, !.ptr = userServed, !.row = userMap[userServed][u],
                       !.todo = IF userMap[userServed][u] = 0 THEN {} ELSE Interests[u],
                       !.overlaps = IF upc = "idle" THEN 0 ELSE 1]
  <2>2. new.step = IF userMap[userServed][u] = 0 THEN "current" ELSE "long"
    BY DEF Asleep
  <2> HIDE DEF new
  <2>3. Mixes(new)
    BY <2>2 DEF Mixes
  <2> QED
    BY <2>1, <2>3, MixesSet DEF new
<1>2. CASE walkUser(r)
  <2>1. PICK new : Set(r, new) /\ new.step \in {"current", "long"}
    <3>1. q.step = "long"
      BY <1>2 DEF walkUser
    <3>2. CASE q.todo = {}
      <4>1. Set(r, [q EXCEPT !.step = "current"]) /\ [q EXCEPT !.step = "current"].step = "current"
        BY <1>2, <1>q, <3>2 DEF walkUser, Query
      <4> QED
        BY <4>1
    <3>3. CASE q.todo # {}
      <4> DEFINE next(c) == [q EXCEPT !.todo = @ \ {c},
                               !.read = IF userMap[q.ptr][q.user] = 0 THEN @
                                        ELSE @ \cup {<<c, userMap[q.ptr][q.user]>>}]
      <4>1. PICK c \in q.todo : Set(r, next(c))
        BY <1>2, <3>3 DEF walkUser
      <4>2. next(c).step = "long"
        BY <1>q, <3>1 DEF Query
      <4> HIDE DEF next
      <4> QED
        BY <4>1, <4>2
    <3> QED
      BY <3>2, <3>3
  <2>2. Mixes(new)
    BY <2>1 DEF Mixes
  <2> QED
    BY <2>1, <2>2, MixesSet
<1>3. CASE queryNewsTrends(r)
  <2> DEFINE long == {e[1] : e \in q.read}
             new  == [Asleep EXCEPT !.step = "trends", !.user = q.user, !.row = q.row,
                                    !.long = long, !.torn = q.overlaps > 1]
  <2>1. Set(r, new) /\ q.step = "current"
    BY <1>3 DEF queryNewsTrends
  <2>2. q.overlaps <= 1 => long = Named(q)
    <3>1. SUFFICES ASSUME q.overlaps <= 1
                   PROVE  long = Named(q)
      OBVIOUS
    <3>2. q.read = Named(q) \X {q.row}
      BY <1>q, <2>1, <3>1 DEF WalksRow
    <3>3. \A c \in Named(q) : <<c, q.row>> \in q.read /\ <<c, q.row>>[1] = c
      BY <3>2
    <3>4. \A e \in q.read : e[1] \in Named(q)
      BY <3>2
    <3> HIDE DEF q
    <3>5. Named(q) \subseteq long
      BY <3>3
    <3>6. long \subseteq Named(q)
      BY <3>4
    <3> QED
      BY <3>5, <3>6
  <2> HIDE DEF long
  <2>3. /\ new.step = "trends" /\ new.user = q.user /\ new.long = long /\ new.row = q.row
        /\ new.torn = (q.overlaps > 1)
    BY DEF Asleep
  <2>4. q.overlaps \in Nat
    BY <1>q DEF Query
  <2> HIDE DEF new, q
  <2>5. ~new.torn => q.overlaps <= 1
    <3>1. ~new.torn => ~(q.overlaps > 1)
      BY <2>3, Zenon
    <3> QED
      BY <2>4, <3>1
  <2>6. Mixes(new)
    <3>1. Named(new) = Named(q)
      BY <2>3 DEF Named
    <3> QED
      BY <2>2, <2>3, <2>5, <3>1 DEF Mixes
  <2> QED
    BY <2>1, <2>6, MixesSet DEF q
<1>4. CASE predictUserInterests(r)
  <2> DEFINE news == {c \in Categories : got[r][c] # Absent}
             cats(now) == Mix(q.long, now, news)
             next(now) == [q EXCEPT !.step = "answered", !.known = now # {}, !.answer = cats(now),
                                    !.status = IF cats(now) = {} THEN "Corruption" ELSE "OK"]
  <2>1. PICK now \in {{}, kCategory} : Set(r, next(now))
    BY <1>4 DEF predictUserInterests
  <2>2. q.step = "trends"
    BY <1>4 DEF predictUserInterests
  <2>3. /\ next(now).known = (now # {}) /\ next(now).answer = cats(now)
        /\ next(now).torn = q.torn /\ next(now).step = "answered"
        /\ next(now).user = q.user /\ next(now).row = q.row
        /\ next(now).status = IF cats(now) = {} THEN "Corruption" ELSE "OK"
    <3> HIDE DEF cats
    <3> QED
      BY <1>q DEF Query
  <2>4. ASSUME now # {}, ~q.torn
        PROVE  cats(now) = {} <=> Foreign(q)
    <3>1. q.long = Named(q)
      BY <1>q, <2>2, <2>4 DEF Mixes
    <3>2. cats(now) = Mix(q.long, kCategory, news) /\ kCategory # {}
      BY <2>1, <2>4
    <3> HIDE DEF cats, q, news
    <3> QED
      BY <3>1, <3>2 DEF Mix, Foreign
  <2>5. Mixes(next(now))
    <3> HIDE DEF next, cats
    <3>1. Foreign(next(now)) <=> Foreign(q)
      BY <2>3 DEF Foreign, Named
    <3> QED
      BY <2>3, <2>4, <3>1 DEF Mixes
  <2> HIDE DEF next, cats
  <2> QED
    BY <2>1, <2>5, MixesSet
<1>5. CASE reply(r)
  <2>1. Set(r, Asleep) /\ Mixes(Asleep)
    BY <1>5, AsleepTyped DEF reply, Mixes
  <2> QED
    BY <2>1, MixesSet
<1> QED
  BY <1>1, <1>2, <1>3, <1>4, <1>5 DEF predict

(* Every step keeps what the answers are mixed of: none but a query's own
   changes it. *)
LEMMA MixesStep ==
  ASSUME RowsInv, Mixing, [PredictionNext]_predictionVars
  PROVE  Mixing'
<1>1. CASE query' = query
  BY <1>1 DEF Mixing
<1>2. CASE reload
  <2>1. CASE reloadBefore
    <3>1. query' = Alongside
      BY <2>1 DEF reloadBefore
    <3>2. ASSUME NEW r \in Readers
          PROVE  Mixes(query'[r])
      <4>1. CASE query[r].step = "long"
        <5>1. query'[r].step = "long"
          <6>1. query'[r] = [query[r] EXCEPT !.overlaps = @ + 1] /\ query[r] \in Query
            BY <3>1, <4>1 DEF Alongside, RowsInv
          <6> QED
            BY <4>1, <6>1 DEF Query
        <5> QED
          BY <5>1 DEF Mixes
      <4>2. CASE query[r].step # "long"
        BY <3>1, <4>2 DEF Alongside, Mixing
      <4> QED
        BY <4>1, <4>2
    <3> QED
      BY <3>2 DEF Mixing
  <2>2. CASE ~reloadBefore
    BY <1>1, <1>2, <2>2 DEF reload, loadDistribution, readFails, reloadCompleted
  <2> QED
    BY <2>1, <2>2
<1>3. CASE dumpUserInterests \/ dumpUser \/ close
  BY <1>1, <1>3 DEF dumpUserInterests, dumpUser, close
<1>4. CASE Reopen
  <2>1. query' = [r \in Readers |-> Asleep]
    BY <1>4 DEF Reopen
  <2> QED
    BY <2>1, AsleepTyped DEF Mixing, Mixes
<1>5. CASE UNCHANGED predictionVars
  BY <1>1, <1>5 DEF predictionVars
<1> QED
  BY <1>1, <1>2, <1>3, <1>4, <1>5, MixesPredict DEF PredictionNext

-----------------------------------------------------------------------------
PredictionInv == TrendsInv /\ TablesInv /\ RowsInv /\ Mixing

(* The inductive invariant of the predictions: trainings and reloads fill only
   the map that is not served, a query with at most one of them alongside walks
   the other, and what is swapped in was read to the end of a whole table. *)
THEOREM Invariance == PredictionSpec => []PredictionInv
<1>1. PredictionInit => PredictionInv
  <2>1. PredictionInit => Mixing
    BY AsleepTyped DEF PredictionInit, Mixing, Mixes
  <2> QED
    BY <2>1, TrendsInit, PredictionInitially DEF PredictionInit, PredictionInv, TablesInv, RowsInv
<1>2. PredictionInv /\ [PredictionNext]_predictionVars => PredictionInv'
  BY TrendsStep, TrendsWithin, TablesStep, RowsStep, MixesStep DEF PredictionInv
<1> QED
  BY <1>1, <1>2, PTL DEF PredictionSpec

(* Every variable of the predictions keeps its type. *)
THEOREM TypeCorrect == PredictionSpec => []PredictionTypeOK
<1>1. PredictionInv => PredictionTypeOK
  BY DEF PredictionInv, TrendsInv, TablesInv, TablesTyped, RowsInv, PredictionTypeOK, Row
<1> QED
  BY <1>1, Invariance, PTL

(* A prediction whose queries had at most one training and one reload alongside
   is mixed of one whole distribution of the news trends and of all categories
   of the user's row, of one conversion (user_interests.cpp:178-185,
   news_trends.cpp:94-128: swapping two maps is enough, without a lock). *)
THEOREM OneVersion == PredictionSpec => []ReadsOneVersion
<1>1. PredictionInv => ReadsOneVersion
  BY TrendsGood DEF PredictionInv, RowsInv, WalkingRows, WalksRow, ReadsOneVersion
<1> QED
  BY <1>1, Invariance, PTL

(* The trends' file is one training's complete result, and a users' table that
   was read to the end while nobody wrote it is served with the row, of one
   conversion, of every user the converter did not fail to write, over deaths,
   failing reads and writes and conversions in place. *)
THEOREM WholeTables == PredictionSpec => []TablesWhole
<1>1. PredictionInv => TablesWhole
  BY TrendsGood DEF PredictionInv, TablesInv, Reloaded, WholeRows, TablesWhole
<1> QED
  BY <1>1, Invariance, PTL

(* A query walking at most one reload's row refuses a user with current
   interests exactly when that row names categories and none of kCategory,
   whatever trainings, reloads, conversions and deaths came between
   (content_based.cpp:430-477, 341-343). *)
THEOREM CurrentAnswered == PredictionSpec => []CurrentUserAnswered
<1>1. PredictionInv => CurrentUserAnswered
  BY DEF PredictionInv, Mixing, Mixes, Foreign, CurrentUserAnswered, query_user_category, failed_status_glue
<1> QED
  BY <1>1, Invariance, PTL
=============================================================================
