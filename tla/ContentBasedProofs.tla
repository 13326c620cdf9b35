-------------------------- MODULE ContentBasedProofs --------------------------
(***************************************************************************)
(* Theorems about the update calls, for any threads, users, items and      *)
(* categories, any number of deliveries, failing log writes and crashes.   *)
(***************************************************************************)
EXTENDS ContentBased, FiniteSetTheorems, SequenceTheorems, TLAPS

-----------------------------------------------------------------------------
(* A call is a click's or an item's, and which it is shows in its step. *)
LEMMA CallsAre ==
  ASSUME TypeOK, NEW t \in Threads
  PROVE  /\ call[t] \in {Idle} \cup Actions \cup Updates
         /\ call[t].pc \in pcs \cup {"idle"}
         /\ call[t].pc \in pcs \ {"addItem", "count"} => call[t] \in Actions
         /\ call[t].pc \in {"addItem", "count"} => call[t] \in Updates
<1>1. call[t] \in {Idle} \cup Actions \cup Updates
  BY DEF TypeOK
<1>2. Idle.pc = "idle"
  BY DEF Idle
<1>3. \A c \in Actions : c.pc \in pcs \ {"addItem", "count"}
  BY DEF Actions
<1>4. \A c \in Updates : c.pc \in {"addItem", "count"}
  BY DEF Updates
<1> QED
  BY <1>1, <1>2, <1>3, <1>4 DEF pcs

(* What is left of a call's categories: the first of them, and the rest. *)
LEMMA TodoParts ==
  ASSUME NEW s \in Seq(Categories), s # <<>>
  PROVE  /\ Head(s) \in Categories /\ Tail(s) \in Seq(Categories)
         /\ \A c : (\E n \in DOMAIN s : s[n] = c)
                     <=> c = Head(s) \/ \E n \in DOMAIN Tail(s) : Tail(s)[n] = c
<1>1. /\ Head(s) \in Categories /\ Tail(s) \in Seq(Categories)
      /\ Len(Tail(s)) = Len(s) - 1 /\ Len(s) \in Nat /\ Len(s) # 0
      /\ \A i \in 1..Len(Tail(s)) : Tail(s)[i] = s[i + 1]
  BY HeadTailProperties, EmptySeq, LenProperties
<1>2. DOMAIN s = 1..Len(s) /\ DOMAIN Tail(s) = 1..Len(Tail(s)) /\ Head(s) = s[1]
  BY <1>1, LenProperties
<1> SUFFICES ASSUME NEW c
             PROVE  (\E n \in DOMAIN s : s[n] = c)
                      <=> c = Head(s) \/ \E n \in DOMAIN Tail(s) : Tail(s)[n] = c
  BY <1>1
<1>3. ASSUME NEW n \in DOMAIN s, s[n] = c
      PROVE  c = Head(s) \/ \E m \in DOMAIN Tail(s) : Tail(s)[m] = c
  <2>1. CASE n = 1
    BY <1>2, <1>3, <2>1
  <2>2. CASE n # 1
    <3>1. n - 1 \in DOMAIN Tail(s) /\ Tail(s)[n - 1] = s[n]
      BY <1>1, <1>2, <1>3, <2>2
    <3> QED
      BY <1>3, <3>1
  <2> QED
    BY <2>1, <2>2
<1>4. ASSUME NEW n \in DOMAIN Tail(s), Tail(s)[n] = c
      PROVE  \E m \in DOMAIN s : s[m] = c
  <2>1. n + 1 \in DOMAIN s /\ s[n + 1] = c
    BY <1>1, <1>2, <1>4
  <2> QED
    BY <2>1
<1>5. ASSUME c = Head(s)
      PROVE  \E m \in DOMAIN s : s[m] = c
  <2>1. 1 \in DOMAIN s
    BY <1>1, <1>2
  <2> QED
    BY <1>2, <1>5, <2>1
<1> QED
  BY <1>3, <1>4, <1>5

-----------------------------------------------------------------------------
(* A count goes up by one. *)
LEMMA Counted ==
  ASSUME NEW S, NEW f \in [S -> Nat], NEW k
  PROVE  /\ [f EXCEPT ![k] = @ + 1] \in [S -> Nat]
         /\ \A x \in S : [f EXCEPT ![k] = @ + 1][x] = IF x = k THEN f[x] + 1 ELSE f[x]
<1>1. \A x \in S : [f EXCEPT ![k] = @ + 1][x] = IF x = k THEN f[x] + 1 ELSE f[x]
  OBVIOUS
<1>2. \A x \in S : f[x] \in Nat /\ f[x] + 1 \in Nat
  OBVIOUS
<1> QED
  BY <1>1, <1>2

(* In the loops over an item's categories one of them is left. *)
Looping == \A t \in Threads :
  call[t].pc \in {"addClickNews", "addClickInterests", "count"} => call[t].todo # <<>>

(* Every step keeps the types. *)
LEMMA TypeStep == TypeOK /\ Looping /\ [Next]_vars => TypeOK'
<1> SUFFICES ASSUME TypeOK, Looping, [Next]_vars
             PROVE  TypeOK'
  OBVIOUS
<1>0. /\ readed \subseteq Pairs /\ items \subseteq Items
      /\ news \in [Keys -> Nat] /\ interests \in [Keys -> Nat]
      /\ documents \in [Items \X Categories -> Nat]
      /\ call \in [Threads -> {Idle} \cup Actions \cup Updates]
      /\ broken \subseteq Pairs
  BY DEF TypeOK
<1>1. ASSUME NEW t \in Threads, updateAction(t)
      PROVE  TypeOK'
  <2>1. PICK u \in Users, i \in Items : Deliver(t, AtStep("find", u, i, <<>>))
    BY <1>1 DEF updateAction
  <2>2. AtStep("find", u, i, <<>>) \in Actions
    BY DEF AtStep, Actions, pcs
  <2> QED
    BY <1>0, <2>1, <2>2 DEF TypeOK, Deliver, Goto, counts
<1>2. ASSUME NEW t \in Threads, findUserReaded(t)
      PROVE  TypeOK'
  <2>1. call[t] \in Actions
    BY <1>2, CallsAre DEF findUserReaded, pcs
  <2>2. [call[t] EXCEPT !.pc = "mark"] \in Actions
    BY <2>1 DEF Actions, pcs
  <2> QED
    BY <1>0, <1>2, <2>2 DEF TypeOK, findUserReaded, Goto, Return, counts
<1>3. ASSUME NEW t \in Threads, markReaded(t)
      PROVE  TypeOK'
  <2>1. call[t] \in Actions
    BY <1>3, CallsAre DEF markReaded, pcs
  <2>2. /\ [call[t] EXCEPT !.pc = "fetch"] \in Actions
        /\ <<call[t].user, call[t].item>> \in Pairs
    BY <2>1 DEF Actions, pcs, Pairs
  <2> QED
    BY <1>0, <1>3, <2>2 DEF TypeOK, markReaded, Goto, counts
<1>4. ASSUME NEW t \in Threads, fetchItemBelongsTo(t)
      PROVE  TypeOK'
  <2>1. call[t] \in Actions
    BY <1>4, CallsAre DEF fetchItemBelongsTo, pcs
  <2>2. /\ AtStep("addClickNews", call[t].user, call[t].item, Belongs[call[t].item])
             \in Actions
        /\ <<call[t].user, call[t].item>> \in Pairs
    BY <2>1, BelongsAssumption DEF Actions, AtStep, pcs, Pairs
  <2>3. call' \in [Threads -> {Idle} \cup Actions \cup Updates]
    BY <1>0, <1>4, <2>2 DEF fetchItemBelongsTo, Goto, Return
  <2>4. broken' \subseteq Pairs /\ UNCHANGED <<readed, items, news, interests, documents>>
    BY <1>0, <1>4, <2>2 DEF fetchItemBelongsTo, counts
  <2> QED
    BY <1>0, <2>3, <2>4 DEF TypeOK
<1>5. ASSUME NEW t \in Threads, addClickNews(t)
      PROVE  TypeOK'
  <2>1. call[t] \in Actions
    BY <1>5, CallsAre DEF addClickNews, pcs
  <2>2. [call[t] EXCEPT !.pc = "addClickInterests"] \in Actions
    BY <2>1 DEF Actions, pcs
  <2>3. news' \in [Keys -> Nat]
    BY <1>0, <1>5, Counted, Zenon DEF addClickNews
  <2>4. call' \in [Threads -> {Idle} \cup Actions \cup Updates]
    BY <1>0, <1>5, <2>2 DEF addClickNews, Goto
  <2>5. UNCHANGED <<readed, items, interests, documents, broken>>
    BY <1>5 DEF addClickNews
  <2> QED
    BY <1>0, <2>3, <2>4, <2>5 DEF TypeOK
<1>6. ASSUME NEW t \in Threads, addClickInterests(t)
      PROVE  TypeOK'
  <2>1. call[t] \in Actions /\ call[t].todo # <<>>
    BY <1>6, CallsAre DEF addClickInterests, pcs, Looping
  <2>2. [call[t] EXCEPT !.pc = "addClickNews", !.todo = Tail(@)] \in Actions
    <3>1. Tail(call[t].todo) \in Seq(Categories)
      BY <2>1, TodoParts DEF Actions
    <3> QED
      BY <2>1, <3>1 DEF Actions, pcs
  <2>3. call' \in [Threads -> {Idle} \cup Actions \cup Updates]
    BY <1>0, <1>6, <2>2 DEF addClickInterests, AfterCategory, Goto, Return
  <2>4. interests' \in [Keys -> Nat]
    BY <1>0, <1>6, Counted, Zenon DEF addClickInterests
  <2>5. UNCHANGED <<readed, items, news, documents, broken>>
    BY <1>6 DEF addClickInterests
  <2> QED
    BY <1>0, <2>3, <2>4, <2>5 DEF TypeOK
<1>7. ASSUME NEW t \in Threads, addClickFails(t)
      PROVE  TypeOK'
  <2>1. call[t] \in Actions
    BY <1>7, CallsAre DEF addClickFails, pcs
  <2>2. <<call[t].user, call[t].item>> \in Pairs
    BY <2>1 DEF Actions, Pairs
  <2> QED
    BY <1>0, <1>7, <2>2 DEF TypeOK, addClickFails, Goto, Return, counts
<1>8. ASSUME NEW t \in Threads, updateItem(t)
      PROVE  TypeOK'
  <2>1. PICK i \in Items :
          Deliver(t, [pc |-> "addItem", item |-> i, todo |-> Belongs[i]])
    BY <1>8 DEF updateItem
  <2>2. [pc |-> "addItem", item |-> i, todo |-> Belongs[i]] \in Updates
    BY BelongsAssumption DEF Updates
  <2> QED
    BY <1>0, <2>1, <2>2 DEF TypeOK, Deliver, Goto, counts
<1>9. ASSUME NEW t \in Threads, addItem(t)
      PROVE  TypeOK'
  <2>1. call[t] \in Updates
    BY <1>9, CallsAre DEF addItem
  <2>2. call[t].item \in Items /\ [call[t] EXCEPT !.pc = "count"] \in Updates
    BY <2>1 DEF Updates
  <2> QED
    BY <1>0, <1>9, <2>2 DEF TypeOK, addItem, Goto, Return, counts
<1>10. ASSUME NEW t \in Threads, countItem(t)
       PROVE  TypeOK'
  <2>1. call[t] \in Updates /\ call[t].todo # <<>>
    BY <1>10, CallsAre DEF countItem, Looping
  <2>2. [call[t] EXCEPT !.pc = "count", !.todo = Tail(@)] \in Updates
    <3>1. Tail(call[t].todo) \in Seq(Categories)
      BY <2>1, TodoParts DEF Updates
    <3> QED
      BY <2>1, <3>1 DEF Updates
  <2>3. call' \in [Threads -> {Idle} \cup Actions \cup Updates]
    BY <1>0, <1>10, <2>2 DEF countItem, AfterCategory, Goto, Return
  <2>4. documents' \in [Items \X Categories -> Nat]
    BY <1>0, <1>10, Counted, Zenon DEF countItem
  <2>5. UNCHANGED <<readed, items, news, interests, broken>>
    BY <1>10 DEF countItem
  <2> QED
    BY <1>0, <2>3, <2>4, <2>5 DEF TypeOK
<1>11. ASSUME Crash
       PROVE  TypeOK'
  BY <1>0, <1>11 DEF TypeOK, Crash, counts
<1>12. ASSUME UNCHANGED vars
       PROVE  TypeOK'
  BY <1>0, <1>12 DEF TypeOK, vars, counts
<1> QED
  BY <1>1, <1>2, <1>3, <1>4, <1>5, <1>6, <1>7, <1>8, <1>9, <1>10, <1>11, <1>12 DEF Next

-----------------------------------------------------------------------------
(* Said of a call alone: that it handles a click of the pair; that it is
   between the two logs with the key; that it owes the pair the category. *)
On(c, p) == /\ c.pc \in pcs \ {"addItem", "count"}
            /\ c.user = p[1] /\ c.item = p[2]
Within(category, todo) == \E n \in DOMAIN todo : todo[n] = category
Between(c, k) == /\ c.pc = "addClickInterests"
                 /\ c.user = k[1] /\ c.item = k[2] /\ Head(c.todo) = k[3]
Owes(c, p, category) ==
  /\ On(c, p)
  /\ \/ c.pc = "fetch"
     \/ c.pc \in {"addClickNews", "addClickInterests"} /\ Within(category, c.todo)

At(k) == {t \in Threads : Between(call[t], k)}

(* The news log leads by the calls between the two logs; by more only where a
   call was lost. *)
Balance ==
  \A k \in Keys : /\ interests[k] + Cardinality(At(k)) <= news[k]
                  /\ <<k[1], k[2]>> \notin broken =>
                       interests[k] + Cardinality(At(k)) = news[k]

(* A click marked as read is counted, or some call still owes it. *)
Settling ==
  \A p \in readed \ broken : \A n \in DOMAIN Belongs[p[2]] :
    \/ interests[<<p[1], p[2], Belongs[p[2]][n]>>] >= 1
    \/ \E t \in Threads : Owes(call[t], p, Belongs[p[2]][n])

IInv == TypeOK /\ Looping /\ Balance /\ Settling

-----------------------------------------------------------------------------
(* A step moves one thread: the others' calls stay. *)
LEMMA Moved ==
  ASSUME TypeOK, NEW t \in Threads, NEW r, call' = [call EXCEPT ![t] = r]
  PROVE  call'[t] = r /\ \A s \in Threads \ {t} : call'[s] = call[s]
BY DEF TypeOK

(* Sets of threads that differ in one at most. *)
LEMMA OneThread ==
  ASSUME NEW S \in SUBSET Threads, NEW R \in SUBSET Threads, NEW t \in Threads,
         \A s \in Threads \ {t} : s \in S <=> s \in R
  PROVE  /\ Cardinality(S) \in Nat /\ Cardinality(R) \in Nat
         /\ (t \in S <=> t \in R) => Cardinality(R) = Cardinality(S)
         /\ t \notin S /\ t \in R => Cardinality(R) = Cardinality(S) + 1
         /\ t \in S /\ t \notin R => Cardinality(S) = Cardinality(R) + 1
<1>1. IsFiniteSet(S) /\ IsFiniteSet(R)
  BY FS_Subset, ThreadsAssumption
<1>2. Cardinality(S) \in Nat /\ Cardinality(R) \in Nat
  BY <1>1, FS_CardinalityType
<1>3. ASSUME t \in S <=> t \in R
      PROVE  S = R
  BY <1>3
<1>4. ASSUME t \notin S, t \in R
      PROVE  R = S \cup {t}
  BY <1>4
<1>5. ASSUME t \in S, t \notin R
      PROVE  S = R \cup {t}
  BY <1>5
<1> QED
  BY <1>1, <1>2, <1>3, <1>4, <1>5, FS_AddElement

(* What the calls between the logs are worth, over a step of one thread. *)
LEMMA AtMoved ==
  ASSUME TypeOK, NEW t \in Threads, NEW r, call' = [call EXCEPT ![t] = r], NEW k
  PROVE  /\ Cardinality(At(k)) \in Nat /\ Cardinality(At(k)') \in Nat
         /\ (Between(call[t], k) <=> Between(r, k)) =>
              Cardinality(At(k)') = Cardinality(At(k))
         /\ ~Between(call[t], k) /\ Between(r, k) =>
              Cardinality(At(k)') = Cardinality(At(k)) + 1
         /\ Between(call[t], k) /\ ~Between(r, k) =>
              Cardinality(At(k)) = Cardinality(At(k)') + 1
<1>1. call'[t] = r /\ \A s \in Threads \ {t} : call'[s] = call[s]
  BY Moved
<1>2. /\ \A s \in Threads : s \in At(k) <=> Between(call[s], k)
      /\ \A s \in Threads : s \in At(k)' <=> Between(call'[s], k)
      /\ At(k) \in SUBSET Threads /\ At(k)' \in SUBSET Threads
  BY DEF At, Between
<1>3. \A s \in Threads \ {t} : s \in At(k) <=> s \in At(k)'
  BY <1>1, <1>2
<1>4. (t \in At(k) <=> Between(call[t], k)) /\ (t \in At(k)' <=> Between(r, k))
  BY <1>1, <1>2
<1> HIDE DEF At, Between
<1> QED
  BY <1>2, <1>3, <1>4, OneThread

(* A step that touches neither log nor a call between them keeps the balance. *)
LEMMA BalanceKept ==
  ASSUME TypeOK, Balance, NEW t \in Threads, NEW r, call' = [call EXCEPT ![t] = r],
         call[t].pc # "addClickInterests", r.pc # "addClickInterests",
         UNCHANGED <<news, interests>>, broken \subseteq broken'
  PROVE  Balance'
<1>1. \A k : Cardinality(At(k)') = Cardinality(At(k))
  BY AtMoved DEF Between
<1> QED
  BY <1>1 DEF Balance

(* A step keeps what is owed unless the thread stops owing it. *)
LEMMA OwedKept ==
  ASSUME TypeOK, NEW t \in Threads, NEW r, call' = [call EXCEPT ![t] = r],
         NEW p, NEW c, \E s \in Threads : Owes(call[s], p, c),
         Owes(call[t], p, c) => Owes(r, p, c)
  PROVE  \E s \in Threads : Owes(call'[s], p, c)
<1>1. PICK s \in Threads : Owes(call[s], p, c)
  OBVIOUS
<1>2. call'[t] = r /\ \A x \in Threads \ {t} : call'[x] = call[x]
  BY Moved
<1>3. Owes(call'[s], p, c)
  BY <1>1, <1>2
<1> QED
  BY <1>3

(* ... and with it what is settled, if nothing new is marked as read. *)
LEMMA SettlingKept ==
  ASSUME TypeOK, Settling, NEW t \in Threads, NEW r, call' = [call EXCEPT ![t] = r],
         UNCHANGED <<readed, interests>>, broken \subseteq broken',
         \A p \in readed \ broken' : \A n \in DOMAIN Belongs[p[2]] :
           Owes(call[t], p, Belongs[p[2]][n]) => Owes(r, p, Belongs[p[2]][n])
  PROVE  Settling'
<1> SUFFICES ASSUME NEW p \in readed \ broken', NEW n \in DOMAIN Belongs[p[2]]
             PROVE  \/ interests[<<p[1], p[2], Belongs[p[2]][n]>>] >= 1
                    \/ \E s \in Threads : Owes(call'[s], p, Belongs[p[2]][n])
  BY DEF Settling, Owes, On, Within
<1>1. CASE interests[<<p[1], p[2], Belongs[p[2]][n]>>] >= 1
  BY <1>1
<1>2. CASE \E s \in Threads : Owes(call[s], p, Belongs[p[2]][n])
  BY <1>2, OwedKept
<1> QED
  BY <1>1, <1>2 DEF Settling

-----------------------------------------------------------------------------
(* A loop goes on only with categories left. *)
LEMMA LoopingStep == TypeOK /\ Looping /\ [Next]_vars => Looping'
<1> SUFFICES ASSUME TypeOK, Looping, [Next]_vars, NEW s \in Threads,
                    call'[s].pc \in {"addClickNews", "addClickInterests", "count"}
             PROVE  call'[s].todo # <<>>
  BY DEF Looping
<1>1. CASE call'[s] = call[s]
  BY <1>1 DEF Looping
<1>2. CASE call'[s] # call[s]
  <2>1. Idle.pc = "idle"
    BY DEF Idle
  <2>2. ASSUME NEW t \in Threads, NEW r, call' = [call EXCEPT ![t] = r]
        PROVE  r = call'[s] /\ s = t
    BY <1>2, <2>2, Moved
  <2>3. ASSUME NEW t \in Threads, updateAction(t)
        PROVE  FALSE
    <3>1. PICK u \in Users, i \in Items : Deliver(t, AtStep("find", u, i, <<>>))
      BY <2>3 DEF updateAction
    <3>2. call' = [call EXCEPT ![t] = AtStep("find", u, i, <<>>)]
      BY <3>1 DEF Deliver, Goto
    <3>3. AtStep("find", u, i, <<>>).pc = "find"
      BY DEF AtStep
    <3> QED
      BY <2>2, <3>2, <3>3
  <2>4. ASSUME NEW t \in Threads, findUserReaded(t)
        PROVE  FALSE
    <3>1. call[t] \in Actions
      BY <2>4, CallsAre DEF findUserReaded, pcs
    <3>2. [call[t] EXCEPT !.pc = "mark"].pc = "mark"
      BY <3>1 DEF Actions
    <3> QED
      BY <2>1, <2>2, <2>4, <3>2 DEF findUserReaded, Goto, Return
  <2>5. ASSUME NEW t \in Threads, markReaded(t)
        PROVE  FALSE
    <3>1. call[t] \in Actions
      BY <2>5, CallsAre DEF markReaded, pcs
    <3>2. [call[t] EXCEPT !.pc = "fetch"].pc = "fetch"
      BY <3>1 DEF Actions
    <3> QED
      BY <2>2, <2>5, <3>2 DEF markReaded, Goto
  <2>6. ASSUME NEW t \in Threads, fetchItemBelongsTo(t)
        PROVE  call'[s].todo # <<>>
    <3> DEFINE next == AtStep("addClickNews", call[t].user, call[t].item,
                              Belongs[call[t].item])
    <3>1. \/ call' = [call EXCEPT ![t] = Idle]
          \/ Belongs[call[t].item] # <<>> /\ call' = [call EXCEPT ![t] = next]
      BY <2>6 DEF fetchItemBelongsTo, Goto, Return
    <3>2. next.todo = Belongs[call[t].item]
      BY DEF AtStep
    <3> HIDE DEF next
    <3> QED
      BY <2>1, <2>2, <3>1, <3>2
  <2>7. ASSUME NEW t \in Threads, addClickNews(t)
        PROVE  call'[s].todo # <<>>
    <3>1. call[t] \in Actions /\ call[t].todo # <<>>
      BY <2>7, CallsAre DEF addClickNews, pcs, Looping
    <3>2. [call[t] EXCEPT !.pc = "addClickInterests"].todo = call[t].todo
      BY <3>1 DEF Actions
    <3> QED
      BY <2>2, <2>7, <3>1, <3>2 DEF addClickNews, Goto
  <2>8. ASSUME NEW t \in Threads, addClickInterests(t)
        PROVE  call'[s].todo # <<>>
    <3>1. call[t] \in Actions
      BY <2>8, CallsAre DEF addClickInterests, pcs
    <3>2. [call[t] EXCEPT !.pc = "addClickNews", !.todo = Tail(@)].todo = Tail(call[t].todo)
      BY <3>1 DEF Actions
    <3> QED
      BY <2>1, <2>2, <2>8, <3>2, ZenonT(30) DEF addClickInterests, AfterCategory, Goto, Return
  <2>9. ASSUME NEW t \in Threads, addClickFails(t)
        PROVE  FALSE
    BY <2>1, <2>2, <2>9 DEF addClickFails, Goto, Return
  <2>10. ASSUME NEW t \in Threads, updateItem(t)
         PROVE  FALSE
    <3>1. PICK i \in Items :
            Deliver(t, [pc |-> "addItem", item |-> i, todo |-> Belongs[i]])
      BY <2>10 DEF updateItem
    <3> DEFINE next == [pc |-> "addItem", item |-> i, todo |-> Belongs[i]]
    <3>2. call' = [call EXCEPT ![t] = next] /\ next.pc = "addItem"
      BY <3>1 DEF Deliver, Goto
    <3> HIDE DEF next
    <3> QED
      BY <2>2, <3>2
  <2>11. ASSUME NEW t \in Threads, addItem(t)
         PROVE  call'[s].todo # <<>>
    <3>1. call[t] \in Updates
      BY <2>11, CallsAre DEF addItem
    <3>2. [call[t] EXCEPT !.pc = "count"].todo = call[t].todo
      BY <3>1 DEF Updates
    <3> QED
      BY <2>1, <2>2, <2>11, <3>2 DEF addItem, Goto, Return
  <2>12. ASSUME NEW t \in Threads, countItem(t)
         PROVE  call'[s].todo # <<>>
    <3>1. call[t] \in Updates
      BY <2>12, CallsAre DEF countItem
    <3>2. [call[t] EXCEPT !.pc = "count", !.todo = Tail(@)].todo = Tail(call[t].todo)
      BY <3>1 DEF Updates
    <3> QED
      BY <2>1, <2>2, <2>12, <3>2 DEF countItem, AfterCategory, Goto, Return
  <2>13. ASSUME Crash
         PROVE  FALSE
    BY <2>1, <2>13 DEF Crash
  <2>14. ASSUME UNCHANGED vars
         PROVE  FALSE
    BY <1>2, <2>14 DEF vars
  <2> QED
    BY <2>3, <2>4, <2>5, <2>6, <2>7, <2>8, <2>9, <2>10, <2>11, <2>12, <2>13, <2>14 DEF Next
<1> QED
  BY <1>1, <1>2

(* At the start nobody calls and nothing is counted. *)
LEMMA Start == Init => IInv
<1> SUFFICES ASSUME Init
             PROVE  IInv
  OBVIOUS
<1>1. TypeOK /\ Looping /\ Settling
  BY DEF Init, TypeOK, counts, Looping, Idle, Settling
<1>2. \A k : At(k) = {}
  BY DEF Init, At, Between, Idle
<1>3. Balance
  BY <1>2, FS_EmptySet DEF Init, Balance
<1> QED
  BY <1>1, <1>3 DEF IInv

(* The steps of a click's call that log nothing. *)
LEMMA QuietSteps ==
  ASSUME IInv, NEW t \in Threads,
         \/ updateAction(t) \/ findUserReaded(t) \/ fetchItemBelongsTo(t)
         \/ updateItem(t) \/ addItem(t) \/ countItem(t)
  PROVE  Balance' /\ Settling'
<1> USE DEF IInv
<1>1. Idle.pc = "idle"
  BY DEF Idle
<1>2. \A p, c : call[t].pc \notin {"fetch", "addClickNews", "addClickInterests"}
                  => ~Owes(call[t], p, c)
  BY DEF Owes
<1>3. CASE updateAction(t)
  <2>1. PICK u \in Users, i \in Items : Deliver(t, AtStep("find", u, i, <<>>))
    BY <1>3 DEF updateAction
  <2> DEFINE next == AtStep("find", u, i, <<>>)
  <2>2. /\ call[t] = Idle /\ call' = [call EXCEPT ![t] = next]
        /\ UNCHANGED <<readed, news, interests, broken>>
    BY <2>1 DEF Deliver, Goto, counts
  <2>3. next.pc = "find"
    BY DEF AtStep
  <2> HIDE DEF next
  <2>4. Balance'
    BY <1>1, <2>2, <2>3, BalanceKept
  <2>5. Settling'
    BY <1>1, <1>2, <2>2, SettlingKept
  <2> QED
    BY <2>4, <2>5
<1>4. CASE findUserReaded(t)
  <2> DEFINE next == [call[t] EXCEPT !.pc = "mark"]
  <2>1. call[t] \in Actions
    BY <1>4, CallsAre DEF findUserReaded, pcs
  <2>2. PICK r \in {Idle, next} : call' = [call EXCEPT ![t] = r]
    BY <1>4 DEF findUserReaded, Goto, Return
  <2>3. call[t].pc = "find" /\ UNCHANGED <<readed, news, interests, broken>>
    BY <1>4 DEF findUserReaded, counts
  <2>4. next.pc = "mark"
    BY <2>1 DEF Actions
  <2> HIDE DEF next
  <2>5. Balance'
    BY <1>1, <2>2, <2>3, <2>4, BalanceKept
  <2>6. Settling'
    BY <1>2, <2>2, <2>3, SettlingKept
  <2> QED
    BY <2>5, <2>6
<1>5. CASE fetchItemBelongsTo(t)
  <2> DEFINE u    == call[t].user
             i    == call[t].item
             next == AtStep("addClickNews", u, i, Belongs[i])
  <2>1. call[t] \in Actions /\ call[t].pc = "fetch"
    BY <1>5, CallsAre DEF fetchItemBelongsTo, pcs
  <2>2. u \in Users /\ i \in Items
    BY <2>1 DEF Actions
  <2>3. /\ UNCHANGED <<readed, news, interests>>
        /\ broken \subseteq broken'
    BY <1>5 DEF fetchItemBelongsTo, counts
  <2>4. PICK r : /\ call' = [call EXCEPT ![t] = r]
                 /\ \/ r = Idle /\ i \in items /\ Belongs[i] = <<>>
                    \/ r = Idle /\ <<u, i>> \in broken'
                    \/ r = next
    BY <1>5 DEF fetchItemBelongsTo, Goto, Return
  <2>5. next.pc = "addClickNews" /\ next.user = u /\ next.item = i /\ next.todo = Belongs[i]
    BY DEF AtStep
  <2>6. ASSUME NEW p \in readed \ broken', NEW n \in DOMAIN Belongs[p[2]],
               Owes(call[t], p, Belongs[p[2]][n])
        PROVE  Owes(r, p, Belongs[p[2]][n])
    <3>1. p[1] = u /\ p[2] = i /\ p = <<u, i>>
      BY <2>6 DEF Owes, On, TypeOK, Pairs
    <3>2. r = next
      <4>1. Belongs[i] # <<>>
        BY <2>6, <3>1
      <4> QED
        BY <2>4, <2>6, <3>1, <4>1
    <3>3. Within(Belongs[p[2]][n], next.todo)
      BY <2>5, <2>6, <3>1 DEF Within
    <3> HIDE DEF next
    <3> QED
      BY <2>5, <3>1, <3>2, <3>3 DEF Owes, On, pcs
  <2> HIDE DEF next
  <2>7. Balance'
    BY <1>1, <2>1, <2>3, <2>4, <2>5, BalanceKept
  <2>8. Settling'
    BY <2>3, <2>4, <2>6, SettlingKept
  <2> QED
    BY <2>7, <2>8
<1>6. CASE updateItem(t)
  <2>1. PICK i \in Items :
          Deliver(t, [pc |-> "addItem", item |-> i, todo |-> Belongs[i]])
    BY <1>6 DEF updateItem
  <2> DEFINE next == [pc |-> "addItem", item |-> i, todo |-> Belongs[i]]
  <2>2. /\ call[t] = Idle /\ call' = [call EXCEPT ![t] = next]
        /\ UNCHANGED <<readed, news, interests, broken>>
    BY <2>1 DEF Deliver, Goto, counts
  <2>3. next.pc = "addItem"
    OBVIOUS
  <2> HIDE DEF next
  <2>4. Balance'
    BY <1>1, <2>2, <2>3, BalanceKept
  <2>5. Settling'
    BY <1>1, <1>2, <2>2, SettlingKept
  <2> QED
    BY <2>4, <2>5
<1>7. CASE addItem(t)
  <2> DEFINE next == [call[t] EXCEPT !.pc = "count"]
  <2>1. call[t] \in Updates
    BY <1>7, CallsAre DEF addItem
  <2>2. PICK r \in {Idle, next} : call' = [call EXCEPT ![t] = r]
    BY <1>7 DEF addItem, Goto, Return
  <2>3. call[t].pc = "addItem" /\ UNCHANGED <<readed, news, interests, broken>>
    BY <1>7 DEF addItem, counts
  <2>4. next.pc = "count"
    BY <2>1 DEF Updates
  <2> HIDE DEF next
  <2>5. Balance'
    BY <1>1, <2>2, <2>3, <2>4, BalanceKept
  <2>6. Settling'
    BY <1>2, <2>2, <2>3, SettlingKept
  <2> QED
    BY <2>5, <2>6
<1>8. CASE countItem(t)
  <2> DEFINE next == [call[t] EXCEPT !.pc = "count", !.todo = Tail(@)]
  <2>1. call[t] \in Updates
    BY <1>8, CallsAre DEF countItem
  <2>2. PICK r \in {Idle, next} : call' = [call EXCEPT ![t] = r]
    BY <1>8 DEF countItem, AfterCategory, Goto, Return
  <2>3. call[t].pc = "count" /\ UNCHANGED <<readed, news, interests, broken>>
    BY <1>8 DEF countItem
  <2>4. next.pc = "count"
    BY <2>1 DEF Updates
  <2> HIDE DEF next
  <2>5. Balance'
    BY <1>1, <2>2, <2>3, <2>4, BalanceKept
  <2>6. Settling'
    BY <1>2, <2>2, <2>3, SettlingKept
  <2> QED
    BY <2>5, <2>6
<1> QED
  BY <1>3, <1>4, <1>5, <1>6, <1>7, <1>8

(* The mark: from here on the call owes the click every category. *)
LEMMA MarkStep ==
  ASSUME IInv, NEW t \in Threads, markReaded(t)
  PROVE  Balance' /\ Settling'
<1> USE DEF IInv
<1> DEFINE next == [call[t] EXCEPT !.pc = "fetch"]
           q    == <<call[t].user, call[t].item>>
<1>1. call[t] \in Actions /\ call[t].pc = "mark"
  BY CallsAre DEF markReaded, pcs
<1>2. /\ readed' = readed \cup {q} /\ call' = [call EXCEPT ![t] = next]
      /\ UNCHANGED <<news, interests, broken>>
  BY DEF markReaded, Goto, counts
<1>3. next.pc = "fetch" /\ next.user = call[t].user /\ next.item = call[t].item
  BY <1>1 DEF Actions
<1> HIDE DEF next
<1>4. Balance'
  BY <1>1, <1>2, <1>3, BalanceKept
<1>5. ASSUME NEW p \in readed' \ broken', NEW n \in DOMAIN Belongs[p[2]]
      PROVE  \/ interests[<<p[1], p[2], Belongs[p[2]][n]>>] >= 1
             \/ \E s \in Threads : Owes(call'[s], p, Belongs[p[2]][n])
  <2> DEFINE c == Belongs[p[2]][n]
  <2>1. CASE p = q
    <3>1. Owes(next, p, c)
      BY <1>3, <2>1 DEF Owes, On, pcs
    <3>2. call'[t] = next
      BY <1>2, Moved
    <3> QED
      BY <3>1, <3>2
  <2>2. CASE p # q
    <3>1. p \in readed \ broken
      BY <1>2, <1>5, <2>2
    <3>2. ~Owes(call[t], p, c)
      BY <1>1 DEF Owes
    <3> HIDE DEF c
    <3>3. CASE interests[<<p[1], p[2], c>>] >= 1
      BY <3>3 DEF c
    <3>4. CASE \E s \in Threads : Owes(call[s], p, c)
      <4>1. \E s \in Threads : Owes(call'[s], p, c)
        BY <1>2, <3>2, <3>4, OwedKept
      <4> QED
        BY <4>1 DEF c
    <3> QED
      BY <3>1, <3>3, <3>4 DEF Settling, c
  <2> QED
    BY <2>1, <2>2
<1>6. Settling'
  BY <1>2, <1>5 DEF Settling, Owes, On, Within
<1> QED
  BY <1>4, <1>6

(* The click goes to the first log: the call is between the two. *)
LEMMA NewsStep ==
  ASSUME IInv, NEW t \in Threads, addClickNews(t)
  PROVE  Balance' /\ Settling'
<1> USE DEF IInv
<1> DEFINE next == [call[t] EXCEPT !.pc = "addClickInterests"]
<1>1. call[t] \in Actions /\ call[t].pc = "addClickNews"
  BY CallsAre DEF addClickNews, pcs
<1>2. /\ news' = [news EXCEPT ![Key(t)] = @ + 1]
      /\ call' = [call EXCEPT ![t] = next]
      /\ UNCHANGED <<readed, interests, broken>>
  BY DEF addClickNews, Goto
<1>3. /\ next.pc = "addClickInterests" /\ next.user = call[t].user
      /\ next.item = call[t].item /\ next.todo = call[t].todo
  BY <1>1 DEF Actions
<1> HIDE DEF next
<1>4. news \in [Keys -> Nat] /\ interests \in [Keys -> Nat]
  BY DEF TypeOK
<1>5. \A k \in Keys : news'[k] = IF k = Key(t) THEN news[k] + 1 ELSE news[k]
  BY <1>2, <1>4, Counted, Zenon
<1>6. \A k \in Keys : Between(next, k) <=> k = Key(t)
  BY <1>3 DEF Between, Key, Keys
<1>7. \A k : ~Between(call[t], k)
  BY <1>1 DEF Between
<1>8. \A k \in Keys :
        /\ Cardinality(At(k)) \in Nat
        /\ Cardinality(At(k)') =
             IF k = Key(t) THEN Cardinality(At(k)) + 1 ELSE Cardinality(At(k))
  BY <1>2, <1>6, <1>7, AtMoved
<1>9. Balance'
  <2>1. \A k \in Keys : news[k] \in Nat /\ interests[k] \in Nat
    BY <1>4
  <2>2. ASSUME NEW k \in Keys
        PROVE  /\ interests[k] + Cardinality(At(k)') <= news'[k]
               /\ <<k[1], k[2]>> \notin broken =>
                    interests[k] + Cardinality(At(k)') = news'[k]
    BY <1>5, <1>8, <2>1 DEF Balance
  <2> QED
    BY <1>2, <2>2 DEF Balance
<1>10. Settling'
  <2>1. \A p, c : Owes(call[t], p, c) => Owes(next, p, c)
    BY <1>1, <1>3 DEF Owes, On, pcs
  <2> QED
    BY <1>2, <2>1, SettlingKept
<1> QED
  BY <1>9, <1>10

(* ... and to the second: counted, and owed no more. *)
LEMMA InterestsStep ==
  ASSUME IInv, NEW t \in Threads, addClickInterests(t)
  PROVE  Balance' /\ Settling'
<1> USE DEF IInv
<1> DEFINE next == [call[t] EXCEPT !.pc = "addClickNews", !.todo = Tail(@)]
           todo == call[t].todo
<1>1. call[t] \in Actions /\ call[t].pc = "addClickInterests" /\ todo # <<>>
  BY CallsAre DEF addClickInterests, pcs, Looping
<1>2. /\ interests' = [interests EXCEPT ![Key(t)] = @ + 1]
      /\ UNCHANGED <<readed, news, broken>>
  BY DEF addClickInterests
<1>3. PICK r : /\ call' = [call EXCEPT ![t] = r]
               /\ \/ r = Idle /\ Tail(todo) = <<>>
                  \/ r = next
  BY DEF addClickInterests, AfterCategory, Goto, Return
<1>4. /\ next.pc = "addClickNews" /\ next.user = call[t].user
      /\ next.item = call[t].item /\ next.todo = Tail(todo)
  BY <1>1 DEF Actions
<1>5. Idle.pc = "idle"
  BY DEF Idle
<1>6. todo \in Seq(Categories)
  BY <1>1 DEF Actions
<1> HIDE DEF next, todo
<1>7. /\ Head(todo) \in Categories
      /\ \A c : Within(c, todo) <=> c = Head(todo) \/ Within(c, Tail(todo))
  BY <1>1, <1>6, TodoParts DEF Within
<1>8. news \in [Keys -> Nat] /\ interests \in [Keys -> Nat]
  BY DEF TypeOK
<1>9. \A k \in Keys : interests'[k] =
        IF k = Key(t) THEN interests[k] + 1 ELSE interests[k]
  BY <1>2, <1>8, Counted, Zenon
<1>10. \A k \in Keys : Between(call[t], k) <=> k = Key(t)
  BY <1>1 DEF Between, Key, Keys
<1>11. \A k : ~Between(r, k)
  BY <1>3, <1>4, <1>5 DEF Between
<1>12. \A k \in Keys :
         /\ Cardinality(At(k)') \in Nat
         /\ Cardinality(At(k)) =
              IF k = Key(t) THEN Cardinality(At(k)') + 1 ELSE Cardinality(At(k)')
  BY <1>3, <1>10, <1>11, AtMoved
<1>13. \A k \in Keys : news[k] \in Nat /\ interests[k] \in Nat
  BY <1>8
<1>14. Balance'
  <2>1. ASSUME NEW k \in Keys
        PROVE  /\ interests'[k] + Cardinality(At(k)') <= news[k]
               /\ <<k[1], k[2]>> \notin broken =>
                    interests'[k] + Cardinality(At(k)') = news[k]
    BY <1>9, <1>12, <1>13 DEF Balance
  <2> QED
    BY <1>2, <2>1 DEF Balance
<1>15. ASSUME NEW p \in readed \ broken, NEW n \in DOMAIN Belongs[p[2]]
       PROVE  \/ interests'[<<p[1], p[2], Belongs[p[2]][n]>>] >= 1
              \/ \E s \in Threads : Owes(call'[s], p, Belongs[p[2]][n])
  <2> DEFINE c == Belongs[p[2]][n]
             k == <<p[1], p[2], c>>
  <2>1. p[1] \in Users /\ p[2] \in Items
    BY DEF TypeOK, Pairs
  <2>2. c \in Categories
    BY <2>1, BelongsAssumption
  <2>3. k \in Keys /\ k[1] = p[1] /\ k[2] = p[2] /\ k[3] = c
    BY <2>1, <2>2 DEF Keys
  <2>4. \/ interests[k] >= 1
        \/ \E s \in Threads : Owes(call[s], p, c)
    BY DEF Settling
  <2>5. CASE k = Key(t)
    <3>1. interests'[k] >= 1
      BY <1>9, <1>13, <2>3, <2>5
    <3> QED
      BY <3>1
  <2>6. CASE k # Key(t)
    <3>1. Owes(call[t], p, c) => Owes(r, p, c)
      <4> SUFFICES ASSUME Owes(call[t], p, c)
                   PROVE  Owes(r, p, c)
        OBVIOUS
      <4>1. call[t].user = p[1] /\ call[t].item = p[2] /\ Within(c, todo)
        BY <1>1 DEF Owes, On, todo
      <4>2. c # Head(todo)
        BY <2>6, <4>1 DEF Key, todo
      <4>3. Within(c, Tail(todo))
        BY <1>7, <4>1, <4>2
      <4>4. r = next
        BY <1>3, <4>3 DEF Within
      <4> QED
        BY <1>4, <4>1, <4>3, <4>4 DEF Owes, On, pcs
    <3> HIDE DEF c
    <3>2. CASE interests[k] >= 1
      BY <1>9, <2>3, <2>6, <3>2 DEF c
    <3>3. CASE \E s \in Threads : Owes(call[s], p, c)
      <4>1. \E s \in Threads : Owes(call'[s], p, c)
        BY <1>3, <3>1, <3>3, OwedKept
      <4> QED
        BY <4>1 DEF c
    <3> QED
      BY <2>4, <3>2, <3>3
  <2> QED
    BY <2>5, <2>6
<1>16. Settling'
  BY <1>2, <1>15 DEF Settling, Owes, On, Within
<1> QED
  BY <1>14, <1>16

(* A failing write is the end of a call that is lost for its pair. *)
LEMMA FailStep ==
  ASSUME IInv, NEW t \in Threads, addClickFails(t)
  PROVE  Balance' /\ Settling'
<1> USE DEF IInv
<1> DEFINE q == <<call[t].user, call[t].item>>
<1>1. call[t] \in Actions /\ call' = [call EXCEPT ![t] = Idle]
  BY CallsAre DEF addClickFails, pcs, Goto, Return
<1>2. UNCHANGED <<readed, news, interests>> /\ broken' = broken \cup {q}
  BY DEF addClickFails, counts
<1>3. Idle.pc = "idle"
  BY DEF Idle
<1>4. news \in [Keys -> Nat] /\ interests \in [Keys -> Nat]
  BY DEF TypeOK
<1>5. ASSUME NEW k \in Keys
      PROVE  /\ interests[k] + Cardinality(At(k)') <= news[k]
             /\ <<k[1], k[2]>> \notin broken' =>
                  interests[k] + Cardinality(At(k)') = news[k]
  <2>1. ~Between(Idle, k)
    BY <1>3 DEF Between
  <2>2. Cardinality(At(k)) \in Nat /\ Cardinality(At(k)') \in Nat
    BY <1>1, AtMoved
  <2>3. Cardinality(At(k)') <= Cardinality(At(k))
    <3>1. \/ Cardinality(At(k)') = Cardinality(At(k))
          \/ Cardinality(At(k)) = Cardinality(At(k)') + 1
      BY <1>1, <2>1, AtMoved
    <3> QED
      BY <2>2, <3>1
  <2>4. <<k[1], k[2]>> \notin broken' => Cardinality(At(k)') = Cardinality(At(k))
    <3>1. Between(call[t], k) => <<k[1], k[2]>> = q
      BY DEF Between
    <3> QED
      BY <1>1, <1>2, <2>1, <3>1, AtMoved
  <2>5. news[k] \in Nat /\ interests[k] \in Nat
    BY <1>4
  <2> QED
    BY <1>2, <2>2, <2>3, <2>4, <2>5 DEF Balance
<1>6. Balance'
  BY <1>2, <1>5 DEF Balance
<1>7. ASSUME NEW p \in readed \ broken', NEW n \in DOMAIN Belongs[p[2]],
             Owes(call[t], p, Belongs[p[2]][n])
      PROVE  FALSE
  BY <1>2, <1>7 DEF Owes, On, TypeOK, Pairs
<1>8. Settling'
  BY <1>1, <1>2, <1>7, SettlingKept
<1> QED
  BY <1>6, <1>8

(* A crash ends every call: what was not at its end is lost for its pair. *)
LEMMA CrashStep ==
  ASSUME IInv, Crash
  PROVE  Balance' /\ Settling'
<1> USE DEF IInv
<1>1. /\ \A t \in Threads : call'[t] = Idle
      /\ broken' = broken \cup {p \in Pairs : Handling(p[1], p[2]) # {}}
      /\ UNCHANGED <<readed, news, interests>>
  BY DEF Crash, counts
<1>2. Idle.pc = "idle"
  BY DEF Idle
<1>3. news \in [Keys -> Nat] /\ interests \in [Keys -> Nat]
  BY DEF TypeOK
<1>4. \A k : At(k)' = {}
  BY <1>1, <1>2 DEF At, Between
<1>5. ASSUME NEW k \in Keys
      PROVE  /\ interests[k] + Cardinality(At(k)') <= news[k]
             /\ <<k[1], k[2]>> \notin broken' =>
                  interests[k] + Cardinality(At(k)') = news[k]
  <2>1. Cardinality(At(k)') = 0 /\ Cardinality({}) = 0
    BY <1>4, FS_EmptySet
  <2>2. IsFiniteSet(At(k)) /\ Cardinality(At(k)) \in Nat
    <3>1. At(k) \subseteq Threads
      BY DEF At
    <3> QED
      BY <3>1, FS_Subset, FS_CardinalityType, ThreadsAssumption
  <2>3. <<k[1], k[2]>> \notin broken' => At(k) = {} /\ <<k[1], k[2]>> \notin broken
    <3>1. <<k[1], k[2]>> \in Pairs
      BY DEF Keys, Pairs
    <3>2. \A t \in At(k) : t \in Handling(k[1], k[2])
      BY DEF At, Between, Handling, pcs
    <3> QED
      BY <1>1, <3>1, <3>2
  <2>4. news[k] \in Nat /\ interests[k] \in Nat
    BY <1>3
  <2> HIDE DEF At
  <2>5. interests[k] + Cardinality(At(k)') <= news[k]
    <3>1. interests[k] + Cardinality(At(k)) <= news[k]
      BY DEF Balance
    <3> QED
      BY <2>1, <2>2, <2>4, <3>1
  <2>6. <<k[1], k[2]>> \notin broken' =>
          interests[k] + Cardinality(At(k)') = news[k]
    BY <2>1, <2>3, <2>4 DEF Balance
  <2> QED
    BY <2>5, <2>6
<1>6. Balance'
  BY <1>1, <1>5 DEF Balance
<1>7. ASSUME NEW p \in readed \ broken', NEW n \in DOMAIN Belongs[p[2]]
      PROVE  interests[<<p[1], p[2], Belongs[p[2]][n]>>] >= 1
  <2>1. p \in Pairs /\ p \in readed \ broken /\ Handling(p[1], p[2]) = {}
    BY <1>1, <1>7 DEF TypeOK
  <2>2. ~ \E t \in Threads : Owes(call[t], p, Belongs[p[2]][n])
    BY <2>1 DEF Owes, On, Handling
  <2> QED
    BY <2>1, <2>2 DEF Settling
<1>8. Settling'
  BY <1>1, <1>7 DEF Settling, Owes, On, Within
<1> QED
  BY <1>6, <1>8

-----------------------------------------------------------------------------
(* Types, loops that have a category left, logs in balance and clicks that are
   counted or owed: what every step of every thread, and a crash, keeps. *)
THEOREM Invariance == Spec => []IInv
<1>1. IInv /\ [Next]_vars => IInv'
  <2> SUFFICES ASSUME IInv, [Next]_vars
               PROVE  IInv'
    OBVIOUS
  <2>1. TypeOK' /\ Looping'
    BY TypeStep, LoopingStep DEF IInv
  <2>2. ASSUME NEW t \in Threads,
               \/ updateAction(t) \/ findUserReaded(t) \/ markReaded(t)
               \/ fetchItemBelongsTo(t) \/ addClickNews(t) \/ addClickInterests(t)
               \/ addClickFails(t) \/ updateItem(t) \/ addItem(t) \/ countItem(t)
        PROVE  Balance' /\ Settling'
    BY <2>2, QuietSteps, MarkStep, NewsStep, InterestsStep, FailStep
  <2>3. ASSUME UNCHANGED vars
        PROVE  Balance' /\ Settling'
    BY <2>3 DEF IInv, vars, counts, Balance, Settling, At, Between, Owes, On, Within
  <2> QED
    BY <2>1, <2>2, <2>3, CrashStep DEF Next, IInv
<1> QED
  BY <1>1, Start, PTL DEF Spec

(* Every part of the state has its type, always: counts never leave the naturals
   and a call is a click's or an item's. *)
THEOREM TypeCorrect == Spec => []TypeOK
<1>1. IInv => TypeOK
  BY DEF IInv
<1> QED
  BY <1>1, Invariance, PTL

(* The logs of NewsTrends and UserInterests are given the same clicks, over any
   interleaving of the threads, failing writes and crashes. *)
THEOREM LogsKeepAgreeing == Spec => []LogsAgree
<1>1. IInv => LogsAgree
  <2> SUFFICES ASSUME IInv, NEW k \in Keys
               PROVE  /\ interests[k] <= news[k]
                      /\ Handling(k[1], k[2]) = {} /\ <<k[1], k[2]>> \notin broken =>
                           interests[k] = news[k]
    BY DEF LogsAgree
  <2>1. news[k] \in Nat /\ interests[k] \in Nat
    BY DEF IInv, TypeOK
  <2>2. Cardinality(At(k)) \in Nat
    <3>1. At(k) \subseteq Threads
      BY DEF At
    <3> QED
      BY <3>1, FS_Subset, FS_CardinalityType, ThreadsAssumption
  <2>3. Handling(k[1], k[2]) = {} => Cardinality(At(k)) = 0
    <3>1. \A t \in At(k) : t \in Handling(k[1], k[2])
      BY DEF At, Between, Handling, pcs
    <3> QED
      BY <3>1, FS_EmptySet
  <2> HIDE DEF At
  <2>4. interests[k] <= news[k]
    <3>1. interests[k] + Cardinality(At(k)) <= news[k]
      BY DEF IInv, Balance
    <3> QED
      BY <2>1, <2>2, <3>1
  <2>5. Handling(k[1], k[2]) = {} /\ <<k[1], k[2]>> \notin broken => interests[k] = news[k]
    BY <2>1, <2>3 DEF IInv, Balance
  <2> QED
    BY <2>4, <2>5
<1> QED
  BY <1>1, Invariance, PTL

(* A click marked as read whose calls came to their end is counted in every
   category of its item: the mark, which turns redeliveries away, loses none. *)
THEOREM ClicksSettle == Spec => []SettledClickCounted
<1>1. IInv => SettledClickCounted
  <2> SUFFICES ASSUME IInv, NEW p \in readed \ broken, Handling(p[1], p[2]) = {},
                      NEW n \in DOMAIN Belongs[p[2]]
               PROVE  interests[<<p[1], p[2], Belongs[p[2]][n]>>] >= 1
    BY DEF SettledClickCounted
  <2>1. ~ \E t \in Threads : Owes(call[t], p, Belongs[p[2]][n])
    BY DEF Owes, On, Handling
  <2> QED
    BY <2>1 DEF IInv, Settling
<1> QED
  BY <1>1, Invariance, PTL
-----------------------------------------------------------------------------
(* How often a click is counted.  A call in the loop has passed some places of its
   item's categories, and what it has left is the end of them. *)
Past(c) == Len(Belongs[c.item]) - Len(c.todo)
Ending(c) ==
  /\ c.item \in Items /\ c.todo \in Seq(Categories)
  /\ Len(c.todo) <= Len(Belongs[c.item])
  /\ \A a \in 1..Len(c.todo) : c.todo[a] = Belongs[c.item][Past(c) + a]
Endings == \A t \in Threads :
  call[t].pc \in {"addClickNews", "addClickInterests"} => Ending(call[t])

(* A call that may yet log the key at place n: it has to look and will not find
   the pair, or has looked and not found it, or has that place before it. *)
Loggable(c, k, n, seen) ==
  /\ On(c, k)
  /\ \/ c.pc = "find" /\ <<k[1], k[2]>> \notin seen
     \/ c.pc \in {"mark", "fetch"}
     \/ c.pc = "addClickNews" /\ Past(c) < n
     \/ c.pc = "addClickInterests" /\ Past(c) + 1 < n

(* The threads with the places at which they may log the key. *)
Spots(k) == Threads \X Places(k[2], k[3])
May(k) == {s \in Spots(k) : Loggable(call[s[1]], k, s[2], readed)}

(* What nobody has marked nobody has logged, nor is about to. *)
Fresh == \A p \in Pairs \ readed :
  /\ \A c \in Categories : news[<<p[1], p[2], c>>] = 0
  /\ \A t \in Threads : On(call[t], p) => call[t].pc \in {"find", "mark"}

(* Every thread logs a click once at most for each place: it has, or it may. *)
Budget == \A k \in Keys : news[k] + Cardinality(May(k)) <= Cardinality(Spots(k))

Counting == TypeOK /\ Looping /\ Endings /\ Fresh /\ Budget

(* An item names a category at finitely many places, which are numbers. *)
LEMMA SpotsFinite ==
  ASSUME NEW k \in Keys
  PROVE  /\ Places(k[2], k[3]) \subseteq Nat
         /\ IsFiniteSet(Spots(k)) /\ Cardinality(Spots(k)) \in Nat
         /\ \A S \in SUBSET Spots(k) :
               /\ IsFiniteSet(S) /\ Cardinality(S) \in Nat
               /\ Cardinality(S) <= Cardinality(Spots(k))
<1>1. k[2] \in Items /\ Belongs[k[2]] \in Seq(Categories)
  BY BelongsAssumption DEF Keys
<1>2. DOMAIN Belongs[k[2]] = 1..Len(Belongs[k[2]]) /\ Len(Belongs[k[2]]) \in Nat
  BY <1>1, LenProperties
<1>3. IsFiniteSet(1..Len(Belongs[k[2]]))
  <2>1. 1 \in Int /\ Len(Belongs[k[2]]) \in Int
    BY <1>2
  <2> QED
    BY <2>1, FS_Interval
<1>4. Places(k[2], k[3]) \subseteq 1..Len(Belongs[k[2]])
  BY <1>2 DEF Places
<1>5. IsFiniteSet(Places(k[2], k[3]))
  BY <1>3, <1>4, FS_Subset
<1>6. IsFiniteSet(Spots(k))
  BY <1>5, ThreadsAssumption, FS_Product DEF Spots
<1>7. Places(k[2], k[3]) \subseteq Nat
  BY <1>4
<1> QED
  BY <1>6, <1>7, FS_Subset, FS_CardinalityType

(* One place further, what is left is still the end of the item's categories. *)
LEMMA EndingTail ==
  ASSUME NEW c, Ending(c), c.todo # <<>>, NEW d,
         d.item = c.item, d.todo = Tail(c.todo)
  PROVE  Ending(d) /\ Past(c) \in Nat /\ Past(d) = Past(c) + 1
<1> DEFINE all  == Len(Belongs[c.item])
           left == Len(c.todo)
<1>1. /\ Tail(c.todo) \in Seq(Categories) /\ Len(Tail(c.todo)) = left - 1
      /\ left \in Nat /\ left # 0
      /\ \A a \in 1..Len(Tail(c.todo)) : Tail(c.todo)[a] = c.todo[a + 1]
  BY HeadTailProperties, EmptySeq, LenProperties DEF Ending
<1>2. all \in Nat /\ left <= all
  BY BelongsAssumption, LenProperties DEF Ending
<1>3. Past(c) = all - left /\ Past(d) = all - (left - 1)
  BY <1>1 DEF Past
<1> HIDE DEF all, left
<1>4. Past(c) \in Nat /\ Past(d) = Past(c) + 1 /\ left - 1 <= all
  BY <1>1, <1>2, <1>3
<1>5. \A a \in 1..(left - 1) : Tail(c.todo)[a] = Belongs[c.item][Past(d) + a]
  <2> SUFFICES ASSUME NEW a \in 1..(left - 1)
               PROVE  Tail(c.todo)[a] = Belongs[c.item][Past(d) + a]
    OBVIOUS
  <2>1. a + 1 \in 1..left /\ Past(c) + (a + 1) = Past(d) + a
    BY <1>1, <1>4
  <2>2. c.todo[a + 1] = Belongs[c.item][Past(c) + (a + 1)]
    BY <2>1 DEF Ending, left
  <2> QED
    BY <1>1, <2>1, <2>2
<1>6. Len(d.todo) = left - 1 /\ d.todo \in Seq(Categories) /\ d.item \in Items
  BY <1>1 DEF Ending
<1>7. Len(d.todo) <= Len(Belongs[d.item])
  BY <1>4, <1>6 DEF all
<1> QED
  BY <1>4, <1>5, <1>6, <1>7 DEF Ending

(* The loops over categories keep to that. *)
LEMMA EndingsStep ==
  ASSUME TypeOK, Looping, Endings, [Next]_vars
  PROVE  Endings'
<1> SUFFICES ASSUME NEW s \in Threads,
                    call'[s].pc \in {"addClickNews", "addClickInterests"}
             PROVE  Ending(call'[s])
  BY DEF Endings, Ending, Past
<1>1. CASE call'[s] = call[s]
  BY <1>1 DEF Endings
<1>2. CASE call'[s] # call[s]
  <2>1. Idle.pc = "idle"
    BY DEF Idle
  <2>2. ASSUME NEW t \in Threads, NEW r, call' = [call EXCEPT ![t] = r]
        PROVE  r = call'[s] /\ s = t
    BY <1>2, <2>2, Moved
  <2>3. ASSUME NEW t \in Threads, updateAction(t)
        PROVE  FALSE
    <3>1. PICK u \in Users, i \in Items : Deliver(t, AtStep("find", u, i, <<>>))
      BY <2>3 DEF updateAction
    <3>2. call' = [call EXCEPT ![t] = AtStep("find", u, i, <<>>)]
      BY <3>1 DEF Deliver, Goto
    <3>3. AtStep("find", u, i, <<>>).pc = "find"
      BY DEF AtStep
    <3> QED
      BY <2>2, <3>2, <3>3
  <2>4. ASSUME NEW t \in Threads, findUserReaded(t)
        PROVE  FALSE
    <3>1. call[t] \in Actions
      BY <2>4, CallsAre DEF findUserReaded, pcs
    <3>2. [call[t] EXCEPT !.pc = "mark"].pc = "mark"
      BY <3>1 DEF Actions
    <3> QED
      BY <2>1, <2>2, <2>4, <3>2 DEF findUserReaded, Goto, Return
  <2>5. ASSUME NEW t \in Threads, markReaded(t)
        PROVE  FALSE
    <3>1. call[t] \in Actions
      BY <2>5, CallsAre DEF markReaded, pcs
    <3>2. [call[t] EXCEPT !.pc = "fetch"].pc = "fetch"
      BY <3>1 DEF Actions
    <3> QED
      BY <2>2, <2>5, <3>2 DEF markReaded, Goto
  <2>6. ASSUME NEW t \in Threads, fetchItemBelongsTo(t)
        PROVE  Ending(call'[s])
    <3> DEFINE next == AtStep("addClickNews", call[t].user, call[t].item,
                              Belongs[call[t].item])
    <3>1. \/ call' = [call EXCEPT ![t] = Idle]
          \/ call' = [call EXCEPT ![t] = next]
      BY <2>6 DEF fetchItemBelongsTo, Goto, Return
    <3>2. next.todo = Belongs[call[t].item] /\ next.item = call[t].item
      BY DEF AtStep
    <3>3. call[t].item \in Items
      BY <2>6, CallsAre DEF fetchItemBelongsTo, pcs, Actions
    <3> HIDE DEF next
    <3>4. Ending(next)
      <4>1. Belongs[next.item] \in Seq(Categories) /\ Len(Belongs[next.item]) \in Nat
        BY <3>2, <3>3, BelongsAssumption, LenProperties
      <4>2. next.todo = Belongs[next.item] /\ next.item \in Items
        BY <3>2, <3>3
      <4>3. Past(next) = 0
        BY <4>1, <4>2 DEF Past
      <4>4. \A a \in 1..Len(next.todo) : Past(next) + a = a
        BY <4>3
      <4> QED
        BY <4>1, <4>2, <4>4 DEF Ending
    <3> QED
      BY <2>1, <2>2, <3>1, <3>4
  <2>7. ASSUME NEW t \in Threads, addClickNews(t)
        PROVE  Ending(call'[s])
    <3> DEFINE next == [call[t] EXCEPT !.pc = "addClickInterests"]
    <3>1. call[t] \in Actions /\ Ending(call[t])
      BY <2>7, CallsAre DEF addClickNews, pcs, Endings
    <3>2. next.todo = call[t].todo /\ next.item = call[t].item
      BY <3>1 DEF Actions
    <3>3. call' = [call EXCEPT ![t] = next]
      BY <2>7 DEF addClickNews, Goto
    <3> HIDE DEF next
    <3>4. Ending(next)
      BY <3>1, <3>2 DEF Ending, Past
    <3> QED
      BY <2>2, <3>3, <3>4
  <2>8. ASSUME NEW t \in Threads, addClickInterests(t)
        PROVE  Ending(call'[s])
    <3> DEFINE next == [call[t] EXCEPT !.pc = "addClickNews", !.todo = Tail(@)]
    <3>1. call[t] \in Actions /\ Ending(call[t]) /\ call[t].todo # <<>>
      BY <2>8, CallsAre DEF addClickInterests, pcs, Endings, Looping
    <3>2. next.todo = Tail(call[t].todo) /\ next.item = call[t].item
      BY <3>1 DEF Actions
    <3>3. Ending(next)
      BY <3>1, <3>2, EndingTail
    <3>4. \/ call' = [call EXCEPT ![t] = Idle]
          \/ call' = [call EXCEPT ![t] = next]
      BY <2>8 DEF addClickInterests, AfterCategory, Goto, Return
    <3> HIDE DEF next
    <3> QED
      BY <2>1, <2>2, <3>3, <3>4
  <2>9. ASSUME NEW t \in Threads, addClickFails(t)
        PROVE  FALSE
    BY <2>1, <2>2, <2>9 DEF addClickFails, Goto, Return
  <2>10. ASSUME NEW t \in Threads, updateItem(t)
         PROVE  FALSE
    <3>1. PICK i \in Items :
            Deliver(t, [pc |-> "addItem", item |-> i, todo |-> Belongs[i]])
      BY <2>10 DEF updateItem
    <3> DEFINE next == [pc |-> "addItem", item |-> i, todo |-> Belongs[i]]
    <3>2. call' = [call EXCEPT ![t] = next] /\ next.pc = "addItem"
      BY <3>1 DEF Deliver, Goto
    <3> HIDE DEF next
    <3> QED
      BY <2>2, <3>2
  <2>11. ASSUME NEW t \in Threads, addItem(t) \/ countItem(t)
         PROVE  FALSE
    <3>1. call[t] \in Updates
      BY <2>11, CallsAre DEF addItem, countItem
    <3>2. /\ [call[t] EXCEPT !.pc = "count"].pc = "count"
          /\ [call[t] EXCEPT !.pc = "count", !.todo = Tail(@)].pc = "count"
      BY <3>1 DEF Updates
    <3> QED
      BY <2>1, <2>2, <2>11, <3>2 DEF addItem, countItem, AfterCategory, Goto, Return
  <2>12. ASSUME Crash
         PROVE  FALSE
    BY <2>1, <2>12 DEF Crash
  <2>13. ASSUME UNCHANGED vars
         PROVE  FALSE
    BY <1>2, <2>13 DEF vars
  <2> QED
    BY <2>3, <2>4, <2>5, <2>6, <2>7, <2>8, <2>9, <2>10, <2>11, <2>12, <2>13 DEF Next
<1> QED
  BY <1>1, <1>2

(* How thread t goes on: with no click it could not log before, and of those
   not marked only with one it is to look up or to mark. *)
Goes(t, r) ==
  /\ call' = [call EXCEPT ![t] = r] /\ readed \subseteq readed'
  /\ \A k \in Keys, n \in Nat :
       <<k[1], k[2]>> \in readed /\ Loggable(r, k, n, readed') =>
         Loggable(call[t], k, n, readed)
  /\ \A p \in Pairs \ readed' : On(r, p) => r.pc \in {"find", "mark"}

(* Every step of a thread is such a one. *)
LEMMA ThreadGoes ==
  ASSUME Counting, NEW t \in Threads,
         \/ updateAction(t) \/ findUserReaded(t) \/ markReaded(t)
         \/ fetchItemBelongsTo(t) \/ addClickNews(t) \/ addClickInterests(t)
         \/ addClickFails(t) \/ updateItem(t) \/ addItem(t) \/ countItem(t)
  PROVE  \E r : Goes(t, r)
<1> USE DEF Counting
<1>1. \A r, p, n, seen : r.pc \in {"idle", "addItem", "count"} =>
                          ~Loggable(r, p, n, seen) /\ ~On(r, p)
  BY DEF Loggable, On, pcs
<1>2. ASSUME NEW r, call' = [call EXCEPT ![t] = r], readed \subseteq readed',
             r.pc \in {"idle", "addItem", "count"}
      PROVE  Goes(t, r)
  BY <1>1, <1>2 DEF Goes
<1>3. Idle.pc = "idle"
  BY DEF Idle
<1>4. \A p \in Pairs \ readed : On(call[t], p) => call[t].pc \in {"find", "mark"}
  BY DEF Fresh
<1>5. CASE updateAction(t)
  <2>1. PICK u \in Users, i \in Items : Deliver(t, AtStep("find", u, i, <<>>))
    BY <1>5 DEF updateAction
  <2> DEFINE next == AtStep("find", u, i, <<>>)
  <2>2. call' = [call EXCEPT ![t] = next] /\ readed' = readed
    BY <2>1 DEF Deliver, Goto
  <2>3. next.pc = "find"
    BY DEF AtStep
  <2> HIDE DEF next
  <2>4. Goes(t, next)
    BY <2>2, <2>3 DEF Goes, Loggable
  <2> QED
    BY <2>4
<1>6. CASE findUserReaded(t)
  <2> DEFINE next == [call[t] EXCEPT !.pc = "mark"]
  <2>1. call[t] \in Actions
    BY <1>6, CallsAre DEF findUserReaded, pcs
  <2>2. next.pc = "mark" /\ next.user = call[t].user /\ next.item = call[t].item
    BY <2>1 DEF Actions
  <2>3. /\ readed' = readed
        /\ \/ call' = [call EXCEPT ![t] = Idle]
           \/ /\ call' = [call EXCEPT ![t] = next]
              /\ <<call[t].user, call[t].item>> \notin readed
    BY <1>6 DEF findUserReaded, Goto, Return
  <2> HIDE DEF next
  <2>4. CASE call' = [call EXCEPT ![t] = Idle]
    BY <1>2, <1>3, <2>3, <2>4
  <2>5. CASE /\ call' = [call EXCEPT ![t] = next]
             /\ <<call[t].user, call[t].item>> \notin readed
    <3>1. Goes(t, next)
      BY <2>2, <2>3, <2>5 DEF Goes, Loggable, On
    <3> QED
      BY <3>1
  <2> QED
    BY <2>3, <2>4, <2>5
<1>7. CASE markReaded(t)
  <2> DEFINE next == [call[t] EXCEPT !.pc = "fetch"]
  <2>1. call[t] \in Actions /\ call[t].pc = "mark"
    BY <1>7, CallsAre DEF markReaded, pcs
  <2>2. next.pc = "fetch" /\ next.user = call[t].user /\ next.item = call[t].item
    BY <2>1 DEF Actions
  <2>3. /\ readed' = readed \cup {<<call[t].user, call[t].item>>}
        /\ call' = [call EXCEPT ![t] = next]
    BY <1>7 DEF markReaded, Goto
  <2> HIDE DEF next
  <2>4. \A k, n : Loggable(next, k, n, readed') => Loggable(call[t], k, n, readed)
    BY <2>1, <2>2 DEF Loggable, On, pcs
  <2>5. \A p \in Pairs \ readed' : ~On(next, p)
    BY <2>2, <2>3 DEF On, Pairs
  <2>6. Goes(t, next)
    BY <2>3, <2>4, <2>5 DEF Goes
  <2> QED
    BY <2>6
<1>8. CASE fetchItemBelongsTo(t)
  <2> DEFINE next == AtStep("addClickNews", call[t].user, call[t].item,
                            Belongs[call[t].item])
  <2>1. call[t].pc = "fetch" /\ readed' = readed
    BY <1>8 DEF fetchItemBelongsTo
  <2>2. next.pc = "addClickNews" /\ next.user = call[t].user /\ next.item = call[t].item
    BY DEF AtStep
  <2>3. \/ call' = [call EXCEPT ![t] = Idle]
        \/ call' = [call EXCEPT ![t] = next]
    BY <1>8 DEF fetchItemBelongsTo, Goto, Return
  <2> HIDE DEF next
  <2>4. \A p : On(next, p) => On(call[t], p)
    BY <2>1, <2>2 DEF On, pcs
  <2>5. \A k, n : Loggable(next, k, n, readed') => Loggable(call[t], k, n, readed)
    BY <2>1, <2>4 DEF Loggable
  <2>6. \A p \in Pairs \ readed' : ~On(next, p)
    BY <1>4, <2>1, <2>4
  <2>7. CASE call' = [call EXCEPT ![t] = next]
    <3>1. Goes(t, next)
      BY <2>1, <2>5, <2>6, <2>7 DEF Goes
    <3> QED
      BY <3>1
  <2> QED
    BY <1>2, <1>3, <2>1, <2>3, <2>7
<1>9. CASE addClickNews(t)
  <2> DEFINE next == [call[t] EXCEPT !.pc = "addClickInterests"]
  <2>1. /\ call[t] \in Actions /\ call[t].pc = "addClickNews"
        /\ call[t].todo # <<>> /\ call[t].todo \in Seq(Categories) /\ readed' = readed
    BY <1>9, CallsAre DEF addClickNews, pcs, Looping, Actions
  <2>2. /\ next.pc = "addClickInterests" /\ next.user = call[t].user
        /\ next.item = call[t].item /\ next.todo = call[t].todo
    BY <2>1 DEF Actions
  <2>3. call' = [call EXCEPT ![t] = next]
    BY <1>9 DEF addClickNews, Goto
  <2> HIDE DEF next
  <2>4. \A p : On(next, p) => On(call[t], p)
    BY <2>1, <2>2 DEF On, pcs
  <2>5. Past(next) = Past(call[t]) /\ Past(call[t]) \in Int
    <3>1. Ending(call[t])
      BY <2>1 DEF Endings
    <3>2. Len(Belongs[call[t].item]) \in Nat /\ Len(call[t].todo) \in Nat
      BY <3>1, BelongsAssumption, LenProperties DEF Ending
    <3> QED
      BY <2>2, <3>2 DEF Past
  <2>6. \A k : \A n \in Nat : Loggable(next, k, n, readed') => Loggable(call[t], k, n, readed)
    <3> SUFFICES ASSUME NEW k, NEW n \in Nat, Loggable(next, k, n, readed')
                 PROVE  Loggable(call[t], k, n, readed)
      OBVIOUS
    <3>1. On(next, k) /\ Past(next) + 1 < n
      BY <2>2 DEF Loggable
    <3>2. Past(call[t]) < n
      BY <2>5, <3>1
    <3> QED
      BY <2>1, <2>4, <3>1, <3>2 DEF Loggable
  <2>7. \A p \in Pairs \ readed' : ~On(next, p)
    BY <1>4, <2>1, <2>4
  <2>8. Goes(t, next)
    BY <2>1, <2>3, <2>6, <2>7 DEF Goes
  <2> QED
    BY <2>8
<1>10. CASE addClickInterests(t)
  <2> DEFINE next == [call[t] EXCEPT !.pc = "addClickNews", !.todo = Tail(@)]
  <2>1. /\ call[t] \in Actions /\ call[t].pc = "addClickInterests"
        /\ call[t].todo # <<>> /\ Ending(call[t]) /\ readed' = readed
    BY <1>10, CallsAre DEF addClickInterests, pcs, Looping, Endings
  <2>2. /\ next.pc = "addClickNews" /\ next.user = call[t].user
        /\ next.item = call[t].item /\ next.todo = Tail(call[t].todo)
    BY <2>1 DEF Actions
  <2>3. \/ call' = [call EXCEPT ![t] = Idle]
        \/ call' = [call EXCEPT ![t] = next]
    BY <1>10 DEF addClickInterests, AfterCategory, Goto, Return
  <2> HIDE DEF next
  <2>4. \A p : On(next, p) => On(call[t], p)
    BY <2>1, <2>2 DEF On, pcs
  <2>5. \A k, n : Loggable(next, k, n, readed') => Loggable(call[t], k, n, readed)
    <3>1. Past(next) = Past(call[t]) + 1
      BY <2>1, <2>2, EndingTail
    <3> QED
      BY <2>1, <2>2, <2>4, <3>1 DEF Loggable
  <2>6. \A p \in Pairs \ readed' : ~On(next, p)
    BY <1>4, <2>1, <2>4
  <2>7. CASE call' = [call EXCEPT ![t] = next]
    <3>1. Goes(t, next)
      BY <2>1, <2>5, <2>6, <2>7 DEF Goes
    <3> QED
      BY <3>1
  <2> QED
    BY <1>2, <1>3, <2>1, <2>3, <2>7
<1>11. CASE addClickFails(t)
  <2>1. call' = [call EXCEPT ![t] = Idle] /\ readed' = readed
    BY <1>11 DEF addClickFails, Goto, Return
  <2> QED
    BY <1>2, <1>3, <2>1
<1>12. CASE updateItem(t)
  <2>1. PICK i \in Items :
          Deliver(t, [pc |-> "addItem", item |-> i, todo |-> Belongs[i]])
    BY <1>12 DEF updateItem
  <2> DEFINE next == [pc |-> "addItem", item |-> i, todo |-> Belongs[i]]
  <2>2. call' = [call EXCEPT ![t] = next] /\ readed' = readed /\ next.pc = "addItem"
    BY <2>1 DEF Deliver, Goto
  <2> HIDE DEF next
  <2> QED
    BY <1>2, <2>2
<1>13. CASE addItem(t) \/ countItem(t)
  <2> DEFINE first == [call[t] EXCEPT !.pc = "count"]
             next  == [call[t] EXCEPT !.pc = "count", !.todo = Tail(@)]
  <2>1. call[t] \in Updates
    BY <1>13, CallsAre DEF addItem, countItem
  <2>2. first.pc = "count" /\ next.pc = "count"
    BY <2>1 DEF Updates
  <2>3. PICK r \in {Idle, first, next} : call' = [call EXCEPT ![t] = r] /\ readed' = readed
    BY <1>13 DEF addItem, countItem, AfterCategory, Goto, Return
  <2> HIDE DEF first, next
  <2> QED
    BY <1>2, <1>3, <2>2, <2>3
<1> QED
  BY <1>5, <1>6, <1>7, <1>8, <1>9, <1>10, <1>11, <1>12, <1>13

(* A click is logged by a thread that could log it and now cannot, and it is
   marked. *)
LEMMA NewsLogged ==
  ASSUME Counting, NEW t \in Threads, NEW r, Goes(t, r), NEW k \in Keys,
         \/ updateAction(t) \/ findUserReaded(t) \/ markReaded(t)
         \/ fetchItemBelongsTo(t) \/ addClickNews(t) \/ addClickInterests(t)
         \/ addClickFails(t) \/ updateItem(t) \/ addItem(t) \/ countItem(t)
  PROVE  \/ news'[k] = news[k]
         \/ /\ news'[k] = news[k] + 1 /\ <<k[1], k[2]>> \in readed
            /\ \E n \in Places(k[2], k[3]) :
                 Loggable(call[t], k, n, readed) /\ ~Loggable(r, k, n, readed')
<1> USE DEF Counting
<1>1. CASE addClickNews(t)
  <2> DEFINE next == [call[t] EXCEPT !.pc = "addClickInterests"]
  <2>1. /\ call[t] \in Actions /\ call[t].pc = "addClickNews"
        /\ call[t].todo # <<>> /\ call[t].todo \in Seq(Categories) /\ Ending(call[t])
    BY <1>1, CallsAre DEF addClickNews, pcs, Looping, Endings, Actions
  <2>2. /\ next.pc = "addClickInterests" /\ next.todo = call[t].todo
        /\ next.item = call[t].item
    BY <2>1 DEF Actions
  <2>3. r = next
    <3>1. call' = [call EXCEPT ![t] = next] /\ call' = [call EXCEPT ![t] = r]
      BY <1>1 DEF addClickNews, Goto, Goes
    <3> HIDE DEF next
    <3> QED
      BY <3>1 DEF TypeOK
  <2> HIDE DEF next
  <2>4. news'[k] = IF k = Key(t) THEN news[k] + 1 ELSE news[k]
    <3>1. news \in [Keys -> Nat]
      BY DEF TypeOK
    <3> QED
      BY <1>1, <3>1, Counted, Zenon DEF addClickNews
  <2>5. CASE k # Key(t)
    BY <2>4, <2>5
  <2>6. CASE k = Key(t)
    <3>1. k[1] = call[t].user /\ k[2] = call[t].item /\ k[3] = Head(call[t].todo)
      BY <2>6 DEF Key
    <3>2. On(call[t], k) /\ <<k[1], k[2]>> \in Pairs
      BY <2>1, <3>1 DEF On, pcs, Keys, Pairs
    <3>3. <<k[1], k[2]>> \in readed
      <4>1. On(call[t], <<k[1], k[2]>>)
        BY <3>2 DEF On
      <4> QED
        BY <2>1, <3>2, <4>1 DEF Fresh
    <3>4. /\ Past(call[t]) \in Nat /\ Past(r) = Past(call[t])
          /\ Past(call[t]) + 1 \in Places(k[2], k[3])
      <4>1. Len(call[t].todo) \in Nat /\ Len(call[t].todo) # 0 /\ Head(call[t].todo) = call[t].todo[1]
        BY <2>1, HeadTailProperties, EmptySeq, LenProperties
      <4>2. call[t].todo[1] = Belongs[call[t].item][Past(call[t]) + 1]
        BY <2>1, <4>1 DEF Ending
      <4>3. /\ Len(Belongs[call[t].item]) \in Nat /\ Len(call[t].todo) <= Len(Belongs[call[t].item])
            /\ DOMAIN Belongs[call[t].item] = 1..Len(Belongs[call[t].item])
        BY <2>1, BelongsAssumption, LenProperties DEF Ending
      <4>4. Past(call[t]) \in Nat /\ Past(call[t]) + 1 \in 1..Len(Belongs[call[t].item])
        <5>1. \A x, y \in Nat : x # 0 /\ x <= y => y - x \in Nat /\ y - x + 1 \in 1..y
          OBVIOUS
        <5> QED
          BY <4>1, <4>3, <5>1 DEF Past
      <4>5. Past(r) = Past(call[t])
        BY <2>2, <2>3 DEF Past
      <4> QED
        BY <3>1, <4>1, <4>2, <4>3, <4>4, <4>5 DEF Places
    <3> DEFINE n == Past(call[t]) + 1
    <3>5. Loggable(call[t], k, n, readed)
      BY <2>1, <3>2, <3>4 DEF Loggable
    <3>6. ~Loggable(r, k, n, readed')
      <4>1. ~(Past(r) + 1 < n)
        BY <3>4
      <4> QED
        BY <2>2, <2>3, <4>1 DEF Loggable
    <3> QED
      BY <2>4, <2>6, <3>3, <3>4, <3>5, <3>6
  <2> QED
    BY <2>5, <2>6
<1>2. CASE ~addClickNews(t)
  BY <1>2 DEF updateAction, Deliver, findUserReaded, markReaded, fetchItemBelongsTo,
              addClickInterests, addClickFails, updateItem, addItem, countItem, counts
<1> QED
  BY <1>1, <1>2

(* A step of a thread keeps the budget of every key. *)
LEMMA CountingStep ==
  ASSUME Counting, NEW t \in Threads, NEW r, Goes(t, r), news' \in [Keys -> Nat],
         \A k \in Keys :
           \/ news'[k] = news[k]
           \/ /\ news'[k] = news[k] + 1 /\ <<k[1], k[2]>> \in readed
              /\ \E n \in Places(k[2], k[3]) :
                   Loggable(call[t], k, n, readed) /\ ~Loggable(r, k, n, readed')
  PROVE  Fresh' /\ Budget'
<1> USE DEF Counting
<1>1. call'[t] = r /\ \A s \in Threads \ {t} : call'[s] = call[s]
  BY Moved DEF Goes
<1>2. ASSUME NEW k \in Keys, <<k[1], k[2]>> \notin readed
      PROVE  news'[k] = 0
  <2>1. k = <<k[1], k[2], k[3]>> /\ k[3] \in Categories /\ <<k[1], k[2]>> \in Pairs
    BY DEF Keys, Pairs
  <2>2. news[k] = 0
    BY <1>2, <2>1 DEF Fresh
  <2> QED
    BY <1>2, <2>2
<1>3. Fresh'
  <2> SUFFICES ASSUME NEW p \in Pairs \ readed'
               PROVE  /\ \A c \in Categories : news'[<<p[1], p[2], c>>] = 0
                      /\ \A s \in Threads : On(call'[s], p) => call'[s].pc \in {"find", "mark"}
    BY DEF Fresh, On
  <2>1. p \in Pairs \ readed /\ p = <<p[1], p[2]>>
    BY DEF Goes, Pairs
  <2>2. ASSUME NEW c \in Categories
        PROVE  news'[<<p[1], p[2], c>>] = 0
    <3>1. <<p[1], p[2], c>> \in Keys
      BY <2>1 DEF Keys, Pairs
    <3> QED
      BY <1>2, <2>1, <3>1
  <2>3. ASSUME NEW s \in Threads, On(call'[s], p)
        PROVE  call'[s].pc \in {"find", "mark"}
    <3>1. CASE s = t
      BY <1>1, <2>3, <3>1 DEF Goes
    <3>2. CASE s # t
      BY <1>1, <2>1, <2>3, <3>2 DEF Fresh
    <3> QED
      BY <3>1, <3>2
  <2> QED
    BY <2>2, <2>3
<1>4. ASSUME NEW k \in Keys
      PROVE  news'[k] + Cardinality(May(k)') <= Cardinality(Spots(k))
  <2>1. /\ May(k) \subseteq Spots(k) /\ May(k)' \subseteq Spots(k)
        /\ \A s \in Spots(k) : s \in May(k) <=> Loggable(call[s[1]], k, s[2], readed)
        /\ \A s \in Spots(k) : s \in May(k)' <=> Loggable(call'[s[1]], k, s[2], readed')
    BY DEF May, Spots, Loggable, On, Past
  <2>2. /\ news[k] \in Nat /\ Cardinality(Spots(k)) \in Nat
        /\ IsFiniteSet(May(k)) /\ IsFiniteSet(May(k)')
        /\ Cardinality(May(k)) \in Nat /\ Cardinality(May(k)') \in Nat
        /\ Cardinality(May(k)') <= Cardinality(Spots(k))
    BY <2>1, SpotsFinite DEF TypeOK
  <2>3. \A s \in Spots(k) : s[1] \in Threads /\ s[2] \in Nat
    BY SpotsFinite DEF Spots
  <2>4. \A n \in Places(k[2], k[3]) : <<t, n>> \in Spots(k)
    BY DEF Spots
  <2> HIDE DEF May, Spots
  <2>5. CASE <<k[1], k[2]>> \notin readed
    <3>1. news'[k] = 0
      BY <1>2, <2>5
    <3> QED
      BY <2>2, <3>1
  <2>6. CASE <<k[1], k[2]>> \in readed
    <3>1. \A s \in Spots(k) : Loggable(call'[s[1]], k, s[2], readed') =>
                              Loggable(call[s[1]], k, s[2], readed)
      <4>1. \A c, n : Loggable(c, k, n, readed') => Loggable(c, k, n, readed)
        BY <2>6 DEF Loggable, Goes
      <4>2. \A n \in Nat : Loggable(r, k, n, readed') => Loggable(call[t], k, n, readed)
        BY <2>6 DEF Goes
      <4> QED
        BY <1>1, <2>3, <4>1, <4>2
    <3>2. May(k)' \subseteq May(k)
      BY <2>1, <3>1
    <3>3. Cardinality(May(k)') <= Cardinality(May(k))
      BY <2>2, <3>2, FS_Subset
    <3>4. news[k] + Cardinality(May(k)) <= Cardinality(Spots(k))
      BY DEF Budget
    <3>5. CASE news'[k] = news[k]
      BY <2>2, <3>3, <3>4, <3>5
    <3>6. ASSUME news'[k] = news[k] + 1, NEW n \in Places(k[2], k[3]),
                 Loggable(call[t], k, n, readed), ~Loggable(r, k, n, readed')
          PROVE  news'[k] + Cardinality(May(k)') <= Cardinality(Spots(k))
      <4>1. <<t, n>> \in May(k) /\ <<t, n>> \notin May(k)'
        BY <1>1, <2>1, <2>4, <3>6
      <4>2. Cardinality(May(k) \ {<<t, n>>}) = Cardinality(May(k)) - 1
        BY <2>2, <4>1, FS_RemoveElement
      <4>3. Cardinality(May(k)') <= Cardinality(May(k) \ {<<t, n>>})
        <5>1. May(k)' \subseteq May(k) \ {<<t, n>>} /\ IsFiniteSet(May(k) \ {<<t, n>>})
          BY <2>2, <3>2, <4>1, FS_RemoveElement
        <5> QED
          BY <5>1, FS_Subset
      <4> QED
        BY <2>2, <3>4, <3>6, <4>2, <4>3
    <3> QED
      BY <3>5, <3>6
  <2> QED
    BY <2>5, <2>6
<1> QED
  BY <1>3, <1>4 DEF Budget

(* However often a click is delivered, and whatever crashes: no thread logs it
   more than once for each place at which its item names the category.  The check
   of the mark and the mark are two steps, and the mark stays. *)
THEOREM CountsBounded == Spec => []CountedAtMostThreads
<1>1. Init => Counting
  <2> SUFFICES ASSUME Init
               PROVE  Counting
    OBVIOUS
  <2>1. TypeOK /\ Looping
    BY Start DEF IInv
  <2>2. /\ Endings
        /\ \A p, n, c : \A t \in Threads : ~On(call[t], p) /\ ~Loggable(call[t], p, n, c)
    BY DEF Init, Idle, Endings, On, Loggable, pcs
  <2>3. Fresh
    BY <2>2 DEF Init, Fresh, Keys, Pairs, counts
  <2>4. Budget
    <3>1. \A k : May(k) = {}
      BY <2>2 DEF May, Spots
    <3>2. ASSUME NEW k \in Keys
          PROVE  news[k] + Cardinality(May(k)) <= Cardinality(Spots(k))
      <4>1. news[k] = 0
        BY DEF Init
      <4>2. Cardinality(May(k)) = 0 /\ Cardinality(Spots(k)) \in Nat
        BY <3>1, FS_EmptySet, SpotsFinite
      <4> QED
        BY <4>1, <4>2
    <3> QED
      BY <3>2 DEF Budget
  <2> QED
    BY <2>1, <2>2, <2>3, <2>4 DEF Counting
<1>2. Counting /\ [Next]_vars => Counting'
  <2> SUFFICES ASSUME Counting, [Next]_vars
               PROVE  Counting'
    OBVIOUS
  <2>1. TypeOK' /\ Looping' /\ Endings'
    BY TypeStep, LoopingStep, EndingsStep DEF Counting
  <2>2. ASSUME NEW t \in Threads,
               \/ updateAction(t) \/ findUserReaded(t) \/ markReaded(t)
               \/ fetchItemBelongsTo(t) \/ addClickNews(t) \/ addClickInterests(t)
               \/ addClickFails(t) \/ updateItem(t) \/ addItem(t) \/ countItem(t)
        PROVE  Fresh' /\ Budget'
    <3>1. PICK r : Goes(t, r)
      BY <2>2, ThreadGoes
    <3>2. \A k \in Keys :
            \/ news'[k] = news[k]
            \/ /\ news'[k] = news[k] + 1 /\ <<k[1], k[2]>> \in readed
               /\ \E n \in Places(k[2], k[3]) :
                    Loggable(call[t], k, n, readed) /\ ~Loggable(r, k, n, readed')
      BY <2>2, <3>1, NewsLogged
    <3>3. news' \in [Keys -> Nat]
      BY <2>1 DEF TypeOK
    <3> QED
      BY <3>1, <3>2, <3>3, CountingStep
  <2>3. ASSUME Crash
        PROVE  Fresh' /\ Budget'
    <3>1. /\ \A t \in Threads : call'[t] = Idle
          /\ UNCHANGED <<readed, news>>
      BY <2>3 DEF Crash, counts
    <3>2. \A p, n, c : ~On(Idle, p) /\ ~Loggable(Idle, p, n, c)
      BY DEF Idle, On, Loggable, pcs
    <3>3. \A k : May(k)' = {}
      BY <3>1, <3>2 DEF May, Spots, Loggable, On, Past
    <3>4. Fresh'
      BY <3>1, <3>2 DEF Counting, Fresh, On
    <3>5. ASSUME NEW k \in Keys
          PROVE  news[k] + Cardinality(May(k)') <= Cardinality(Spots(k))
      <4>1. Cardinality(May(k)') = 0
        BY <3>3, FS_EmptySet
      <4>2. /\ news[k] \in Nat /\ Cardinality(Spots(k)) \in Nat
            /\ Cardinality(May(k)) \in Nat
        <5>1. May(k) \subseteq Spots(k)
          BY DEF May
        <5> QED
          BY <5>1, SpotsFinite DEF Counting, TypeOK
      <4>3. news[k] + Cardinality(May(k)) <= Cardinality(Spots(k))
        BY DEF Counting, Budget
      <4> QED
        BY <4>1, <4>2, <4>3
    <3> QED
      BY <3>1, <3>4, <3>5 DEF Budget
  <2>4. ASSUME UNCHANGED vars
        PROVE  Fresh' /\ Budget'
    BY <2>4, ZenonT(30) DEF vars, counts, Counting, Fresh, Budget, May, Spots, Loggable, On, Past
  <2> QED
    BY <2>1, <2>2, <2>3, <2>4 DEF Next, Counting
<1>3. Counting => CountedAtMostThreads
  <2> SUFFICES ASSUME Counting, NEW k \in Keys
               PROVE  news[k] <= Cardinality(Spots(k))
    BY DEF CountedAtMostThreads, Spots
  <2>1. news[k] \in Nat /\ Cardinality(Spots(k)) \in Nat /\ Cardinality(May(k)) \in Nat
    <3>1. May(k) \subseteq Spots(k)
      BY DEF May
    <3> QED
      BY <3>1, SpotsFinite DEF Counting, TypeOK
  <2>2. news[k] + Cardinality(May(k)) <= Cardinality(Spots(k))
    BY DEF Counting, Budget
  <2> QED
    BY <2>1, <2>2
<1> QED
  BY <1>1, <1>2, <1>3, PTL DEF Spec
=============================================================================
