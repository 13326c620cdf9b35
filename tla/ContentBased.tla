---------------------------- MODULE ContentBased ----------------------------
(***************************************************************************)
(* core/content_based.cpp: updateAction and updateItem, run by the Kafka   *)
(* thread and by the network threads at the same time, each on the user    *)
(* table (who has read what), the item table (an item's categories) and    *)
(* the logs of NewsTrends and UserInterests.  Every call into one of them  *)
(* is a step; each is serialised by that part's own lock.                  *)
(*                                                                         *)
(* Kafka's offset is stored every 100 ms and callers retry, so any action  *)
(* and any item may be delivered again, to any thread.  The tables and the *)
(* logs survive a crash, a call in progress does not.                      *)
(***************************************************************************)
EXTENDS Integers, FiniteSets, Sequences

CONSTANTS Threads,
          Users,
          Items,
          Categories,
          Belongs,        \* item -> its categories, in order
          MaxDeliveries,  \* bound on the calls
          MaxFaults,      \* bound on failing log writes
          MaxCrashes

ASSUME BelongsAssumption == Belongs \in [Items -> Seq(Categories)]
ASSUME ThreadsAssumption == IsFiniteSet(Threads)

VARIABLES
  readed,     \* user_db_: the pairs <<user, item>> marked as read
  items,      \* item_db_: the items it knows
  news,       \* clicks logged by news_trends_, per user, item and category
  interests,  \* clicks logged and counted by user_interests_
  documents,  \* items counted by user_interests_, per item and category
  call,       \* what each thread does
  deliveries, faults, crashes,
  broken      \* history: pairs whose call failed or died half way

Pairs == Users \X Items
Keys == Users \X Items \X Categories
counts == <<news, interests, documents>>
bounds == <<deliveries, faults, crashes>>
vars == <<readed, items, counts, call, bounds, broken>>

Idle == [pc |-> "idle"]
AtStep(pc, u, i, todo) == [pc |-> pc, user |-> u, item |-> i, todo |-> todo]
pcs == {"find", "mark", "fetch", "addClickNews", "addClickInterests", "addItem", "count"}

Init == /\ readed = {} /\ items = {}
        /\ news = [k \in Keys |-> 0] /\ interests = [k \in Keys |-> 0]
        /\ documents = [k \in Items \X Categories |-> 0]
        /\ call = [t \in Threads |-> Idle]
        /\ deliveries = 0 /\ faults = 0 /\ crashes = 0
        /\ broken = {}

Goto(t, c) == call' = [call EXCEPT ![t] = c]

(* the call returns *)
Return(t) == Goto(t, Idle)

Deliver(t, c) == /\ call[t] = Idle
                 /\ deliveries < MaxDeliveries
                 /\ deliveries' = deliveries + 1
                 /\ Goto(t, c)
                 /\ UNCHANGED <<readed, items, counts, faults, crashes, broken>>

-----------------------------------------------------------------------------
(* updateAction(action).  An action that is not a click, like, comment,
   favorite or share returns at once (line 487): no state is touched. *)
updateAction(t) == \E u \in Users, i \in Items : Deliver(t, AtStep("find", u, i, <<>>))

(* mutant: the lookup never finds *)
findUserReadedNever(t) ==
  /\ call[t].pc = "find"
  /\ Goto(t, [call[t] EXCEPT !.pc = "mark"])
  /\ UNCHANGED <<readed, items, counts, bounds, broken>>

findUserReaded(t) ==
  /\ call[t].pc = "find"
  /\ LET p == <<call[t].user, call[t].item>>
     IN IF p \in readed
          THEN Return(t)
          ELSE Goto(t, [call[t] EXCEPT !.pc = "mark"])
  /\ UNCHANGED <<readed, items, counts, bounds, broken>>

(* user_db_->updateAction: from here on the click is a duplicate *)
markReaded(t) ==
  /\ call[t].pc = "mark"
  /\ readed' = readed \cup {<<call[t].user, call[t].item>>}
  /\ Goto(t, [call[t] EXCEPT !.pc = "fetch"])
  /\ UNCHANGED <<items, counts, bounds, broken>>

fetchItemBelongsTo(t) ==
  /\ call[t].pc = "fetch"
  /\ IF call[t].item \in items
       THEN /\ IF Belongs[call[t].item] = <<>>
                 THEN Return(t)
                 ELSE Goto(t, AtStep("addClickNews", call[t].user, call[t].item,
                                     Belongs[call[t].item]))
            /\ UNCHANGED broken
       ELSE /\ Return(t)
            /\ broken' = broken \cup {<<call[t].user, call[t].item>>}
  /\ UNCHANGED <<readed, items, counts, bounds>>

Key(t) == <<call[t].user, call[t].item, Head(call[t].todo)>>
AfterCategory(t, next) ==
  IF Tail(call[t].todo) = <<>> THEN Return(t)
  ELSE Goto(t, [call[t] EXCEPT !.pc = next, !.todo = Tail(@)])

(* mutant: a click of the first category only reaches the news log *)
addClickNewsOnly(t) ==
  /\ call[t].pc = "addClickNews"
  /\ news' = [news EXCEPT ![Key(t)] = @ + 1]
  /\ AfterCategory(t, "addClickInterests")
  /\ UNCHANGED <<readed, items, interests, documents, bounds, broken>>

addClickNews(t) ==
  /\ call[t].pc = "addClickNews"
  /\ news' = [news EXCEPT ![Key(t)] = @ + 1]
  /\ Goto(t, [call[t] EXCEPT !.pc = "addClickInterests"])
  /\ UNCHANGED <<readed, items, interests, documents, bounds, broken>>

(* mutant: the loop ends after its first category *)
addClickInterestsOnce(t) ==
  /\ call[t].pc = "addClickInterests"
  /\ interests' = [interests EXCEPT ![Key(t)] = @ + 1]
  /\ Return(t)
  /\ UNCHANGED <<readed, items, news, documents, bounds, broken>>

addClickInterests(t) ==
  /\ call[t].pc = "addClickInterests"
  /\ interests' = [interests EXCEPT ![Key(t)] = @ + 1]
  /\ AfterCategory(t, "addClickNews")
  /\ UNCHANGED <<readed, items, news, documents, bounds, broken>>

(* a log write fails: the loop is left at that category *)
addClickFails(t) ==
  /\ call[t].pc \in {"addClickNews", "addClickInterests"}
  /\ faults < MaxFaults
  /\ faults' = faults + 1
  /\ broken' = broken \cup {<<call[t].user, call[t].item>>}
  /\ Return(t)
  /\ UNCHANGED <<readed, items, counts, deliveries, crashes>>

-----------------------------------------------------------------------------
(* updateItem(item) *)
updateItem(t) ==
  \E i \in Items : Deliver(t, [pc |-> "addItem", item |-> i, todo |-> Belongs[i]])

addItem(t) ==
  /\ call[t].pc = "addItem"
  /\ items' = items \cup {call[t].item}
  /\ IF call[t].todo = <<>> THEN Return(t)
     ELSE Goto(t, [call[t] EXCEPT !.pc = "count"])
  /\ UNCHANGED <<readed, counts, bounds, broken>>

(* mutant: the item is taken off the counts *)
countItemOff(t) ==
  /\ call[t].pc = "count"
  /\ documents' = [documents EXCEPT ![<<call[t].item, Head(call[t].todo)>>] = @ - 1]
  /\ AfterCategory(t, "count")
  /\ UNCHANGED <<readed, items, news, interests, bounds, broken>>

countItem(t) ==
  /\ call[t].pc = "count"
  /\ documents' = [documents EXCEPT ![<<call[t].item, Head(call[t].todo)>>] = @ + 1]
  /\ AfterCategory(t, "count")
  /\ UNCHANGED <<readed, items, news, interests, bounds, broken>>

-----------------------------------------------------------------------------
Handling(u, i) == {t \in Threads : /\ call[t].pc \in pcs \ {"addItem", "count"}
                                   /\ call[t].user = u /\ call[t].item = i}

Crash ==
  /\ crashes < MaxCrashes
  /\ crashes' = crashes + 1
  /\ call' = [t \in Threads |-> Idle]
  /\ broken' = broken \cup {p \in Pairs : Handling(p[1], p[2]) # {}}
  /\ UNCHANGED <<readed, items, counts, deliveries, faults>>

Next == \/ \E t \in Threads :
             \/ updateAction(t) \/ findUserReaded(t) \/ markReaded(t)
             \/ fetchItemBelongsTo(t) \/ addClickNews(t) \/ addClickInterests(t)
             \/ addClickFails(t) \/ updateItem(t) \/ addItem(t) \/ countItem(t)
        \/ Crash

Spec == Init /\ [][Next]_vars

-----------------------------------------------------------------------------
Actions == [pc : pcs \ {"addItem", "count"}, user : Users, item : Items,
            todo : Seq(Categories)]
Updates == [pc : {"addItem", "count"}, item : Items, todo : Seq(Categories)]

TypeOK == /\ readed \subseteq Pairs /\ items \subseteq Items
          /\ news \in [Keys -> Nat] /\ interests \in [Keys -> Nat]
          /\ documents \in [Items \X Categories -> Nat]
          /\ call \in [Threads -> {Idle} \cup Actions \cup Updates]
          /\ broken \subseteq Pairs

(* The places at which an item names a category: nothing keeps a message of the
   topic from naming one twice, and each place is logged (lines 513-534). *)
Places(i, c) == {n \in DOMAIN Belongs[i] : Belongs[i][n] = c}

(* The check of line 493 and the mark of line 499 are not atomic, but the
   mark stays (until the user table expires it, long after): however often a
   click is delivered, across whatever restarts, no thread logs it more than
   once for each place at which the item names the category. *)
CountedAtMostThreads ==
  \A k \in Keys : news[k] <= Cardinality(Threads \X Places(k[2], k[3]))

(* NewsTrends and UserInterests are given the same clicks: the second never
   leads, and once nobody handles a click that no call lost they agree. *)
LogsAgree ==
  \A k \in Keys :
    /\ interests[k] <= news[k]
    /\ Handling(k[1], k[2]) = {} /\ <<k[1], k[2]>> \notin broken =>
         interests[k] = news[k]

(* A click that was marked as read and whose calls all came to their end is
   counted in every category of its item. *)
SettledClickCounted ==
  \A p \in readed \ broken : Handling(p[1], p[2]) = {} =>
    \A n \in DOMAIN Belongs[p[2]] :
      interests[<<p[1], p[2], Belongs[p[2]][n]>>] >= 1

=============================================================================
