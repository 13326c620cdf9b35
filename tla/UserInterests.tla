--------------------------- MODULE UserInterests ---------------------------
(***************************************************************************)
(* core/user_interests.cpp over core/dist_table.cpp: the current interests *)
(* of the users, counts per category and per user and category that clicks *)
(* raise at once and that a restart rebuilds from the rolled logs.         *)
(*                                                                         *)
(* The log is taken as PeriodicLog implements it when no system call fails *)
(* and the process dies between its operations, each of them one step      *)
(* here: .writing with its counter, the numbered logs, last_counter_.      *)
(* A network thread counts a click in two steps, each under mutex_, and    *)
(* then logs it; rollover and eliminate are the persistent thread's calls. *)
(* A map is a function on the keys it holds.                               *)
(***************************************************************************)
EXTENDS Integers, Sequences, FiniteSets

CONSTANTS Users, Categories,
          Threads,      \* of the module, that update and query
          Window,       \* user_interests_time_window: hours, and logs to read
          MaxNow,       \* bound on the clock, in hours
          MaxEvents,    \* bound on the clicks and items
          MaxCounter,   \* bound on the rollovers of one process
          MaxRestarts

ASSUME UserInterestsAssumption ==
  /\ Window \in Nat \ {0}
  /\ IsFiniteSet(Users) /\ IsFiniteSet(Threads)
  /\ MaxNow \in Nat /\ MaxEvents \in Nat /\ MaxCounter \in Nat /\ MaxRestarts \in Nat

VARIABLES
  prior,            \* user_interests_prior_prob_type
  now,              \* time(NULL)
  currentDay,       \* current_day_
  currentDist,      \* *current_dist_
  currentUserDist,  \* *current_user_dist_
  header,           \* the counter at the head of .writing
  writing,          \* the records of .writing
  logs,             \* n -> the records of log n
  lastCounter,      \* last_counter_
  call,             \* what each thread is adding and has yet to do for it
  issued,           \* every click and item that is logged, in order
  restarts

interests == <<currentDay, currentDist, currentUserDist>>
log == <<header, writing, logs, lastCounter>>
vars == <<prior, now, interests, log, call, issued, restarts>>

Click == [kind : {"click"}, user : Users, category : Categories, time : 0..MaxNow]
Item == [kind : {"item"}, category : Categories, time : 0..MaxNow]

Idle == [step |-> "idle"]

-----------------------------------------------------------------------------
(* The counts. *)
Count(dist, c) == IF c \in DOMAIN dist THEN dist[c] ELSE 0
NoDist == [c \in {} |-> 0]
Of(userDist, u) == IF u \in DOMAIN userDist THEN userDist[u] ELSE NoDist

trainCategory(dist, category, count) ==
  [c \in DOMAIN dist \cup {category} |-> Count(dist, c) + IF c = category THEN count ELSE 0]

AtLeastZero(n) == IF n < 0 THEN 0 ELSE n
trainUserCategory(userDist, user, category, count) ==
  [u \in DOMAIN userDist \cup {user} |->
     IF u # user THEN userDist[u]
     ELSE [c \in DOMAIN Of(userDist, u) \cup {category} |->
             IF c # category THEN Of(userDist, u)[c]
             ELSE AtLeastZero(Count(Of(userDist, u), c) + count)]]

(* A pass over logged events calls the two above for each that the guard of
   trainClick, trainItem, eliminateClick or eliminateItem lets through (hits),
   with the same count every time: the sums do not depend on the order, and
   stopping at zero each time is stopping at zero once. *)
In(events, hits, c) == {p \in hits : events[p].category = c}
By(events, hits, u) == {p \in hits : events[p].user = u}
CategoriesOf(events, hits) == {events[p].category : p \in hits}
Added(events, hits, c, count) == count * Cardinality(In(events, hits, c))

countCategories(dist, events, hits, count) ==
  [c \in DOMAIN dist \cup CategoriesOf(events, hits) |->
     Count(dist, c) + Added(events, hits, c, count)]

countClicksAndPriors(d, events, clicks, priors, count) ==
  LET raised(u) == countCategories(Of(d.user, u), events, By(events, clicks, u), count)
  IN  [dist |-> countCategories(d.dist, events, priors, count),
       user |-> [u \in DOMAIN d.user \cup {events[p].user : p \in clicks} |->
                   [c \in DOMAIN raised(u) |-> AtLeastZero(raised(u)[c])]]]

CountEvents(d, events, hits, count) ==
  LET clicks == {p \in hits : events[p].kind = "click"}
  IN  countClicksAndPriors(d, events, clicks,
                           IF prior = 0 THEN clicks ELSE hits \ clicks, count)

trainEvents(day, d, events) ==
  CountEvents(d, events, {p \in DOMAIN events : events[p].time > day}, 1)
eliminateEvents(day, d, events) ==
  CountEvents(d, events, {p \in DOMAIN events : events[p].time <= day}, 0 - 1)

-----------------------------------------------------------------------------
(* The iterator: at most Window logs, downwards from counter last *)

(* mutant: the iterator does not move *)
IteratorStuck(last) == [j \in 1..Window |-> last]

Iterator(last) == [j \in 1..Window |-> last - (j - 1)]

(* mutant: the window ends an hour sooner here than in the iterator *)
needEliminateEarly(last, counter) == ~(last - counter < Window - 1)

needEliminate(last, counter) == ~(last - counter < Window)

(* The records of the files that exist: <<j, i>> is record i of the j-th log *)
EventsOf(counters, files) ==
  [p \in UNION {{j} \X DOMAIN files[counters[j]] :
                  j \in {k \in DOMAIN counters : counters[k] \in DOMAIN files}} |->
     files[counters[p[1]]][p[2]]]

-----------------------------------------------------------------------------
(* What init() computes: DistTable::init replays .writing, train() clears
   what that counted and reads the rolled logs. *)
Cleared == [dist |-> NoDist, user |-> [u \in {} |-> NoDist]]
recovered(day, events) == trainEvents(day, Cleared, events)
trainBefore(d) == Cleared
train(day, d, last, files) ==
  trainEvents(day, trainBefore(d), EventsOf(Iterator(last - 1), files))

(* mutant: the log goes on with the counter its iterators start from *)
RestartBelow ==
  /\ restarts < MaxRestarts
  /\ restarts' = restarts + 1
  /\ currentDay' = now - Window
  /\ lastCounter' = header - 1
  /\ LET d == train(now - Window, recovered(now - Window, writing), header, logs)
     IN  currentDist' = d.dist /\ currentUserDist' = d.user
  /\ call' = [t \in Threads |-> Idle]
  /\ UNCHANGED <<prior, now, header, writing, logs, issued>>

(* the process dies or is stopped; a new one runs the constructor and init() *)
Restart ==
  /\ restarts < MaxRestarts
  /\ restarts' = restarts + 1
  /\ currentDay' = now - Window
  /\ lastCounter' = header
  /\ LET d == train(now - Window, recovered(now - Window, writing), header, logs)
     IN  currentDist' = d.dist /\ currentUserDist' = d.user
  /\ call' = [t \in Threads |-> Idle]
  /\ UNCHANGED <<prior, now, header, writing, logs, issued>>

Init == /\ prior \in {0, 1}
        /\ now = 0
        /\ currentDay = 0 - Window
        /\ currentDist = Cleared.dist /\ currentUserDist = Cleared.user
        /\ header = 0 /\ writing = <<>> /\ lastCounter = 0
        /\ logs = [n \in {} |-> <<>>]
        /\ call = [t \in Threads |-> Idle]
        /\ issued = <<>> /\ restarts = 0

(* addClick, addItem in a network thread: trainClick or trainItem if the event
   is recent enough, then DistTable's addClick or addItem, which logs it in any
   case.  An event arrives in the hour it happened or later. *)
InFlight == {t \in Threads : call[t] # Idle}
Begin(t, e, step) ==
  /\ call[t] = Idle
  /\ Len(issued) + Cardinality(InFlight) < MaxEvents
  /\ e.time <= now
  /\ call' = [call EXCEPT ![t] = [step |-> step, event |-> e]]
  /\ UNCHANGED <<prior, now, currentDay, log, issued, restarts>>

(* mutant: the user's count is raised and the prior is not *)
clickCategoryNever(t) ==
  \E e \in Click :
    /\ Begin(t, e, IF e.time > currentDay THEN "user" ELSE "log")
    /\ UNCHANGED <<currentDist, currentUserDist>>

clickCategory(t) ==
  \E e \in Click :
    /\ Begin(t, e, IF e.time > currentDay THEN "user" ELSE "log")
    /\ currentDist' = IF e.time > currentDay /\ prior = 0
                        THEN trainCategory(currentDist, e.category, 1) ELSE currentDist
    /\ UNCHANGED currentUserDist

clickUserCategory(t) ==
  /\ call[t].step = "user"
  /\ LET e == call[t].event
     IN  currentUserDist' = trainUserCategory(currentUserDist, e.user, e.category, 1)
  /\ call' = [call EXCEPT ![t].step = "log"]
  /\ UNCHANGED <<prior, now, currentDay, currentDist, log, issued, restarts>>

itemCategory(t) ==
  \E e \in Item :
    /\ Begin(t, e, "log")
    /\ currentDist' = IF e.time > currentDay /\ prior = 1
                        THEN trainCategory(currentDist, e.category, 1) ELSE currentDist
    /\ UNCHANGED currentUserDist

write(t) ==
  /\ call[t].step = "log"
  /\ writing' = Append(writing, call[t].event)
  /\ issued' = Append(issued, call[t].event)
  /\ call' = [call EXCEPT ![t] = Idle]
  /\ UNCHANGED <<prior, now, interests, header, logs, lastCounter, restarts>>

addClick(t) == clickCategory(t) \/ clickUserCategory(t)

rollover == /\ lastCounter < MaxCounter
            /\ logs' = [n \in DOMAIN logs \cup {lastCounter} |->
                          IF n = lastCounter THEN writing ELSE logs[n]]
            /\ writing' = <<>>
            /\ header' = lastCounter
            /\ lastCounter' = lastCounter + 1
            /\ UNCHANGED <<prior, now, interests, call, issued, restarts>>

(* DistTable::eliminate over eliminatePeriodicLog: of the logs the iterator
   goes through, those needEliminate names are subtracted and removed *)
eliminate ==
  /\ currentDay' = now - Window
  /\ LET last == lastCounter - 1
         old  == {j \in 1..Window : needEliminate(last, Iterator(last)[j])}
         d    == eliminateEvents(now - Window,
                   [dist |-> currentDist, user |-> currentUserDist],
                   EventsOf([j \in old |-> Iterator(last)[j]], logs))
     IN  /\ currentDist' = d.dist /\ currentUserDist' = d.user
         /\ logs' = [n \in DOMAIN logs \ {Iterator(last)[j] : j \in old} |-> logs[n]]
  /\ UNCHANGED <<prior, now, header, writing, lastCounter, call, issued, restarts>>

Tick == /\ now < MaxNow
        /\ now' = now + 1
        /\ UNCHANGED <<prior, interests, log, call, issued, restarts>>

Next == \/ \E t \in Threads : addClick(t) \/ itemCategory(t) \/ write(t)
        \/ rollover \/ eliminate \/ Tick \/ Restart

Spec == Init /\ [][Next]_vars

-----------------------------------------------------------------------------
(* queryUserCurrentInterests: of a user with clicks, a weight for each category.
   The weight is (G + pu) / (user_total + G) with pu = clicks * prior_total /
   pt(c), or pu = 1 * G where the prior or the user has no such category; what
   can go wrong is in the quotient of two counts. *)
Default == [clicks |-> 1, prior |-> 1]
Known(u) == u \in DOMAIN currentUserDist
queryUserCurrentInterests(u) ==
  [c \in Categories |->
     IF c \in DOMAIN currentDist /\ c \in DOMAIN currentUserDist[u]
       THEN [clicks |-> currentUserDist[u][c], prior |-> currentDist[c]]
       ELSE Default]

-----------------------------------------------------------------------------
Event == Click \cup Item
TypeOK == /\ prior \in {0, 1}
          /\ now \in 0..MaxNow
          /\ currentDay \in (0 - Window)..MaxNow
          /\ DOMAIN currentDist \subseteq Categories
          /\ \A c \in DOMAIN currentDist : currentDist[c] \in Int
          /\ DOMAIN currentUserDist \subseteq Users
          /\ \A u \in DOMAIN currentUserDist :
               /\ DOMAIN currentUserDist[u] \subseteq Categories
               /\ \A c \in DOMAIN currentUserDist[u] : currentUserDist[u][c] \in Nat
          /\ header \in 0..MaxCounter /\ lastCounter \in 0..MaxCounter
          /\ writing \in Seq(Event)
          /\ DOMAIN logs \subseteq 0..MaxCounter
          /\ \A n \in DOMAIN logs : logs[n] \in Seq(Event)
          /\ call \in [Threads -> {Idle} \cup [step : {"user", "log"}, event : Event]]
          /\ issued \in Seq(Event)
          /\ restarts \in 0..MaxRestarts

ClickOn(e, u, c) == e.kind = "click" /\ e.user = u /\ e.category = c
ClicksOf(events, u, c, after) ==
  Cardinality({i \in DOMAIN events : ClickOn(events[i], u, c) /\ events[i].time > after})

(* The threads that are at one of the steps with a click of u on c *)
Pending(steps, us, c) ==
  Cardinality({t \in InFlight :
                 call[t].step \in steps /\ \E u \in us : ClickOn(call[t].event, u, c)})

(* The sum of n[x] over the domain of n, counted *)
Total(n) == Cardinality(UNION {{x} \X (1..n[x]) : x \in DOMAIN n})

(* pt(c), the prior of a category, is computed from clicks when the option is
   0: it is then the sum of what the users clicked (queryUserCurrentInterests
   divides one by the other, lines 156-160), and of the clicks a thread has
   between the two counts, whatever order clicks, restarts and eliminations
   came in. *)
PriorIsSumOfUsers ==
  prior = 0 => \A c \in Categories :
    Count(currentDist, c) =
      Total([u \in Users |-> Count(Of(currentUserDist, u), c)])
      + Pending({"user"}, Users, c)

(* No restart counts a click twice, from .writing and from a log or from two
   logs: a user's count never exceeds the user's clicks. *)
NeverOvercounted ==
  \A u \in Users, c \in Categories :
    Count(Of(currentUserDist, u), c)
      <= ClicksOf(issued, u, c, 0 - MaxNow - Window) + Pending({"log"}, {u}, c)

(* A query in any of these states divides by a count above 0 (pt_c, line 158):
   the prior is raised before the user's count, and a prior that eliminations
   could bring down to 0 is never met because needEliminate's window is just
   the one the iterator already keeps to (dist_table.cpp:216-223). *)
WeightsFinite ==
  \A u \in Users : Known(u) =>
    \A c \in Categories : queryUserCurrentInterests(u)[c].prior > 0

(* A restart does not lose a click of the last Window hours ("retrain the
   historical data", user_interests.cpp:54; the log exists for that). *)
RestartKeepsCurrent ==
  [][restarts' # restarts =>
       \A u \in Users, c \in Categories :
         Count(Of(currentUserDist', u), c) >= ClicksOf(issued, u, c, currentDay')]_vars
=============================================================================
