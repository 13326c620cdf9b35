------------------------ MODULE UserInterestsProofs ------------------------
(***************************************************************************)
(* Theorems about the current interests, for every number of users,        *)
(* categories, threads, events, rollovers and restarts.                    *)
(***************************************************************************)
EXTENDS UserInterests, FiniteSetTheorems, FunctionTheorems, TLAPS

-----------------------------------------------------------------------------
(* Sums, counted. *)

(* A finite family of finite sets has a finite disjoint union. *)
LEMMA FiniteRows ==
  ASSUME NEW J, IsFiniteSet(J), NEW R, \A j \in J : IsFiniteSet(R[j])
  PROVE  IsFiniteSet(UNION {{j} \X R[j] : j \in J})
<1> DEFINE row == [j \in J |-> {j} \X R[j]]
           rows == {{j} \X R[j] : j \in J}
<1>1. row \in Surjection(J, rows)
  BY DEF Surjection
<1>2. IsFiniteSet(rows)
  BY <1>1, FS_Surjection
<1>3. ASSUME NEW r \in rows PROVE IsFiniteSet(r)
  <2>1. PICK j \in J : r = {j} \X R[j]
    OBVIOUS
  <2> QED
    BY <2>1, FS_Singleton, FS_Product
<1> QED
  BY <1>2, <1>3, FS_UNION

(* What Total(n) counts *)
Cells(n) == UNION {{x} \X (1..n[x]) : x \in DOMAIN n}

(* The cells of a row x are numbered from 1 to n[x]. *)
LEMMA CellsAre ==
  ASSUME NEW U, NEW n \in [U -> Nat], NEW q
  PROVE  q \in Cells(n) <=> \E x \in U : \E k \in 1..n[x] : q = <<x, k>>
BY DEF Cells

(* A sum of finitely many numbers is a number. *)
LEMMA TotalType ==
  ASSUME NEW U, IsFiniteSet(U), NEW n \in [U -> Nat]
  PROVE  IsFiniteSet(Cells(n)) /\ Total(n) = Cardinality(Cells(n)) /\ Total(n) \in Nat
<1> DEFINE R == [x \in U |-> 1..n[x]]
<1>1. \A x \in U : IsFiniteSet(R[x])
  <2> SUFFICES ASSUME NEW x \in U PROVE IsFiniteSet(1..n[x])
    OBVIOUS
  <2>1. 1 \in Int /\ n[x] \in Int
    OBVIOUS
  <2> QED
    BY <2>1, FS_Interval
<1> HIDE DEF R
<1>2. IsFiniteSet(UNION {{x} \X R[x] : x \in U})
  BY <1>1, FiniteRows
<1>3. Cells(n) = UNION {{x} \X R[x] : x \in U}
  BY DEF Cells, R
<1>4. IsFiniteSet(Cells(n))
  BY <1>2, <1>3
<1>5. Total(n) = Cardinality(Cells(n))
  BY DEF Total, Cells
<1> QED
  BY <1>4, <1>5, FS_CardinalityType

(* Equal numbers have equal sums. *)
LEMMA TotalSame ==
  ASSUME NEW U, NEW n \in [U -> Nat], NEW m \in [U -> Nat], \A x \in U : m[x] = n[x]
  PROVE  Total(m) = Total(n)
<1>1. m = n
  OBVIOUS
<1> QED
  BY <1>1

(* One of the numbers raised by one raises the sum by one. *)
LEMMA TotalRaised ==
  ASSUME NEW U, IsFiniteSet(U), NEW n \in [U -> Nat], NEW m \in [U -> Nat],
         NEW y \in U, m[y] = n[y] + 1, \A x \in U \ {y} : m[x] = n[x]
  PROVE  Total(m) = Total(n) + 1
<1> DEFINE q == <<y, n[y] + 1>>
<1>1. q \notin Cells(n)
  BY CellsAre
<1>2. \A p : p \in Cells(m) <=> p \in Cells(n) \/ p = q
  <2>1. ASSUME NEW p, p \in Cells(m) PROVE p \in Cells(n) \/ p = q
    <3>1. PICK x \in U : \E k \in 1..m[x] : p = <<x, k>>
      BY <2>1, CellsAre
    <3>2. PICK k \in 1..m[x] : p = <<x, k>>
      BY <3>1
    <3>3. CASE x = y
      <4>1. k \in 1..n[x] \/ k = n[y] + 1
        BY <3>3
      <4> QED
        BY <3>2, <3>3, <4>1, CellsAre
    <3>4. CASE x # y
      BY <3>2, <3>4, CellsAre
    <3> QED
      BY <3>3, <3>4
  <2>2. ASSUME NEW p, p \in Cells(n) PROVE p \in Cells(m)
    <3>1. PICK x \in U : \E k \in 1..n[x] : p = <<x, k>>
      BY <2>2, CellsAre
    <3>2. PICK k \in 1..n[x] : p = <<x, k>>
      BY <3>1
    <3>3. k \in 1..m[x]
      BY <3>2
    <3> QED
      BY <3>2, <3>3, CellsAre
  <2>3. q \in Cells(m)
    <3>1. n[y] + 1 \in 1..m[y]
      OBVIOUS
    <3> QED
      BY <3>1, CellsAre
  <2> QED
    BY <2>1, <2>2, <2>3
<1>3. Cells(m) = Cells(n) \cup {q}
  BY <1>2, Zenon
<1>4. Cardinality(Cells(m)) = Cardinality(Cells(n)) + 1
  BY <1>1, <1>3, TotalType, FS_AddElement
<1> QED
  BY <1>4, TotalType

(* The parts of a finite set add up to it. *)
LEMMA TotalOfParts ==
  ASSUME NEW U, IsFiniteSet(U), NEW H, IsFiniteSet(H), NEW K \in [H -> U]
  PROVE  Total([u \in U |-> Cardinality({p \in H : K[p] = u})]) = Cardinality(H)
<1> DEFINE part(u) == {p \in H : K[p] = u}
           n == [u \in U |-> Cardinality(part(u))]
           bij(u) == CHOOSE f : f \in Bijection(1..Cardinality(part(u)), part(u))
           G == [u \in U |-> bij(u)]
           g == [q \in Cells(n) |-> G[q[1]][q[2]]]
<1>1. \A u \in U : IsFiniteSet(part(u)) /\ Cardinality(part(u)) \in Nat
  BY FS_Subset, FS_CardinalityType
<1>2. n \in [U -> Nat] /\ \A u \in U : n[u] = Cardinality(part(u))
  BY <1>1
<1>3. \A u \in U : G[u] \in Bijection(1..n[u], part(u))
  <2> SUFFICES ASSUME NEW u \in U PROVE bij(u) \in Bijection(1..n[u], part(u))
    OBVIOUS
  <2>1. \E f : f \in Bijection(1..Cardinality(part(u)), part(u))
    BY <1>1, FS_CardinalityType DEF ExistsBijection
  <2> QED
    BY <1>2, <2>1
<1> HIDE DEF n, G
<1>4. \A u \in U : /\ \A k \in 1..n[u] : G[u][k] \in H /\ K[G[u][k]] = u
                   /\ \A j \in 1..n[u], k \in 1..n[u] : G[u][j] = G[u][k] => j = k
                   /\ \A p \in H : K[p] = u => \E k \in 1..n[u] : G[u][k] = p
  <2> SUFFICES ASSUME NEW u \in U
               PROVE  /\ \A k \in 1..n[u] : G[u][k] \in H /\ K[G[u][k]] = u
                      /\ \A j \in 1..n[u], k \in 1..n[u] : G[u][j] = G[u][k] => j = k
                      /\ \A p \in H : K[p] = u => \E k \in 1..n[u] : G[u][k] = p
    OBVIOUS
  <2>1. /\ G[u] \in [1..n[u] -> part(u)]
        /\ \A j \in 1..n[u], k \in 1..n[u] : G[u][j] = G[u][k] => j = k
        /\ \A p \in part(u) : \E k \in 1..n[u] : G[u][k] = p
    <3> DEFINE S == 1..n[u]
               T == part(u)
    <3>1. G[u] \in Bijection(S, T)
      BY <1>3
    <3> HIDE DEF S, T
    <3>2. /\ G[u] \in [S -> T]
          /\ \A j \in S, k \in S : G[u][j] = G[u][k] => j = k
          /\ \A p \in T : \E k \in S : G[u][k] = p
      BY <3>1, Fun_BijectionProperties
    <3> QED
      BY <3>2 DEF S, T
  <2> QED
    BY <2>1
<1>5. \A q \in Cells(n) : q[1] \in U /\ q[2] \in 1..n[q[1]] /\ q = <<q[1], q[2]>>
  BY <1>2, CellsAre
<1>6. g \in [Cells(n) -> H]
  BY <1>4, <1>5
<1>7. ASSUME NEW q \in Cells(n), NEW r \in Cells(n), g[q] = g[r]
      PROVE  q = r
  <2>1. q[1] = r[1]
    <3>1. K[g[q]] = q[1] /\ K[g[r]] = r[1]
      BY <1>4, <1>5
    <3> QED
      BY <1>7, <3>1
  <2>2. q[2] = r[2]
    BY <1>4, <1>5, <1>7, <2>1
  <2> QED
    BY <1>5, <2>1, <2>2
<1>8. ASSUME NEW p \in H
      PROVE  \E q \in Cells(n) : g[q] = p
  <2>1. PICK k \in 1..n[K[p]] : G[K[p]][k] = p
    BY <1>4
  <2>2. <<K[p], k>> \in Cells(n)
    BY <1>2, <2>1, CellsAre
  <2> QED
    BY <2>1, <2>2
<1> HIDE DEF g
<1>9. g \in Bijection(Cells(n), H)
  BY <1>6, <1>7, <1>8 DEF Bijection, Injection, Surjection, IsInjective
<1>10. Cardinality(H) = Cardinality(Cells(n))
  BY <1>2, <1>9, TotalType, FS_Bijection DEF ExistsBijection
<1>11. Total(n) = Cardinality(H)
  BY <1>2, <1>10, TotalType
<1> QED
  BY <1>11 DEF n
-----------------------------------------------------------------------------
(* The invariant. *)

(* Only a click is counted for a user. *)
Steps == \A t \in Threads : call[t].step = "user" => call[t].event.kind = "click"

(* A category that is in the prior has been counted there. *)
Positive == \A c \in DOMAIN currentDist : currentDist[c] >= 1

(* The clicks of a user on a category in all files: <<n, i>> is record i of log
   n, or of .writing where n is -1 *)
Files(ls, w) == [n \in DOMAIN ls \cup {0 - 1} |-> IF n = 0 - 1 THEN w ELSE ls[n]]
Records(ls, w) == UNION {{n} \X DOMAIN Files(ls, w)[n] : n \in DOMAIN Files(ls, w)}
Stored(ls, w, u, c) == {q \in Records(ls, w) : ClickOn(Files(ls, w)[q[1]][q[2]], u, c)}
Issued(events, u, c) == {i \in DOMAIN events : ClickOn(events[i], u, c)}

(* A rollover moves the records of .writing to a log, and may do so over another
   log after a restart: the files hold no click more often than it was given. *)
Kept == \A u \in Users, c \in Categories :
          Cardinality(Stored(logs, writing, u, c)) <= Cardinality(Issued(issued, u, c))

IInv == TypeOK /\ Steps /\ Positive /\ Kept /\ PriorIsSumOfUsers /\ NeverOvercounted

-----------------------------------------------------------------------------
(* What one call counts. *)

(* A category that is in no map counts as 0 there: every count is a number. *)
LEMMA CountIsInt ==
  ASSUME TypeOK
  PROVE  \A c : Count(currentDist, c) \in Int
BY DEF TypeOK, Count

(* A user without counts has none in any category: no count of a user is negative. *)
LEMMA UserCountIsNat ==
  ASSUME TypeOK
  PROVE  \A u, c : Count(Of(currentUserDist, u), c) \in Nat
BY DEF TypeOK, Count, Of, NoDist

(* trainCategory raises the count of its category, and no other. *)
LEMMA TrainCategoryCounts ==
  ASSUME NEW dist, NEW category, NEW n \in Int, \A c : Count(dist, c) \in Int
  PROVE  /\ DOMAIN trainCategory(dist, category, n) = DOMAIN dist \cup {category}
         /\ \A c : Count(trainCategory(dist, category, n), c)
                     = Count(dist, c) + IF c = category THEN n ELSE 0
<1>1. \A c \in DOMAIN dist \cup {category} :
        trainCategory(dist, category, n)[c] = Count(dist, c) + IF c = category THEN n ELSE 0
  BY DEF trainCategory
<1>2. DOMAIN trainCategory(dist, category, n) = DOMAIN dist \cup {category}
  BY DEF trainCategory
<1>3. ASSUME NEW c, c \notin DOMAIN dist \cup {category}
      PROVE  Count(trainCategory(dist, category, n), c) = Count(dist, c) + 0
  BY <1>2, <1>3 DEF Count
<1>4. ASSUME NEW c \in DOMAIN dist \cup {category}
      PROVE  Count(trainCategory(dist, category, n), c)
               = Count(dist, c) + IF c = category THEN n ELSE 0
  <2>1. Count(trainCategory(dist, category, n), c) = trainCategory(dist, category, n)[c]
    BY <1>2 DEF Count
  <2> QED
    BY <1>1, <2>1
<1> QED
  BY <1>2, <1>3, <1>4

(* A prior that has been raised still has categories only, each counted at least once. *)
LEMMA TrainCategoryType ==
  ASSUME TypeOK, NEW category \in Categories
  PROVE  LET dist == trainCategory(currentDist, category, 1)
         IN  /\ DOMAIN dist \subseteq Categories
             /\ \A c \in DOMAIN dist : dist[c] \in Int
             /\ Positive => \A c \in DOMAIN dist : dist[c] >= 1
<1> DEFINE dist == trainCategory(currentDist, category, 1)
<1>1. \A c : Count(currentDist, c) \in Int
  BY CountIsInt
<1>2. /\ DOMAIN dist = DOMAIN currentDist \cup {category}
      /\ \A c \in DOMAIN dist : dist[c] = Count(currentDist, c) + IF c = category THEN 1 ELSE 0
  BY DEF trainCategory
<1>3. ASSUME Positive, NEW c \in DOMAIN currentDist \cup {category}
      PROVE  Count(currentDist, c) + (IF c = category THEN 1 ELSE 0) >= 1
  <2>1. CASE c \in DOMAIN currentDist
    BY <1>1, <1>3, <2>1 DEF Positive, Count
  <2>2. CASE c \notin DOMAIN currentDist
    BY <1>3, <2>2 DEF Count
  <2> QED
    BY <2>1, <2>2
<1> HIDE DEF dist
<1>4. DOMAIN dist \subseteq Categories
  BY <1>2 DEF TypeOK
<1>5. \A c \in DOMAIN dist : dist[c] \in Int
  BY <1>1, <1>2
<1>6. Positive => \A c \in DOMAIN dist : dist[c] >= 1
  BY <1>2, <1>3
<1> QED
  BY <1>4, <1>5, <1>6 DEF dist

(* A click raises the count of its user and category, and no other. *)
LEMMA TrainUserCounts ==
  ASSUME TypeOK, NEW user \in Users, NEW category \in Categories
  PROVE  LET ud == trainUserCategory(currentUserDist, user, category, 1)
         IN  /\ DOMAIN ud \subseteq Users
             /\ \A u \in DOMAIN ud : /\ DOMAIN ud[u] \subseteq Categories
                                     /\ \A c \in DOMAIN ud[u] : ud[u][c] \in Nat
             /\ \A u, c : Count(Of(ud, u), c) = Count(Of(currentUserDist, u), c)
                            + IF u = user /\ c = category THEN 1 ELSE 0
<1> DEFINE ud == trainUserCategory(currentUserDist, user, category, 1)
           old == Of(currentUserDist, user)
           new == [c \in DOMAIN old \cup {category} |->
                     IF c # category THEN old[c] ELSE AtLeastZero(Count(old, c) + 1)]
<1>1. /\ DOMAIN ud = DOMAIN currentUserDist \cup {user}
      /\ ud[user] = new
      /\ \A u \in DOMAIN currentUserDist : u # user => ud[u] = currentUserDist[u]
  BY DEF trainUserCategory
<1>2. /\ DOMAIN old \subseteq Categories
      /\ \A c \in DOMAIN old : old[c] \in Nat
      /\ \A c : Count(old, c) \in Nat
  BY UserCountIsNat DEF TypeOK, Of, NoDist
<1> HIDE DEF ud, old
<1>3. /\ DOMAIN new = DOMAIN old \cup {category}
      /\ \A c \in DOMAIN old : c # category => new[c] = old[c]
      /\ new[category] = Count(old, category) + 1
  BY <1>2 DEF AtLeastZero
<1> HIDE DEF new
<1>4. \A c : Count(new, c) = Count(old, c) + IF c = category THEN 1 ELSE 0
  <2>1. ASSUME NEW c, c = category PROVE Count(new, c) = Count(old, c) + 1
    BY <1>3, <2>1 DEF Count
  <2>2. ASSUME NEW c, c # category PROVE Count(new, c) = Count(old, c)
    BY <1>3, <2>2 DEF Count
  <2> QED
    BY <1>2, <2>1, <2>2
<1>5. DOMAIN new \subseteq Categories /\ \A c \in DOMAIN new : new[c] \in Nat
  BY <1>2, <1>3
<1>6. ASSUME NEW u, u # user PROVE Of(ud, u) = Of(currentUserDist, u)
  BY <1>1, <1>6 DEF Of
<1>7. Of(ud, user) = new /\ Of(currentUserDist, user) = old
  BY <1>1 DEF Of, old
<1>8. \A u, c : Count(Of(ud, u), c) = Count(Of(currentUserDist, u), c)
                  + IF u = user /\ c = category THEN 1 ELSE 0
  <2> TAKE u, c
  <2>1. Count(Of(currentUserDist, u), c) \in Nat
    BY UserCountIsNat
  <2> QED
    BY <1>4, <1>6, <1>7, <2>1
<1>9. \A u \in DOMAIN ud : /\ DOMAIN ud[u] \subseteq Categories
                           /\ \A c \in DOMAIN ud[u] : ud[u][c] \in Nat
  BY <1>1, <1>5 DEF TypeOK
<1>10. DOMAIN ud \subseteq Users
  BY <1>1 DEF TypeOK
<1> QED
  BY <1>8, <1>9, <1>10 DEF ud

-----------------------------------------------------------------------------
(* The threads at work. *)
Adding(steps, us, c) ==
  {t \in InFlight : call[t].step \in steps /\ \E u \in us : ClickOn(call[t].event, u, c)}

(* A step of one thread changes the number of those at work by its own part. *)
LEMMA PendingChange ==
  ASSUME NEW steps, NEW us, NEW c, NEW t \in Threads,
         DOMAIN call = Threads, DOMAIN call' = Threads,
         \A s \in Threads \ {t} : call'[s] = call[s]
  PROVE  /\ Pending(steps, us, c) \in Nat /\ Pending(steps, us, c)' \in Nat
         /\ Pending(steps, us, c)' + (IF t \in Adding(steps, us, c) THEN 1 ELSE 0)
              = Pending(steps, us, c) + (IF t \in Adding(steps, us, c)' THEN 1 ELSE 0)
<1> DEFINE A == Adding(steps, us, c)
           B == Adding(steps, us, c)'
<1>1. Pending(steps, us, c) = Cardinality(A) /\ Pending(steps, us, c)' = Cardinality(B)
  BY DEF Pending, Adding
<1>2. A \subseteq Threads /\ B \subseteq Threads
  BY DEF Adding, InFlight
<1>3. \A s \in Threads \ {t} : s \in A <=> s \in B
  BY DEF Adding, InFlight
<1> HIDE DEF A, B
<1>4. A \ {t} = B \ {t}
  BY <1>2, <1>3
<1>5. /\ IsFiniteSet(A) /\ Cardinality(A) \in Nat
      /\ IsFiniteSet(B) /\ Cardinality(B) \in Nat
  BY <1>2, FS_Subset, FS_CardinalityType, UserInterestsAssumption
<1>6. /\ Cardinality(A \ {t}) = Cardinality(A) - IF t \in A THEN 1 ELSE 0
      /\ Cardinality(B \ {t}) = Cardinality(B) - IF t \in B THEN 1 ELSE 0
  <2>1. Cardinality(A \ {t}) = IF t \in A THEN Cardinality(A) - 1 ELSE Cardinality(A)
    BY <1>5, FS_RemoveElement
  <2>2. Cardinality(B \ {t}) = IF t \in B THEN Cardinality(B) - 1 ELSE Cardinality(B)
    BY <1>5, FS_RemoveElement
  <2> QED
    BY <1>5, <2>1, <2>2
<1>7. Cardinality(B) + (IF t \in A THEN 1 ELSE 0) = Cardinality(A) + (IF t \in B THEN 1 ELSE 0)
  BY <1>4, <1>5, <1>6
<1> QED
  BY <1>1, <1>5, <1>7 DEF A, B

(* Nobody is at work after a restart. *)
LEMMA NothingPending ==
  ASSUME NEW steps, NEW us, NEW c, \A t \in Threads : call'[t] = Idle
  PROVE  Pending(steps, us, c)' = 0
<1>1. InFlight' = {}
  BY DEF InFlight
<1>2. Pending(steps, us, c)' = Cardinality({})
  BY <1>1 DEF Pending
<1> QED
  BY <1>2, FS_EmptySet
-----------------------------------------------------------------------------
(* Passes over the logs. *)

(* The records an iterator finds are finitely many, and each is one of a log. *)
LEMMA RecordsOfLogs ==
  ASSUME TypeOK, NEW last \in Int
  PROVE  LET counters == Iterator(last)
             events == EventsOf(counters, logs)
         IN  /\ IsFiniteSet(DOMAIN events)
             /\ \A p \in DOMAIN events :
                  /\ p = <<p[1], p[2]>> /\ p[1] \in 1..Window
                  /\ counters[p[1]] \in DOMAIN logs /\ p[2] \in DOMAIN logs[counters[p[1]]]
                  /\ events[p] = logs[counters[p[1]]][p[2]] /\ events[p] \in Event
<1> DEFINE counters == Iterator(last)
           J == {k \in 1..Window : counters[k] \in DOMAIN logs}
           R == [j \in J |-> DOMAIN logs[counters[j]]]
           events == EventsOf(counters, logs)
<1>1. Window \in Nat /\ DOMAIN counters = 1..Window
  BY UserInterestsAssumption DEF Iterator
<1>2. \A n \in DOMAIN logs : logs[n] \in Seq(Event)
  BY DEF TypeOK
<1> HIDE DEF counters
<1>3. /\ DOMAIN events = UNION {{j} \X R[j] : j \in J}
      /\ \A p \in DOMAIN events : events[p] = logs[counters[p[1]]][p[2]]
  BY <1>1 DEF EventsOf
<1>4. IsFiniteSet(J)
  <2>1. IsFiniteSet(1..Window)
    BY <1>1, FS_Interval
  <2> QED
    BY <2>1, FS_Subset
<1>5. \A j \in J : IsFiniteSet(R[j])
  <2> SUFFICES ASSUME NEW j \in J PROVE IsFiniteSet(DOMAIN logs[counters[j]])
    OBVIOUS
  <2>1. Len(logs[counters[j]]) \in Int /\ 1 \in Int
        /\ DOMAIN logs[counters[j]] = 1..Len(logs[counters[j]])
    BY <1>2
  <2> QED
    BY <2>1, FS_Interval
<1> HIDE DEF events
<1>6. ASSUME NEW p \in DOMAIN events
      PROVE  /\ p = <<p[1], p[2]>> /\ p[1] \in 1..Window
             /\ counters[p[1]] \in DOMAIN logs /\ p[2] \in DOMAIN logs[counters[p[1]]]
  <2>1. PICK j \in J : p \in {j} \X R[j]
    BY <1>3
  <2> QED
    BY <2>1
<1>7. \A p \in DOMAIN events : events[p] \in Event
  <2> SUFFICES ASSUME NEW p \in DOMAIN events PROVE logs[counters[p[1]]][p[2]] \in Event
    BY <1>3
  <2>1. logs[counters[p[1]]] \in Seq(Event)
    BY <1>2, <1>6
  <2> QED
    BY <1>6, <2>1
<1> HIDE DEF J, R
<1>8. IsFiniteSet(DOMAIN events)
  BY <1>3, <1>4, <1>5, FiniteRows
<1> QED
  BY <1>3, <1>6, <1>7, <1>8 DEF counters, events

(* What the hits of a category add *)
LEMMA AddedIs ==
  ASSUME NEW events, NEW hits, IsFiniteSet(hits), NEW c
  PROVE  /\ \A n \in Int : Added(events, hits, c, n) \in Int
         /\ Added(events, hits, c, 1) = Cardinality(In(events, hits, c))
         /\ In(events, hits, c) = {} => \A n \in Int : Added(events, hits, c, n) = 0
<1>1. Cardinality(In(events, hits, c)) \in Nat
  BY FS_Subset, FS_CardinalityType DEF In
<1>2. In(events, hits, c) = {} => Cardinality(In(events, hits, c)) = 0
  BY FS_EmptySet
<1> QED
  BY <1>1, <1>2 DEF Added

(* A pass adds its count for each hit to a map. *)
Counted(dist, events, hits, count, new) ==
  /\ DOMAIN new = DOMAIN dist \cup CategoriesOf(events, hits)
  /\ \A c : Count(new, c) = Count(dist, c) + Added(events, hits, c, count)

(* countCategories is such a pass, whatever the map held before. *)
LEMMA CategoriesCounted ==
  ASSUME NEW dist, NEW events, NEW hits, IsFiniteSet(hits), NEW count \in Int,
         \A c : Count(dist, c) \in Int
  PROVE  Counted(dist, events, hits, count, countCategories(dist, events, hits, count))
<1> DEFINE new == countCategories(dist, events, hits, count)
<1>1. /\ DOMAIN new = DOMAIN dist \cup CategoriesOf(events, hits)
      /\ \A c \in DOMAIN new : new[c] = Count(dist, c) + Added(events, hits, c, count)
  BY DEF countCategories
<1> HIDE DEF new
<1>2. ASSUME NEW c, c \in DOMAIN new
      PROVE  Count(new, c) = Count(dist, c) + Added(events, hits, c, count)
  BY <1>1, <1>2 DEF Count
<1>3. ASSUME NEW c, c \notin DOMAIN new
      PROVE  Count(new, c) = Count(dist, c) + Added(events, hits, c, count)
  <2>1. In(events, hits, c) = {}
    BY <1>1, <1>3 DEF In, CategoriesOf
  <2>2. Added(events, hits, c, count) = 0
    BY <2>1, AddedIs
  <2>3. Count(new, c) = 0 /\ Count(dist, c) = 0
    BY <1>1, <1>3 DEF Count
  <2> QED
    BY <2>2, <2>3
<1> QED
  BY <1>1, <1>2, <1>3 DEF new, Counted

(* What a pass does to both maps: it keeps the users' counts above zero. *)
Passed(d, events, clicks, priors, count, new) ==
  /\ DOMAIN new.dist = DOMAIN d.dist \cup CategoriesOf(events, priors)
  /\ \A c : Count(new.dist, c) = Count(d.dist, c) + Added(events, priors, c, count)
  /\ DOMAIN new.user = DOMAIN d.user \cup {events[p].user : p \in clicks}
  /\ \A u \in DOMAIN new.user :
       DOMAIN new.user[u] = DOMAIN Of(d.user, u) \cup CategoriesOf(events, By(events, clicks, u))
  /\ \A u, c : Count(Of(new.user, u), c)
       = AtLeastZero(Count(Of(d.user, u), c) + Added(events, By(events, clicks, u), c, count))

(* countClicksAndPriors is such a pass. *)
LEMMA PassCounts ==
  ASSUME NEW d, NEW events, NEW clicks, IsFiniteSet(clicks), NEW priors, IsFiniteSet(priors),
         NEW count \in Int,
         \A c : Count(d.dist, c) \in Int, \A u, c : Count(Of(d.user, u), c) \in Nat
  PROVE  Passed(d, events, clicks, priors, count,
                countClicksAndPriors(d, events, clicks, priors, count))
<1> DEFINE raised(u) == countCategories(Of(d.user, u), events, By(events, clicks, u), count)
           new == countClicksAndPriors(d, events, clicks, priors, count)
<1>1. \A u : By(events, clicks, u) \subseteq clicks
  BY DEF By
<1>2. new = [dist |-> countCategories(d.dist, events, priors, count),
             user |-> [u \in DOMAIN d.user \cup {events[p].user : p \in clicks} |->
                         [c \in DOMAIN raised(u) |-> AtLeastZero(raised(u)[c])]]]
  BY DEF countClicksAndPriors
<1> HIDE DEF new
<1>3. /\ DOMAIN new.dist = DOMAIN d.dist \cup CategoriesOf(events, priors)
      /\ \A c : Count(new.dist, c)
                  = Count(d.dist, c) + Added(events, priors, c, count)
  <2>1. new.dist = countCategories(d.dist, events, priors, count)
    BY <1>2
  <2> DEFINE dist == d.dist
  <2>2. \A c : Count(dist, c) \in Int
    OBVIOUS
  <2> HIDE DEF dist
  <2>3. /\ DOMAIN countCategories(dist, events, priors, count)
              = DOMAIN dist \cup CategoriesOf(events, priors)
        /\ \A c : Count(countCategories(dist, events, priors, count), c)
                    = Count(dist, c) + Added(events, priors, c, count)
    <3>1. Counted(dist, events, priors, count, countCategories(dist, events, priors, count))
      BY <2>2, CategoriesCounted
    <3> QED
      BY <3>1 DEF Counted
  <2> QED
    BY <2>1, <2>3 DEF dist
<1>4. \A u : /\ DOMAIN raised(u)
                  = DOMAIN Of(d.user, u) \cup CategoriesOf(events, By(events, clicks, u))
             /\ \A c : Count(raised(u), c) = Count(Of(d.user, u), c)
                         + Added(events, By(events, clicks, u), c, count)
  <2> TAKE u
  <2>1. IsFiniteSet(By(events, clicks, u))
    BY <1>1, FS_Subset
  <2> DEFINE dist == Of(d.user, u)
             own == By(events, clicks, u)
  <2>2. \A c : Count(dist, c) \in Int
    OBVIOUS
  <2> HIDE DEF dist, own
  <2>3. /\ DOMAIN countCategories(dist, events, own, count)
              = DOMAIN dist \cup CategoriesOf(events, own)
        /\ \A c : Count(countCategories(dist, events, own, count), c)
                    = Count(dist, c) + Added(events, own, c, count)
    <3>1. IsFiniteSet(own)
      BY <2>1 DEF own
    <3>2. Counted(dist, events, own, count, countCategories(dist, events, own, count))
      BY <2>2, <3>1, CategoriesCounted
    <3> QED
      BY <3>2 DEF Counted
  <2> QED
    BY <2>3 DEF dist, own
<1> HIDE DEF raised
<1>5. /\ DOMAIN new.user = DOMAIN d.user \cup {events[p].user : p \in clicks}
      /\ \A u \in DOMAIN new.user :
           new.user[u] = [c \in DOMAIN raised(u) |-> AtLeastZero(raised(u)[c])]
  BY <1>2
<1>6. \A u \in DOMAIN new.user :
        DOMAIN new.user[u] = DOMAIN Of(d.user, u) \cup CategoriesOf(events, By(events, clicks, u))
  BY <1>4, <1>5
<1>7. ASSUME NEW u, NEW c
      PROVE  Count(Of(new.user, u), c) = AtLeastZero(Count(raised(u), c))
  <2>1. CASE u \in DOMAIN new.user
    <3>1. Of(new.user, u) = [x \in DOMAIN raised(u) |-> AtLeastZero(raised(u)[x])]
      BY <1>5, <2>1 DEF Of
    <3>2. CASE c \in DOMAIN raised(u)
      BY <3>1, <3>2 DEF Count
    <3>3. CASE c \notin DOMAIN raised(u)
      BY <3>1, <3>3 DEF Count, AtLeastZero
    <3> QED
      BY <3>2, <3>3
  <2>2. CASE u \notin DOMAIN new.user
    <3>1. Of(new.user, u) = NoDist /\ Of(d.user, u) = NoDist
      BY <1>5, <2>2 DEF Of
    <3>2. By(events, clicks, u) = {}
      BY <1>5, <2>2 DEF By
    <3>3. DOMAIN raised(u) = {}
      BY <1>4, <3>1, <3>2 DEF CategoriesOf, NoDist
    <3> QED
      BY <3>1, <3>3 DEF Count, AtLeastZero, NoDist
  <2> QED
    BY <2>1, <2>2
<1> QED
  <2>1. \A u, c : Count(Of(new.user, u), c)
          = AtLeastZero(Count(Of(d.user, u), c)
              + Added(events, By(events, clicks, u), c, count))
    <3> TAKE u, c
    <3>1. Count(raised(u), c) = Count(Of(d.user, u), c)
            + Added(events, By(events, clicks, u), c, count)
      BY <1>4
    <3> QED
      BY <1>7, <3>1
  <2> QED
    BY <1>3, <1>5, <1>6, <2>1 DEF new, Passed

(* The events a pass of a training counts for users, and in the prior *)
ClicksAfter(day, events) ==
  {p \in DOMAIN events : events[p].time > day /\ events[p].kind = "click"}
PriorsAfter(day, events) ==
  {p \in DOMAIN events : events[p].time > day
                           /\ (prior = 0 <=> events[p].kind = "click")}

(* A training counts each of them once. *)
LEMMA TrainedCounts ==
  ASSUME prior \in {0, 1}, NEW day, NEW events, IsFiniteSet(DOMAIN events)
  PROVE  LET d == trainEvents(day, Cleared, events)
             clicks == ClicksAfter(day, events)
             priors == PriorsAfter(day, events)
         IN  /\ DOMAIN d.dist = CategoriesOf(events, priors)
             /\ \A c : Count(d.dist, c) = Cardinality(In(events, priors, c))
             /\ DOMAIN d.user = {events[p].user : p \in clicks}
             /\ \A u \in DOMAIN d.user : DOMAIN d.user[u] \subseteq CategoriesOf(events, clicks)
             /\ \A u, c : Count(Of(d.user, u), c)
                            = Cardinality(In(events, By(events, clicks, u), c))
<1> DEFINE hits == {p \in DOMAIN events : events[p].time > day}
           clicks == ClicksAfter(day, events)
           priors == PriorsAfter(day, events)
           d == trainEvents(day, Cleared, events)
           own(u) == By(events, clicks, u)
<1>1. /\ {p \in hits : events[p].kind = "click"} = clicks
      /\ (IF prior = 0 THEN clicks ELSE hits \ clicks) = priors
  BY DEF ClicksAfter, PriorsAfter
<1>2. clicks \subseteq DOMAIN events /\ priors \subseteq DOMAIN events /\ hits \subseteq DOMAIN events
  BY DEF ClicksAfter, PriorsAfter
<1>3. /\ \A c : Cardinality(In(events, priors, c)) \in Nat
      /\ \A u, c : Cardinality(In(events, own(u), c)) \in Nat
  <2>1. \A c : In(events, priors, c) \subseteq DOMAIN events
    BY <1>2 DEF In
  <2>2. \A u, c : In(events, own(u), c) \subseteq DOMAIN events
    BY <1>2 DEF In, By
  <2> QED
    BY <2>1, <2>2, FS_Subset, FS_CardinalityType
<1>4. d = countClicksAndPriors(Cleared, events, clicks, priors, 1)
  BY <1>1 DEF trainEvents, CountEvents
<1>5. DOMAIN Cleared.dist = {} /\ DOMAIN Cleared.user = {}
  BY DEF Cleared, NoDist
<1>6. /\ \A u : DOMAIN Of(Cleared.user, u) = {}
      /\ \A c : Count(Cleared.dist, c) = 0
      /\ \A u, c : Count(Of(Cleared.user, u), c) = 0
  BY <1>5 DEF Of, NoDist, Count
<1>7. IsFiniteSet(clicks) /\ IsFiniteSet(priors)
  BY <1>2, FS_Subset
<1> HIDE DEF d, clicks, priors, hits
<1>8. /\ DOMAIN d.dist = {} \cup CategoriesOf(events, priors)
      /\ \A c : Count(d.dist, c) = 0 + Added(events, priors, c, 1)
      /\ DOMAIN d.user = {} \cup {events[p].user : p \in clicks}
      /\ \A u \in DOMAIN d.user : DOMAIN d.user[u] = {} \cup CategoriesOf(events, own(u))
      /\ \A u, c : Count(Of(d.user, u), c)
                     = AtLeastZero(0 + Added(events, own(u), c, 1))
  <2>1. /\ \A c : Count(Cleared.dist, c) \in Int
        /\ \A u, c : Count(Of(Cleared.user, u), c) \in Nat
    BY <1>6
  <2> QED
    <3>1. /\ DOMAIN d.dist = DOMAIN Cleared.dist \cup CategoriesOf(events, priors)
          /\ \A c : Count(d.dist, c) = Count(Cleared.dist, c) + Added(events, priors, c, 1)
          /\ DOMAIN d.user = DOMAIN Cleared.user \cup {events[p].user : p \in clicks}
          /\ \A u \in DOMAIN d.user :
               DOMAIN d.user[u]
                 = DOMAIN Of(Cleared.user, u) \cup CategoriesOf(events, By(events, clicks, u))
          /\ \A u, c : Count(Of(d.user, u), c)
               = AtLeastZero(Count(Of(Cleared.user, u), c)
                   + Added(events, By(events, clicks, u), c, 1))
      <4>1. Passed(Cleared, events, clicks, priors, 1, d)
        BY <1>4, <1>7, <2>1, PassCounts
      <4> QED
        BY <4>1 DEF Passed
    <3> QED
      BY <1>5, <1>6, <3>1
<1>9. \A u, c : Count(Of(d.user, u), c) = Cardinality(In(events, own(u), c))
  <2> TAKE u, c
  <2>1. IsFiniteSet(own(u))
    BY <1>2, FS_Subset DEF By
  <2>2. Added(events, own(u), c, 1) = Cardinality(In(events, own(u), c))
    BY <2>1, AddedIs
  <2>3. Cardinality(In(events, own(u), c)) \in Nat
    BY <1>3
  <2> HIDE DEF own
  <2> QED
    BY <1>8, <2>2, <2>3 DEF AtLeastZero
<1>10. \A c : Count(d.dist, c) = Cardinality(In(events, priors, c))
  <2> TAKE c
  <2>1. Added(events, priors, c, 1) = Cardinality(In(events, priors, c))
    BY <1>2, FS_Subset, AddedIs
  <2>2. Cardinality(In(events, priors, c)) \in Nat
    BY <1>3
  <2> QED
    BY <1>8, <2>1, <2>2
<1>11. \A u \in DOMAIN d.user : DOMAIN d.user[u] \subseteq CategoriesOf(events, clicks)
  BY <1>8 DEF CategoriesOf, By
<1> QED
  BY <1>8, <1>9, <1>10, <1>11 DEF d, clicks, priors

(* An elimination leaves every count and every log as it is: what needEliminate
   names is beyond what the iterator visits. *)
LEMMA NothingEliminated ==
  ASSUME TypeOK, eliminate
  PROVE  /\ DOMAIN currentDist' = DOMAIN currentDist
         /\ \A c : Count(currentDist', c) = Count(currentDist, c)
         /\ DOMAIN currentUserDist' = DOMAIN currentUserDist
         /\ \A u \in DOMAIN currentUserDist :
              DOMAIN currentUserDist'[u] = DOMAIN currentUserDist[u]
         /\ \A u, c : Count(Of(currentUserDist', u), c) = Count(Of(currentUserDist, u), c)
         /\ DOMAIN logs' = DOMAIN logs /\ \A n \in DOMAIN logs : logs'[n] = logs[n]
<1> DEFINE last == lastCounter - 1
           old == {j \in 1..Window : needEliminate(last, Iterator(last)[j])}
           events == EventsOf([j \in old |-> Iterator(last)[j]], logs)
           d0 == [dist |-> currentDist, user |-> currentUserDist]
           d == eliminateEvents(now - Window, d0, events)
<1>1. old = {}
  <2>1. lastCounter \in Int /\ Window \in Nat
    BY UserInterestsAssumption DEF TypeOK
  <2> QED
    BY <2>1 DEF Iterator, needEliminate
<1>2. DOMAIN events = {}
  BY <1>1 DEF EventsOf
<1>3. /\ currentDist' = d.dist /\ currentUserDist' = d.user
      /\ logs' = [n \in DOMAIN logs \ {Iterator(last)[j] : j \in old} |-> logs[n]]
  BY DEF eliminate
<1> HIDE DEF old, events
<1>4. DOMAIN logs' = DOMAIN logs /\ \A n \in DOMAIN logs : logs'[n] = logs[n]
  BY <1>1, <1>3
<1> DEFINE hits == {p \in DOMAIN events : events[p].time <= now - Window}
           clicks == {p \in hits : events[p].kind = "click"}
           priors == IF prior = 0 THEN clicks ELSE hits \ clicks
<1>5. d = countClicksAndPriors(d0, events, clicks, priors, 0 - 1)
  BY DEF eliminateEvents, CountEvents
<1>6. /\ hits = {} /\ clicks = {} /\ priors = {} /\ {events[p].user : p \in clicks} = {}
      /\ CategoriesOf(events, priors) = {}
      /\ \A u : By(events, clicks, u) = {} /\ CategoriesOf(events, By(events, clicks, u)) = {}
      /\ \A c : In(events, priors, c) = {}
      /\ \A u, c : In(events, By(events, clicks, u), c) = {}
  BY <1>2 DEF In, By, CategoriesOf
<1>7. d0.dist = currentDist /\ d0.user = currentUserDist
  OBVIOUS
<1>8. /\ \A c : Count(d0.dist, c) \in Int
      /\ \A u, c : Count(Of(d0.user, u), c) \in Nat
  BY <1>7, CountIsInt, UserCountIsNat
<1>9. IsFiniteSet(clicks) /\ IsFiniteSet(priors) /\ 0 - 1 \in Int
  BY <1>6, FS_EmptySet
<1> HIDE DEF d, d0, hits, clicks, priors
<1>10. /\ DOMAIN d.dist = DOMAIN d0.dist \cup CategoriesOf(events, priors)
       /\ \A c : Count(d.dist, c)
                   = Count(d0.dist, c) + Added(events, priors, c, 0 - 1)
       /\ DOMAIN d.user = DOMAIN d0.user \cup {events[p].user : p \in clicks}
       /\ \A u \in DOMAIN d.user :
            DOMAIN d.user[u]
              = DOMAIN Of(d0.user, u) \cup CategoriesOf(events, By(events, clicks, u))
       /\ \A u, c : Count(Of(d.user, u), c)
            = AtLeastZero(Count(Of(d0.user, u), c)
                + Added(events, By(events, clicks, u), c, 0 - 1))
  <2>1. Passed(d0, events, clicks, priors, 0 - 1, d)
    BY <1>5, <1>8, <1>9, PassCounts
  <2> QED
    BY <2>1 DEF Passed
<1>11. DOMAIN d.dist = DOMAIN d0.dist /\ DOMAIN d.user = DOMAIN d0.user
  BY <1>6, <1>10
<1>12. \A u \in DOMAIN d0.user : DOMAIN d.user[u] = DOMAIN d0.user[u]
  BY <1>6, <1>10, <1>11 DEF Of
<1>13. ASSUME NEW c PROVE Count(d.dist, c) = Count(d0.dist, c)
  <2>1. Added(events, priors, c, 0 - 1) = 0
    BY <1>6, AddedIs, FS_EmptySet
  <2> QED
    BY <1>8, <1>10, <2>1
<1>14. ASSUME NEW u, NEW c PROVE Count(Of(d.user, u), c) = Count(Of(d0.user, u), c)
  <2>1. Added(events, By(events, clicks, u), c, 0 - 1) = 0
    BY <1>6, AddedIs, FS_EmptySet
  <2>2. Count(Of(d.user, u), c)
          = AtLeastZero(Count(Of(d0.user, u), c) + Added(events, By(events, clicks, u), c, 0 - 1))
    BY <1>10
  <2> QED
    BY <1>8, <2>1, <2>2 DEF AtLeastZero
<1> QED
  BY <1>3, <1>4, <1>7, <1>11, <1>12, <1>13, <1>14
-----------------------------------------------------------------------------
(* What a restart leaves. *)
Recovered == EventsOf(Iterator(header - 1), logs)

(* Clicks have users, and all events a category and a time. *)
LEMMA EventsAre ==
  /\ \A e \in Event : e.kind = "click" => e.user \in Users
  /\ \A e \in Event : /\ e.category \in Categories /\ e.time \in 0..MaxNow
                      /\ e.kind \in {"click", "item"}
BY DEF Event, Click, Item

(* A restart leaves what it counts in the rolled logs, and nothing of .writing. *)
LEMMA RestartCounts ==
  ASSUME TypeOK, Restart
  PROVE  LET clicks == ClicksAfter(now - Window, Recovered)
             priors == PriorsAfter(now - Window, Recovered)
         IN
         /\ clicks \subseteq DOMAIN Recovered /\ priors \subseteq DOMAIN Recovered
         /\ IsFiniteSet(DOMAIN Recovered)
         /\ DOMAIN currentDist' = CategoriesOf(Recovered, priors)
         /\ \A c : Count(currentDist', c) = Cardinality(In(Recovered, priors, c))
         /\ DOMAIN currentUserDist' = {Recovered[p].user : p \in clicks}
         /\ \A u \in DOMAIN currentUserDist' :
              DOMAIN currentUserDist'[u] \subseteq CategoriesOf(Recovered, clicks)
         /\ \A u, c : Count(Of(currentUserDist', u), c)
                        = Cardinality(In(Recovered, By(Recovered, clicks, u), c))
<1> DEFINE clicks == ClicksAfter(now - Window, Recovered)
           priors == PriorsAfter(now - Window, Recovered)
<1>1. header - 1 \in Int /\ prior \in {0, 1}
  BY DEF TypeOK
<1>2. IsFiniteSet(DOMAIN Recovered)
  BY <1>1, RecordsOfLogs DEF Recovered
<1>3. LET d == trainEvents(now - Window, Cleared, Recovered)
      IN  currentDist' = d.dist /\ currentUserDist' = d.user
  BY DEF Restart, train, trainBefore, Recovered
<1>4. clicks \subseteq DOMAIN Recovered /\ priors \subseteq DOMAIN Recovered
  BY DEF ClicksAfter, PriorsAfter
<1> QED
  BY <1>1, <1>2, <1>3, <1>4, TrainedCounts

-----------------------------------------------------------------------------
(* The types. *)
LEMMA AtWork ==
  ASSUME TypeOK, NEW t \in Threads, call[t].step \in {"user", "log"}
  PROVE  call[t] \in [step : {"user", "log"}, event : Event] /\ t \in InFlight
<1>1. call[t] # Idle
  BY DEF Idle
<1> QED
  BY <1>1 DEF TypeOK, InFlight

(* What happens when a thread begins or goes on, apart from the counts *)
LEMMA ThreadFrame ==
  ASSUME TypeOK, Steps, NEW t \in Threads, addClick(t) \/ itemCategory(t) \/ write(t)
  PROVE  /\ UNCHANGED <<prior, now, currentDay, header, logs, lastCounter, restarts>>
         /\ call' \in [Threads -> {Idle} \cup [step : {"user", "log"}, event : Event]]
         /\ \A s \in Threads \ {t} : call'[s] = call[s]
         /\ Steps'
<1>1. UNCHANGED <<prior, now, currentDay, header, logs, lastCounter, restarts>>
  BY DEF addClick, clickCategory, clickUserCategory, itemCategory, write, Begin, log, interests
<1>2. \E s \in {Idle} \cup [step : {"user", "log"}, event : Event] :
        /\ call' = [call EXCEPT ![t] = s]
        /\ s.step = "user" => s.event.kind = "click"
  <2>1. CASE clickCategory(t)
    <3>1. PICK e \in Click : Begin(t, e, IF e.time > currentDay THEN "user" ELSE "log")
      BY <2>1 DEF clickCategory
    <3> DEFINE s == [step |-> IF e.time > currentDay THEN "user" ELSE "log", event |-> e]
    <3>2. s \in [step : {"user", "log"}, event : Event] /\ s.event.kind = "click"
      BY DEF Event, Click
    <3>3. call' = [call EXCEPT ![t] = s]
      BY <3>1 DEF Begin
    <3> QED
      BY <3>2, <3>3
  <2>2. CASE clickUserCategory(t)
    <3> DEFINE s == [call[t] EXCEPT !.step = "log"]
    <3>1. call[t] \in [step : {"user", "log"}, event : Event]
      BY <2>2, AtWork DEF clickUserCategory
    <3>2. s \in [step : {"user", "log"}, event : Event] /\ s.step = "log"
      BY <3>1
    <3>3. call' = [call EXCEPT ![t] = s]
      BY <2>2 DEF clickUserCategory
    <3> QED
      BY <3>2, <3>3
  <2>3. CASE itemCategory(t)
    <3>1. PICK e \in Item : Begin(t, e, "log")
      BY <2>3 DEF itemCategory
    <3> DEFINE s == [step |-> "log", event |-> e]
    <3>2. s \in [step : {"user", "log"}, event : Event] /\ s.step = "log"
      BY DEF Event
    <3>3. call' = [call EXCEPT ![t] = s]
      BY <3>1 DEF Begin
    <3> QED
      BY <3>2, <3>3
  <2>4. CASE write(t)
    <3>1. call' = [call EXCEPT ![t] = Idle] /\ Idle.step = "idle"
      BY <2>4 DEF write, Idle
    <3> QED
      BY <3>1
  <2> QED
    BY <2>1, <2>2, <2>3, <2>4 DEF addClick
<1>3. PICK s \in {Idle} \cup [step : {"user", "log"}, event : Event] :
        /\ call' = [call EXCEPT ![t] = s]
        /\ s.step = "user" => s.event.kind = "click"
  BY <1>2
<1>4. call \in [Threads -> {Idle} \cup [step : {"user", "log"}, event : Event]]
  BY DEF TypeOK
<1>5. /\ call' \in [Threads -> {Idle} \cup [step : {"user", "log"}, event : Event]]
      /\ call'[t] = s /\ \A r \in Threads \ {t} : call'[r] = call[r]
  BY <1>3, <1>4
<1>6. Steps'
  BY <1>3, <1>5 DEF Steps
<1> QED
  BY <1>1, <1>5, <1>6

(* Every step keeps the types, and only a click is ever counted for a user. *)
LEMMA TypeStep == TypeOK /\ Steps /\ [Next]_vars => TypeOK' /\ Steps'
<1> SUFFICES ASSUME TypeOK, Steps, [Next]_vars PROVE TypeOK' /\ Steps'
  OBVIOUS
<1> USE UserInterestsAssumption
<1>1. ASSUME NEW t \in Threads, clickCategory(t) PROVE TypeOK' /\ Steps'
  <2>1. PICK e \in Click :
          /\ currentDist' = IF e.time > currentDay /\ prior = 0
                              THEN trainCategory(currentDist, e.category, 1) ELSE currentDist
          /\ UNCHANGED <<currentUserDist, writing, issued>>
    BY <1>1 DEF clickCategory, Begin, log
  <2>2. /\ DOMAIN currentDist' \subseteq Categories
        /\ \A c \in DOMAIN currentDist' : currentDist'[c] \in Int
    <3>1. e.category \in Categories
      BY DEF Click
    <3> QED
      BY <2>1, <3>1, TrainCategoryType DEF TypeOK
  <2> QED
    BY <1>1, <2>1, <2>2, ThreadFrame DEF TypeOK, addClick
<1>2. ASSUME NEW t \in Threads, clickUserCategory(t) PROVE TypeOK' /\ Steps'
  <2>1. UNCHANGED <<currentDist, writing, issued>>
    BY <1>2 DEF clickUserCategory, log
  <2>2. call[t].event.user \in Users /\ call[t].event.category \in Categories
    BY <1>2, AtWork, EventsAre DEF clickUserCategory, Steps
  <2>3. /\ DOMAIN currentUserDist' \subseteq Users
        /\ \A u \in DOMAIN currentUserDist' :
             /\ DOMAIN currentUserDist'[u] \subseteq Categories
             /\ \A c \in DOMAIN currentUserDist'[u] : currentUserDist'[u][c] \in Nat
    BY <1>2, <2>2, TrainUserCounts DEF clickUserCategory
  <2> QED
    BY <1>2, <2>1, <2>3, ThreadFrame DEF TypeOK, addClick
<1>3. ASSUME NEW t \in Threads, itemCategory(t) PROVE TypeOK' /\ Steps'
  <2>1. PICK e \in Item :
          /\ currentDist' = IF e.time > currentDay /\ prior = 1
                              THEN trainCategory(currentDist, e.category, 1) ELSE currentDist
          /\ UNCHANGED <<currentUserDist, writing, issued>>
    BY <1>3 DEF itemCategory, Begin, log
  <2>2. /\ DOMAIN currentDist' \subseteq Categories
        /\ \A c \in DOMAIN currentDist' : currentDist'[c] \in Int
    <3>1. e.category \in Categories
      BY DEF Item
    <3> QED
      BY <2>1, <3>1, TrainCategoryType DEF TypeOK
  <2> QED
    BY <1>3, <2>1, <2>2, ThreadFrame DEF TypeOK
<1>4. ASSUME NEW t \in Threads, write(t) PROVE TypeOK' /\ Steps'
  <2>1. UNCHANGED <<currentDist, currentUserDist>>
    BY <1>4 DEF write, interests
  <2>2. call[t].event \in Event
    BY <1>4, AtWork DEF write
  <2>3. writing' \in Seq(Event) /\ issued' \in Seq(Event)
    BY <1>4, <2>2 DEF write, TypeOK
  <2> QED
    BY <1>4, <2>1, <2>3, ThreadFrame DEF TypeOK
<1>5. ASSUME rollover PROVE TypeOK' /\ Steps'
  <2>1. UNCHANGED <<prior, now, currentDay, currentDist, currentUserDist, call, issued, restarts>>
    BY <1>5 DEF rollover, interests
  <2>2. header' \in 0..MaxCounter /\ lastCounter' \in 0..MaxCounter /\ writing' \in Seq(Event)
    BY <1>5 DEF rollover, TypeOK
  <2>3. DOMAIN logs' \subseteq 0..MaxCounter /\ \A n \in DOMAIN logs' : logs'[n] \in Seq(Event)
    BY <1>5 DEF rollover, TypeOK
  <2> QED
    BY <2>1, <2>2, <2>3 DEF TypeOK, Steps
<1>6. ASSUME eliminate PROVE TypeOK' /\ Steps'
  <2>1. UNCHANGED <<prior, now, header, writing, lastCounter, call, issued, restarts>>
    BY <1>6 DEF eliminate
  <2>2. currentDay' \in (0 - Window)..MaxNow
    BY <1>6 DEF eliminate, TypeOK
  <2>3. /\ DOMAIN logs' \subseteq 0..MaxCounter /\ \A n \in DOMAIN logs' : logs'[n] \in Seq(Event)
        /\ DOMAIN currentDist' \subseteq Categories /\ DOMAIN currentUserDist' \subseteq Users
    BY <1>6, NothingEliminated DEF TypeOK
  <2>4. \A c \in DOMAIN currentDist' : currentDist'[c] \in Int
    <3> TAKE c \in DOMAIN currentDist'
    <3>1. currentDist'[c] = Count(currentDist, c)
      BY <1>6, NothingEliminated DEF Count
    <3> QED
      BY <3>1, CountIsInt
  <2>5. ASSUME NEW u \in DOMAIN currentUserDist'
        PROVE  /\ DOMAIN currentUserDist'[u] \subseteq Categories
               /\ \A c \in DOMAIN currentUserDist'[u] : currentUserDist'[u][c] \in Nat
    <3>1. u \in DOMAIN currentUserDist /\ DOMAIN currentUserDist'[u] = DOMAIN currentUserDist[u]
      BY <1>6, NothingEliminated
    <3>2. \A c : Count(Of(currentUserDist', u), c) \in Nat
      BY <1>6, NothingEliminated, UserCountIsNat
    <3>3. \A c \in DOMAIN currentUserDist'[u] :
            Count(Of(currentUserDist', u), c) = currentUserDist'[u][c]
      BY DEF Count, Of
    <3> QED
      BY <3>1, <3>2, <3>3 DEF TypeOK
  <2> QED
    BY <2>1, <2>2, <2>3, <2>4, <2>5 DEF TypeOK, Steps
<1>7. ASSUME Tick PROVE TypeOK' /\ Steps'
  BY <1>7 DEF Tick, interests, log, TypeOK, Steps
<1>8. ASSUME Restart PROVE TypeOK' /\ Steps'
  <2> DEFINE clicks == ClicksAfter(now - Window, Recovered)
             priors == PriorsAfter(now - Window, Recovered)
  <2>1. UNCHANGED <<prior, now, header, writing, logs, issued>>
    BY <1>8 DEF Restart
  <2>2. /\ restarts' \in 0..MaxRestarts /\ lastCounter' \in 0..MaxCounter
        /\ currentDay' \in (0 - Window)..MaxNow
    BY <1>8 DEF Restart, TypeOK
  <2>3. call' = [t \in Threads |-> Idle] /\ Idle.step = "idle"
    BY <1>8 DEF Restart, Idle
  <2>4. \A p \in DOMAIN Recovered : Recovered[p] \in Event
    <3>1. header - 1 \in Int
      BY DEF TypeOK
    <3> QED
      BY <3>1, RecordsOfLogs DEF Recovered
  <2>5. /\ \A p \in clicks : Recovered[p].category \in Categories /\ Recovered[p].user \in Users
        /\ \A p \in priors : Recovered[p].category \in Categories
    BY <2>4, EventsAre DEF ClicksAfter, PriorsAfter
  <2>6. /\ CategoriesOf(Recovered, clicks) \subseteq Categories
        /\ CategoriesOf(Recovered, priors) \subseteq Categories
        /\ {Recovered[p].user : p \in clicks} \subseteq Users
    BY <2>5 DEF CategoriesOf
  <2>7. /\ clicks \subseteq DOMAIN Recovered /\ priors \subseteq DOMAIN Recovered
        /\ IsFiniteSet(DOMAIN Recovered)
        /\ DOMAIN currentDist' = CategoriesOf(Recovered, priors)
        /\ \A c : Count(currentDist', c) = Cardinality(In(Recovered, priors, c))
        /\ DOMAIN currentUserDist' = {Recovered[p].user : p \in clicks}
        /\ \A u \in DOMAIN currentUserDist' :
             DOMAIN currentUserDist'[u] \subseteq CategoriesOf(Recovered, clicks)
        /\ \A u, c : Count(Of(currentUserDist', u), c)
                       = Cardinality(In(Recovered, By(Recovered, clicks, u), c))
    BY <1>8, RestartCounts
  <2> HIDE DEF clicks, priors
  <2>8. /\ \A c : Cardinality(In(Recovered, priors, c)) \in Nat
        /\ \A u, c : Cardinality(In(Recovered, By(Recovered, clicks, u), c)) \in Nat
    <3>1. \A c : In(Recovered, priors, c) \subseteq DOMAIN Recovered
      BY <2>7 DEF In
    <3>2. \A u, c : In(Recovered, By(Recovered, clicks, u), c) \subseteq DOMAIN Recovered
      BY <2>7 DEF In, By
    <3> QED
      BY <2>7, <3>1, <3>2, FS_Subset, FS_CardinalityType
  <2>9. \A c \in DOMAIN currentDist' : currentDist'[c] \in Int
    <3>1. \A c \in DOMAIN currentDist' : currentDist'[c] = Count(currentDist', c)
      BY DEF Count
    <3> QED
      BY <2>7, <2>8, <3>1
  <2>10. ASSUME NEW u \in DOMAIN currentUserDist'
         PROVE  /\ DOMAIN currentUserDist'[u] \subseteq Categories
                /\ \A c \in DOMAIN currentUserDist'[u] : currentUserDist'[u][c] \in Nat
    <3>1. \A c \in DOMAIN currentUserDist'[u] :
            Count(Of(currentUserDist', u), c) = currentUserDist'[u][c]
      BY DEF Count, Of
    <3> QED
      BY <2>6, <2>7, <2>8, <3>1
  <2>11. DOMAIN currentDist' \subseteq Categories /\ DOMAIN currentUserDist' \subseteq Users
    BY <2>6, <2>7
  <2> QED
    BY <2>1, <2>2, <2>3, <2>9, <2>10, <2>11 DEF TypeOK, Steps
<1>9. CASE UNCHANGED vars
  BY <1>9 DEF vars, interests, log, TypeOK, Steps
<1> QED
  BY <1>1, <1>2, <1>3, <1>4, <1>5, <1>6, <1>7, <1>8, <1>9 DEF Next, addClick

-----------------------------------------------------------------------------
(* A category in the prior has been counted there. *)
LEMMA PositiveStep == TypeOK /\ Positive /\ [Next]_vars => Positive'
<1> SUFFICES ASSUME TypeOK, Positive, [Next]_vars PROVE Positive'
  OBVIOUS
<1>1. ASSUME NEW t \in Threads, clickCategory(t) \/ itemCategory(t) PROVE Positive'
  <2>1. PICK e \in Event : \/ currentDist' = currentDist
                           \/ currentDist' = trainCategory(currentDist, e.category, 1)
    BY <1>1 DEF clickCategory, itemCategory, Event
  <2>2. e.category \in Categories
    BY EventsAre
  <2> QED
    BY <2>1, <2>2, TrainCategoryType DEF Positive
<1>2. ASSUME NEW t \in Threads, clickUserCategory(t) \/ write(t) PROVE Positive'
  BY <1>2 DEF clickUserCategory, write, interests, Positive
<1>3. CASE rollover \/ Tick \/ UNCHANGED vars
  BY <1>3 DEF rollover, Tick, vars, interests, Positive
<1>4. CASE eliminate
  <2> SUFFICES ASSUME NEW c \in DOMAIN currentDist' PROVE currentDist'[c] >= 1
    BY DEF Positive
  <2>1. c \in DOMAIN currentDist /\ Count(currentDist', c) = Count(currentDist, c)
    BY <1>4, NothingEliminated
  <2> QED
    BY <2>1 DEF Count, Positive
<1>5. CASE Restart
  <2> DEFINE priors == PriorsAfter(now - Window, Recovered)
  <2> SUFFICES ASSUME NEW c \in DOMAIN currentDist' PROVE currentDist'[c] >= 1
    BY DEF Positive
  <2>1. /\ priors \subseteq DOMAIN Recovered /\ IsFiniteSet(DOMAIN Recovered)
        /\ c \in CategoriesOf(Recovered, priors)
        /\ Count(currentDist', c) = Cardinality(In(Recovered, priors, c))
    BY <1>5, RestartCounts
  <2> HIDE DEF priors
  <2>2. In(Recovered, priors, c) \subseteq DOMAIN Recovered /\ In(Recovered, priors, c) # {}
    BY <2>1 DEF In, CategoriesOf
  <2>3. Cardinality(In(Recovered, priors, c)) \in Nat /\ Cardinality(In(Recovered, priors, c)) # 0
    BY <2>1, <2>2, FS_Subset, FS_CardinalityType, FS_EmptySet
  <2> QED
    BY <2>1, <2>3 DEF Count
<1> QED
  BY <1>1, <1>2, <1>3, <1>4, <1>5 DEF Next, addClick

-----------------------------------------------------------------------------
(* The prior and the users' counts. *)
UserCounts(c) == [u \in Users |-> Count(Of(currentUserDist, u), c)]

(* Every step changes the prior and the sum of the users alike, but for what is pending. *)
LEMMA PriorStep ==
  TypeOK /\ Steps /\ PriorIsSumOfUsers /\ TypeOK' /\ [Next]_vars => PriorIsSumOfUsers'
<1> SUFFICES ASSUME TypeOK, Steps, PriorIsSumOfUsers, TypeOK', [Next]_vars,
                    prior' = 0, NEW c \in Categories
             PROVE  Count(currentDist', c) = Total(UserCounts(c)') + Pending({"user"}, Users, c)'
  BY DEF PriorIsSumOfUsers, UserCounts
<1> USE UserInterestsAssumption
<1>1. prior = 0
  BY DEF Next, addClick, clickCategory, clickUserCategory, itemCategory, write, Begin, rollover,
         eliminate, Tick, Restart, vars
<1>2. Count(currentDist, c) = Total(UserCounts(c)) + Pending({"user"}, Users, c)
  BY <1>1 DEF PriorIsSumOfUsers, UserCounts
<1>3. UserCounts(c) \in [Users -> Nat] /\ Total(UserCounts(c)) \in Nat
  <2>1. UserCounts(c) \in [Users -> Nat]
    BY UserCountIsNat DEF UserCounts
  <2> QED
    BY <2>1, TotalType
<1>4. \A d : Count(currentDist, d) \in Int
  BY CountIsInt
<1>5. ASSUME NEW t \in Threads, addClick(t) \/ itemCategory(t) \/ write(t)
      PROVE  /\ Pending({"user"}, Users, c) \in Nat /\ Pending({"user"}, Users, c)' \in Nat
             /\ Pending({"user"}, Users, c)'
                    + (IF t \in Adding({"user"}, Users, c) THEN 1 ELSE 0)
                  = Pending({"user"}, Users, c)
                    + (IF t \in Adding({"user"}, Users, c)' THEN 1 ELSE 0)
  BY <1>5, ThreadFrame, PendingChange DEF TypeOK
<1>6. ASSUME NEW t \in Threads, clickCategory(t)
      PROVE  Count(currentDist', c) = Total(UserCounts(c)') + Pending({"user"}, Users, c)'
  <2>1. PICK e \in Click :
          /\ Begin(t, e, IF e.time > currentDay THEN "user" ELSE "log")
          /\ currentDist' = IF e.time > currentDay /\ prior = 0
                              THEN trainCategory(currentDist, e.category, 1) ELSE currentDist
          /\ UNCHANGED currentUserDist
    BY <1>6 DEF clickCategory
  <2>2. UserCounts(c)' = UserCounts(c)
    BY <2>1 DEF UserCounts
  <2>3. t \notin Adding({"user"}, Users, c)
    BY <2>1 DEF Begin, Adding, InFlight
  <2>4. call'[t] = [step |-> IF e.time > currentDay THEN "user" ELSE "log", event |-> e]
    BY <2>1 DEF Begin, TypeOK
  <2>5. t \in Adding({"user"}, Users, c)' <=> e.time > currentDay /\ e.category = c
    <3>1. e.kind = "click" /\ e.user \in Users
      BY DEF Click
    <3>2. call'[t].event = e /\ call'[t].step = IF e.time > currentDay THEN "user" ELSE "log"
      BY <2>4
    <3>3. call'[t] # Idle
      BY <3>2 DEF Idle
    <3> QED
      BY <3>1, <3>2, <3>3 DEF Adding, InFlight, ClickOn
  <2>6. Count(currentDist', c) = Count(currentDist, c)
          + IF e.time > currentDay /\ e.category = c THEN 1 ELSE 0
    <3>1. CASE e.time > currentDay
      <4>1. currentDist' = trainCategory(currentDist, e.category, 1)
        BY <1>1, <2>1, <3>1
      <4>2. DOMAIN currentDist' = DOMAIN currentDist \cup {e.category}
            /\ \A d \in DOMAIN currentDist' :
                 currentDist'[d] = Count(currentDist, d) + IF d = e.category THEN 1 ELSE 0
        BY <4>1 DEF trainCategory
      <4>3. Count(currentDist', c) = Count(currentDist, c) + IF c = e.category THEN 1 ELSE 0
        <5>1. CASE c \in DOMAIN currentDist'
          <6>1. Count(currentDist', c) = currentDist'[c]
            BY <5>1 DEF Count
          <6> QED
            BY <4>2, <5>1, <6>1
        <5>2. CASE c \notin DOMAIN currentDist'
          BY <4>2, <5>2 DEF Count
        <5> QED
          BY <5>1, <5>2
      <4> QED
        BY <3>1, <4>3
    <3>2. CASE ~(e.time > currentDay)
      BY <1>4, <2>1, <3>2
    <3> QED
      BY <3>1, <3>2
  <2> QED
    BY <1>2, <1>3, <1>5, <1>6, <2>2, <2>3, <2>5, <2>6 DEF addClick
<1>7. ASSUME NEW t \in Threads, clickUserCategory(t)
      PROVE  Count(currentDist', c) = Total(UserCounts(c)') + Pending({"user"}, Users, c)'
  <2> DEFINE e == call[t].event
  <2>1. /\ call[t].step = "user" /\ t \in InFlight /\ e.kind = "click" /\ e.user \in Users
        /\ e.category \in Categories
    BY <1>7, AtWork, EventsAre DEF clickUserCategory, Steps
  <2>2. t \in Adding({"user"}, Users, c) <=> e.category = c
    BY <2>1 DEF Adding, ClickOn
  <2>3. t \notin Adding({"user"}, Users, c)'
    <3>1. call'[t].step = "log"
      <4>1. call[t] \in [step : {"user", "log"}, event : Event]
        BY <2>1, AtWork
      <4> QED
        BY <1>7, <4>1 DEF clickUserCategory, TypeOK
    <3> QED
      BY <3>1 DEF Adding
  <2>4. currentUserDist' = trainUserCategory(currentUserDist, e.user, e.category, 1)
        /\ currentDist' = currentDist
    BY <1>7 DEF clickUserCategory
  <2> HIDE DEF e
  <2>5. \A u \in Users : UserCounts(c)'[u] = UserCounts(c)[u]
                            + IF u = e.user /\ c = e.category THEN 1 ELSE 0
    BY <2>1, <2>4, TrainUserCounts DEF UserCounts
  <2>6. UserCounts(c)' \in [Users -> Nat]
    <3>1. \A u \in Users : UserCounts(c)'[u] \in Nat
      BY <1>3, <2>5
    <3> QED
      BY <3>1 DEF UserCounts
  <2>7. CASE e.category = c
    <3>1. Total(UserCounts(c)') = Total(UserCounts(c)) + 1
      BY <1>3, <2>1, <2>5, <2>6, <2>7, TotalRaised
    <3> QED
      BY <1>2, <1>3, <1>5, <1>7, <2>2, <2>3, <2>4, <2>7, <3>1 DEF addClick
  <2>8. CASE e.category # c
    <3>1. Total(UserCounts(c)') = Total(UserCounts(c))
      <4>1. \A u \in Users : UserCounts(c)'[u] = UserCounts(c)[u]
        BY <1>3, <2>5, <2>8
      <4> QED
        BY <1>3, <2>6, <4>1, TotalSame
    <3> QED
      BY <1>2, <1>3, <1>5, <1>7, <2>2, <2>3, <2>4, <2>8, <3>1 DEF addClick
  <2> QED
    BY <2>7, <2>8
<1>8. ASSUME NEW t \in Threads, itemCategory(t) \/ write(t)
      PROVE  Count(currentDist', c) = Total(UserCounts(c)') + Pending({"user"}, Users, c)'
  <2>1. currentDist' = currentDist /\ UserCounts(c)' = UserCounts(c)
    BY <1>1, <1>8 DEF itemCategory, write, interests, UserCounts
  <2>2. t \notin Adding({"user"}, Users, c)
    BY <1>8 DEF itemCategory, write, Begin, Adding, InFlight
  <2>3. t \notin Adding({"user"}, Users, c)'
    <3>1. CASE itemCategory(t)
      BY <3>1 DEF itemCategory, Begin, Adding, TypeOK
    <3>2. CASE write(t)
      BY <3>2 DEF write, Adding, InFlight, TypeOK
    <3> QED
      BY <1>8, <3>1, <3>2
  <2> QED
    BY <1>2, <1>3, <1>5, <1>8, <2>1, <2>2, <2>3
<1>9. CASE rollover \/ Tick \/ UNCHANGED vars
  <2>1. UNCHANGED <<currentDist, currentUserDist, call>>
    BY <1>9 DEF rollover, Tick, vars, interests
  <2> QED
    BY <1>2, <2>1 DEF UserCounts, Pending, InFlight
<1>10. CASE eliminate
  <2>1. Count(currentDist', c) = Count(currentDist, c) /\ call' = call
    BY <1>10, NothingEliminated DEF eliminate
  <2>2. UserCounts(c)' = UserCounts(c)
    BY <1>10, NothingEliminated DEF UserCounts
  <2> QED
    BY <1>2, <2>1, <2>2 DEF Pending, InFlight
<1>11. CASE Restart
  <2> DEFINE clicks == ClicksAfter(now - Window, Recovered)
             H == In(Recovered, clicks, c)
             K == [p \in H |-> Recovered[p].user]
  <2>1. \A t \in Threads : call'[t] = Idle
    BY <1>11 DEF Restart
  <2>2. Pending({"user"}, Users, c)' = 0
    BY <2>1, NothingPending
  <2>3. PriorsAfter(now - Window, Recovered) = clicks
    BY <1>1 DEF PriorsAfter, ClicksAfter
  <2>4. /\ clicks \subseteq DOMAIN Recovered /\ IsFiniteSet(DOMAIN Recovered)
        /\ Count(currentDist', c) = Cardinality(In(Recovered, clicks, c))
        /\ \A u : Count(Of(currentUserDist', u), c)
                    = Cardinality(In(Recovered, By(Recovered, clicks, u), c))
    BY <1>11, <2>3, RestartCounts
  <2>5. \A p \in clicks : Recovered[p].user \in Users
    <3>1. header - 1 \in Int
      BY DEF TypeOK
    <3>2. \A p \in DOMAIN Recovered : Recovered[p] \in Event
      BY <3>1, RecordsOfLogs DEF Recovered
    <3> QED
      BY <3>2, EventsAre DEF ClicksAfter
  <2> HIDE DEF clicks
  <2>6. IsFiniteSet(H) /\ K \in [H -> Users]
    BY <2>4, <2>5, FS_Subset DEF In
  <2>7. \A u : In(Recovered, By(Recovered, clicks, u), c) = {p \in H : K[p] = u}
    BY DEF In, By
  <2> HIDE DEF H, K
  <2>8. Total([u \in Users |-> Cardinality({p \in H : K[p] = u})]) = Cardinality(H)
    BY <2>6, TotalOfParts
  <2>9. UserCounts(c)' = [u \in Users |-> Cardinality({p \in H : K[p] = u})]
    BY <2>4, <2>7 DEF UserCounts
  <2>10. Cardinality(H) \in Nat
    BY <2>6, FS_CardinalityType
  <2> QED
    BY <2>2, <2>4, <2>8, <2>9, <2>10 DEF H
<1> QED
  BY <1>6, <1>7, <1>8, <1>9, <1>10, <1>11 DEF Next, addClick

-----------------------------------------------------------------------------
(* What is in the files, and what was issued. *)
Logs(ls, w) == /\ DOMAIN ls \subseteq 0..MaxCounter
               /\ \A n \in DOMAIN ls : ls[n] \in Seq(Event)
               /\ w \in Seq(Event)

(* The records of the files are finitely many. *)
LEMMA RecordsAre ==
  ASSUME NEW ls, NEW w, Logs(ls, w)
  PROVE  /\ IsFiniteSet(Records(ls, w))
         /\ \A q : q \in Records(ls, w) <=>
              \E n, i : /\ q = <<n, i>>
                      /\ \/ n = 0 - 1 /\ i \in DOMAIN w
                         \/ n \in DOMAIN ls /\ i \in DOMAIN ls[n]
         /\ Files(ls, w)[0 - 1] = w
         /\ 0 - 1 \notin DOMAIN ls /\ \A n \in DOMAIN ls : Files(ls, w)[n] = ls[n]
<1> DEFINE F == Files(ls, w)
<1>1. 0 - 1 \notin DOMAIN ls
  BY UserInterestsAssumption DEF Logs
<1>2. /\ DOMAIN F = DOMAIN ls \cup {0 - 1} /\ F[0 - 1] = w
      /\ \A n \in DOMAIN ls : F[n] = ls[n]
  BY <1>1 DEF Files
<1>3. Records(ls, w) = UNION {{n} \X DOMAIN F[n] : n \in DOMAIN F}
  BY DEF Records
<1> HIDE DEF F
<1>4. IsFiniteSet(DOMAIN F)
  <2>1. 0 \in Int /\ MaxCounter \in Int
    BY UserInterestsAssumption
  <2>2. IsFiniteSet(DOMAIN ls)
    BY <2>1, FS_Interval, FS_Subset DEF Logs
  <2> QED
    BY <1>2, <2>2, FS_AddElement
<1>5. \A n \in DOMAIN F : IsFiniteSet(DOMAIN F[n])
  <2> TAKE n \in DOMAIN F
  <2>1. F[n] \in Seq(Event)
    BY <1>2 DEF Logs
  <2>2. DOMAIN F[n] = 1..Len(F[n]) /\ 1 \in Int /\ Len(F[n]) \in Int
    BY <2>1
  <2> QED
    BY <2>2, FS_Interval
<1>6. IsFiniteSet(Records(ls, w))
  <2> DEFINE R == [n \in DOMAIN F |-> DOMAIN F[n]]
  <2>1. \A n \in DOMAIN F : IsFiniteSet(R[n])
    BY <1>5
  <2>2. Records(ls, w) = UNION {{n} \X R[n] : n \in DOMAIN F}
    BY <1>3
  <2> HIDE DEF R
  <2> QED
    BY <1>4, <2>1, <2>2, FiniteRows
<1>7. \A q : q \in Records(ls, w) <=> \E n \in DOMAIN F : \E i \in DOMAIN F[n] : q = <<n, i>>
  BY <1>3
<1>8. ASSUME NEW q
      PROVE  q \in Records(ls, w) <=>
               \E n, i : /\ q = <<n, i>>
                       /\ \/ n = 0 - 1 /\ i \in DOMAIN w
                          \/ n \in DOMAIN ls /\ i \in DOMAIN ls[n]
  BY <1>2, <1>7
<1> QED
  BY <1>1, <1>2, <1>6, <1>8 DEF F

(* A record of a log, or of .writing, with a click of u on c *)
LEMMA StoredAre ==
  ASSUME NEW ls, NEW w, Logs(ls, w), NEW u, NEW c
  PROVE  /\ IsFiniteSet(Stored(ls, w, u, c)) /\ Cardinality(Stored(ls, w, u, c)) \in Nat
         /\ \A q \in Stored(ls, w, u, c) : q = <<q[1], q[2]>>
         /\ 0 - 1 \notin DOMAIN ls
         /\ \A n, i : <<n, i>> \in Stored(ls, w, u, c) <=>
              \/ n = 0 - 1 /\ i \in DOMAIN w /\ ClickOn(w[i], u, c)
              \/ n \in DOMAIN ls /\ i \in DOMAIN ls[n] /\ ClickOn(ls[n][i], u, c)
<1>1. IsFiniteSet(Stored(ls, w, u, c)) /\ Cardinality(Stored(ls, w, u, c)) \in Nat
  BY RecordsAre, FS_Subset, FS_CardinalityType DEF Stored
<1>2. \A q \in Stored(ls, w, u, c) : q = <<q[1], q[2]>>
  BY RecordsAre DEF Stored
<1>3. ASSUME NEW n, NEW i
      PROVE  <<n, i>> \in Stored(ls, w, u, c) <=>
               \/ n = 0 - 1 /\ i \in DOMAIN w /\ ClickOn(w[i], u, c)
               \/ n \in DOMAIN ls /\ i \in DOMAIN ls[n] /\ ClickOn(ls[n][i], u, c)
  <2>1. <<n, i>> \in Records(ls, w) <=> \/ n = 0 - 1 /\ i \in DOMAIN w
                                        \/ n \in DOMAIN ls /\ i \in DOMAIN ls[n]
    BY RecordsAre
  <2>2. <<n, i>> \in Stored(ls, w, u, c)
          <=> <<n, i>> \in Records(ls, w) /\ ClickOn(Files(ls, w)[n][i], u, c)
    BY DEF Stored
  <2>3. /\ n = 0 - 1 => Files(ls, w)[n][i] = w[i] /\ n \notin DOMAIN ls
        /\ n \in DOMAIN ls => Files(ls, w)[n][i] = ls[n][i]
    BY RecordsAre
  <2> QED
    BY <2>1, <2>2, <2>3
<1>4. 0 - 1 \notin DOMAIN ls
  BY RecordsAre
<1> QED
  BY <1>1, <1>2, <1>3, <1>4

(* Every click of a user on a category is counted by ClicksOf, however old. *)
LEMMA IssuedAre ==
  ASSUME NEW events \in Seq(Event), NEW u, NEW c
  PROVE  /\ IsFiniteSet(Issued(events, u, c)) /\ Cardinality(Issued(events, u, c)) \in Nat
         /\ ClicksOf(events, u, c, 0 - MaxNow - Window) = Cardinality(Issued(events, u, c))
<1>1. DOMAIN events = 1..Len(events) /\ 1 \in Int /\ Len(events) \in Int
      /\ \A i \in DOMAIN events : events[i] \in Event
  OBVIOUS
<1>2. IsFiniteSet(DOMAIN events)
  BY <1>1, FS_Interval
<1>3. IsFiniteSet(Issued(events, u, c)) /\ Cardinality(Issued(events, u, c)) \in Nat
  BY <1>2, FS_Subset, FS_CardinalityType DEF Issued
<1>4. \A i \in DOMAIN events : events[i].time > 0 - MaxNow - Window
  BY <1>1, EventsAre, UserInterestsAssumption
<1>5. {i \in DOMAIN events : /\ ClickOn(events[i], u, c)
                             /\ events[i].time > 0 - MaxNow - Window} = Issued(events, u, c)
  BY <1>4 DEF Issued
<1> QED
  BY <1>3, <1>5 DEF ClicksOf

(* One more event in a log or in what is issued: one more click, if it is one. *)
LEMMA IssuedOneMore ==
  ASSUME NEW events \in Seq(Event), NEW e \in Event, NEW u, NEW c
  PROVE  Cardinality(Issued(Append(events, e), u, c))
           = Cardinality(Issued(events, u, c)) + IF ClickOn(e, u, c) THEN 1 ELSE 0
<1> DEFINE n == Len(events) + 1
<1>1. /\ n \notin DOMAIN events /\ DOMAIN Append(events, e) = DOMAIN events \cup {n}
      /\ Append(events, e)[n] = e
      /\ \A i \in DOMAIN events : Append(events, e)[i] = events[i]
  OBVIOUS
<1>2. /\ n \notin Issued(events, u, c)
      /\ IsFiniteSet(Issued(events, u, c)) /\ Cardinality(Issued(events, u, c)) \in Nat
  BY <1>1, IssuedAre DEF Issued
<1> HIDE DEF n
<1>3. CASE ClickOn(e, u, c)
  <2>1. Issued(Append(events, e), u, c) = Issued(events, u, c) \cup {n}
    BY <1>1, <1>3 DEF Issued
  <2> QED
    BY <1>2, <1>3, <2>1, FS_AddElement
<1>4. CASE ~ClickOn(e, u, c)
  <2>1. Issued(Append(events, e), u, c) = Issued(events, u, c)
    BY <1>1, <1>4 DEF Issued
  <2> QED
    BY <1>2, <1>4, <2>1
<1> QED
  BY <1>3, <1>4

(* One more event in .writing: one more click in the files, if it is one. *)
LEMMA StoredOneMore ==
  ASSUME NEW ls, NEW w, Logs(ls, w), NEW e \in Event, NEW u, NEW c
  PROVE  Cardinality(Stored(ls, Append(w, e), u, c))
           = Cardinality(Stored(ls, w, u, c)) + IF ClickOn(e, u, c) THEN 1 ELSE 0
<1> DEFINE n == Len(w) + 1
           A == Stored(ls, w, u, c)
           B == Stored(ls, Append(w, e), u, c)
<1>1. /\ n \notin DOMAIN w /\ DOMAIN Append(w, e) = DOMAIN w \cup {n}
      /\ Append(w, e)[n] = e
      /\ \A i \in DOMAIN w : Append(w, e)[i] = w[i]
      /\ Append(w, e) \in Seq(Event)
  BY DEF Logs
<1>2. Logs(ls, Append(w, e))
  BY <1>1 DEF Logs
<1>3. /\ \A q \in A : q = <<q[1], q[2]>>
      /\ \A q \in B : q = <<q[1], q[2]>>
      /\ IsFiniteSet(A) /\ Cardinality(A) \in Nat
  BY <1>2, StoredAre
<1>4. \A m, i : <<m, i>> \in B <=> <<m, i>> \in A \/ (m = 0 - 1 /\ i = n /\ ClickOn(e, u, c))
  <2> TAKE m, i
  <2> USE <1>2
  <2>1. <<m, i>> \in A <=> \/ m = 0 - 1 /\ i \in DOMAIN w /\ ClickOn(w[i], u, c)
                           \/ m \in DOMAIN ls /\ i \in DOMAIN ls[m] /\ ClickOn(ls[m][i], u, c)
    BY StoredAre
  <2>2. <<m, i>> \in B <=>
          \/ m = 0 - 1 /\ i \in DOMAIN Append(w, e) /\ ClickOn(Append(w, e)[i], u, c)
          \/ m \in DOMAIN ls /\ i \in DOMAIN ls[m] /\ ClickOn(ls[m][i], u, c)
    BY StoredAre
  <2> HIDE DEF n, A, B
  <2> QED
    BY <1>1, <2>1, <2>2
<1>5. <<0 - 1, n>> \notin A
  <2>1. 0 - 1 \notin DOMAIN ls
    BY StoredAre
  <2> QED
    BY <1>1, <2>1, StoredAre
<1> HIDE DEF n, A, B
<1>6. CASE ClickOn(e, u, c)
  <2>1. B = A \cup {<<0 - 1, n>>}
    BY <1>3, <1>4, <1>6
  <2> QED
    BY <1>3, <1>5, <1>6, <2>1, FS_AddElement DEF A, B
<1>7. CASE ~ClickOn(e, u, c)
  <2>1. B = A
    BY <1>3, <1>4, <1>7
  <2> QED
    BY <1>3, <1>7, <2>1 DEF A, B
<1> QED
  BY <1>6, <1>7

(* A rollover renames .writing, over a log or not: no click is stored twice. *)
LEMMA StoredMoved ==
  ASSUME NEW ls, NEW w, Logs(ls, w), NEW n \in 0..MaxCounter, NEW u, NEW c, NEW new,
         DOMAIN new = DOMAIN ls \cup {n}, new[n] = w,
         \A m \in DOMAIN ls : m # n => new[m] = ls[m]
  PROVE  /\ Logs(new, <<>>)
         /\ Cardinality(Stored(new, <<>>, u, c)) <= Cardinality(Stored(ls, w, u, c))
<1> DEFINE A == Stored(ls, w, u, c)
           B == Stored(new, <<>>, u, c)
           f == [q \in B |-> IF q[1] = n THEN <<0 - 1, q[2]>> ELSE q]
<1>1. /\ DOMAIN new = DOMAIN ls \cup {n} /\ new[n] = w
      /\ \A m \in DOMAIN ls : m # n => new[m] = ls[m]
  OBVIOUS
<1>2. Logs(new, <<>>)
  BY <1>1 DEF Logs
<1>3. /\ IsFiniteSet(A) /\ IsFiniteSet(B)
      /\ \A q \in B : q = <<q[1], q[2]>>
  BY <1>2, StoredAre
<1>4. \A m, i : <<m, i>> \in B =>
        \/ m = n /\ i \in DOMAIN w /\ ClickOn(w[i], u, c)
        \/ m # n /\ m # 0 - 1 /\ <<m, i>> \in A
  <2> TAKE m, i
  <2> HAVE <<m, i>> \in B
  <2>1. DOMAIN <<>> = {} /\ 0 - 1 \notin DOMAIN new
    BY <1>2, StoredAre
  <2>2. m # 0 - 1 /\ m \in DOMAIN new /\ i \in DOMAIN new[m] /\ ClickOn(new[m][i], u, c)
    BY <1>2, <2>1, StoredAre
  <2>3. CASE m = n
    BY <1>1, <2>2, <2>3
  <2>4. CASE m # n
    <3>1. m \in DOMAIN ls /\ i \in DOMAIN ls[m] /\ ClickOn(ls[m][i], u, c)
      BY <1>1, <2>2, <2>4
    <3> QED
      BY <2>2, <2>4, <3>1, StoredAre
  <2> QED
    BY <2>3, <2>4
<1>5. \A i : i \in DOMAIN w /\ ClickOn(w[i], u, c) => <<0 - 1, i>> \in A
  BY StoredAre
<1> HIDE DEF A, B
<1>6. \A q \in B :
        \/ q[1] = n /\ f[q] = <<0 - 1, q[2]>> /\ f[q] \in A
        \/ q[1] # n /\ q[1] # 0 - 1 /\ f[q] = q /\ f[q] \in A
  <2> TAKE q \in B
  <2>1. q = <<q[1], q[2]>> /\ f[q] = IF q[1] = n THEN <<0 - 1, q[2]>> ELSE q
    BY <1>3
  <2>2. \/ q[1] = n /\ q[2] \in DOMAIN w /\ ClickOn(w[q[2]], u, c)
        \/ q[1] # n /\ q[1] # 0 - 1 /\ q \in A
    BY <1>4, <2>1
  <2> HIDE DEF f
  <2> QED
    BY <1>5, <2>1, <2>2
<1>7. DOMAIN f = B
  OBVIOUS
<1> HIDE DEF f
<1>8. \A q \in B, r \in B : f[q] = f[r] => q = r
  <2> TAKE q \in B, r \in B
  <2> HAVE f[q] = f[r]
  <2>1. q = <<q[1], q[2]>> /\ r = <<r[1], r[2]>>
    BY <1>3
  <2>2. /\ \/ q[1] = n /\ f[q] = <<0 - 1, q[2]>>
           \/ q[1] # n /\ q[1] # 0 - 1 /\ f[q] = <<q[1], q[2]>>
        /\ \/ r[1] = n /\ f[r] = <<0 - 1, r[2]>>
           \/ r[1] # n /\ r[1] # 0 - 1 /\ f[r] = <<r[1], r[2]>>
    BY <1>6, <2>1
  <2> DEFINE a == 0 - 1
             q1 == q[1]
             q2 == q[2]
             r1 == r[1]
             r2 == r[2]
  <2>3. /\ \/ q1 = n /\ f[q] = <<a, q2>>
           \/ q1 # n /\ q1 # a /\ f[q] = <<q1, q2>>
        /\ \/ r1 = n /\ f[r] = <<a, r2>>
           \/ r1 # n /\ r1 # a /\ f[r] = <<r1, r2>>
    BY <2>2
  <2> HIDE DEF a, q1, q2, r1, r2
  <2>4. q1 = r1 /\ q2 = r2
    BY <2>3
  <2> QED
    BY <2>1, <2>4 DEF q1, q2, r1, r2
<1>9. f \in Injection(B, A)
  <2>1. f \in [B -> A]
    <3>1. \A q \in B : f[q] \in A
      BY <1>6
    <3>2. f = [q \in B |-> f[q]]
      BY <1>7 DEF f
    <3> QED
      BY <3>1, <3>2
  <2> QED
    BY <1>8, <2>1 DEF Injection, IsInjective
<1>10. Cardinality(B) <= Cardinality(A)
  BY <1>3, <1>9, FS_Injection
<1> QED
  BY <1>2, <1>10 DEF A, B

-----------------------------------------------------------------------------
(* The files hold no click more often than it was given: every step. *)
LEMMA KeptStep == TypeOK /\ Kept /\ TypeOK' /\ [Next]_vars => Kept'
<1> SUFFICES ASSUME TypeOK, Kept, TypeOK', [Next]_vars, NEW u \in Users, NEW c \in Categories
             PROVE  Cardinality(Stored(logs', writing', u, c))
                      <= Cardinality(Issued(issued', u, c))
  BY DEF Kept
<1>1. Cardinality(Stored(logs, writing, u, c)) <= Cardinality(Issued(issued, u, c))
  BY DEF Kept
<1>2. Logs(logs, writing) /\ issued \in Seq(Event)
  BY DEF Logs, TypeOK
<1>3. /\ Cardinality(Stored(logs, writing, u, c)) \in Nat
      /\ Cardinality(Issued(issued, u, c)) \in Nat
  BY <1>2, StoredAre, IssuedAre
<1>4. ASSUME NEW t \in Threads, write(t)
      PROVE  Cardinality(Stored(logs', writing', u, c)) <= Cardinality(Issued(issued', u, c))
  <2> DEFINE e == call[t].event
  <2>1. e \in Event
    BY <1>4, AtWork DEF write
  <2>2. logs' = logs /\ writing' = Append(writing, e) /\ issued' = Append(issued, e)
    BY <1>4 DEF write
  <2> HIDE DEF e
  <2>3. /\ Cardinality(Stored(logs, Append(writing, e), u, c))
             = Cardinality(Stored(logs, writing, u, c)) + IF ClickOn(e, u, c) THEN 1 ELSE 0
        /\ Cardinality(Issued(Append(issued, e), u, c))
             = Cardinality(Issued(issued, u, c)) + IF ClickOn(e, u, c) THEN 1 ELSE 0
    BY <1>2, <2>1, StoredOneMore, IssuedOneMore
  <2> QED
    BY <1>1, <1>3, <2>2, <2>3
<1>5. CASE rollover
  <2>1. /\ logs' = [n \in DOMAIN logs \cup {lastCounter} |->
                     IF n = lastCounter THEN writing ELSE logs[n]]
        /\ writing' = <<>> /\ issued' = issued /\ lastCounter \in 0..MaxCounter
    BY <1>5 DEF rollover, TypeOK
  <2> DEFINE new == logs'
  <2>5. /\ DOMAIN new = DOMAIN logs \cup {lastCounter} /\ new[lastCounter] = writing
        /\ \A m \in DOMAIN logs : m # lastCounter => new[m] = logs[m]
    BY <2>1
  <2> HIDE DEF new
  <2>6. /\ Logs(new, <<>>)
        /\ Cardinality(Stored(new, <<>>, u, c)) <= Cardinality(Stored(logs, writing, u, c))
    BY <1>2, <2>1, <2>5, StoredMoved
  <2>2. /\ Logs(logs', <<>>)
        /\ Cardinality(Stored(logs', <<>>, u, c)) <= Cardinality(Stored(logs, writing, u, c))
    BY <2>6 DEF new
  <2>3. Cardinality(Stored(logs', <<>>, u, c)) \in Nat
    BY <2>2, StoredAre
  <2> QED
    BY <1>1, <1>3, <2>1, <2>2, <2>3
<1>6. ASSUME NEW t \in Threads, addClick(t) \/ itemCategory(t)
      PROVE  UNCHANGED <<logs, writing, issued>>
  BY <1>6 DEF addClick, clickCategory, clickUserCategory, itemCategory, Begin, log
<1>7. CASE Tick \/ Restart \/ UNCHANGED vars
  BY <1>1, <1>7 DEF Tick, Restart, vars, log
<1>8. CASE eliminate
  <2>1. DOMAIN logs' = DOMAIN logs /\ \A n \in DOMAIN logs : logs'[n] = logs[n]
    BY <1>8, NothingEliminated
  <2>2. UNCHANGED <<writing, issued>>
    BY <1>8 DEF eliminate
  <2>3. Files(logs', writing') = Files(logs, writing)
    BY <2>1, <2>2 DEF Files
  <2>4. Stored(logs', writing', u, c) = Stored(logs, writing, u, c)
    BY <2>3 DEF Stored, Records
  <2> QED
    BY <1>1, <2>2, <2>4
<1> QED
  BY <1>1, <1>4, <1>5, <1>6, <1>7, <1>8 DEF Next

-----------------------------------------------------------------------------
(* No click is counted twice. *)

(* The clicks a restart counts for a user and a category are each in a record of
   a log of its own, since the iterator visits no log twice. *)
LEMMA RestartWithinFiles ==
  ASSUME TypeOK, NEW u, NEW c, NEW clicks, clicks = ClicksAfter(now - Window, Recovered)
  PROVE  Cardinality(In(Recovered, By(Recovered, clicks, u), c))
           <= Cardinality(Stored(logs, writing, u, c))
<1> DEFINE H == In(Recovered, By(Recovered, clicks, u), c)
           A == Stored(logs, writing, u, c)
           counters == Iterator(header - 1)
           f == [p \in H |-> <<counters[p[1]], p[2]>>]
<1>1. header - 1 \in Int /\ Window \in Nat /\ Logs(logs, writing)
  BY UserInterestsAssumption DEF TypeOK, Logs
<1>2. /\ IsFiniteSet(DOMAIN Recovered)
      /\ \A p \in DOMAIN Recovered :
           /\ p = <<p[1], p[2]>> /\ p[1] \in 1..Window
           /\ counters[p[1]] \in DOMAIN logs /\ p[2] \in DOMAIN logs[counters[p[1]]]
           /\ Recovered[p] = logs[counters[p[1]]][p[2]]
  BY <1>1, RecordsOfLogs DEF Recovered
<1>3. \A p \in H : p \in DOMAIN Recovered /\ ClickOn(Recovered[p], u, c)
  BY DEF In, By, ClicksAfter, ClickOn
<1>4. \A j \in 1..Window, k \in 1..Window : counters[j] = counters[k] => j = k
  BY <1>1 DEF Iterator
<1> HIDE DEF counters, H
<1>5. IsFiniteSet(H)
  BY <1>2, <1>3, FS_Subset
<1>6. IsFiniteSet(A)
  BY <1>1, StoredAre
<1>7. ASSUME NEW p \in H PROVE <<counters[p[1]], p[2]>> \in A
  <2>1. /\ counters[p[1]] \in DOMAIN logs /\ p[2] \in DOMAIN logs[counters[p[1]]]
        /\ ClickOn(logs[counters[p[1]]][p[2]], u, c)
    BY <1>2, <1>3
  <2> QED
    BY <1>1, <2>1, StoredAre
<1>8. ASSUME NEW p \in H, NEW q \in H, <<counters[p[1]], p[2]>> = <<counters[q[1]], q[2]>>
      PROVE  p = q
  <2>1. /\ p = <<p[1], p[2]>> /\ q = <<q[1], q[2]>>
        /\ p[1] \in 1..Window /\ q[1] \in 1..Window
    BY <1>2, <1>3
  <2>2. p[1] = q[1] /\ p[2] = q[2]
    BY <1>4, <1>8, <2>1
  <2> QED
    BY <2>1, <2>2
<1> HIDE DEF A
<1>9. f \in Injection(H, A)
  <2>1. f \in [H -> A]
    BY <1>7
  <2>2. ASSUME NEW p \in H, NEW q \in H, f[p] = f[q] PROVE p = q
    BY <1>8, <2>2
  <2> HIDE DEF f
  <2> QED
    BY <2>1, <2>2 DEF Injection, IsInjective
<1>10. Cardinality(H) <= Cardinality(A)
  BY <1>5, <1>6, <1>9, FS_Injection
<1> QED
  BY <1>10 DEF H, A

(* Every step: what raises a user's count is issued, or about to be. *)
LEMMA OverStep ==
  TypeOK /\ Steps /\ Kept /\ NeverOvercounted /\ TypeOK' /\ [Next]_vars => NeverOvercounted'
<1> SUFFICES ASSUME TypeOK, Steps, Kept, NeverOvercounted, TypeOK', [Next]_vars
             PROVE  NeverOvercounted'
  OBVIOUS
<1>0. /\ issued' \in Seq(Event)
      /\ \A v, d : ClicksOf(issued', v, d, 0 - MaxNow - Window) = Cardinality(Issued(issued', v, d))
  <2>1. issued' \in Seq(Event)
    BY DEF TypeOK
  <2> QED
    BY <2>1, IssuedAre
<1> SUFFICES ASSUME NEW u \in Users, NEW c \in Categories
             PROVE  Count(Of(currentUserDist', u), c)
                      <= Cardinality(Issued(issued', u, c)) + Pending({"log"}, {u}, c)'
  BY <1>0 DEF NeverOvercounted
<1> DEFINE n == Count(Of(currentUserDist, u), c)
           k == Cardinality(Issued(issued, u, c))
           p == Pending({"log"}, {u}, c)
<1>1. issued \in Seq(Event) /\ n \in Nat /\ k \in Nat /\ n <= k + p
  <2>1. issued \in Seq(Event) /\ n \in Nat
    BY UserCountIsNat DEF TypeOK
  <2>2. k \in Nat /\ ClicksOf(issued, u, c, 0 - MaxNow - Window) = k
    BY <2>1, IssuedAre
  <2> QED
    BY <2>1, <2>2 DEF NeverOvercounted
<1>2. ASSUME NEW t \in Threads, addClick(t) \/ itemCategory(t) \/ write(t)
      PROVE  /\ p \in Nat /\ p' \in Nat
             /\ p' + (IF t \in Adding({"log"}, {u}, c) THEN 1 ELSE 0)
                  = p + (IF t \in Adding({"log"}, {u}, c)' THEN 1 ELSE 0)
  BY <1>2, ThreadFrame, PendingChange DEF TypeOK
<1>3. ASSUME NEW t \in Threads, clickCategory(t) \/ itemCategory(t)
      PROVE  n' <= Cardinality(Issued(issued', u, c)) + p'
  <2>1. UNCHANGED <<currentUserDist, issued>>
    BY <1>3 DEF clickCategory, itemCategory, Begin
  <2>2. t \notin Adding({"log"}, {u}, c)
    BY <1>3 DEF clickCategory, itemCategory, Begin, Adding, InFlight
  <2> DEFINE q == p'
             m == n'
             over == Cardinality(Issued(issued', u, c))
             before == t \in Adding({"log"}, {u}, c)
             after == t \in Adding({"log"}, {u}, c)'
  <2>3. /\ p \in Nat /\ q \in Nat
        /\ q + (IF before THEN 1 ELSE 0) = p + (IF after THEN 1 ELSE 0)
    BY <1>2, <1>3 DEF addClick
  <2>4. m = n /\ over = k
    BY <2>1
  <2>5. ~before
    BY <2>2
  <2>6. n \in Nat /\ k \in Nat /\ n <= k + p
    BY <1>1
  <2> HIDE DEF n, k, p, q, m, over, before, after
  <2>7. m <= over + q
    BY <2>3, <2>4, <2>5, <2>6
  <2> QED
    BY <2>7 DEF m, over, q, n, p
<1>4. ASSUME NEW t \in Threads, clickUserCategory(t)
      PROVE  n' <= Cardinality(Issued(issued', u, c)) + p'
  <2> DEFINE e == call[t].event
  <2>1. /\ call[t].step = "user" /\ t \in InFlight /\ e.kind = "click" /\ e.user \in Users
        /\ e.category \in Categories
    BY <1>4, AtWork, EventsAre DEF clickUserCategory, Steps
  <2>2. t \notin Adding({"log"}, {u}, c)
    BY <2>1 DEF Adding
  <2>3. t \in Adding({"log"}, {u}, c)' <=> u = e.user /\ c = e.category
    <3>1. call[t] \in [step : {"user", "log"}, event : Event] /\ DOMAIN call = Threads
      BY <2>1, AtWork DEF TypeOK
    <3>2. call'[t].step = "log" /\ call'[t].event = e
      BY <1>4, <3>1 DEF clickUserCategory
    <3>3. call'[t] # Idle
      BY <3>2 DEF Idle
    <3> HIDE DEF e
    <3> QED
      BY <2>1, <3>2, <3>3 DEF Adding, InFlight, ClickOn
  <2>4. /\ currentUserDist' = trainUserCategory(currentUserDist, e.user, e.category, 1)
        /\ issued' = issued
    BY <1>4 DEF clickUserCategory
  <2> HIDE DEF e
  <2>5. n' = n + IF u = e.user /\ c = e.category THEN 1 ELSE 0
    BY <2>1, <2>4, TrainUserCounts
  <2> DEFINE q == p'
             m == n'
             over == Cardinality(Issued(issued', u, c))
             before == t \in Adding({"log"}, {u}, c)
             after == t \in Adding({"log"}, {u}, c)'
  <2>6. /\ p \in Nat /\ q \in Nat
        /\ q + (IF before THEN 1 ELSE 0) = p + (IF after THEN 1 ELSE 0)
    BY <1>2, <1>4 DEF addClick
  <2>7. over = k
    BY <2>4
  <2>8. /\ p \in Nat /\ q \in Nat
        /\ q = p + (IF u = e.user /\ c = e.category THEN 1 ELSE 0)
    <3>1. ~before /\ (after <=> u = e.user /\ c = e.category)
      BY <2>2, <2>3
    <3> HIDE DEF p, q, before, after
    <3> QED
      BY <2>6, <3>1
  <2>9. m = n + IF u = e.user /\ c = e.category THEN 1 ELSE 0
    BY <2>5
  <2>10. n \in Nat /\ k \in Nat /\ n <= k + p
    BY <1>1
  <2> HIDE DEF n, k, p, q, m, over
  <2>11. m <= over + q
    BY <2>7, <2>8, <2>9, <2>10
  <2> QED
    BY <2>11 DEF m, over, q, n, p
<1>5. ASSUME NEW t \in Threads, write(t)
      PROVE  n' <= Cardinality(Issued(issued', u, c)) + p'
  <2> DEFINE e == call[t].event
  <2>1. e \in Event /\ call[t].step = "log" /\ t \in InFlight
    BY <1>5, AtWork DEF write
  <2>2. t \in Adding({"log"}, {u}, c) <=> ClickOn(e, u, c)
    BY <2>1 DEF Adding
  <2>3. t \notin Adding({"log"}, {u}, c)'
    BY <1>5 DEF write, Adding, InFlight, TypeOK
  <2>4. issued' = Append(issued, e) /\ currentUserDist' = currentUserDist
    BY <1>5 DEF write, interests
  <2> HIDE DEF e
  <2>5. Cardinality(Issued(issued', u, c)) = k + IF ClickOn(e, u, c) THEN 1 ELSE 0
    BY <1>1, <2>1, <2>4, IssuedOneMore
  <2> DEFINE q == p'
             m == n'
             over == Cardinality(Issued(issued', u, c))
             before == t \in Adding({"log"}, {u}, c)
             after == t \in Adding({"log"}, {u}, c)'
  <2>6. /\ p \in Nat /\ q \in Nat
        /\ q + (IF before THEN 1 ELSE 0) = p + (IF after THEN 1 ELSE 0)
    BY <1>2, <1>5
  <2>7. m = n
    BY <2>4
  <2>8. /\ p \in Nat /\ q \in Nat
        /\ q + (IF ClickOn(e, u, c) THEN 1 ELSE 0) = p
    <3>1. ~after /\ (before <=> ClickOn(e, u, c))
      BY <2>2, <2>3
    <3> HIDE DEF p, q, before, after
    <3> QED
      BY <2>6, <3>1
  <2>9. over = k + IF ClickOn(e, u, c) THEN 1 ELSE 0
    BY <2>5
  <2>10. n \in Nat /\ k \in Nat /\ n <= k + p
    BY <1>1
  <2> HIDE DEF n, k, p, q, m, over
  <2>11. m <= over + q
    BY <2>7, <2>8, <2>9, <2>10
  <2> QED
    BY <2>11 DEF m, over, q, n, p
<1>6. CASE rollover \/ Tick \/ UNCHANGED vars
  <2>1. UNCHANGED <<currentUserDist, issued, call>>
    BY <1>6 DEF rollover, Tick, vars, interests
  <2> QED
    BY <1>1, <2>1 DEF Pending, InFlight
<1>7. CASE eliminate
  <2>1. UNCHANGED <<issued, call>> /\ n' = n
    BY <1>7, NothingEliminated DEF eliminate
  <2>2. p' = p
    BY <2>1 DEF Pending, InFlight
  <2> QED
    BY <1>1, <2>1, <2>2
<1>8. CASE Restart
  <2> DEFINE clicks == ClicksAfter(now - Window, Recovered)
  <2>1. \A t \in Threads : call'[t] = Idle
    BY <1>8 DEF Restart
  <2>2. p' = 0 /\ issued' = issued
    BY <1>8, <2>1, NothingPending DEF Restart
  <2>3. n' = Cardinality(In(Recovered, By(Recovered, clicks, u), c))
    BY <1>8, RestartCounts
  <2>4. n' <= Cardinality(Stored(logs, writing, u, c))
    BY <2>3, RestartWithinFiles
  <2>5. Cardinality(Stored(logs, writing, u, c)) <= k
    BY DEF Kept
  <2>6. Cardinality(Stored(logs, writing, u, c)) \in Nat /\ n' \in Nat
    <3>1. Logs(logs, writing)
      BY DEF TypeOK, Logs
    <3>2. Cardinality(Stored(logs, writing, u, c)) \in Nat
      BY <3>1, StoredAre
    <3>3. header - 1 \in Int
      BY DEF TypeOK
    <3>4. IsFiniteSet(In(Recovered, By(Recovered, clicks, u), c))
      BY <3>3, RecordsOfLogs, FS_Subset DEF Recovered, In, By, ClicksAfter
    <3> QED
      BY <2>3, <3>2, <3>4, FS_CardinalityType
  <2> DEFINE m == n'
             stored == Cardinality(Stored(logs, writing, u, c))
  <2>7. m \in Nat /\ k \in Nat /\ stored \in Nat /\ m <= stored /\ stored <= k
    BY <1>1, <2>4, <2>5, <2>6
  <2> HIDE DEF k, m, stored
  <2>8. m <= k + 0
    BY <2>7
  <2> QED
    BY <2>2, <2>8 DEF k, m
<1> QED
  BY <1>3, <1>4, <1>5, <1>6, <1>7, <1>8 DEF Next, addClick

-----------------------------------------------------------------------------
(* The theorems. *)

(* The program starts with nothing counted, stored or issued. *)
LEMMA InitInvariant == Init => IInv
<1> SUFFICES ASSUME Init PROVE IInv
  OBVIOUS
<1>1. TypeOK
  <2>1. /\ currentDay \in (0 - Window)..MaxNow /\ now \in 0..MaxNow /\ header \in 0..MaxCounter
        /\ lastCounter \in 0..MaxCounter /\ restarts \in 0..MaxRestarts
    BY UserInterestsAssumption DEF Init
  <2>2. call \in [Threads -> {Idle} \cup [step : {"user", "log"}, event : Event]]
    BY DEF Init
  <2>3. /\ DOMAIN currentDist = {} /\ DOMAIN currentUserDist = {} /\ DOMAIN logs = {}
        /\ writing = <<>> /\ issued = <<>> /\ prior \in {0, 1}
    BY DEF Init, Cleared, NoDist
  <2>4. writing \in Seq(Event) /\ issued \in Seq(Event)
    BY <2>3
  <2> QED
    BY <2>1, <2>2, <2>3, <2>4 DEF TypeOK
<1>2. \A t \in Threads : call[t] = Idle /\ Idle.step = "idle"
  BY DEF Init, Idle
<1>3. Steps
  BY <1>2 DEF Steps
<1>4. /\ \A d : Count(currentDist, d) = 0
      /\ \A v, d : Count(Of(currentUserDist, v), d) = 0
  BY DEF Init, Cleared, NoDist, Count, Of
<1>5. Positive
  BY DEF Init, Cleared, NoDist, Positive
<1>6. \A steps, us, d : Pending(steps, us, d) = 0
  <2> TAKE steps, us, d
  <2>1. InFlight = {}
    BY <1>2 DEF InFlight
  <2>2. Pending(steps, us, d) = Cardinality({})
    BY <2>1 DEF Pending
  <2> QED
    BY <2>2, FS_EmptySet
<1>7. Kept
  <2> SUFFICES ASSUME NEW u \in Users, NEW c \in Categories
               PROVE  Cardinality(Stored(logs, writing, u, c)) <= Cardinality(Issued(issued, u, c))
    BY DEF Kept
  <2>1. Logs(logs, writing) /\ DOMAIN logs = {} /\ DOMAIN writing = {} /\ DOMAIN issued = {}
    BY <1>1 DEF Init, Logs, TypeOK
  <2>2. Stored(logs, writing, u, c) = {}
    <3>1. \A n, i : <<n, i>> \notin Stored(logs, writing, u, c)
      BY <2>1, StoredAre
    <3>2. \A q \in Stored(logs, writing, u, c) : q = <<q[1], q[2]>>
      BY <2>1, StoredAre
    <3> QED
      BY <3>1, <3>2
  <2>3. Issued(issued, u, c) = {}
    BY <2>1 DEF Issued
  <2> QED
    BY <2>2, <2>3, FS_EmptySet
<1>8. PriorIsSumOfUsers
  <2> SUFFICES ASSUME NEW c \in Categories PROVE Total(UserCounts(c)) = 0
    BY <1>4, <1>6 DEF PriorIsSumOfUsers, UserCounts
  <2>1. \A u \in Users : UserCounts(c)[u] = 0
    BY <1>4 DEF UserCounts
  <2>2. DOMAIN UserCounts(c) = Users
    BY DEF UserCounts
  <2>3. \A u \in Users : 1..UserCounts(c)[u] = {}
    BY <2>1
  <2>4. Total(UserCounts(c)) = Cardinality({})
    BY <2>2, <2>3 DEF Total
  <2> QED
    BY <2>4, FS_EmptySet
<1>9. NeverOvercounted
  <2>1. issued \in Seq(Event)
    BY <1>1 DEF TypeOK
  <2>2. \A u, c : /\ ClicksOf(issued, u, c, 0 - MaxNow - Window) = Cardinality(Issued(issued, u, c))
                  /\ Cardinality(Issued(issued, u, c)) \in Nat
    BY <2>1, IssuedAre
  <2> QED
    BY <1>4, <1>6, <2>2 DEF NeverOvercounted
<1> QED
  BY <1>1, <1>3, <1>5, <1>7, <1>8, <1>9 DEF IInv

(* Every state of the interests satisfies the invariant. *)
THEOREM Invariance == Spec => []IInv
<1>1. Init => IInv
  BY InitInvariant
<1>2. IInv /\ [Next]_vars => IInv'
  BY TypeStep, PositiveStep, PriorStep, KeptStep, OverStep DEF IInv
<1> QED
  BY <1>1, <1>2, PTL DEF Spec

(* The counts, the logs and the calls keep their types. *)
THEOREM TypeCorrect == Spec => []TypeOK
<1>1. IInv => TypeOK
  BY DEF IInv
<1> QED
  BY <1>1, Invariance, PTL

(* With the option 0, the prior of a category is what the users clicked on it,
   and the clicks that a thread has between the two counts, for any number of
   users, threads, rollovers and restarts. *)
THEOREM PriorIsSum == Spec => []PriorIsSumOfUsers
<1>1. IInv => PriorIsSumOfUsers
  BY DEF IInv
<1> QED
  BY <1>1, Invariance, PTL

(* However often the process restarts, a user's count never exceeds the user's
   clicks: the iterator takes no log twice and a rollover makes no record two. *)
THEOREM NeverOver == Spec => []NeverOvercounted
<1>1. IInv => NeverOvercounted
  BY DEF IInv
<1> QED
  BY <1>1, Invariance, PTL

(* No query divides by a prior of zero: a category in the prior was counted
   there at least once and no elimination takes anything back. *)
THEOREM WeightsAreFinite == Spec => []WeightsFinite
<1>1. IInv => WeightsFinite
  <2> SUFFICES ASSUME TypeOK, Positive, NEW u \in Users, NEW c \in Categories
               PROVE  queryUserCurrentInterests(u)[c].prior > 0
    BY DEF IInv, WeightsFinite
  <2>1. CASE c \in DOMAIN currentDist /\ c \in DOMAIN currentUserDist[u]
    <3>1. queryUserCurrentInterests(u)[c].prior = currentDist[c]
      BY <2>1 DEF queryUserCurrentInterests
    <3> QED
      BY <2>1, <3>1 DEF Positive, TypeOK
  <2>2. CASE ~(c \in DOMAIN currentDist /\ c \in DOMAIN currentUserDist[u])
    <3>1. queryUserCurrentInterests(u)[c].prior = 1
      BY <2>2 DEF queryUserCurrentInterests, Default
    <3> QED
      BY <3>1
  <2> QED
    BY <2>1, <2>2
<1> QED
  BY <1>1, Invariance, PTL
=============================================================================
