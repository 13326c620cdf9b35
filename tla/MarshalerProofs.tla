---------------------------- MODULE MarshalerProofs ----------------------------
(***************************************************************************)
(* Theorems about marshal(), for any weights, options, number of           *)
(* categories asked for and draws.                                         *)
(***************************************************************************)
EXTENDS Marshaler, FiniteSetTheorems, SequenceTheorems, TLAPS

-----------------------------------------------------------------------------
(* The smallest of finitely many numbers is one of them.  (Induction over the
   subsets of S: take the least of the sets {y \in S : y <= x}.) *)
LEMMA MinIsOne ==
  ASSUME NEW S \in SUBSET Nat, IsFiniteSet(S), S # {}
  PROVE  Min(S) \in S
<1> DEFINE Below(x) == {y \in S : y <= x}
           Belows == {Below(x) : x \in S}
<1>1. IsWellFoundedOn(StrictSubsetOrdering(S), SUBSET S)
  BY FS_StrictSubsetOrderingWellFounded, FS_FiniteSubsetsOfFinite
<1>2. PICK U \in Belows : \A V \in Belows : ~(<<V, U>> \in StrictSubsetOrdering(S))
  <2>1. Belows \subseteq SUBSET S /\ Belows # {}
    OBVIOUS
  <2> HIDE DEF Belows
  <2> QED
    BY <1>1, <2>1, WFMin
<1>3. PICK x \in S : U = Below(x)
  OBVIOUS
<1>4. ASSUME NEW y \in S, y < x
      PROVE  FALSE
  <2>1. Below(y) \in SUBSET S /\ U \in SUBSET S /\ Below(y) \subseteq U /\ x \notin Below(y) /\ x \in U
    <3>1. y <= x /\ ~(x <= y) /\ \A z \in S : z <= y => z <= x
      BY <1>4
    <3>2. Below(y) \in SUBSET S /\ Below(x) \in SUBSET S
      OBVIOUS
    <3>3. x \notin Below(y)
      BY <3>1
    <3>4. x \in Below(x)
      OBVIOUS
    <3>5. Below(y) \subseteq Below(x)
      BY <3>1
    <3> HIDE DEF Below
    <3> QED
      BY <1>3, <3>2, <3>3, <3>4, <3>5
  <2>2. <<Below(y), U>> \in StrictSubsetOrdering(S)
    BY <2>1 DEF StrictSubsetOrdering
  <2> QED
    BY <1>2, <2>2
<1>5. \A y \in S : x <= y
  BY <1>4
<1> QED
  BY <1>5 DEF Min

(* Numbers less than n apart have different places in a ring of n. *)
LEMMA RingPlaces ==
  ASSUME NEW n \in Nat \ {0}, NEW a \in Nat, NEW b \in Nat, a < b, b < a + n
  PROVE  /\ a % n \in 0..(n - 1) /\ b % n \in 0..(n - 1)
         /\ a % n # b % n
<1>1. \A c \in Nat : c % n \in 0..(n - 1)
  OBVIOUS
<1>2. \A c \in Nat : (c \div n) \in Nat /\ c = n * (c \div n) + (c % n)
  OBVIOUS
<1>3. ASSUME a % n = b % n
      PROVE  FALSE
  <2> DEFINE p == a \div n
             q == b \div n
  <2>1. p \in Nat /\ q \in Nat /\ a = n * p + (a % n) /\ b = n * q + (b % n)
    BY <1>2
  <2> HIDE DEF p, q
  <2>2. n * p \in Nat /\ n * q \in Nat
    BY <2>1
  <2>3. n * p < n * q /\ n * q < n * p + n
    <3> DEFINE x == n * p
               y == n * q
               m == a % n
    <3>1. x \in Nat /\ y \in Nat /\ m \in Nat /\ a = x + m /\ b = y + m
      BY <1>1, <1>3, <2>1, <2>2
    <3> HIDE DEF x, y, m
    <3>2. x < y /\ y < x + n
      BY <3>1
    <3> QED
      BY <3>2 DEF x, y
  <2>4. CASE q <= p
    <3>1. n * q <= n * p
      BY <2>1, <2>4
    <3> QED
      BY <2>2, <2>3, <3>1
  <2>5. CASE p < q
    <3>1. n * p + n <= n * q
      BY <2>1, <2>5
    <3> QED
      BY <2>2, <2>3, <3>1
  <2> QED
    BY <2>1, <2>4, <2>5
<1> QED
  BY <1>1, <1>3

-----------------------------------------------------------------------------
(* How many of the heaviest come first is a number. *)
LEMMA ReachIsNumber ==
  ASSUME trends \in Seq(Nat), NEW r, NEW least \in Nat
  PROVE  reach(r, least) \in Nat
<1> DEFINE over == {c \in Categories : Weight(UpTo(c)) > r}
           n    == IF over = {} THEN Len(trends) + 1 ELSE Min(over)
<1>1. Len(trends) \in Nat /\ Categories = 1..Len(trends)
  BY LenProperties DEF Categories
<1>2. over \in SUBSET Nat /\ IsFiniteSet(over)
  <2>1. IsFiniteSet(Categories)
    BY <1>1, FS_Interval
  <2> QED
    BY <1>1, <2>1, FS_Subset
<1> HIDE DEF over
<1>3. n \in Nat
  <2>1. over # {} => Min(over) \in Nat
    BY <1>2, MinIsOne
  <2> QED
    BY <1>1, <2>1
<1>4. reach(r, least) = IF n > least THEN n ELSE least
  BY DEF reach, over
<1> HIDE DEF n
<1> QED
  BY <1>3, <1>4

(* What a draw selects is a category that is neither flagged nor in the ring. *)
LEMMA SelectedIsFree ==
  ASSUME trends \in Seq(Nat), NEW r, selectInteresting(r) # 0
  PROVE  selectInteresting(r) \in Categories \ Taken
<1> DEFINE free == Categories \ Taken
           hit  == {c \in free : r * Weight(free) < 100 * Weight(UpTo(c) \cap free)}
<1>1. hit # {} /\ selectInteresting(r) = Min(hit)
  BY DEF selectInteresting
<1>2. hit \in SUBSET Nat /\ IsFiniteSet(hit)
  <2>1. Categories = 1..Len(trends) /\ Len(trends) \in Nat
    BY LenProperties DEF Categories
  <2>2. IsFiniteSet(Categories)
    BY <2>1, FS_Interval
  <2>3. hit \subseteq Categories
    OBVIOUS
  <2> HIDE DEF hit
  <2>4. IsFiniteSet(hit)
    BY <2>2, <2>3, FS_Subset
  <2>5. hit \in SUBSET Nat
    BY <2>1, <2>3
  <2> QED
    BY <2>4, <2>5
<1>3. hit \subseteq free
  OBVIOUS
<1> HIDE DEF hit
<1> QED
  BY <1>1, <1>2, <1>3, MinIsOne

-----------------------------------------------------------------------------
(* The ring holds the last N of the results, each where its position says. *)
Ring == \A n \in DOMAIN results : n + N > g => mask[(n - 1) % N] = results[n]

(* The top is the list's front; then every draw is one result. *)
Seam == IF phase \in {"top", "overrun"}
          THEN /\ k = g /\ g <= TOPT /\ round = {}
               /\ \A n \in DOMAIN results : results[n] = n
          ELSE g = TOPT + k

(* Within a round what was drawn is flagged. *)
Flagged == /\ round \subseteq 1..k
           /\ k % P # 0 => \A i \in round : results[TOPT + i] \in flags

IInv == /\ TypeOK /\ Ring /\ Seam /\ Flagged /\ MinGap
        /\ trends \in Seq(Nat) /\ trends # <<>> /\ results \in Seq(Categories)

(* An entry: the ring keeps the last N, and what is in none of its places is
   none of the N results before. *)
LEMMA PushKeeps ==
  ASSUME TypeOK, Ring, trends \in Seq(Nat), results \in Seq(Categories),
         NEW c \in Categories, Push(c)
  PROVE  /\ results' \in Seq(Categories) /\ Len(results') = g + 1 /\ g' = g + 1
         /\ results'[g + 1] = c /\ \A n \in 1..g : results'[n] = results[n]
         /\ mask' \in [0..(N - 1) -> Categories]
         /\ \A n \in 1..(g + 1) : n + N > g + 1 => mask'[(n - 1) % N] = results'[n]
         /\ c \notin Range(mask) => \A n \in 1..g : n + N > g => results[n] # c
<1>1. /\ g = Len(results) /\ g \in Nat /\ DOMAIN results = 1..g
      /\ mask \in [0..(N - 1) -> Categories] /\ N \in Nat \ {0}
  BY LenProperties, MarshalerAssumption DEF TypeOK
<1>2. /\ results' = Append(results, c) /\ g' = g + 1
      /\ mask' = [mask EXCEPT ![g % N] = c]
  BY DEF Push
<1>3. /\ results' \in Seq(Categories) /\ Len(results') = g + 1
      /\ results'[g + 1] = c /\ \A n \in 1..g : results'[n] = results[n]
  BY <1>1, <1>2, AppendProperties
<1>4. \A n \in Nat : n % N \in 0..(N - 1)
  BY <1>1
<1>5. mask' \in [0..(N - 1) -> Categories]
  BY <1>1, <1>2
<1>6. mask'[g % N] = c
  BY <1>1, <1>2, <1>4
<1>7. ASSUME NEW n \in 1..g, n + N > g
      PROVE  mask[(n - 1) % N] = results[n] /\ (n - 1) % N \in 0..(N - 1)
  <2>1. n - 1 \in Nat /\ n \in DOMAIN results
    BY <1>1
  <2>2. (n - 1) % N \in 0..(N - 1)
    BY <1>4, <2>1
  <2>3. mask[(n - 1) % N] = results[n]
    BY <1>7, <2>1 DEF Ring
  <2> QED
    BY <2>2, <2>3
<1>8. ASSUME NEW n \in 1..g, n + N > g + 1
      PROVE  mask'[(n - 1) % N] = results'[n]
  <2>1. (n - 1) % N # g % N
    <3>1. n - 1 \in Nat /\ n - 1 < g /\ g < (n - 1) + N
      BY <1>1, <1>8
    <3> QED
      BY <1>1, <3>1, RingPlaces
  <2>2. mask[(n - 1) % N] = results[n] /\ (n - 1) % N \in 0..(N - 1)
    BY <1>1, <1>7, <1>8
  <2> QED
    BY <1>1, <1>2, <1>3, <2>1, <2>2
<1>9. \A n \in 1..(g + 1) : n + N > g + 1 => mask'[(n - 1) % N] = results'[n]
  <2> SUFFICES ASSUME NEW n \in 1..(g + 1), n + N > g + 1
               PROVE  mask'[(n - 1) % N] = results'[n]
    OBVIOUS
  <2>1. CASE n = g + 1
    <3>1. n - 1 = g
      BY <1>1, <2>1
    <3> QED
      BY <1>3, <1>6, <2>1, <3>1
  <2>2. CASE n # g + 1
    <3>1. n \in 1..g
      BY <1>1, <2>2
    <3> QED
      BY <1>8, <3>1
  <2> QED
    BY <2>1, <2>2
<1>10. ASSUME c \notin Range(mask), NEW n \in 1..g, n + N > g
       PROVE  results[n] # c
  BY <1>1, <1>7, <1>10 DEF Range
<1> QED
  BY <1>2, <1>3, <1>5, <1>9, <1>10

(* The argument stays, and with it what is computed from it. *)
LEMMA SameTrends ==
  ASSUME UNCHANGED trends
  PROVE  TOPT' = TOPT /\ P' = P /\ Categories' = Categories
BY DEF TOPT, P, reach, UpTo, Weight, Categories

(* What the invariant says in numbers. *)
LEMMA Numbers ==
  ASSUME IInv
  PROVE  /\ TOPT \in Nat /\ N \in Nat \ {0}
         /\ g \in Nat /\ k \in 0..g /\ g = Len(results) /\ DOMAIN results = 1..g
         /\ Len(trends) \in Nat /\ Categories = 1..Len(trends)
<1>1. TOPT \in Nat /\ N \in Nat \ {0}
  BY ReachIsNumber, MarshalerAssumption DEF IInv, TOPT
<1>2. /\ g = Len(results) /\ g \in Nat /\ k \in 0..g /\ DOMAIN results = 1..g
  BY LenProperties DEF IInv, TypeOK
<1>3. Len(trends) \in Nat /\ Categories = 1..Len(trends)
  BY LenProperties DEF IInv, Categories
<1> QED
  BY <1>1, <1>2, <1>3

(* The top: category n is the n-th result. *)
LEMMA TopStep ==
  ASSUME IInv, pushTop
  PROVE  IInv'
<1>0. /\ TOPT \in Nat /\ N \in Nat \ {0}
      /\ g \in Nat /\ k \in 0..g /\ g = Len(results) /\ DOMAIN results = 1..g
      /\ Len(trends) \in Nat /\ Categories = 1..Len(trends)
  BY Numbers
<1>1. /\ phase = "top" /\ g < TOPT /\ k < Len(trends) /\ Push(k + 1)
      /\ flags' = flags \cup {k + 1} /\ k' = k + 1
      /\ UNCHANGED <<trends, phase, round>>
  BY <1>0 DEF pushTop
<1>2. k = g /\ round = {} /\ (\A n \in 1..g : results[n] = n) /\ flags \subseteq Categories
  BY <1>0, <1>1 DEF IInv, Seam, TypeOK
<1>3. k + 1 \in Categories
  BY <1>0, <1>1
<1>4. /\ results' \in Seq(Categories) /\ Len(results') = g + 1 /\ g' = g + 1
      /\ results'[g + 1] = k + 1 /\ \A n \in 1..g : results'[n] = results[n]
      /\ mask' \in [0..(N - 1) -> Categories]
      /\ \A n \in 1..(g + 1) : n + N > g + 1 => mask'[(n - 1) % N] = results'[n]
  BY <1>1, <1>3, PushKeeps DEF IInv
<1>5. TOPT' = TOPT /\ P' = P /\ Categories' = Categories
  BY <1>1, SameTrends
<1>6. DOMAIN results' = 1..(g + 1)
  BY <1>4, LenProperties
<1>7. \A n \in 1..(g + 1) : results'[n] = n
  <2>1. \A n \in 1..(g + 1) : n \in 1..g \/ n = g + 1
    BY <1>0
  <2> QED
    BY <1>2, <1>4, <2>1
<1>8. TypeOK'
  <2>1. \A n \in DOMAIN results' : results'[n] \in Categories
    BY <1>4, <1>6, ElementOfSeq
  <2>2. k' \in 0..g'
    BY <1>0, <1>1, <1>4
  <2>3. flags' \subseteq Categories
    BY <1>1, <1>2, <1>3
  <2> QED
    BY <1>1, <1>4, <1>5, <2>1, <2>2, <2>3 DEF TypeOK
<1>9. Ring'
  BY <1>4, <1>6 DEF Ring
<1>10. Seam'
  <2>1. g' <= TOPT
    BY <1>0, <1>1, <1>4
  <2> QED
    BY <1>1, <1>2, <1>4, <1>5, <1>6, <1>7, <2>1 DEF Seam
<1>11. Flagged' /\ MinGap'
  BY <1>1, <1>2, <1>5, <1>6, <1>7 DEF Flagged, MinGap
<1> QED
  BY <1>1, <1>4, <1>5, <1>8, <1>9, <1>10, <1>11 DEF IInv

(* A draw: over the seam, too, it gives none of the last N, and none of its
   round. *)
LEMMA DrawStep ==
  ASSUME IInv, NEW r \in Draws, draw(r)
  PROVE  IInv'
<1> DEFINE c == selectInteresting(r)
<1>0. /\ TOPT \in Nat /\ N \in Nat \ {0}
      /\ g \in Nat /\ k \in 0..g /\ g = Len(results) /\ DOMAIN results = 1..g
      /\ Len(trends) \in Nat /\ Categories = 1..Len(trends)
  BY Numbers
<1>1. /\ phase = "draw" /\ c # 0 /\ Push(c) /\ k' = k + 1
      /\ flags' = IF k' % P = 0 THEN {} ELSE flags \cup {c}
      /\ round' = IF k % P = 0 THEN {k + 1} ELSE round \cup {k + 1}
      /\ UNCHANGED <<trends, phase>>
  BY DEF draw, Round
<1>2. c \in Categories /\ c \notin flags /\ c \notin Range(mask)
  BY <1>1, SelectedIsFree DEF IInv, Taken
<1> HIDE DEF c
<1>3. g = TOPT + k /\ flags \subseteq Categories
  BY <1>1 DEF IInv, Seam, TypeOK
<1>4. /\ results' \in Seq(Categories) /\ Len(results') = g + 1 /\ g' = g + 1
      /\ results'[g + 1] = c /\ \A n \in 1..g : results'[n] = results[n]
      /\ mask' \in [0..(N - 1) -> Categories]
      /\ \A n \in 1..(g + 1) : n + N > g + 1 => mask'[(n - 1) % N] = results'[n]
      /\ \A n \in 1..g : n + N > g => results[n] # c
  BY <1>1, <1>2, PushKeeps DEF IInv
<1>5. TOPT' = TOPT /\ P' = P /\ Categories' = Categories
  BY <1>1, SameTrends
<1>6. DOMAIN results' = 1..(g + 1)
  BY <1>4, LenProperties
<1>7. TypeOK'
  <2>1. \A n \in DOMAIN results' : results'[n] \in Categories
    BY <1>4, <1>6, ElementOfSeq
  <2>2. k' \in 0..g'
    BY <1>0, <1>1, <1>4
  <2>3. flags' \subseteq Categories
    BY <1>1, <1>2, <1>3
  <2> QED
    BY <1>1, <1>4, <1>5, <2>1, <2>2, <2>3 DEF TypeOK
<1>8. Ring'
  BY <1>4, <1>6 DEF Ring
<1>9. Seam'
  <2>1. g' = TOPT + k'
    BY <1>0, <1>1, <1>3, <1>4
  <2> QED
    BY <1>1, <1>5, <2>1 DEF Seam
<1>10. round \subseteq 1..k /\ (k % P # 0 => \A i \in round : results[TOPT + i] \in flags)
  BY DEF IInv, Flagged
<1>11. ASSUME NEW i \in round
       PROVE  TOPT + i \in 1..g /\ results'[TOPT + i] = results[TOPT + i]
  <2>1. i \in 1..k
    BY <1>10
  <2>2. TOPT + i \in 1..g
    BY <1>0, <1>3, <2>1
  <2> QED
    BY <1>4, <2>2
<1>12. TOPT + (k + 1) = g + 1 /\ k + 1 \notin round
  BY <1>0, <1>3, <1>10
<1>13. ASSUME NEW i \in round' \ {k + 1}
       PROVE  i \in round /\ results'[TOPT + i] \in flags /\ results'[TOPT + i] # c
  <2>1. i \in round /\ k % P # 0
    BY <1>1
  <2> QED
    BY <1>2, <1>10, <1>11, <2>1
<1>14. Flagged'
  <2>1. round' \subseteq 1..k'
    <3>1. round' \subseteq 1..k \cup {k + 1}
      BY <1>1, <1>10
    <3>2. 1..k \cup {k + 1} = 1..(k + 1)
      BY <1>0
    <3> QED
      BY <1>1, <3>1, <3>2
  <2>2. ASSUME k' % P # 0, NEW i \in round'
        PROVE  results'[TOPT + i] \in flags'
    <3>1. flags' = flags \cup {c}
      BY <1>1, <2>2
    <3>2. CASE i = k + 1
      BY <1>4, <1>12, <3>1, <3>2
    <3>3. CASE i # k + 1
      BY <1>13, <3>1, <3>3
    <3> QED
      BY <3>2, <3>3
  <2> QED
    BY <1>5, <2>1, <2>2 DEF Flagged
<1>15. MinGap'
  <2>1. ASSUME NEW i \in 1..(g + 1), NEW j \in 1..(g + 1), i < j, j <= i + N
        PROVE  results'[i] # results'[j]
    <3>1. i \in 1..g
      BY <1>0, <2>1
    <3>2. CASE j = g + 1
      <4>1. i + N > g
        BY <1>0, <2>1, <3>2
      <4> QED
        BY <1>4, <3>1, <3>2, <4>1
    <3>3. CASE j # g + 1
      <4>1. j \in 1..g
        BY <1>0, <3>3
      <4>2. results[i] # results[j]
        BY <1>0, <2>1, <3>1, <4>1 DEF IInv, MinGap
      <4> QED
        BY <1>4, <3>1, <4>1, <4>2
    <3> QED
      BY <3>2, <3>3
  <2>2. ASSUME NEW i \in round', NEW j \in round', i # j
        PROVE  results'[TOPT + i] # results'[TOPT + j]
    <3>1. CASE i = k + 1
      BY <1>4, <1>12, <1>13, <2>2, <3>1
    <3>2. CASE j = k + 1
      BY <1>4, <1>12, <1>13, <2>2, <3>2
    <3>3. CASE i # k + 1 /\ j # k + 1
      <4>1. i \in round /\ j \in round
        BY <1>13, <3>3
      <4>2. results[TOPT + i] # results[TOPT + j]
        BY <2>2, <4>1 DEF IInv, MinGap
      <4> QED
        BY <1>11, <4>1, <4>2
    <3> QED
      BY <3>1, <3>2, <3>3
  <2> QED
    BY <1>5, <1>6, <2>1, <2>2 DEF MinGap
<1> QED
  BY <1>1, <1>4, <1>5, <1>7, <1>8, <1>9, <1>14, <1>15 DEF IInv

(* The steps that enter nothing. *)
LEMMA OtherSteps ==
  ASSUME IInv,
         \/ pushOverrun \/ topDone \/ return
         \/ \E r \in Draws : drawNothing(r)
         \/ UNCHANGED vars
  PROVE  IInv'
<1>0. /\ TOPT \in Nat /\ g \in Nat /\ k \in 0..g /\ g = Len(results)
      /\ TypeOK /\ Ring /\ Seam /\ Flagged /\ MinGap
      /\ trends \in Seq(Nat) /\ trends # <<>> /\ results \in Seq(Categories)
  BY Numbers DEF IInv
<1>1. UNCHANGED <<trends, results, mask, g>>
  BY DEF pushOverrun, topDone, return, drawNothing, vars
<1>2. TOPT' = TOPT /\ P' = P /\ Categories' = Categories
  BY <1>1, SameTrends
<1>3. Ring' /\ trends' \in Seq(Nat) /\ trends' # <<>> /\ results' \in Seq(Categories')
  BY <1>0, <1>1, <1>2 DEF Ring
<1>4. CASE pushOverrun
  <2>1. phase = "top" /\ phase' = "overrun" /\ UNCHANGED <<flags, k, round>>
    BY <1>4 DEF pushOverrun
  <2>2. TypeOK' /\ Seam' /\ Flagged' /\ MinGap'
    BY <1>0, <1>1, <1>2, <2>1 DEF TypeOK, Seam, Flagged, MinGap
  <2> QED
    BY <1>3, <2>2 DEF IInv
<1>5. CASE topDone
  <2>1. /\ phase = "top" /\ phase' = "draw" /\ k' = 0 /\ flags' = {} /\ g >= TOPT
        /\ UNCHANGED round
    BY <1>0, <1>5 DEF topDone
  <2>2. round = {} /\ g <= TOPT
    BY <1>0, <2>1 DEF Seam
  <2>3. g' = TOPT' + k'
    BY <1>0, <1>1, <1>2, <2>1, <2>2
  <2>4. Seam' /\ Flagged' /\ MinGap'
    BY <1>0, <1>1, <1>2, <2>1, <2>2, <2>3 DEF Seam, Flagged, MinGap
  <2>5. TypeOK'
    BY <1>0, <1>1, <1>2, <2>1 DEF TypeOK
  <2> QED
    BY <1>3, <2>4, <2>5 DEF IInv
<1>6. CASE return
  <2>1. phase = "draw" /\ phase' = "returned" /\ UNCHANGED <<flags, k, round>>
    BY <1>6 DEF return
  <2>2. TypeOK' /\ Seam' /\ Flagged' /\ MinGap'
    BY <1>0, <1>1, <1>2, <2>1 DEF TypeOK, Seam, Flagged, MinGap
  <2> QED
    BY <1>3, <2>2 DEF IInv
<1>7. CASE \E r \in Draws : drawNothing(r)
  <2>1. phase = "draw" /\ flags' = {} /\ round' = {} /\ UNCHANGED <<k, phase>>
    BY <1>7 DEF drawNothing
  <2>2. TypeOK' /\ Seam' /\ Flagged' /\ MinGap'
    BY <1>0, <1>1, <1>2, <2>1 DEF TypeOK, Seam, Flagged, MinGap
  <2> QED
    BY <1>3, <2>2 DEF IInv
<1>8. CASE UNCHANGED vars
  <2>1. UNCHANGED <<flags, k, phase, round>>
    BY <1>8 DEF vars
  <2>2. TypeOK' /\ Seam' /\ Flagged' /\ MinGap'
    BY <1>0, <1>1, <1>2, <2>1 DEF TypeOK, Seam, Flagged, MinGap
  <2> QED
    BY <1>3, <2>2 DEF IInv
<1> QED
  BY <1>4, <1>5, <1>6, <1>7, <1>8

-----------------------------------------------------------------------------
(* The ring, the seam between top and draws, what a round has flagged and the
   gaps: what every step of the call keeps. *)
THEOREM Invariance == Spec => []IInv
<1>1. Init => IInv
  <2> SUFFICES ASSUME Init
               PROVE  IInv
    OBVIOUS
  <2>1. trends \in Seq(Nat) /\ trends # <<>> /\ N \in Nat \ {0}
    BY MarshalerAssumption DEF Init
  <2>2. 1 \in Categories
    <3>1. Len(trends) \in Nat /\ Len(trends) # 0 /\ DOMAIN trends = 1..Len(trends)
      BY <2>1, LenProperties, EmptySeq
    <3> QED
      BY <3>1 DEF Categories
  <2>3. results = <<>> /\ Len(results) = 0 /\ DOMAIN results = {} /\ results \in Seq(Categories)
    BY DEF Init
  <2>4. TOPT \in Nat
    BY <2>1, ReachIsNumber, MarshalerAssumption DEF TOPT
  <2>5. mask \in [0..(N - 1) -> Categories]
    BY <2>2 DEF Init
  <2>6. TypeOK
    BY <2>3, <2>5 DEF Init, TypeOK
  <2>7. Ring /\ Seam /\ Flagged /\ MinGap
    BY <2>3, <2>4 DEF Init, Ring, Seam, Flagged, MinGap
  <2> QED
    BY <2>1, <2>3, <2>6, <2>7 DEF IInv
<1>2. IInv /\ [Next]_vars => IInv'
  BY TopStep, DrawStep, OtherSteps DEF Next
<1> QED
  BY <1>1, <1>2, PTL DEF Spec

(* Results, flags, ring and counters keep their types: the ring never holds
   what is not a category, and one place of it is written per result. *)
THEOREM TypeCorrect == Spec => []TypeOK
<1>1. IInv => TypeOK
  BY DEF IInv
<1> QED
  BY <1>1, Invariance, PTL

(* For any weights and draws a category does not come again within N, nor
   within a round of draws. *)
THEOREM GapsKept == Spec => []MinGap
<1>1. IInv => MinGap
  BY DEF IInv
<1> QED
  BY <1>1, Invariance, PTL
================================================================================
