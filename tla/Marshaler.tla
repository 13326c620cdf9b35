----------------------------- MODULE Marshaler -----------------------------
(***************************************************************************)
(* core/marshaler.cpp: marshal() spreads T categories drawn by weight so   *)
(* that a category does not come again within the next N.  The first TOPT  *)
(* are the heaviest; then each is drawn among the categories that are      *)
(* neither among the last N (mask, a ring) nor, within a round of P draws, *)
(* drawn before (flags).                                                   *)
(*                                                                         *)
(* Weights are integers that add up to 100, so that a sum of shares v*100  *)
(* against a draw r is, multiplied by the free weight, one comparison of   *)
(* integers: rounding of doubles is left out.  A category is its index in  *)
(* trends plus one.  There are at most 100 of them: total_flags (line 15)  *)
(* has no room for more and nothing checks it; the shipped                 *)
(* configuration lists 13.                                                 *)
(***************************************************************************)
EXTENDS Integers, Sequences, FiniteSets, FiniteSetsExt, Functions

CONSTANTS Trends,    \* the weights a call may be given: sequences, falling
          R1, R2,    \* marshaler_r1 and r2, in hundredths
          Topt, PMin, N,     \* marshaler_topt, marshaler_p, marshaler_n
          Requests,  \* the numbers of categories asked for
          Draws      \* what dist_ may return: numbers in 0..99

ASSUME MarshalerAssumption ==
  /\ N \in Nat \ {0} /\ Topt \in Nat \ {0} /\ PMin \in Nat \ {0}
  /\ R1 \in 0..99 /\ R2 \in 0..99
  /\ \A s \in Trends : s \in Seq(Nat) /\ s # <<>> /\ Len(s) <= 100
  /\ Requests \subseteq Nat
  /\ Draws \subseteq 0..99

VARIABLES
  trends,    \* the argument
  T,         \* the number asked for
  results,
  flags,     \* trend_flags, as the set of categories whose flag is 1
  mask,      \* the ring of the categories that came last
  g,         \* how many entries mask has been given
  k,         \* index of the next of the top, then number of draws
  phase,     \* "top", "draw", "returned"; "overrun": trends[k] does not exist
  round      \* history: the draws since the last round of P began or nothing was left

vars == <<trends, T, results, flags, mask, g, k, phase, round>>

Categories == DOMAIN trends
Weight(S) == SumFunctionOnSet(trends, S)
UpTo(n) == {c \in Categories : c <= n}

(* lines 58-63 and 65-70: how many categories it takes to get over r, one
   more than there are if they never do, but at least the option *)
reach(r, least) ==
  LET over == {c \in Categories : Weight(UpTo(c)) > r}
      n    == IF over = {} THEN Len(trends) + 1 ELSE Min(over)
  IN  IF n > least THEN n ELSE least

TOPT == reach(R1, Topt)
P == reach(R2, PMin)

Init == /\ trends \in Trends
        /\ T \in Requests
        /\ results = <<>> /\ flags = {}
        /\ mask = [n \in 0..(N - 1) |-> 1]
        /\ g = 0 /\ k = 0
        /\ phase = "top" /\ round = {}

(* results.push_back(trends[c]); mask[g%N] = c *)
Push(c) == /\ results' = Append(results, c)
           /\ mask' = [mask EXCEPT ![g % N] = c]
           /\ g' = g + 1

(* mutant: k is counted before it is used for the mask *)
pushTopNext == /\ phase = "top"
               /\ Len(results) < TOPT
               /\ k < Len(trends)
               /\ Push(k + 2)
               /\ flags' = flags \cup {k + 1}
               /\ k' = k + 1
               /\ UNCHANGED <<trends, T, phase, round>>

pushTop == /\ phase = "top"
           /\ Len(results) < TOPT
           /\ k < Len(trends)
           /\ Push(k + 1)
           /\ flags' = flags \cup {k + 1}
           /\ k' = k + 1
           /\ UNCHANGED <<trends, T, phase, round>>

(* the top is longer than the list: reading past it is undefined *)
pushOverrun == /\ phase = "top"
               /\ Len(results) < TOPT
               /\ k >= Len(trends)
               /\ phase' = "overrun"
               /\ UNCHANGED <<trends, T, results, flags, mask, g, k, round>>

topDone == /\ phase = "top"
           /\ Len(results) >= TOPT
           /\ phase' = "draw"
           /\ k' = 0 /\ flags' = {}
           /\ UNCHANGED <<trends, T, results, mask, g, round>>

-----------------------------------------------------------------------------
(* selectInteresting: 0, for -1, when no category is left *)

Taken == flags \cup Range(mask)

selectInteresting(r) ==
  LET free == Categories \ Taken
      hit  == {c \in free : r * Weight(free) < 100 * Weight(UpTo(c) \cap free)}
  IN  IF hit = {} THEN 0 ELSE Min(hit)

(* the draws of this round, once one more is made *)
Round == IF k % P = 0 THEN {k + 1} ELSE round \cup {k + 1}

(* mutant: the ring is indexed by the draws, not by the entries *)
drawRing(r) == /\ phase = "draw"
               /\ Len(results) < T
               /\ selectInteresting(r) # 0
               /\ results' = Append(results, selectInteresting(r))
               /\ mask' = [mask EXCEPT ![k % N] = selectInteresting(r)]
               /\ g' = g + 1
               /\ k' = k + 1
               /\ flags' = IF k' % P = 0 THEN {} ELSE flags \cup {selectInteresting(r)}
               /\ round' = Round
               /\ UNCHANGED <<trends, T, phase>>

draw(r) == /\ phase = "draw"
           /\ Len(results) < T
           /\ selectInteresting(r) # 0
           /\ Push(selectInteresting(r))
           /\ k' = k + 1
           /\ flags' = IF k' % P = 0 THEN {} ELSE flags \cup {selectInteresting(r)}
           /\ round' = Round
           /\ UNCHANGED <<trends, T, phase>>

(* mutant: the flags stay when nothing is left *)
drawNothingKeeps(r) == /\ phase = "draw"
                       /\ Len(results) < T
                       /\ selectInteresting(r) = 0
                       /\ UNCHANGED vars

drawNothing(r) == /\ phase = "draw"
                  /\ Len(results) < T
                  /\ selectInteresting(r) = 0
                  /\ flags' = {} /\ round' = {}
                  /\ UNCHANGED <<trends, T, results, mask, g, k, phase>>

return == /\ phase = "draw"
          /\ Len(results) >= T
          /\ phase' = "returned"
          /\ UNCHANGED <<trends, T, results, flags, mask, g, k, round>>

Next == \/ pushTop \/ pushOverrun \/ topDone \/ return
        \/ \E r \in Draws : draw(r) \/ drawNothing(r)

(* one call in one thread: it always takes its next step *)
Spec == Init /\ [][Next]_vars /\ WF_vars(Next)

-----------------------------------------------------------------------------
TypeOK == /\ \A n \in DOMAIN results : results[n] \in Categories
          /\ flags \subseteq Categories
          /\ mask \in [0..(N - 1) -> Categories]
          /\ g = Len(results) /\ k \in 0..g
          /\ phase \in {"top", "draw", "returned", "overrun"}

(* A category never comes again within the next N ("the least gap between
   categories in the shuffle", conf/content_based.conf:47), not at the seam
   between the top and the draws either, where k starts again and flags is
   cleared but g and mask go on.  Nor does it within a round of P draws, though
   the mask only reaches N back: unless there was nothing left, flags is cleared
   only every P draws. *)
MinGap == /\ \A i, j \in DOMAIN results : i < j /\ j <= i + N => results[i] # results[j]
          /\ \A i, j \in round : i # j => results[TOPT + i] # results[TOPT + j]

(* With more weighted categories than the mask holds, marshal() returns: the
   draw that finds nothing clears the flags and the next one finds one. *)
Weighted == {c \in Categories : trends[c] > 0}
Returns == Cardinality(Weighted) > N /\ Len(trends) >= TOPT => <>(phase = "returned")

=============================================================================
