---------------------------- MODULE Recommender ----------------------------
(***************************************************************************)
(* What the center promises its users, whatever threads, locks, queues and *)
(* files it keeps the promise with: each user has a list of articles; a    *)
(* request takes articles from its front, and each leaves the list with    *)
(* the request that takes it; a request's articles are shown only when the *)
(* candidate has been told of them, and the candidate forgets nothing.  A  *)
(* refill replaces the list, an expiry drops it, and requests may be lost. *)
(***************************************************************************)
EXTENDS Naturals, Sequences, SequencesExt

CONSTANTS Calls, Users, Articles, None

VARIABLES list,   \* per user, what is left to recommend
          hand,   \* per call, the user and the articles it has taken
          told,   \* per user, what the candidate knows
          shown   \* per user, what was shown

vars == <<list, hand, told, shown>>

Nobody == [user |-> None, list |-> <<>>]

Init == /\ list = [u \in Users |-> <<>>]
        /\ hand = [c \in Calls |-> Nobody]
        /\ told = [u \in Users |-> {}]
        /\ shown = [u \in Users |-> {}]

Refill == /\ \E u \in Users : /\ list'[u] \in Seq(Articles)
                             /\ list' = [list EXCEPT ![u] = list'[u]]
          /\ UNCHANGED <<hand, told, shown>>

First(u, k) == SubSeq(list[u], 1, k)
Leave(u, k) == list' = [list EXCEPT ![u] = SubSeq(@, k + 1, Len(@))]

Take(c) == /\ hand[c] = Nobody
           /\ \E u \in Users : \E k \in 1..Len(list[u]) :
                /\ Leave(u, k)
                /\ hand' = [hand EXCEPT ![c] = [user |-> u, list |-> First(u, k)]]
           /\ UNCHANGED <<told, shown>>

(* an expiry, or articles lost on the way to the request *)
Drop == /\ \E u \in Users : \E k \in 1..Len(list[u]) : Leave(u, k)
        /\ UNCHANGED <<hand, told, shown>>

Tell == /\ \E u \in Users, S \in SUBSET Articles : told' = [told EXCEPT ![u] = @ \cup S]
        /\ UNCHANGED <<list, hand, shown>>

Show(c) == /\ hand[c] # Nobody
           /\ ToSet(hand[c].list) \subseteq told[hand[c].user]
           /\ shown' = [shown EXCEPT ![hand[c].user] = @ \cup ToSet(hand[c].list)]
           /\ hand' = [hand EXCEPT ![c] = Nobody]
           /\ UNCHANGED <<list, told>>

Lose == /\ hand' = [c \in Calls |-> Nobody]
        /\ UNCHANGED <<list, told, shown>>

Next == \/ Refill \/ Drop \/ Tell \/ Lose
        \/ \E c \in Calls : Take(c) \/ Show(c)

Spec == Init /\ [][Next]_vars
=============================================================================
