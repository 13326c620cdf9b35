------------------------------ MODULE Journal ------------------------------
(***************************************************************************)
(* What a PeriodicLog promises its owner (DistTable): a record whose write *)
(* was acknowledged stays in the live part until a rollover hands it, with *)
(* everything else that is live, to a numbered log.  A crash, a restart    *)
(* and a half-done recovery are invisible at this level.  The promise ends *)
(* when the recovery meets a failure whose status the code drops.          *)
(***************************************************************************)
CONSTANT Records

VARIABLES live,     \* acknowledged records not handed to a numbered log yet
          rolled,   \* records that some rollover handed to a numbered log
          acked,    \* records whose write returned OK
          damaged   \* a dropped failure has voided the promise

vars == <<live, rolled, acked, damaged>>

Init == /\ live = {}
        /\ rolled = {}
        /\ acked = {}
        /\ damaged = FALSE

Append(r) == /\ r \notin acked
             /\ live' = live \cup {r}
             /\ acked' = acked \cup {r}
             /\ UNCHANGED <<rolled, damaged>>

Roll == /\ rolled' = rolled \cup live
        /\ live' = {}
        /\ UNCHANGED <<acked, damaged>>

Damage == damaged' = TRUE

Next == \/ \E r \in Records : Append(r)
        \/ Roll
        \/ Damage

Spec == Init /\ [][Next]_vars

(***************************************************************************)
(* No acknowledged record is lost and none is in two places.               *)
(***************************************************************************)
KeptOnce == ~damaged => /\ acked = live \cup rolled
                        /\ live \cap rolled = {}
=============================================================================
