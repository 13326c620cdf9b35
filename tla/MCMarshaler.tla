---------------------------- MODULE MCMarshaler ----------------------------
(* One call of marshal() over a few lists of weights. *)
EXTENDS Marshaler

(* even, steep, one weight of 0, too short for the top, nothing but zeros *)
SomeTrends == {<<25, 25, 25, 25>>, <<60, 20, 15, 5>>, <<40, 35, 25, 0>>,
               <<30, 25, 20, 15, 10>>, <<100>>, <<0, 0, 0, 0>>}

AllDraws == {0, 20, 40, 60, 80, 99}
=============================================================================
