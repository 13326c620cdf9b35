---------------------------- MODULE MCPrediction ----------------------------
EXTENDS Prediction, TLC

MCInOrder == <<1, 2>>

(* Category 1 is in the long-term table and no longer in kCategory: the second
   user's row names no other. *)
MCkCategory == {2}
MCInterests == (1 :> {1, 2}) @@ (2 :> {1})
=============================================================================
