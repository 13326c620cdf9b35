--------------------------- MODULE MCContentBased ---------------------------
(* The update calls on a small instance. *)
EXTENDS ContentBased, TLC

CONSTANTS i1, c1, c2

(* One item with two categories, the first of them named twice: the smallest
   loop that can stop half way and that counts a click twice by itself. *)
OneItem == i1 :> <<c1, c2, c1>>
=============================================================================
