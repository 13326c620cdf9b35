--------------------------- MODULE MCCenterQuery ---------------------------
(* A center of two process threads and one flush thread; a client reports five
   articles of the two there are. *)
EXTENDS CenterQuery

CONSTANTS a1, a2

MCReported == {<<a1, a2, a1, a2, a1>>}
=============================================================================
