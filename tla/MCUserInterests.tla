-------------------------- MODULE MCUserInterests --------------------------
(* The current interests on a small instance. *)
EXTENDS UserInterests
=============================================================================
