--------------------------- MODULE MCPeriodicLog ---------------------------
(* The write-ahead log on a small instance. *)
EXTENDS PeriodicLog
=============================================================================
