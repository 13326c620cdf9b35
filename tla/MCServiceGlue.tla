--------------------------- MODULE MCServiceGlue ---------------------------
(* The timers with an hour of six ticks, a day of two hours, and polls of which
   two in three are held back. *)
EXTENDS ServiceGlue
=============================================================================
