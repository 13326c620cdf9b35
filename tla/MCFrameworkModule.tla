-------------------------- MODULE MCFrameworkModule --------------------------
(* A topic of three messages and three clients, one garbled, one whose body
   does not unpack. *)
EXTENDS FrameworkModule

CONSTANTS c1, broken, odd
=============================================================================
