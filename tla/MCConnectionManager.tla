-------------------------- MODULE MCConnectionManager --------------------------
(* Model-checking instance of ConnectionManager. *)
EXTENDS ConnectionManager

CONSTANTS c1, c2, c3
=============================================================================
