--------------------------- MODULE MCCircuitBreaker ---------------------------
(* Three overlapping calls, so that a call admitted while CLOSED and a probe *)
(* of an earlier half-open episode can both complete during a later one.     *)
EXTENDS CircuitBreaker
CONSTANTS c1, c2, c3
MCCalls == {c1, c2, c3}
===============================================================================
