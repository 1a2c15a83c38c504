------------------------------ MODULE MCBreaker ------------------------------
(* The circuit breaker on small instances. *)
EXTENDS CircuitBreaker
=============================================================================
