-------------------------- MODULE MCCircuitBreaker --------------------------
(* The circuit breaker shared by a few goroutines, for TLC. *)
EXTENDS CircuitBreaker, TLC

CONSTANTS c1, c2, c3

=============================================================================
