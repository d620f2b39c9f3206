-------------------------- MODULE MCCircuitBreaker --------------------------
(* Instances of CircuitBreaker and BreakerReload for TLC. *)
EXTENDS BreakerReload, TLC

\* Goroutines are interchangeable.
ReqSymmetry == Permutations(Req)
=============================================================================
