--------------------------- MODULE MCCircuitBreakerClaims ---------------------------
(* Three callers: two retry once, one is a resilient_section.              *)
EXTENDS CircuitBreakerClaims, TLC

CONSTANTS t1, t2, t3

MCTask == {t1, t2, t3}
MCAttempts == (t1 :> 2) @@ (t2 :> 2) @@ (t3 :> 1)
=============================================================================
