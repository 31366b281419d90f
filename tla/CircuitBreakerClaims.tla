------------------------- MODULE CircuitBreakerClaims -------------------------
(***************************************************************************)
(* What resilience.py says in words of its three states and of half-open   *)
(* probes, stated over CircuitBreaker with a history variable: the calls   *)
(* on the wire that were admitted as probes.                               *)
(***************************************************************************)
EXTENDS CircuitBreaker

VARIABLE probes  \* tasks on the wire that were admitted while half-open

CInit == CallsInit /\ probes = {}

Admitted == IF IsHalfOpen(breaker) THEN Calling' \ Calling ELSE {}

CNext == CallsNext /\ probes' = (probes \cup Admitted) \cap Calling'

cvars == <<callsVars, probes>>

ClaimsSpec == CInit /\ [][CNext]_cvars

-----------------------------------------------------------------------------
\* "We don't move state yet - only on the probe's success/failure"
\* (before_call): a probe that fails takes the breaker out of half-open.
FailedProbeMovesState ==
    [][\A t \in probes : recorded'[t] > recorded[t] => ~IsHalfOpen(breaker')]_cvars

\* "raises CircuitOpenError immediately for recovery_timeout seconds, then
\* half-opens" (module docstring), "CLOSED -> OPEN -> HALF_OPEN -> CLOSED"
\* (_BreakerState): the way out of the open state is the half-open one, so no
\* answer that arrives late closes the breaker before its time.
OpenLastsTheTimeout ==
    [][Mode = "open" => Mode' \in {"open", "half_open"}]_cvars
=============================================================================
