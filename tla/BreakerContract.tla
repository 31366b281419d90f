--------------------------- MODULE BreakerContract ---------------------------
(***************************************************************************)
(* What the circuit breaker promises its callers, without counts or        *)
(* clocks: new calls only while it is not open, it opens only when a call  *)
(* ends badly (a failed probe may open it again), it half-opens by itself, *)
(* and nothing but a call that succeeds closes it.  It leaves open how     *)
(* many probes are out at once, whether a failed probe re-opens it, and    *)
(* from which mode a success closes it; what the code says of the last two *)
(* is CircuitBreakerClaims.                                                *)
(***************************************************************************)
CONSTANTS Task

VARIABLES mode,   \* "closed", "open" or "half_open"
          calls   \* the tasks whose call is on the wire

cvars == <<mode, calls>>

Init == mode = "closed" /\ calls = {}

Admit(t) ==
    /\ mode # "open"
    /\ t \notin calls
    /\ calls' = calls \cup {t}
    /\ mode' = mode

Succeed(t) ==
    /\ t \in calls
    /\ calls' = calls \ {t}
    /\ mode' = "closed"

EndBadly(t) ==
    /\ t \in calls
    /\ calls' = calls \ {t}
    /\ mode' \in {mode, "open"}

HalfOpen ==
    /\ mode = "open"
    /\ mode' = "half_open"
    /\ calls' = calls

Next == HalfOpen \/ \E t \in Task : Admit(t) \/ Succeed(t) \/ EndBadly(t)

Spec == Init /\ [][Next]_cvars
=============================================================================
