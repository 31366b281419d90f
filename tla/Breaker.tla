------------------------------- MODULE Breaker -------------------------------
(***************************************************************************)
(* One circuit breaker of resilience.py (_BreakerState) as a value and the *)
(* operators its callers apply to it.  Every method of _BreakerState runs  *)
(* under its asyncio.Lock and awaits nothing inside, so each operator is   *)
(* one atomic step of whoever calls it.                                    *)
(*                                                                         *)
(* Two exact abstractions keep a breaker finite.  `failures` is only ever  *)
(* compared with failure_threshold and reset to 0, so it saturates at      *)
(* Threshold.  `opened_at` is only ever compared with the clock through    *)
(* elapsed < recovery_timeout, so the model keeps the elapsed time (`age`) *)
(* and saturates it at Recovery.                                           *)
(***************************************************************************)
EXTENDS Naturals

CONSTANTS Threshold,  \* failure_threshold
          Recovery,   \* recovery_timeout, in clock ticks
          NotOpen     \* opened_at is None

ASSUME BreakerAssumption ==
    /\ Threshold \in Nat \ {0}
    /\ Recovery \in Nat \ {0}
    /\ NotOpen \notin Nat

Breaker == [failures : 0..Threshold, age : {NotOpen} \cup 0..Recovery]

Fresh == [failures |-> 0, age |-> NotOpen]

-----------------------------------------------------------------------------
\* The logical state, as breaker_state reports it.
IsClosed(b)   == b.age = NotOpen
IsHalfOpen(b) == b.age = Recovery
IsOpen(b)     == ~IsClosed(b) /\ ~IsHalfOpen(b)

\* Mutant: the comparison in before_call is off by one tick.
AdmitsEarly(b) == IsClosed(b) \/ b.age \in {Recovery - 1, Recovery}

\* before_call returns (TRUE) or raises CircuitOpenError (FALSE).
Admits(b) == ~IsOpen(b)

\* Mutant: a success that answers a half-open probe does not close the breaker.
RecordSuccessIgnoresProbe(b) == IF IsHalfOpen(b) THEN b ELSE Fresh

\* record_success closes the breaker whatever state it was in.
RecordSuccess(b) == Fresh

\* record_failure opens a closed breaker at the threshold.  An open or
\* half-open breaker keeps the opened_at it has.
RecordFailure(b) ==
    LET n == IF b.failures < Threshold THEN b.failures + 1 ELSE Threshold
    IN  [failures |-> n,
         age      |-> IF n = Threshold /\ IsClosed(b) THEN 0 ELSE b.age]

\* Mutant: the recovery timeout closes the breaker instead of half-opening it.
ElapseCloses(b) ==
    IF ~IsOpen(b) THEN b
    ELSE IF b.age + 1 = Recovery THEN Fresh
    ELSE [b EXCEPT !.age = @ + 1]

\* One tick of time.monotonic(), as far as this breaker can tell.
Elapse(b) == IF IsOpen(b) THEN [b EXCEPT !.age = @ + 1] ELSE b
=============================================================================
