---------------------------- MODULE CircuitBreaker ----------------------------
(***************************************************************************)
(* Concurrent callers of one named breaker of resilience.py.  A caller is  *)
(* a task inside resilient_call (Attempts[t] tries with backoff between    *)
(* them), inside resilient_section (a call with one try and no retry), or  *)
(* accounting by hand through get_breaker (likewise one try).              *)
(*                                                                         *)
(* The tasks interleave at the awaits: the call itself and the backoff     *)
(* sleep.  Everything between two awaits is one action.                    *)
(***************************************************************************)
EXTENDS Breaker

CONSTANTS Task,      \* the callers sharing the breaker
          Attempts   \* max_attempts of each task (1 for resilient_section)

ASSUME TaskAssumption == Attempts \in [Task -> Nat \ {0}]

VARIABLES breaker,   \* the shared _BreakerState
          stage,     \* where each task is: between calls, awaiting fn, sleeping
          attempt,   \* the attempt number of the call in progress
          outcome,   \* how the task's last call ended
          recorded,  \* history: verdicts recorded since the task's last call began
          stale      \* history: tasks whose call was on the wire at the last trip

callsVars == <<breaker, stage, attempt, outcome, recorded, stale>>

\* "cancelled" is a call cancelled while fn runs, "withdrawn" one cancelled
\* while it sleeps between two attempts.
Outcomes == {"none", "returned", "raised", "rejected", "cancelled", "withdrawn"}

CallsTypeOK ==
    /\ breaker \in Breaker
    /\ stage \in [Task -> {"idle", "calling", "backoff"}]
    /\ attempt \in [Task -> Nat]
    /\ \A t \in Task : attempt[t] <= Attempts[t]
    /\ outcome \in [Task -> Outcomes]
    /\ recorded \in [Task -> Nat]
    /\ stale \subseteq Task

CallsInit ==
    /\ breaker = Fresh
    /\ stage = [t \in Task |-> "idle"]
    /\ attempt = [t \in Task |-> 0]
    /\ outcome = [t \in Task |-> "none"]
    /\ recorded = [t \in Task |-> 0]
    /\ stale = {}

Calling == {t \in Task : stage[t] = "calling"}

\* The call of t is over: back to idle with result r.
Finish(t, r) ==
    /\ stage' = [stage EXCEPT ![t] = "idle"]
    /\ outcome' = [outcome EXCEPT ![t] = r]
    /\ attempt' = [attempt EXCEPT ![t] = 0]

\* t records a failure; when that trips the breaker, the other calls on the
\* wire are the ones that were admitted before the trip.
Fail(t) ==
    /\ breaker' = RecordFailure(breaker)
    /\ recorded' = [recorded EXCEPT ![t] = @ + 1]
    /\ stale' = IF IsClosed(breaker) /\ ~IsClosed(breaker')
                THEN Calling \ {t} ELSE stale \ {t}

-----------------------------------------------------------------------------
\* before_call lets the first attempt of a new call through.
Begin(t) ==
    /\ stage[t] = "idle"
    /\ Admits(breaker)
    /\ stage' = [stage EXCEPT ![t] = "calling"]
    /\ attempt' = [attempt EXCEPT ![t] = 1]
    /\ outcome' = [outcome EXCEPT ![t] = "none"]
    /\ recorded' = [recorded EXCEPT ![t] = 0]
    /\ UNCHANGED <<breaker, stale>>

\* Backoff is over and before_call lets the next attempt through.
Retry(t) ==
    /\ stage[t] = "backoff"
    /\ Admits(breaker)
    /\ stage' = [stage EXCEPT ![t] = "calling"]
    /\ attempt' = [attempt EXCEPT ![t] = @ + 1]
    /\ UNCHANGED <<breaker, outcome, recorded, stale>>

\* before_call raises CircuitOpenError, outside the try: nothing is recorded.
\* It may meet a new call or the next attempt of one that was sleeping; only
\* the former starts a history of its own.
Reject(t) ==
    /\ stage[t] \in {"idle", "backoff"}
    /\ ~Admits(breaker)
    /\ Finish(t, "rejected")
    /\ recorded' = [recorded EXCEPT ![t] = IF stage[t] = "idle" THEN 0 ELSE @]
    /\ UNCHANGED <<breaker, stale>>

\* fn returned.
Return(t) ==
    /\ stage[t] = "calling"
    /\ Finish(t, "returned")
    /\ breaker' = RecordSuccess(breaker)
    /\ recorded' = [recorded EXCEPT ![t] = @ + 1]
    /\ stale' = stale \ {t}

\* fn raised a retryable error and attempts are left: sleep, record nothing.
RaiseRetryable(t) ==
    /\ stage[t] = "calling"
    /\ attempt[t] < Attempts[t]
    /\ stage' = [stage EXCEPT ![t] = "backoff"]
    /\ stale' = stale \ {t}
    /\ UNCHANGED <<breaker, attempt, outcome, recorded>>

\* fn raised a retryable error on the last attempt.
RaiseExhausted(t) ==
    /\ stage[t] = "calling"
    /\ attempt[t] >= Attempts[t]
    /\ Finish(t, "raised")
    /\ Fail(t)

\* fn raised PermanentError or any other error outside retry_on: no retry.
RaisePermanent(t) ==
    /\ stage[t] = "calling"
    /\ Finish(t, "raised")
    /\ Fail(t)

\* The task is cancelled while fn runs.  CancelledError is a BaseException
\* outside retry_on, so the breaker counts it as a failure of the host.
CancelCall(t) ==
    /\ stage[t] = "calling"
    /\ Finish(t, "cancelled")
    /\ Fail(t)

\* Mutant: the sleep is inside the try whose handler records a failure.
CancelBackoffRecords(t) ==
    /\ stage[t] = "backoff"
    /\ Finish(t, "withdrawn")
    /\ breaker' = RecordFailure(breaker)
    /\ UNCHANGED <<recorded, stale>>

\* The task is cancelled during asyncio.sleep(delay), which stands in the
\* except clause and so outside the try: nothing is recorded.
CancelBackoff(t) ==
    /\ stage[t] = "backoff"
    /\ Finish(t, "withdrawn")
    /\ UNCHANGED <<breaker, recorded, stale>>

\* Time passes while the breaker is open.
TimePasses ==
    /\ IsOpen(breaker)
    /\ breaker' = Elapse(breaker)
    /\ UNCHANGED <<stage, attempt, outcome, recorded, stale>>

TaskStep(t) ==
    \/ Begin(t) \/ Retry(t) \/ Reject(t)
    \/ Return(t) \/ RaiseRetryable(t) \/ RaiseExhausted(t)
    \/ RaisePermanent(t) \/ CancelCall(t) \/ CancelBackoff(t)

CallsNext == TimePasses \/ \E t \in Task : TaskStep(t)

CallsSpec == CallsInit /\ [][CallsNext]_callsVars

\* Time passes, callers keep calling and waking up, a call that is awaited
\* ends, and a host that is called again and again answers now and then.
CallsFairness ==
    /\ WF_callsVars(TimePasses)
    /\ \A t \in Task :
          /\ WF_callsVars(Begin(t))
          /\ WF_callsVars(Retry(t))
          /\ SF_callsVars(Return(t))

-----------------------------------------------------------------------------
\* The breaker is closed exactly while the failures it has counted since the
\* last success are below the threshold: it is never left closed with a full
\* count (tripping on nothing) nor open with a partial one.
CountMatchesState == IsClosed(breaker) <=> breaker.failures < Threshold

\* While the breaker is open, the only calls on the wire are those admitted
\* before it tripped: fail-fast really keeps new work off a failing host, also
\* for a task that was asleep between two attempts when the breaker tripped.
OpenKeepsNewCallsOff == IsOpen(breaker) => Calling \subseteq stale

\* Since its last call began a task has recorded exactly one verdict if that
\* call returned, raised or was cancelled while fn ran, and none as long as the
\* call is under way, after the breaker refused it, be it mid-retry, and after
\* it was cancelled while asleep between two attempts.
CountedOnce ==
    \A t \in Task :
        recorded[t] = IF outcome[t] \in {"returned", "raised", "cancelled"} THEN 1 ELSE 0

\* The failure count moves only at a step that ends a call whose fn was running
\* and that records the verdict of that call.
VerdictMovesCount ==
    breaker'.failures # breaker.failures =>
        \E t \in Calling : stage'[t] = "idle" /\ recorded'[t] = recorded[t] + 1

\* However many attempts a call makes, it moves the breaker at most once, a call
\* that the breaker itself refused or that was cancelled between two attempts
\* does not move it, and nothing but such a verdict does.
OneVerdictPerCall == []CountedOnce /\ [][VerdictMovesCount]_callsVars

\* What breaker_state reports.
Mode == IF IsClosed(breaker) THEN "closed"
        ELSE IF IsHalfOpen(breaker) THEN "half_open" ELSE "open"

\* Seen through breaker_state and the calls on the wire, the counting breaker
\* is the abstract one.
Contract == INSTANCE BreakerContract WITH mode <- Mode, calls <- Calling
HonoursContract == Contract!Spec

\* A tripped breaker does not stay tripped once the host answers again: some
\* half-open call succeeds and closes it.
Recovers == IsOpen(breaker) ~> IsClosed(breaker)
=============================================================================
