------------------------ MODULE CircuitBreakerProofs ------------------------
(***************************************************************************)
(* Proofs about CircuitBreaker, for every threshold, recovery timeout, set *)
(* of callers and number of attempts.                                      *)
(***************************************************************************)
EXTENDS CircuitBreaker, TLAPS

USE BreakerAssumption, TaskAssumption

\* The operators of Breaker stay inside Breaker, and on a consistent breaker
\* they keep the count and the state in step.
Consistent(b) == IsClosed(b) <=> b.failures < Threshold

LEMMA FreshBreaker == Fresh \in Breaker /\ Consistent(Fresh) /\ IsClosed(Fresh)
BY DEF Fresh, Breaker, Consistent, IsClosed

LEMMA FailureStep ==
    ASSUME NEW b \in Breaker, Consistent(b)
    PROVE  /\ RecordFailure(b) \in Breaker
           /\ Consistent(RecordFailure(b))
           /\ ~IsClosed(b) => RecordFailure(b).age = b.age
           /\ IsClosed(b) => ~IsHalfOpen(RecordFailure(b))
BY DEF RecordFailure, Breaker, Consistent, IsClosed, IsHalfOpen

LEMMA ElapseStep ==
    ASSUME NEW b \in Breaker, Consistent(b), IsOpen(b)
    PROVE  /\ Elapse(b) \in Breaker
           /\ Consistent(Elapse(b))
           /\ ~IsClosed(Elapse(b))
BY DEF Elapse, Breaker, Consistent, IsClosed, IsHalfOpen, IsOpen

-----------------------------------------------------------------------------
\* The inductive invariant: besides the three safety properties it says that a
\* task asleep between attempts has an attempt left, and that a call under way
\* has no outcome yet.
IInv ==
    /\ CallsTypeOK
    /\ CountMatchesState
    /\ OpenKeepsNewCallsOff
    /\ CountedOnce
    /\ \A t \in Task : stage[t] = "backoff" => attempt[t] < Attempts[t]
    /\ \A t \in Task : stage[t] # "idle" => outcome[t] = "none"

LEMMA InitIInv == CallsInit => IInv
BY FreshBreaker
   DEF CallsInit, IInv, CallsTypeOK, Outcomes, CountMatchesState, Consistent, IsOpen,
       OpenKeepsNewCallsOff, CountedOnce, Calling

\* A step in which t records a failure and leaves the wire keeps the breaker
\* consistent and the calls on the wire accounted for.
LEMMA FailKeepsBreaker ==
    ASSUME IInv, NEW t \in Task, Fail(t), stage' = [stage EXCEPT ![t] = "idle"]
    PROVE  /\ breaker' \in Breaker
           /\ CountMatchesState'
           /\ OpenKeepsNewCallsOff'
           /\ stale' \subseteq Task
<1>1. breaker \in Breaker /\ Consistent(breaker)
  BY DEF IInv, CallsTypeOK, CountMatchesState, Consistent
<1>2. breaker' \in Breaker /\ Consistent(breaker')
  BY <1>1, FailureStep DEF Fail
<1>3. CountMatchesState'
  BY <1>2 DEF CountMatchesState, Consistent
<1>4. Calling' = Calling \ {t}
  BY DEF Calling, IInv, CallsTypeOK
<1>5. OpenKeepsNewCallsOff'
  <2>1. CASE IsClosed(breaker)
    <3>1. CASE IsClosed(breaker')
      BY <3>1 DEF OpenKeepsNewCallsOff, IsOpen
    <3>2. CASE ~IsClosed(breaker')
      BY <2>1, <3>2, <1>4 DEF OpenKeepsNewCallsOff, Fail
    <3>3. QED BY <3>1, <3>2
  <2>2. CASE ~IsClosed(breaker)
    <3>1. breaker'.age = breaker.age
      BY <1>1, <2>2, FailureStep DEF Fail
    <3>2. IsOpen(breaker') => IsOpen(breaker)
      BY <3>1 DEF IsOpen, IsClosed, IsHalfOpen
    <3>3. stale' = stale \ {t}
      BY <2>2 DEF Fail
    <3>4. QED BY <1>4, <3>2, <3>3 DEF OpenKeepsNewCallsOff, IInv
  <2>3. QED BY <2>1, <2>2
<1>6. stale' \subseteq Task
  BY DEF Fail, IInv, CallsTypeOK, Calling
<1>7. QED BY <1>2, <1>3, <1>5, <1>6

LEMMA NextIInv == IInv /\ [CallsNext]_callsVars => IInv'
<1> SUFFICES ASSUME IInv, [CallsNext]_callsVars PROVE IInv'
  OBVIOUS
<1> USE DEF IInv
<1>1. ASSUME NEW t \in Task, Begin(t) PROVE IInv'
  <2>1. ~IsOpen(breaker')
    BY <1>1 DEF Begin, Admits
  <2>2. QED BY <1>1, <2>1 DEF Begin, CallsTypeOK, Outcomes, CountMatchesState,
              OpenKeepsNewCallsOff, CountedOnce
<1>2. ASSUME NEW t \in Task, Retry(t) PROVE IInv'
  <2>1. ~IsOpen(breaker')
    BY <1>2 DEF Retry, Admits
  <2>2. QED BY <1>2, <2>1 DEF Retry, CallsTypeOK, Outcomes, CountMatchesState,
              OpenKeepsNewCallsOff, CountedOnce
<1>3. ASSUME NEW t \in Task, Reject(t) PROVE IInv'
  <2>1. Calling' = Calling
    BY <1>3 DEF Reject, Finish, Calling, CallsTypeOK
  <2>2. QED BY <1>3, <2>1 DEF Reject, Finish, CallsTypeOK, Outcomes,
              CountMatchesState, OpenKeepsNewCallsOff, CountedOnce
<1>4. ASSUME NEW t \in Task, Return(t) PROVE IInv'
  <2>1. breaker' \in Breaker /\ CountMatchesState' /\ ~IsOpen(breaker')
    BY <1>4, FreshBreaker
       DEF Return, RecordSuccess, CountMatchesState, Consistent, IsOpen
  <2>2. QED BY <1>4, <2>1 DEF Return, Finish, CallsTypeOK, Outcomes,
              OpenKeepsNewCallsOff, CountedOnce
<1>5. ASSUME NEW t \in Task, RaiseRetryable(t) PROVE IInv'
  <2>1. Calling' = Calling \ {t}
    BY <1>5 DEF RaiseRetryable, Calling, CallsTypeOK
  <2>2. QED BY <1>5, <2>1 DEF RaiseRetryable, CallsTypeOK, Outcomes,
              CountMatchesState, OpenKeepsNewCallsOff, CountedOnce
<1>6. ASSUME NEW t \in Task,
             RaiseExhausted(t) \/ RaisePermanent(t) \/ CancelCall(t)
      PROVE  IInv'
  <2>1. PICK r \in {"raised", "cancelled"} : stage[t] = "calling" /\ Finish(t, r) /\ Fail(t)
    BY <1>6 DEF RaiseExhausted, RaisePermanent, CancelCall
  <2>2. /\ breaker' \in Breaker
        /\ CountMatchesState'
        /\ OpenKeepsNewCallsOff'
        /\ stale' \subseteq Task
    BY <2>1, FailKeepsBreaker DEF Finish
  <2>3. recorded' = [recorded EXCEPT ![t] = @ + 1]
    BY <2>1 DEF Fail
  <2>4. CallsTypeOK'
    BY <2>1, <2>2, <2>3 DEF Finish, CallsTypeOK, Outcomes
  <2>5. CountedOnce'
    BY <2>1, <2>3 DEF Finish, CallsTypeOK, CountedOnce
  <2>6. \A s \in Task : /\ stage'[s] = "backoff" => attempt'[s] < Attempts[s]
                        /\ stage'[s] # "idle" => outcome'[s] = "none"
    BY <2>1 DEF Finish, CallsTypeOK
  <2>7. QED BY <2>2, <2>4, <2>5, <2>6
<1>7. ASSUME NEW t \in Task, CancelBackoff(t) PROVE IInv'
  <2>1. Calling' = Calling
    BY <1>7 DEF CancelBackoff, Finish, Calling, CallsTypeOK
  <2>2. QED BY <1>7, <2>1 DEF CancelBackoff, Finish, CallsTypeOK, Outcomes,
              CountMatchesState, OpenKeepsNewCallsOff, CountedOnce
<1>8. CASE TimePasses
  <2>1. breaker' \in Breaker /\ CountMatchesState'
    BY <1>8, ElapseStep DEF TimePasses, CallsTypeOK, CountMatchesState, Consistent
  <2>2. QED BY <1>8, <2>1 DEF TimePasses, CallsTypeOK, OpenKeepsNewCallsOff,
              CountedOnce, Calling
<1>9. CASE UNCHANGED callsVars
  BY <1>9 DEF callsVars, CallsTypeOK, CountMatchesState, OpenKeepsNewCallsOff,
              CountedOnce, Calling
<1>10. QED
  BY <1>1, <1>2, <1>3, <1>4, <1>5, <1>6, <1>7, <1>8, <1>9 DEF CallsNext, TaskStep

LEMMA InductiveInvariant == CallsSpec => []IInv
<1>1. QED BY InitIInv, NextIInv, PTL DEF CallsSpec

-----------------------------------------------------------------------------
\* Type correctness, whatever the constants.
THEOREM TypeCorrect == CallsSpec => []CallsTypeOK
<1>1. IInv => CallsTypeOK BY DEF IInv
<1>2. QED BY <1>1, InductiveInvariant, PTL

\* The failure count and the open state of _BreakerState never disagree.
THEOREM CountAndStateAgree == CallsSpec => []CountMatchesState
<1>1. IInv => CountMatchesState BY DEF IInv
<1>2. QED BY <1>1, InductiveInvariant, PTL

\* Fail-fast: before_call keeps every new call off an open breaker's host.
THEOREM FailFast == CallsSpec => []OpenKeepsNewCallsOff
<1>1. IInv => OpenKeepsNewCallsOff BY DEF IInv
<1>2. QED BY <1>1, InductiveInvariant, PTL

\* Only the verdict of a call that ends moves the failure count.
LEMMA VerdictStep == IInv /\ [CallsNext]_callsVars => VerdictMovesCount
<1> SUFFICES ASSUME IInv, [CallsNext]_callsVars PROVE VerdictMovesCount
  OBVIOUS
<1>1. ASSUME NEW t \in Task,
             Return(t) \/ RaiseExhausted(t) \/ RaisePermanent(t) \/ CancelCall(t)
      PROVE  VerdictMovesCount
  <2>1. /\ stage[t] = "calling" /\ stage' = [stage EXCEPT ![t] = "idle"]
        /\ recorded' = [recorded EXCEPT ![t] = @ + 1]
    BY <1>1 DEF Return, RaiseExhausted, RaisePermanent, CancelCall, Finish, Fail
  <2>2. t \in Calling /\ stage'[t] = "idle" /\ recorded'[t] = recorded[t] + 1
    BY <2>1 DEF IInv, CallsTypeOK, Calling
  <2>3. QED BY <2>2 DEF VerdictMovesCount
<1>2. ASSUME NEW t \in Task,
             Begin(t) \/ Retry(t) \/ Reject(t) \/ RaiseRetryable(t) \/ CancelBackoff(t)
      PROVE  breaker' = breaker
  BY <1>2 DEF Begin, Retry, Reject, RaiseRetryable, CancelBackoff
<1>3. CASE TimePasses
  BY <1>3, ElapseStep
     DEF TimePasses, Elapse, IInv, CallsTypeOK, CountMatchesState, Consistent, Breaker,
         VerdictMovesCount
<1>4. CASE UNCHANGED callsVars
  BY <1>4 DEF callsVars, VerdictMovesCount
<1>5. QED
  BY <1>1, <1>2, <1>3, <1>4 DEF CallsNext, TaskStep, VerdictMovesCount

\* Retrying never makes one call count twice, and what was refused or cancelled
\* between attempts does not count.
THEOREM RetryCountsOnce == CallsSpec => OneVerdictPerCall
<1>1. IInv => CountedOnce BY DEF IInv
<1>2. QED BY <1>1, InductiveInvariant, VerdictStep, PTL DEF CallsSpec, OneVerdictPerCall
-----------------------------------------------------------------------------
\* One failed call seen by the contract: the mode stays or goes to open, and the
\* call leaves the wire.
LEMMA FailIsEndBadly ==
    ASSUME IInv, NEW t \in Task, stage[t] = "calling", Fail(t),
           stage' = [stage EXCEPT ![t] = "idle"]
    PROVE  Contract!EndBadly(t)
<1>1. breaker \in Breaker /\ Consistent(breaker)
  BY DEF IInv, CallsTypeOK, CountMatchesState, Consistent
<1>2. t \in Calling /\ Calling' = Calling \ {t}
  BY DEF Calling, IInv, CallsTypeOK
<1>3. CASE IsClosed(breaker)
  <2>1. ~IsHalfOpen(breaker')
    BY <1>1, <1>3, FailureStep DEF Fail
  <2>2. Mode = "closed" /\ Mode' \in {"closed", "open"}
    BY <1>3, <2>1 DEF Mode
  <2>3. QED BY <1>2, <2>2 DEF Contract!EndBadly
<1>4. CASE ~IsClosed(breaker)
  <2>1. breaker'.age = breaker.age
    BY <1>1, <1>4, FailureStep DEF Fail
  <2>2. Mode' = Mode
    BY <2>1 DEF Mode, IsClosed, IsHalfOpen
  <2>3. QED BY <1>2, <2>2 DEF Contract!EndBadly
<1>5. QED BY <1>3, <1>4

\* Every step of the counting breaker is a step of the contract or a stutter.
LEMMA StepRefines == IInv /\ [CallsNext]_callsVars => [Contract!Next]_(Contract!cvars)
<1> SUFFICES ASSUME IInv, [CallsNext]_callsVars
             PROVE  Contract!Next \/ UNCHANGED <<Mode, Calling>>
  BY DEF Contract!cvars
<1> USE DEF Contract!Next
<1>1. ASSUME NEW t \in Task, Begin(t) \/ Retry(t) PROVE Contract!Admit(t)
  <2>1. t \notin Calling /\ Calling' = Calling \cup {t}
    BY <1>1 DEF Begin, Retry, Calling, IInv, CallsTypeOK
  <2>2. Mode # "open" /\ Mode' = Mode
    BY <1>1 DEF Begin, Retry, Admits, IsOpen, Mode
  <2>3. QED BY <2>1, <2>2 DEF Contract!Admit
<1>2. ASSUME NEW t \in Task, Reject(t) \/ CancelBackoff(t)
      PROVE  UNCHANGED <<Mode, Calling>>
  BY <1>2 DEF Reject, CancelBackoff, Finish, Mode, Calling, IInv, CallsTypeOK
<1>3. ASSUME NEW t \in Task, Return(t) PROVE Contract!Succeed(t)
  <2>1. t \in Calling /\ Calling' = Calling \ {t}
    BY <1>3 DEF Return, Finish, Calling, IInv, CallsTypeOK
  <2>2. Mode' = "closed"
    BY <1>3, FreshBreaker DEF Return, RecordSuccess, Mode
  <2>3. QED BY <2>1, <2>2 DEF Contract!Succeed
<1>4. ASSUME NEW t \in Task, RaiseRetryable(t) PROVE Contract!EndBadly(t)
  <2>1. t \in Calling /\ Calling' = Calling \ {t}
    BY <1>4 DEF RaiseRetryable, Calling, IInv, CallsTypeOK
  <2>2. Mode' = Mode
    BY <1>4 DEF RaiseRetryable, Mode
  <2>3. QED BY <2>1, <2>2 DEF Contract!EndBadly
<1>5. ASSUME NEW t \in Task,
             RaiseExhausted(t) \/ RaisePermanent(t) \/ CancelCall(t)
      PROVE  Contract!EndBadly(t)
  BY <1>5, FailIsEndBadly
     DEF RaiseExhausted, RaisePermanent, CancelCall, Finish
<1>6. ASSUME TimePasses PROVE Contract!HalfOpen \/ UNCHANGED <<Mode, Calling>>
  <2>1. Mode = "open" /\ Mode' \in {"open", "half_open"}
    BY <1>6, ElapseStep
       DEF TimePasses, Mode, IsOpen, IInv, CallsTypeOK, CountMatchesState, Consistent
  <2>2. Calling' = Calling
    BY <1>6 DEF TimePasses, Calling
  <2>3. QED BY <2>1, <2>2 DEF Contract!HalfOpen
<1>7. CASE UNCHANGED callsVars
  BY <1>7 DEF callsVars, Mode, Calling
<1>8. QED
  BY <1>1, <1>2, <1>3, <1>4, <1>5, <1>6, <1>7 DEF CallsNext, TaskStep

\* The counting, timed breaker implements the abstract one: no new call while it
\* is open, nothing but a call that succeeds closes it, and nothing but one that
\* ends badly opens it.
THEOREM ImplementsContract == CallsSpec => HonoursContract
<1>1. CallsInit => Contract!Init
  BY FreshBreaker DEF CallsInit, Contract!Init, Mode, Calling
<1>2. QED
  BY <1>1, InductiveInvariant, StepRefines, PTL
     DEF CallsSpec, HonoursContract, Contract!Spec
=============================================================================
