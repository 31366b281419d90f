--------------------------- MODULE ProviderFailover ---------------------------
(***************************************************************************)
(* AgentManager.analyze / analyze_image with the KeyManager it rotates:    *)
(* requests walk the failover sequence, share one breaker per provider and *)
(* interleave wherever they await an agent.                                *)
(*                                                                         *)
(* Between two awaits a request does a whole Visit: skip agents whose      *)
(* breaker is open, enter the resilient_section of the first that is not,  *)
(* or end when the sequence is exhausted.  breaker_state and before_call   *)
(* run with no await between them, so the section never refuses what the   *)
(* check let through; CircuitOpenError reaches the except branch only from *)
(* inside agent.analyze, out of a breaker further down.                    *)
(***************************************************************************)
EXTENDS Breaker, Sequences

CONSTANTS Request, Agent, Provider,
          ProviderOf,        \* provider_type of each agent
          NumKeys,           \* how many keys each provider has registered
          RotationInterval   \* KeyManager.rotation_interval

ASSUME FailoverAssumption ==
    /\ ProviderOf \in [Agent -> Provider]
    /\ NumKeys \in [Provider -> Nat]
    /\ RotationInterval \in Nat \ {0}

VARIABLES
    sequence,   \* failover_sequence; it may grow under a request walking it
    breakers,   \* one _BreakerState per provider
    index,      \* KeyManager.indices
    usage,      \* KeyManager.usage_counts
    pc,         \* "idle", "calling" (awaiting the agent at pos) or "done"
    pos,        \* position of the request in the sequence
    skipped,    \* the agents in skipped_open
    failed,     \* the agents whose error became last_error
    result      \* how analyze ended

vars == <<sequence, breakers, index, usage, pc, pos, skipped, failed, result>>
keyVars == <<index, usage>>

Results == {"none", "ok", "error", "all_open", "no_agents", "cancelled"}

AgentAt(i) == sequence[i]
Breakered(i, bs) == bs[ProviderOf[AgentAt(i)]]

TypeOK ==
    /\ sequence \in Seq(Agent)
    /\ breakers \in [Provider -> Breaker]
    /\ \A p \in Provider : index[p] \in Nat /\ (NumKeys[p] > 0 => index[p] < NumKeys[p])
    /\ usage \in [Provider -> 0..RotationInterval]
    /\ pc \in [Request -> {"idle", "calling", "done"}]
    /\ \A r \in Request : pc[r] = "calling" => pos[r] \in DOMAIN sequence
    /\ skipped \in [Request -> SUBSET Agent]
    /\ failed \in [Request -> SUBSET Agent]
    /\ result \in [Request -> Results]

Init ==
    /\ sequence = <<>>
    /\ breakers = [p \in Provider |-> Fresh]
    /\ index = [p \in Provider |-> 0]
    /\ usage = [p \in Provider |-> 0]
    /\ pc = [r \in Request |-> "idle"]
    /\ pos = [r \in Request |-> 0]
    /\ skipped = [r \in Request |-> {}]
    /\ failed = [r \in Request |-> {}]
    /\ result = [r \in Request |-> "none"]

\* register_agent: a new name goes to the end of the sequence.
RegisterAgent(a) ==
    /\ \A i \in DOMAIN sequence : AgentAt(i) # a
    /\ sequence' = Append(sequence, a)
    /\ UNCHANGED <<breakers, index, usage, pc, pos, skipped, failed, result>>

-----------------------------------------------------------------------------
\* The agents between two positions of the sequence.
Between(i, j) == {AgentAt(k) : k \in (i .. j) \cap DOMAIN sequence}

End(r, how) ==
    /\ pc' = [pc EXCEPT ![r] = "done"]
    /\ result' = [result EXCEPT ![r] = how]

\* The rest of the for loop from position i, with breakers bs: enter the first
\* section whose breaker is not open, or leave the loop and raise.
Visit(r, i, bs, skips, fails) ==
    LET ready  == {j \in i .. Len(sequence) : ~IsOpen(Breakered(j, bs))}
        next   == CHOOSE j \in ready : \A k \in ready : j <= k
        passed == skips \cup Between(i, IF ready = {} THEN Len(sequence) ELSE next - 1)
    IN  /\ skipped' = [skipped EXCEPT ![r] = passed]
        /\ failed' = [failed EXCEPT ![r] = fails]
        /\ IF ready # {}
           THEN /\ pc' = [pc EXCEPT ![r] = "calling"]
                /\ pos' = [pos EXCEPT ![r] = next]
                /\ result' = result
           ELSE /\ End(r, IF fails # {} THEN "error"
                          ELSE IF passed # {} THEN "all_open" ELSE "no_agents")
                /\ pos' = pos

\* KeyManager.rotate_on_failure.
RotateOnFailure(p) ==
    IF NumKeys[p] = 0 THEN UNCHANGED keyVars
    ELSE /\ index' = [index EXCEPT ![p] = (@ + 1) % NumKeys[p]]
         /\ usage' = [usage EXCEPT ![p] = 0]

\* KeyManager.get_key, by whoever builds an agent for provider p.
GetKey(p) ==
    /\ NumKeys[p] > 0
    /\ LET due == usage[p] >= RotationInterval
       IN  /\ index' = [index EXCEPT ![p] = IF due THEN (@ + 1) % NumKeys[p] ELSE @]
           /\ usage' = [usage EXCEPT ![p] = IF due THEN 1 ELSE @ + 1]
    /\ UNCHANGED <<sequence, breakers, pc, pos, skipped, failed, result>>

-----------------------------------------------------------------------------
ProviderAt(r) == ProviderOf[AgentAt(pos[r])]

Start(r) ==
    /\ pc[r] = "idle"
    /\ Visit(r, 1, breakers, {}, {})
    /\ UNCHANGED <<sequence, breakers, index, usage>>

\* The agent answered: record_success and return.
Answer(r) ==
    /\ pc[r] = "calling"
    /\ breakers' = [breakers EXCEPT ![ProviderAt(r)] = RecordSuccess(@)]
    /\ End(r, "ok")
    /\ UNCHANGED <<sequence, index, usage, pos, skipped, failed>>

\* The section records the failure of the agent at pos[r].
Missed(r) == [breakers EXCEPT ![ProviderAt(r)] = RecordFailure(@)]

\* Mutant: the except clause re-raises instead of going on with the next agent.
AgentRaisesAndStops(r) ==
    /\ pc[r] = "calling"
    /\ breakers' = Missed(r)
    /\ RotateOnFailure(ProviderAt(r))
    /\ failed' = [failed EXCEPT ![r] = @ \cup {AgentAt(pos[r])}]
    /\ End(r, "error")
    /\ UNCHANGED <<sequence, pos, skipped>>

\* agent.analyze raised, because the vendor failed or because the agent refused
\* the request itself (content safety, budget, a tool): analyze does not tell
\* them apart.  Record the miss, rotate the keys, go on with the walk.
AgentRaises(r) ==
    /\ pc[r] = "calling"
    /\ breakers' = Missed(r)
    /\ RotateOnFailure(ProviderAt(r))
    /\ Visit(r, pos[r] + 1, breakers', skipped[r], failed[r] \cup {AgentAt(pos[r])})
    /\ UNCHANGED sequence

\* Mutant: a nested open circuit tries the same agent again with the next key.
NestedCircuitOpenRetries(r) ==
    /\ pc[r] = "calling"
    /\ breakers' = breakers
    /\ RotateOnFailure(ProviderAt(r))
    /\ Visit(r, pos[r], breakers', skipped[r], failed[r])
    /\ UNCHANGED sequence

\* A breaker inside agent.analyze was open.  The section counts it as a failure
\* of this provider; analyze takes it for a skip and rotates no key.
NestedCircuitOpen(r) ==
    /\ pc[r] = "calling"
    /\ breakers' = Missed(r)
    /\ Visit(r, pos[r] + 1, breakers', skipped[r] \cup {AgentAt(pos[r])}, failed[r])
    /\ UNCHANGED <<sequence, index, usage>>

\* The caller is cancelled.  The section counts the BaseException and no
\* except clause of analyze catches it.
Cancel(r) ==
    /\ pc[r] = "calling"
    /\ breakers' = Missed(r)
    /\ End(r, "cancelled")
    /\ UNCHANGED <<sequence, index, usage, pos, skipped, failed>>

Tick ==
    /\ \E p \in Provider : IsOpen(breakers[p])
    /\ breakers' = [p \in Provider |-> Elapse(breakers[p])]
    /\ UNCHANGED <<sequence, index, usage, pc, pos, skipped, failed, result>>

CallEnds(r) ==
    Answer(r) \/ AgentRaises(r) \/ NestedCircuitOpen(r) \/ Cancel(r)

Next ==
    \/ Tick
    \/ \E a \in Agent : RegisterAgent(a)
    \/ \E p \in Provider : GetKey(p)
    \/ \E r \in Request : Start(r) \/ CallEnds(r)

Spec == Init /\ [][Next]_vars

\* The event loop runs every started request and every awaited agent call ends.
WalksFairness == \A r \in Request : WF_vars(Start(r)) /\ WF_vars(CallEnds(r))

-----------------------------------------------------------------------------
\* A request that awaits an agent, or was answered by one, passed over nobody on
\* its way there: everyone before that agent was skipped or tried - however the
\* breakers moved and agents were added while it was waiting.
NobodyPassedOver ==
    \A r \in Request : pc[r] = "calling" \/ result[r] = "ok" =>
        Between(1, pos[r] - 1) \subseteq skipped[r] \cup failed[r]

\* The error analyze raises says what happened: a vendor's own error if any
\* agent was tried and failed, open circuits only if none did, and "all agents
\* failed" only if there was none to ask.
ErrorTellsWhy ==
    \A r \in Request :
        /\ result[r] = "error" => failed[r] # {}
        /\ result[r] = "all_open" => failed[r] = {} /\ skipped[r] # {}
        /\ result[r] = "no_agents" => failed[r] \cup skipped[r] = {}

WalkSound == TypeOK /\ NobodyPassedOver /\ ErrorTellsWhy

\* A request gives up only once every agent that is in the sequence by then,
\* those registered while it was waiting included, was skipped or tried.
GivesUpAtTheEnd ==
    \A r \in Request :
        result[r] = "none" /\ result'[r] \in {"error", "all_open", "no_agents"} =>
            Between(1, Len(sequence)) \subseteq skipped'[r] \cup failed'[r]

\* The agent the request is waiting for, if it is waiting.
Called(r) == IF pc[r] = "calling" THEN {AgentAt(pos[r])} ELSE {}

\* An agent is skipped because its vendor's breaker is open as the walk comes by
\* or because the call to it met an open one inside, and only an agent that was
\* called has failed.
SkippedForCause ==
    \A r \in Request :
        /\ skipped'[r] \subseteq skipped[r] \cup Called(r)
                                \cup {a \in Agent : IsOpen(breakers'[ProviderOf[a]])}
        /\ failed'[r] \subseteq failed[r] \cup Called(r)

\* Failover tries everyone: whether a request of AgentManager.analyze is
\* answered or gives up, each agent before its end was called or had an open
\* circuit when its turn came, and the error says which of the two happened.
WalkIsTold == []WalkSound /\ [][GivesUpAtTheEnd /\ SkippedForCause]_vars

\* Every request ends, whatever its agents do.
EveryRequestEnds == \A r \in Request : pc[r] = "calling" ~> pc[r] = "done"
=============================================================================
