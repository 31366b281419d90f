------------------------------- MODULE AgentLoop -------------------------------
(***************************************************************************)
(* run_agent_loop and run_agent_loop_stream (agent_loop.py): turns of the  *)
(* model, dispatch of the tool calls of each turn through the policy gate, *)
(* the per-tool cap, the tool and the content-safety guard, the cost cap,  *)
(* the last call without tools and the usage the loop leaves on the        *)
(* provider.  One run; what the model and the tools do is arbitrary.       *)
(*                                                                         *)
(* A provider call is one action, and so is the judging and the running of *)
(* a tool call; between them time passes and other runs of the company use *)
(* the same tools.                                                         *)
(***************************************************************************)
EXTENDS ToolPolicyGate, FiniteSets

CONSTANTS
    Config,          \* the ways the loop may be called, see ConfigOK
    Call,            \* calls a model may emit
    Known,           \* names some tool answers to
    MaxIterations,   \* max_iterations
    MaxCalls,        \* bound: calls of one turn
    MaxTokens        \* bound: tokens, and cost, of one turn

NoCap == MaxIterations * MaxCalls

\* stream: run_agent_loop_stream.  gate, guard: wired or not.  ungated:
\* SMART_LLM_ALLOW_UNGATED_TOOLS.  cap: per-tool call cap.  budget:
\* max_cost_usd, 0 for none.  finalize: finalize_on_cap.  limited: the gate
\* has a rate limiter.  lossy: its audit sink may fail.  repertoire: the calls
\* the model makes.
ConfigOK(c) ==
    /\ c.repertoire \subseteq Call
    /\ {c.stream, c.gate, c.guard, c.ungated, c.finalize, c.limited, c.lossy} \subseteq BOOLEAN
    /\ {c.cap, c.budget} \subseteq Nat

ASSUME LoopAssumption ==
    /\ \A c \in Config : ConfigOK(c)
    /\ \A c \in Call : c.name \in Name /\ {c.valid, c.delegated} \subseteq BOOLEAN
                       /\ c.target \in {"own", "other"}
    /\ Known \subseteq Name
    /\ {MaxIterations, MaxCalls, MaxTokens} \subseteq Nat

VARIABLES
    config,
    pc,          \* "model", "judge", "run", "done"
    iteration,
    turn,        \* the calls of the current turn
    results,     \* their results so far: names and contents
    counts,      \* call_counts
    last,        \* last_results: what the cap short-circuit hands out
    spent,       \* total_cost_usd
    lastUsage,   \* provider.last_usage
    ran,         \* history: run_action calls per name
    outcome      \* how the loop ended

loopVars == <<config, pc, iteration, turn, results, counts, last, spent, lastUsage,
              ran, outcome>>
vars == <<gateVars, loopVars>>

\* What a result may hold: the tool's own words, clean or poisoned; the marker
\* of withheld text; a refusal or a note the loop wrote itself.
Contents == {"clean", "poison", "withheld", "refused"}

TypeOK ==
    /\ GateTypeOK
    /\ config \in Config
    /\ pc \in {"model", "judge", "run", "done"}
    /\ iteration \in 0 .. MaxIterations
    /\ Len(turn) <= MaxCalls /\ \A i \in DOMAIN turn : turn[i] \in Call
    /\ Len(results) <= Len(turn)
    /\ \A i \in DOMAIN results : results[i].content \in Contents
    /\ counts \in [Name -> 0 .. NoCap]
    /\ last \in [Name -> Contents \cup {"nothing"}]
    /\ spent \in 0 .. MaxIterations * MaxTokens
    /\ outcome \in {"none", "text", "raised", "error_event"}
    /\ outcome = "none" <=> pc # "done"
    /\ pc \in {"judge", "run"} => Len(results) < Len(turn)

Init ==
    /\ GateInit
    /\ config \in Config
    /\ pc = "model"
    /\ iteration = 0
    /\ turn = <<>>
    /\ results = <<>>
    /\ counts = [n \in Name |-> 0]
    /\ last = [n \in Name |-> "nothing"]
    /\ spent = 0
    /\ lastUsage = 0
    /\ ran = [n \in Name |-> 0]
    /\ outcome = "none"

End(how) == pc' = "done" /\ outcome' = how
OverBudget(cost) == ~config.stream /\ config.budget > 0 /\ cost >= config.budget

\* What a turn may use.  Bound: a provider reports usage only where a cost cap
\* makes a difference.
Tokens == IF config.budget > 0 THEN 0 .. MaxTokens ELSE {0}

\* The provider sets last_usage to the tokens of its call, then the loop adds
\* turn.usage, the same tokens, to it.  The total is kept for the cost cap.
Account(tokens) ==
    /\ lastUsage' = tokens + tokens
    /\ spent' = IF config.stream THEN spent ELSE spent + tokens

-----------------------------------------------------------------------------
TurnBegins == pc = "model" /\ iteration < MaxIterations

TurnFrame == UNCHANGED <<gateVars, config, iteration, counts, last, ran>>

\* The model answers in text, or the cost cap is reached: the loop returns.
ModelEnds ==
    /\ TurnBegins
    /\ \E tokens \in Tokens : Account(tokens)
    /\ End("text")
    /\ UNCHANGED <<turn, results>>
    /\ TurnFrame

\* The model calls tools and the budget allows another round.
ModelCalls ==
    /\ TurnBegins
    /\ \E tokens \in Tokens : Account(tokens) /\ ~OverBudget(spent')
    /\ \E n \in 1 .. MaxCalls : turn' \in [1 .. n -> config.repertoire]
    /\ results' = <<>>
    /\ pc' = "judge"
    /\ outcome' = outcome
    /\ TurnFrame

\* The provider raises, or its stream ends in an error event: no usage.
ModelFails ==
    /\ TurnBegins
    /\ End(IF config.stream THEN "error_event" ELSE "raised")
    /\ UNCHANGED <<turn, results, spent, lastUsage>>
    /\ TurnFrame

\* max_iterations rounds are used up: one call with no tools if finalize_on_cap
\* (never when streaming), whose usage the provider reports and the loop does
\* not look at; otherwise an error.
Exhausted ==
    /\ pc = "model"
    /\ iteration = MaxIterations
    /\ IF ~config.stream /\ config.finalize
       THEN \/ End("text") /\ lastUsage' \in Tokens
            \/ End("raised") /\ lastUsage' = lastUsage
       ELSE End(IF config.stream THEN "error_event" ELSE "raised") /\ lastUsage' = lastUsage
    /\ UNCHANGED <<turn, results, spent>>
    /\ TurnFrame

-----------------------------------------------------------------------------
\* _dispatch_all, one call of the turn at a time.
Current == turn[Len(results) + 1]

\* Append the result of the current call; after the last one the next turn.
Answer(content) ==
    /\ results' = Append(results, [name |-> Current.name, content |-> content])
    /\ IF Len(results) + 1 = Len(turn)
       THEN pc' = "model" /\ iteration' = iteration + 1
       ELSE pc' = "judge" /\ iteration' = iteration

DispatchFrame == UNCHANGED <<config, turn, spent, lastUsage, outcome>>

\* Mutant: a turn of one malformed call is free.
MalformedFree ==
    /\ pc = "judge"
    /\ Current.name \notin Known \/ ~Current.valid
    /\ IF Len(turn) > 1 THEN Answer("refused")
       ELSE /\ results' = <<[name |-> Current.name, content |-> "refused"]>>
            /\ pc' = "model"
            /\ iteration' = iteration
    /\ UNCHANGED <<gateVars, counts, last, ran>>
    /\ DispatchFrame

\* No tool of that name, or arguments its model does not accept.
Malformed ==
    /\ pc = "judge"
    /\ Current.name \notin Known \/ ~Current.valid
    /\ Answer("refused")
    /\ UNCHANGED <<gateVars, counts, last, ran>>
    /\ DispatchFrame

WellFormed == pc = "judge" /\ Current.name \in Known /\ Current.valid

\* Past the gate: the per-tool cap, then the tool.
Proceed ==
    IF counts[Current.name] >= config.cap
    THEN Answer(IF last[Current.name] = "nothing" THEN "refused" ELSE last[Current.name])
    ELSE pc' = "run" /\ UNCHANGED <<results, iteration>>

\* The gate judges the call; anything but allow is answered in its place.
Judge ==
    /\ WellFormed
    /\ config.gate
    /\ \E decision \in Decisions :
          /\ Evaluate(Current, config.limited, config.lossy, decision)
          /\ IF decision = "allow" THEN Proceed ELSE Answer("refused")
    /\ UNCHANGED <<counts, last, ran>>
    /\ DispatchFrame

\* The delegation check itself raises, which nothing catches.
JudgeRaises ==
    /\ WellFormed
    /\ config.gate
    /\ Current.target = "other" /\ Policy(Current.name) # "deny"
    /\ End("raised")
    /\ UNCHANGED <<gateVars, config, iteration, turn, results, counts, last, spent, lastUsage, ran>>

\* No gate: only tools that read run, unless the host opted out.
Ungated ==
    /\ WellFormed
    /\ ~config.gate
    /\ IF config.ungated \/ Risk[Current.name] = "read" THEN Proceed ELSE Answer("refused")
    /\ UNCHANGED <<gateVars, counts, last, ran>>
    /\ DispatchFrame

Screened(content) ==
    IF config.guard /\ content = "poison" THEN "withheld" ELSE content

\* Mutant: the result is cached before it is screened.
RunCachesUnscreened(returned, content) ==
    /\ pc = "run"
    /\ ran' = [ran EXCEPT ![Current.name] = @ + 1]
    /\ counts' = IF returned THEN [counts EXCEPT ![Current.name] = @ + 1] ELSE counts
    /\ last' = [last EXCEPT ![Current.name] = content]
    /\ Answer(Screened(content))
    /\ UNCHANGED gateVars
    /\ DispatchFrame

\* Mutant: a call whose result is withheld is not counted and not answered.
RunWithheldDropped(returned, content) ==
    /\ pc = "run"
    /\ ran' = [ran EXCEPT ![Current.name] = @ + 1]
    /\ IF Screened(content) = "withheld"
       THEN /\ results' = results
            /\ pc' = "model"
            /\ iteration' = iteration + 1
            /\ UNCHANGED <<counts, last>>
       ELSE /\ counts' = IF returned THEN [counts EXCEPT ![Current.name] = @ + 1] ELSE counts
            /\ last' = [last EXCEPT ![Current.name] = content]
            /\ Answer(content)
    /\ UNCHANGED gateVars
    /\ DispatchFrame

\* run_action returned or raised; its text, an error's too, is screened and
\* cached.  Only a return counts against the cap.
Run(returned, content) ==
    /\ pc = "run"
    /\ ran' = [ran EXCEPT ![Current.name] = @ + 1]
    /\ counts' = IF returned THEN [counts EXCEPT ![Current.name] = @ + 1] ELSE counts
    /\ last' = [last EXCEPT ![Current.name] = Screened(content)]
    /\ Answer(Screened(content))
    /\ UNCHANGED gateVars
    /\ DispatchFrame

\* The caller is cancelled or goes away.
Abandon ==
    /\ pc # "done"
    /\ End("raised")
    /\ UNCHANGED <<gateVars, turn, results, spent, lastUsage>>
    /\ UNCHANGED <<config, iteration, counts, last, ran>>

Loop ==
    \/ ModelEnds \/ ModelCalls \/ ModelFails \/ Exhausted
    \/ Malformed \/ Judge \/ JudgeRaises \/ Ungated
    \/ \E returned \in BOOLEAN, content \in {"clean", "poison"} : Run(returned, content)

Surroundings ==
    /\ config.limited
    /\ GateTick \/ \E n \in Name : Policy(n) = "allow" /\ OtherRun(n)
    /\ UNCHANGED loopVars

Next == Loop \/ Abandon \/ Surroundings

Spec == Init /\ [][Next]_vars

\* Providers and tools that are awaited return or raise.
FairSpec == Spec /\ WF_vars(Loop)

-----------------------------------------------------------------------------
\* When the model is asked again, every call of its last turn has one result,
\* in the order of the calls - refused, unknown, capped and withheld ones too:
\* providers reject a conversation with a tool call left unanswered.
EveryCallAnswered ==
    pc = "model" =>
        /\ Len(results) = Len(turn)
        /\ \A i \in DOMAIN turn : results[i].name = turn[i].name

Allowed(n) == [name |-> n, decision |-> "allow"]
Approvals(n) == Cardinality({i \in DOMAIN head : head[i] = Allowed(n)})

\* No tool runs that policy, delegation or the default for ungated loops would
\* refuse, and each run behind a gate has an approval of its own on record.
OnlyAllowedRuns ==
    [][ran' # ran =>
        LET n == Current.name
        IN  IF config.gate
            THEN /\ Policy(n) = "allow"
                 /\ Current.target = "other" => Current.delegated
                 /\ ran'[n] <= Approvals(n)
            ELSE config.ungated \/ Risk[n] = "read"]_vars

\* With a guard, no poisoned text gets into the conversation: neither as the
\* result of a tool or its error, nor later as the cached result of a capped call.
PoisonNeverReachesModel ==
    config.guard => \A i \in DOMAIN results : results[i].content # "poison"

\* Once the run has cost max_cost_usd no tool is dispatched and the model is
\* not asked again, the final call without tools included.
CostCapHolds == pc # "done" => ~OverBudget(spent)

\* A tool returns at most cap times under one name over the whole loop, every call
\* that counts against the cap ran, and for a name that has counted there is the
\* result of an earlier call to hand out instead.
CapHolds ==
    \A n \in Name :
        /\ counts[n] <= config.cap /\ counts[n] <= ran[n]
        /\ counts[n] > 0 => last[n] # "nothing"

\* The limits of a run hold together: its own cap and budget, and the bucket it
\* shares with other runs (LoopGuards, TokenBucketRateLimiter).
LimitsHold == TypeOK /\ CostCapHolds /\ CapHolds /\ RateBound

\* The loop ends, however the model insists on calling tools.
LoopEnds == <>(pc = "done")
===============================================================================
