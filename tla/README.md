# smart_llm in TLA+

A verification project for the `smart_llm` library: a Python service library that
puts agents in front of LLM vendors, runs their tool loops and graphs, guards
what they may do, meters what they spend and keeps their keys. Almost all of it
is `asyncio`: everything between two awaits is atomic within a process, and what
can go wrong goes wrong *at* the awaits, in shared Redis keys and in shared
tables. That is what the modules here model.

Paths below are relative to `src/`; `smart_llm/x.py` stands for
`src/smart_llm/x.py`. `PROJECT.json` lists components, runs, mutants, the map
from definitions to source lines, findings, hazards and theorems.

Contents: [inventory](#inventory), [modules](#modules-and-the-code),
[runs and bounds](#runs), [fairness](#fairness), [proofs](#proofs),
[findings](#findings), [other disagreements](#other-disagreements),
[what is not modelled](#what-is-not-modelled), [plan](#plan).

## Inventory

### Components with state

| component | state | operations | what makes it hard | what makes it correct |
|---|---|---|---|---|
| Circuit breaker and retry, `resilience.py` | per name: `failures`, `opened_at`; the process-wide registry | `before_call`, `record_success`, `record_failure`, `resilient_call`, `resilient_section`, `get_breaker` | callers overlap the trip and the half-open window; cancellation during the call or the backoff | fail fast while open, one verdict per call, count and state agree, recovery |
| Provider failover, `agent_manager.py` | `agents`, `failover_sequence` | `register_agent`, `analyze`, `analyze_image` | the sequence grows and breakers move under a walking request; nested breakers | nobody passed over, the error says what happened, no call into an open circuit, every request ends |
| Key rotation, `key_manager.py` | keys, `indices`, `usage_counts` | `get_key`, `rotate_on_failure`, `load_from_store`, `save_to_store` | rotation by interval and by failure, from different requests | index in range, interval kept |
| Idempotency, `api/middleware.py` | one Redis key per (credential, method, path, Idempotency-Key) | claim, run, store, release, replay, conflict | Redis errors, cancellation, death, a body that breaks, TTL expiry | at most one run, faithful replay, no retry starved |
| Agent loop, `agent_loop.py` | transcript, iteration, per-tool counts and cached results, total cost, `provider.last_usage` | `run_agent_loop`, `run_agent_loop_stream`, `_dispatch_all` | budgets, caps and guards interact in one dispatch; streamed and plain variants | every call answered, screening, caps, cost, termination |
| Tool policy gate, `security/tool_policy.py` with `rate_limit.py`, `audit_chain.py` | token buckets per (company, tool), chain head, audit sink | `evaluate`, `check`, `stamp`, `verify_chain` | runs of one company share buckets; sink and limiter fail | only allowed calls run, rate bounded, trail tamper-evident |
| Metering, `usage.py`, `agent.py` | usage rows per month, the alert throttle key, notification rows, `last_usage` | `analyze`, `analyze_stream`, `assert_llm_allowed_for_tenant`, `_check_budget`, `_record_usage` | check-then-act on the budget; agents and providers shared by callers; month rollover | bounded overshoot, a call pays its own cost, one alert |
| Agent graphs, `orchestrator.py` | results per node, the tree of runs | `AgentGraphSpec.validate`, `run_agent_graph` | fan-out with `gather`, a raise that leaves siblings running, cycles and diamonds | only finite graphs run, return means complete, termination |
| Key store, `key_store.py`, `secret_envelope.py`, `models.py` | encrypted rows, which are active, the KEK of each process | `save_key`, `get_keys`, `delete_key`, `reencrypt_all`, `rewrap_all` | concurrent saves, a sweep while others write under another KEK | one active key per scope, every row readable |
| Agent catalogue, `api/routers/agents.py`, `skills.py`, `api/llm_service.py`, `ai_search_index.py` | rows of skills, agents, links and grants; the search index | POST, PATCH, DELETE, the two `/sync` batches, indexing after the commit, who pays a run | transactions that decide on what they read; syncs of two apps; documents that arrive late or never | a sync leaves what it asked for, managed rows are their app's, index follows tables, bills go to a party |
| Vendor adapters, `providers/`, behind the masking wrapper | per stream: `block_meta`, partial calls, restorers; the loop's history | `call_with_tools`, `stream_with_tools`, `build_*_messages` | fragments of parallel calls interleaved and cut; a placeholder cut in two | calls run as sent, text shown as said, history paired |
| PII firewall, `pii/` | vault (value to placeholder), stream buffer | mask, hints, restore, `StreamRestorer` | placeholders split over chunks; two policies; a detector that raises | nothing raw leaves, restoring undoes masking however the stream is cut |
| Conversation and screening, `conversation.py`, `session.py`, `history.py`, `security/guard.py`, `moderation.py`, `scope.py` | message list, summaries | `send`, `reset`, `balance_tool_turns`, screens | overlapping sends; a window that cuts a tool turn; screens that await | what was screened is sent, no lost turn, calls and results paired |
| Token revocation, `token_revocation.py`, `current_user.py` | cutoffs and markers in Redis with TTL | `authenticate`, `is_revoked`, `revoke_jti`, `revoke_user_tokens` | two reads, whole seconds, expiry, Redis down | revoked stays out for the token's life |
| Way into the API, `api/middleware.py`, `api/main.py` | a window of times per client | rate limit, API key | window edge | bound over every stretch of a window's length |
| Service runtime, `service_runtime.py` | advisory lock, once-markers | `acquire_migration_lock`, `run_once` | replicas booting together, a holder that hangs or dies | one at a time, boots finish |
| MCP client, `mcp/` | session, specs | connect, take tools, close | connect that fails half way, a server that changes | tools are the approved ones |
| Agent core, `agent.py` | `self.tools` | `run_with_skills` | the swap of `self.tools` around awaits | skills stay in their run |
| Parsing skills, `builtins/parsing/` | failures so far, frames seen | the fallback chain | every strategy may fail, local first | nothing leaves unasked, the first reader answers |
| Streaming socket, `api/routers/streaming.py` | the connection | checks, deltas and events, close | the client leaves at any await | the end is told, answers only to administrators, only linked tools |

### How they interact

A host calls `AgentManager.analyze`, which walks `failover_sequence`, asks the
breaker of each vendor and awaits an agent inside `resilient_section`; on an
error it rotates that vendor's keys in `KeyManager`, whose keys come from
`DatabaseKeyStore`. The agent screens the input, checks the budget, calls its
provider and writes a usage row. Tool-using agents go through
`run_agent_loop`, which sends every tool call past the `ToolPolicyGate`; the
gate asks the rate limiter and stamps the audit chain. `run_agent_graph` runs
one agent per node. A conversation sends its messages to one agent, whose
provider is wrapped in the masking provider. The HTTP API puts the idempotency
and rate-limit middleware in front of handlers, keeps the catalogue of agents
and skills, and streams answers over a socket. Components share *objects* (an
agent with its provider, tools and vault, breakers by name, buckets by company
and tool), *Redis keys* (claims, alert throttle, cutoffs, once-markers) and
*tables* (usage, keys, catalogue), hence the interleavings below.

### Components without state of their own

Provider policy, identity helpers, egress/SQL/secret predicates, HTTP reads and
listings, declarative models, observability, the other built-in tools, evals,
user interfaces: see [what is not modelled](#what-is-not-modelled).

## Modules and the code

A step is everything between two awaits of one task (or one statement or
transaction, where the shared thing is a database). `Mutant:` definitions are
not the code: each is a plausible bug placed beside the definition it replaces,
and shows that the property named for it in `PROJECT.json` can fail.

**`Breaker`** is `_BreakerState` as a value: `RecordSuccess`, `RecordFailure`,
`Admits` and `Elapse`. All its methods hold an `asyncio.Lock` and await nothing
under it, so they are operators used inside atomic steps. `failures` saturates
at the threshold and `opened_at` becomes an age that saturates at the recovery
timeout; the code only compares either with those limits, so nothing is lost.
It is shared by `CircuitBreaker` and `ProviderFailover`.

**`CircuitBreaker`** lets tasks share one breaker. `stage` is the await a task is
at: `calling` (inside `fn`) or `backoff` (inside `asyncio.sleep`).
`RaiseRetryable`, `RaiseExhausted`, `RaisePermanent` are the except branches of
`resilient_call`; `CancelCall` is recorded as a failure (the code catches
`BaseException`), `CancelBackoff` is not, its sleep standing outside the `try`. `resilient_section` and manual
accounting are tasks with one attempt. `stale` and `recorded` are history.
**`BreakerContract`** is the abstract breaker — three modes, the calls on the
wire, no counts or clock — and `CircuitBreaker` implements it under
`mode <- Mode, calls <- Calling`. The contract leaves open how many probes are out,
whether a failed one re-opens the breaker and from which mode a success closes it:
there words and code disagree, and **`CircuitBreakerClaims`** states the words on the
last two, with a history variable for the calls that were admitted as probes.

**`ProviderFailover`** models `AgentManager.analyze` and `analyze_image` (the
same walk) with the `KeyManager`. `Visit` is the loop from one await to the
next: skip agents with an open breaker, enter the next section, or raise.
`breaker_state` and `before_call` run with no await between them, which the
model shows by making them one step. `AgentRaises`, `NestedCircuitOpen`
(`CircuitOpenError` from inside the agent), `Cancel` and `Answer` are the ways
the awaited agent may end. `RegisterAgent` may append at any time.

**`IdempotencyReplay`** models requests meeting in one Redis key. Each Redis
call, `call_next` and the body drain is a step; a Redis call that raises may or
may not have been applied. `Faults` selects what the surroundings do. Requests
with different keys share nothing and are left out. **`ReplayContract`** is what a key
promises to clients: a run begins only beside none that stands and no response that is
kept, and who is not answered by a run of its own is handed the kept one.
`IdempotencyReplay` implements it under `standing <- live, kept <- entry.run, given <- got`.

**`AuditChain`**, **`ToolPolicyGate`**, **`AgentLoop`** compose by `EXTENDS`: the
loop dispatches through `Evaluate`, which asks `Check` and calls `Audit`. Hashes
are ideal: the hash of a record *is* the sequence of contents below it.
`AgentLoop` models both loops (`config.stream`); what model and tools do is
arbitrary within a repertoire of calls, and a tool's text is `clean` or
`poison` as far as the guard can tell. `last_usage` follows the providers: each
`call_with_tools` overwrites it and the loop then adds `turn.usage`. The order
in which `_dispatch_all` works — lookup and arguments, gate, cap, tool, screen,
cache — is the order of the actions.

**`AgentMetering`** models callers on shared agents. `gate`/`alarm`/`notify` are
`assert_llm_allowed_for_tenant` and its alert; `screen`/`budget`/`provider`/
`post`/`record`/`output` are the awaits of `analyze` and `analyze_stream`;
`Settle` is the host's commit or rollback (external to the library). Costs
stand for token counts; the classifier completing on the agent's own provider is
the constant `Classifier`. `NoResponse` covers a vendor error and a client that
closes the stream.

**`AgentGraph`** models `validate` (`Walks`, a recursive function over paths) and
the tree of runs of `run_agent_graph`: a node is run once per way leading to it,
so a run is named by its way. `TakeHop`/`SkipHop`/`DenyHop`/`HopFlagged` are
one turn of the hop loop; `Gather`, `Join`, `JoinRaises` are `asyncio.gather`
without `return_exceptions`. `RefusedHops` are the hops a run has come by, allowed
by their branch and not collected: those the authorizer refused.

**`KeyStore`** models the table under READ COMMITTED: an UPDATE sees rows
committed when it starts and waits for rows others hold. `save_key` is
`SaveBegins`, `SaveUpdates`, `SaveCommits`/`SaveFails`; the sweeps read, then
rewrite in one commit. A ciphertext is the KEK needed to open it and whether it
is marked (v2) or not (v1). `Reconfigure` restarts a process with the next
setting, in any order over the processes.

**`AgentCatalog`** models the requests that write the catalogue, each one READ
COMMITTED transaction: `...Finds` selects and decides (404, 403, 409),
`...Commits` writes the attributes the ORM has marked as changed into the row as
it is then. `SyncSkills...` and `SyncAgents...` are the two `/sync` batches,
with look-up by name, update, insert, and an agent's links replaced when they
differ. `ReadsBack`, `DocArrives`, `DocIsLost` are what happens after a commit:
the row is read again and its document sent off as a task of its own.
`RunFinds`/`RunBills` are the two reads that decide who pays.

**`VendorTurn`** models one conversation with a vendor through the whole chain:
the stream of Anthropic (`AnthropicStart/Delta/Stop`), OpenAI (`OpenAIStart/Delta`)
or Gemini (`GeminiCall`), the events the provider yields, the masking wrapper
(`Wrap`, per event type), and what the loop assembles and appends (`Consume`,
`Dispatch`, the builders). An event goes down the chain in one step, because these
are generators of one task. Texts and arguments are told apart only as far as a
placeholder can be cut in two. `sent` and `said` are history: what the vendor
meant.

**`PiiFirewall`** is the firewall as functions: vault, hints (longest first),
overlap rule, mask, restore, `Push`/`Flush` of `StreamRestorer`, and how two
policies resolve to one. A text is a sequence of words, the brackets of a
placeholder among them; `Scan` finds what `finditer` and `replace` find: leftmost,
and going on behind a match also where the detector drops it. **`ChatTurn`** extends it with a `Conversation`, its
managers, the agent's `analyze`, `analyze_stream` and `analyze_image`, the
guard's screens and the masking provider. A call is a record with a `pc`: the
await it is at (`summary`, `input`, `picture`, `ready`, `model`, `stream`,
`output`, `scope`). `wire` is what leaves the process in the last step and for
whom. What a screen decides is arbitrary.

**`TokenGate`** models requests that carry tokens of one user: `Arrive` decodes
and wires the denylist, `ReadJti` and `ReadCutoff` are the two GETs,
`RevokeJti` and `SignOut`/`SignOutLands` write the markers, `Second` moves the clock.
A SET replaces whatever cutoff is there (`Overwrites`); `undercut` is history: the oldest
cutoff that replaced a later one.
**`ApiEntry`** is the sliding window and `require_api_key`; a request is one step,
since neither awaits before it has decided. **`ReplicaBoot`** is a replica's way
through the advisory lock, the migration and `run_once`, with crashes and a
migration that hangs. **`McpTools`** is `connect`, `get_action_tools` and
`aclose` of one provider against a server that may be redefined at any time.
**`SkillRun`** is the swap of `self.tools` in `run_with_skills` and what
concurrent calls of the agent see of it. **`ParsingDesk`** is one call of a
parsing skill through its chain of strategies, under every configuration.
**`StreamSocket`** is one connection from the init message to the close code.

`MC*` modules give constants their values. **`MCResilience`**, **`MCReplicasAndGraph`**
and **`MCService`** put parts beside each other that share no state: `part`, chosen by
the initial state, says which one moves, and the others rest. Their interleavings would multiply
states and show nothing. The theorems are in the `...Proofs` modules, one for a
group of components, with `ProofLemmas` under them.

Where a property is a conjunction of named parts (`WalkIsTold`, `LimitsHold`,
`MeteringSound`, `KeyTableSound`, `StreamIsFaithful`, `HistoryIsKept`, ...), each
part has its own comment in the module, and the type invariant is one of them.

## Runs

Each run is one question. Counts are distinct states; the longest runs take two to three
minutes with two workers.

| run | instance | what it shows | states |
|---|---|---|---|
| `resilience` | 3 callers (2 with one retry, 1 section) of one breaker; or 2 requests, 3 agents of 2 vendors (two keys / none), rotation 2; threshold 2, timeout 2 ticks | `OpenKeepsNewCallsOff`; `OneVerdictPerCall`; `HonoursContract` (refinement); `Recovers`; `WalkIsTold` (nobody passed over by an answer or by giving up, nobody skipped without cause, the error tells why); `EveryRequestEnds` | 232,783 |
| `breaker_failed_probe`, `breaker_late_success` | the callers of one breaker | *violated*: `FailedProbeMovesState`, `OpenLastsTheTimeout` | |
| `replicas_and_graph` | 3 requests with faults redis, body, cancel, expire; or 3 replicas, one whose migration may hang, 5 boots; or graphs of 3 inner nodes and a leaf: up to 2 arbitrary hops from the entry, up to 1 (or both to `c` and the leaf) from the second node, up to 1 from the third; depth 3, 2 answers, guard on | `AtMostOnce`; `ReplayIsOriginal`; `HonoursPromise` (refinement); `RetryIsAnswered`; `OneAtATime`; `BootsFinish`; `AcceptsExactly`; `ReturnIsComplete`; `GraphEnds` | 234,520 |
| `agent_loop` | 2 iterations of up to 2 calls, five configurations | `EveryCallAnswered`; `PoisonNeverReachesModel`; `LimitsHold` (cost cap, per-tool cap, rate); `AuditTrailSound`; `OnlyAllowedRuns`; `LoopEnds` | 547,387 |
| `catalog` | 3 requests, 2 skills, 1 agent, 2 apps whose names collide, four starting catalogues | `SoloSyncSettles`; `ManagedRowsAreTheirApps`; `TablesAndIndexAgree`; `OnlyPartiesPay` | 1,319,338 |
| `vendor_turn` | 2 turns of up to 2 parallel calls and 2 text deltas, each dialect, streamed or not, masked or not, cache hint or not, late ids or not | `RunAsSent`; `StreamIsFaithful` (events in order, text as said); `AnswersFollow` | 3,217,079 |
| `masked_arguments` | the same | *violated*: `Restores` | |
| `chat` | 2 calls, 8 configurations of policies, guard, plugin detector and manager, replies of 2 pieces | `NothingRaw`; `RestoredFaithfully`; `ScreenedIsSent`; `HistoryIsKept` | 1,310,046 |
| `service` | one of eight parts, see below | `MeteringSound`; `KeyTableSound`; `RevokedStaysOut`; `WindowIsExact`; `ToolsAsApproved`; `SkillsStayInTheirRun`; `ReadAsConfigured`; `StreamsAreSafe` | 3,031,820 |
| `skills_left_attached` | the part of the runs with skills | *violated*: `ToolsAreReturned` | |
| `service_signouts` | the part of the tokens | *violated*: `SignOutIsKept` | |

Why the bounds are enough for the cases that matter:

- *Breaker.* Three callers are the least that let one call trip the breaker, one
  stay on the wire across the trip and a third arrive while it is open or half
  open. Threshold 2 separates counting from tripping; timeout 2 gives an
  open state that is neither new nor expired. The proofs drop these bounds.
- *Failover.* Two agents of one vendor share a breaker; a second vendor lets the
  walk go on; two requests move breakers and sequence under one another. A
  provider without keys exercises the early return of `rotate_on_failure`.
- *Idempotency.* Owner, loser and a late retry: three. The safety proof holds for
  any number. *Boots.* A holder, one that waits and one that comes later; five
  starts let each crash and one come back twice.
- *Agent loop.* Two calls in one turn and two turns reach a cap of one, a budget
  of two, a cached result handed out in a later turn, and gaps in the middle of
  an audit trail. The five configurations (`MCAgentLoop`): no gate; no gate but
  opted out, with guard, cap and budget; a gate with a failing sink; a gate
  in a capped and guarded stream; a gate with a rate limiter shared with other
  runs. Their product would multiply states without new interactions:
  limiter and sink are independent of each other in `evaluate`, and each is
  paired with what it does interact with. Capacity 3, cost 2 and refill 1 make
  fractional refills happen.
- *Graph.* Three inner nodes and a leaf contain chains, diamonds, cycles, self
  loops, hops taken twice and dangling ids; depth 3, which is the code's `MAX_DEPTH`, is
  exceeded by some and met exactly by others.
- *Catalogue.* The races are between an edit and a sync, two syncs, an edit
  and the document of another; three requests are one more. The starts
  (`MCAgentCatalog`) hold what takes several requests to bring about: a
  hand-made row an app will adopt, a linked agent, two rows of one name.
- *Vendor turn.* Two parallel calls interleave; a fragment is half of the arguments,
  so that a placeholder is cut in the middle or not; the second turn shows
  what the first left in history, `meta` and the restorers.
- *Chat.* Two calls are the races on vault and messages; a reply of two pieces holds
  two placeholders, or one and a stray bracket, and is cut anywhere. One
  value within another and two rules that overlap exercise both orders. The
  eight configurations (`MCChatTurn`) cover every policy, as the company's or the agent's,
  every guard posture and every manager. Five of them keep calls apart,
  which is what `NoTurnForgotten` asks for.
- *Service.* Metering: two callers can both pass the budget check; two months let
  an alert or a row straddle the rollover; one shared agent is the worst case
  for `last_usage`. Keys: two saves of one scope, or a save and a sweep, are the
  races there are; the table starts with at most one row, legacy or not, and two
  inserts leave an active row beside one that was replaced.
  Tokens: two logins a second apart, a legacy token and a refresh token, four
  seconds with lives of two, so that markers and tokens expire within the run; two
  sign-outs under way, alike and hence symmetric, whose SETs land in either order. Entry: limit 2 in
  windows of 2, four time steps. MCP: two tools with two definitions each,
  any redefinition at any time. Skills: two calls, two skills. Parsing: three
  frames under every configuration. Stream: any two links over two names.

Deadlock is checked in the runs whose system never stops by itself
(`resilience`, and `vendor_turn`, where the end of a conversation is a
stuttering state of its own). In the others the system ends: a loop, a graph, a call
are made once, requests are answered.

## Fairness

Only what the event loop and the surroundings provide, action by action:

- Breaker, in `resilience`: time passes; callers keep calling and wake from sleep
  (weak). `Recovers` also needs the host to answer *now and then*: strong
  fairness of `Return`, that is, a host called infinitely often answers some of
  the calls. A breaker cannot close on a host that never answers.
- Failover, in `resilience`: started requests are scheduled, and an awaited agent call ends *in
  some way* (vendor clients have timeouts). No way of ending is preferred.
- Idempotency, in `replicas_and_graph`: a handler ends in some way, a client that gets 409 comes back,
  and Redis drops an expired key. `RetryIsAnswered` needs the last one: a claim
  whose owner died blocks retries until the TTL. For boots: awaited calls come
  back, the lock within its `lock_timeout`, and a migration that is not wedged
  ends; nothing is asked of a wedged one, and replicas need not restart.
- `agent_loop`: the loop's own step, weakly fair as a whole: awaited
  providers and tools return or raise.
- Graphs, in `replicas_and_graph`: awaited agents, authorizers and guards answer or raise, and
  every resumable run is resumed.

`catalog`, `vendor_turn`, `chat` and `service` check safety only and assume nothing.

## Proofs

`tlapm` proves 23,385 obligations in eight modules, for every value of the constants
under the named assumptions of the modules proved about, which TLC evaluates in the
runs. Every safety property of the runs is a theorem except those named at the end
of this section. Each theorem follows the same way: an inductive invariant holds
initially, every action keeps it (a lemma per action or group of actions, named
`...Keeps`), it implies the property, and temporal steps combine the three.

| module | theorems | obligations |
|---|---|---|
| `CircuitBreakerProofs` | `TypeCorrect`, `CountAndStateAgree`, `FailFast`, `RetryCountsOnce`, `ImplementsContract` | 234 |
| `ProviderProofs` | `WalkIsToldAlways`, `RunsWhatWasSent`, `StreamStaysFaithful`, `AnswersAlwaysFollow` | 4,615 |
| `ServiceProofs` | `TypeCorrect`, `RunsAtMostOnce`, `RetriesAgree`, `ImplementsPromise`, `OneReplicaAtATime`, `RevocationHolds`, `ApprovedToolsOnly`, `StreamsStaySafe`, `SkillsStay`, `ReadsAreAsConfigured`, `WindowStaysExact` | 2,603 |
| `StoreProofs` | `MeteringIsSound`, `KeysAreSound` | 1,478 |
| `AgentLoopProofs` | `CallsAreAnswered`, `PoisonStaysOut`, `LimitsAlwaysHold`, `TrailAlwaysSound`, `RunsAreAllowed` | 1,366 |
| `GraphAndCatalogProofs` | `ReturnsWhole`, `AcceptsFiniteGraphs`, `ManagedRowsStay`, `IndexFollows`, `PartiesPay` | 2,622 |
| `ChatProofs` | `JudgedIsSent`, `NoTurnIsLost`, `HistoryStays`, `NothingLeaks`, `RestoringUndoesMasking` | 10,000 |
| `ProofLemmas` | lemmas only | 467 |

**`ProofLemmas`** holds what several of them cite: the least-number principle and the
least of a set of finite sets (both from the well-foundedness of strict inclusion, and
both first order, so a proof by a least counterexample replaces induction where a
quantity is a number or a finite set), lists given by their length and their places
(appending, cutting out, what stands behind a join), sums over a finite set
(that the recursive function behind `SumFunctionOnSet`
exists, and how a sum moves when one of its terms does), and induction over an
interval in a form without operators: `Climb` takes the set of the numbers for which
something is shown, and `Iterating` shows that a function defined by recursion over an interval exists.

**Breaker.** `IInv` is `CallsTypeOK /\ CountMatchesState /\ OpenKeepsNewCallsOff /\
CountedOnce` and two strengthenings: a task in backoff has an attempt left, which is
needed because `Retry` increments `attempt` and nothing else bounds it there, and a call
under way has no outcome yet.
`OpenKeepsNewCallsOff` leans on `CountMatchesState`: only a step from closed to open
makes the calls on the wire stale, and a failure recorded later is no such step.
`ImplementsContract` maps initial states to initial states, every action to an
action of `BreakerContract` or a stutter, the ticks to `HalfOpen` or a stutter.

**Failover.** `WalkSound` with `Settled`: a request that has not ended has no
result, and one at an agent, or answered by it, is at a position that exists. The
action parts of `WalkIsTold`, that a request gives up only at the end of the sequence
and that agents are skipped for cause, follow for each step from that invariant. The
sequence grows under a walk, and a registered agent comes after all positions that
exist. `VisitStep` says once what the loop from one await to the next does to a
request, and the actions that leave an await use it.

**Vendor turn.** `TurnInv` says that what wrapper and loop hold is a function of what
the vendor has sent so far (`Wired`). The text shown and the text held back are what
was said (`Shown`). The entry of a call has its id and the fragments that have come
(`Collects`), but for one that opens a placeholder, which waits in the call's
restorer (`KeepsBack`); the events so far are in order, and a call not yet stopped is
open in them (`Tidy`). A piece of the vendor becomes up to three events, an event
up to two behind the wrapper, so the recursive functions over events are unfolded to
their end; only OpenAI's stops at the end of a turn are as many as the calls, and there
`StoppedTo` goes through them one by one. At the end (`Ended`) what was collected parses to the calls
that were meant. Two cases are exempt, in the property as in the theorem: ids that
come late, and Gemini's escaped brackets. For `AnswersAlwaysFollow` each turn of calls in the
history has its answers behind it (`Paired`), which appending a turn keeps whatever the
ids are.

**Idempotency.** `RunsAtMostOnce`, `RetriesAgree` and `ImplementsPromise` need
`"slow" \notin Faults`: no handler outlives the TTL. Without it they are false,
because claims carry no fencing token ([below](#other-disagreements)). `IInv` adds
`OneOwner` to `ReplayTypeOK` and `AtMostOnce`: at most one request is at work as owner, an owner
implies the key is its claim, and a run whose effect may stand keeps the key.
`RetriesAgree` adds that what is cached, or about to be, is a complete response.
`ImplementsPromise` is the refinement of `ReplayContract`, which knows runs that stand, the
response that is kept and what clients were given, and neither Redis nor claims; it
needs that an owner's run stands until it is stored or withdrawn.

**Boots.** `OneReplicaAtATime`: who migrates holds the lock or was told that it has
none (the lock call failed open), and without a claim nobody was sent to work.

**Tokens.** `RevocationHolds` assumes nothing about how revocations overlap.
`MarkersLast` says why it holds: every marker outlives the tokens it
covers, and the cutoff is behind what callers of `revoke_user_tokens` were told only
by as much as `undercut` says. `RevokedIsSeen` carries that over the two reads of a
request: what was revoked when the request came is still marked, or the token has
run out, or it is one that an older sign-out gave back.

**MCP, stream, skills.** Connected after a strict check means the specs are the pinned
ones. The socket's stages establish what the later ones rely on (`StagesInOrder`:
administrator, then agent of the company, then tools). As long as calls of an agent
do not overlap and nothing was refused (`orderly`), the one call under way has the
tools to itself and found none (`OneAtTheTools`).

**Parsing.** `TriedInOrder`, `ByTheirTurn`, `SentOnce`, `InFilmOrder` and `TextIsWhole` say
of a chain under way who has had its turn, what it sent and read, and that frames go
from first to last.

**Rate limit.** `EntryInv`: what the window holds is the end of what the client was
served, from some position on, and what was dropped before is older than a window.
That the list comprehension keeps exactly such an end follows from times being in
order (`HasCut`, `LaterIsRest`). Then the length of the window counts what was
served within any stretch of its length.

**Metering.** Every month's ledger and what callers past the check may still add to it stay
within the cap plus one call per caller (`WithinBound`): while a month is below its
cap any bill fits, once it is not nobody begins to owe. `Booked` says what a call
knows of its cost at each await and what its row holds, from which follows what
the ledger takes when its host settles (`LedgerStep`); and `TellsOnce` counts the notifications of a month
together with the callers about to write one.

**Keys.** `OneRow` (two active rows of a scope are the same row) is the bound on
cardinality in a form a step can be checked against; `WrappedByUse`,
`SweepIsComplete` and `SweptIsNew` relate the KEK of a row to those of the processes
and make the table readable after a sweep begun when every process had the new KEK.

**Loop and gate.** `GateInv` is about the token bucket (`Covered`: grants since any
grant, and what is left, fit into the capacity and the refill since) and the trail
(`Linked`: while only the latest records are missing it is numbered, verifies and ends at
the head or short of it). `LoopInv` adds the turn answered from the front, counts
that follow what ran, spending bounded by iterations, a cache without poison, and that
the call under way has an approval in the trail no earlier run used up.

**Graphs.** Runs are a tree: one is there because the run before it collected its hop
(`Nested`) and done after those it gathered (`Joined`), so the first run done means
all done. What a run has refused only grows and is never collected (`Collected`), and
each answer or denial in the results is that of a run (`Heard`). It holds of whatever
tree has grown, hence also without the depth check. `AcceptsFiniteGraphs` is about the recursion of `_walk`: an explicit formula,
"every path that goes on from here is good" (`AllGood`), satisfies its equation
and is the only one that does (`WalkExists`, `WalkIsOne`, by a path with the fewest nodes left); the levels of
the reference are the ends of walks (`LevelIs`); and a walk that comes back
to a node has nodes on every later level (`CyclesGoOn`).

**Chat.** Past the screen a call has been judged by what it will send. For the history,
a list is `Tidy` when calls and results are in pairs, calls have ids of their own and
no message is empty. A window leaves a `Cut`: results may have lost their calls. What
`balance_tool_turns` keeps is described by where each kept message was (`Keeps`), from
which follows that it makes a cut tidy again and drops no turn (`BalanceTidies`), and so for
sliding, summarizing, storing and resuming. `HistoryInv` adds what a call holds between
its awaits: while it waits for the summary, the list it gave is the conversation's as
long as sends take turns, and it ends with its question. `HistoryStays` assumes `keep_recent # 0`
of a manager that summarizes: with 0 the question goes into the summary; that turns are
never lost (`NoTurnIsLost`) needs no such thing.

**Privacy.** `PrivacyInv` says that the vault has a placeholder for each declared value
and one at most per value (`Ready`), that whatever is said, held or asked is made of words
(`Typed`), and that nothing raw is on the wire. What counts is one text
(`MaskTextIs`). A word of a value that stands in a spliced text comes from a word
that was not cut out (`Origin`), and so does the one behind it (`OriginGoesOn`), as
placeholders have no words of values; hence a value found afterwards was there
before, outside of all cuts (`SpliceKeeps`). Replacing a declared value thus removes it
and makes no other appear (`ReplacedIsGone`, `HintsAreGone`), and of a value some
rule matches no occurrence is left untouched by the claims (`Claiming`).
`NothingLeaks` assumes `NoRuleOverlapsItself` for that last step: a match that overlaps an earlier claim is
dropped and the scan goes on behind it (`detectors.py:175-184`), so a second
occurrence that begins within the dropped one would be passed over. It
holds of the run's rules, which TLC evaluates. Recursion over a text is unfolded once per
function (`Building`, `Scanning`, `Detecting`, `Minting`, ...), by `Iterating` of
`ProofLemmas`, which shows that a function with these equations exists, so
that the `CHOOSE` behind the definition has one.

**Restoring.** A masked text has one meaning: it is read from the left, word by word,
a placeholder of the vault as its value (`Means`), and this in one way only, since
closing brackets occur in placeholders alone (`ReadsIs`).
`restore_text` replaces placeholders one after the other, and that comes to the same,
as no value has a bracket. Masking keeps the meaning: a span that is cut out reads
as its value, and so does the placeholder put there. The vault is numbered per
type and only grows at its end, hence its placeholders differ and what they stand
for stays. A stream is cut where no placeholder is open, so what is shown and what
is held back mean together what has come (`StreamGoesOn`). `EchoInv` joins `PrivacyInv`
to the numbering of the vault and, for every call, the meaning of what it
sent, showed and holds. `RestoringUndoesMasking` assumes `BracketsAreReserved`, that users do not write the
closing bracket, on which the code relies ("they essentially never occur in real
prompts", `firewall.py:31-33`), and `PlaceholdersReadApart`: types are not brackets,
numbers are written without brackets and differently. TLC evaluates both in
the run. It needs nothing of the rules.

**Catalogue.** `Tables` are the constraints of the schema. `Reads` says what a request
holds between its look-up and its commit (`RequestOK`), and that as long as nobody
else wrote this still is what the tables hold (`Current`). Without it the
action properties are not inductive: they compare what is written with what is
there, and the request decides on what it read.

The type invariants and `CountMatchesState` are proved as parts of these and are not
properties of a run of their own. Left to TLC:

- liveness, which is out of the prover's reach: `Recovers`, `EveryRequestEnds`,
  `RetryIsAnswered`, `BootsFinish`, `LoopEnds`, `GraphEnds`;
- `SoloSyncSettles`, where a batch picks a row by `CHOOSE` among those of one name.

## Findings

Each is a run TLC finds violated.

1. **A failed probe does not re-open the breaker** (`breaker_failed_probe`).
   `record_failure` sets `opened_at` only when it is `None`
   (`smart_llm/resilience.py:146`); after a failed half-open probe the breaker
   stays half-open and admits every caller, although `before_call` says the
   state moves "only on the probe's success/failure" (`:133-134`).
2. **A streamed Gemini call reaches its tool masked** (`masked_arguments`).
   The provider encodes arguments with `json.dumps`
   (`smart_llm/providers/gemini.py:457`), which escapes the brackets of a
   placeholder. `StreamRestorer` looks for the brackets and finds none, the loop's
   `json.loads` turns the escapes back, and the tool runs on the placeholder, although
   `smart_llm/pii/masking_provider.py:155` says the parsed arguments are real.
3. **Skills stay attached** (`skills_left_attached`). `run_with_skills` replaces
   `self.tools` (`smart_llm/agent.py:692`) before its `try`: a refused input, or
   two overlapping runs, leave skills on the agent for every later call,
   although the docstring says "for the duration of the call" (`:592-593`).
4. **A late success closes an open breaker** (`breaker_late_success`).
   `record_success` clears `opened_at` in any state (`smart_llm/resilience.py:140`),
   so a call admitted before the trip that answers after it closes the breaker at
   once, where the docstrings say it is open for `recovery_timeout` seconds and then
   half-open (`:15-16`, `:103`).
5. **An older sign-out undoes a newer one** (`service_signouts`). The SET of a cutoff is
   unconditional (`smart_llm/token_revocation.py:109`): when two overlap and the older
   lands last, tokens issued between the two are let in again, although
   `revoke_user_tokens` promises to revoke "EVERY token" up to its cutoff (`:103`).

## Other disagreements

Met while modelling, read in the code, and without a run of their own.

*Breaker.* Failures are counted since the last success, not within a window, so rare ones add up
(`:145`). The registry keeps the first caller's threshold and timeout. `before_call` claims
nothing when the timeout is over (`:133`): every caller that arrives then is let
through, where the docstring says "half-opens (one probe)" (`:16`).

*Failover.* `agent_manager.py:76` records and rotates on *any* error, an agent's
own refusals (content safety, budget, an output tool) included; the comment
at 67-69 speaks of transient failures. Two requests that fail on the same key both
rotate (`:78`): with two keys the rotation comes back to the failing one. A nested
`CircuitOpenError` counts as a failure of the outer vendor and yet is listed as a
skip.

*Idempotency.* The body is drained after the `try` (`middleware.py:300`), so when it
raises the claim is not released as the comment at `:294` promises, and retries
get 409 until the TTL. Claims are not fenced (`:333`, `:339`): a handler
that outlives the TTL lets a second run in, and its late store or release then
hits the new claim; the docstring at 195 says "fenced".

*Agent loop and gate.* Providers set `last_usage` per call and the loop adds the
same numbers again (`agent_loop.py:228`), so the total is twice the last turn where
`docs/agent-loop.md:54` says accumulated; with a masking provider it sets
`last_usage` on the wrapper, which then shadows the wrapped provider's. Failing
runs do not count towards the per-tool cap. A
tool called by class name and by registry name has two counters. The streaming
loop has neither cost cap nor finalisation. The finalising call's usage is not
added. A call the cap then short-circuits has used rate budget and is audited
as allowed. A sink failure makes the trail fail verification from the next record
on, and losing the last record is undetectable.

*Metering.* The alert reads the month twice (`usage.py:453`): spend of month m can
be announced under, and throttle, month m+1. An alert whose insert fails after the
throttle key is set is lost for the month. Classifier and scope-guard calls are
never billed, and `analyze_stream` reads `last_usage` after post-hoc screening
(`agent.py:558`, against 555-556), so a stream can be billed its classifier's
tokens. `record_usage` only flushes, and the row lives in the transaction of the caller:
a host that rolls back when `analyze` raises loses it, although the comment at
`agent.py:406-408` says a failure of an output tool must not mask the billing
(`LedgerTakesOwnCosts` allows this one way). A stream the client closes leaves no usage row (the comment at
`agent.py:528`, "so usage lands even if the client disconnects", can hold of the
span only). A loop that raises leaves the turns it has paid for unrecorded, and the
cost estimate is stale when a provider leaves `cost_usd` of an earlier call.

*Graph.* A node reached by two hops runs
twice, and its denial marker and its result overwrite each other (`:224`). What the guard
raises for a hop goes up through every `gather` and out of `run_agent_graph`
(`orchestrator.py:236`): the results of the other branches are lost and their runs
left to themselves, although "a flagged hop aborts that branch" (`:234-235`).
`HopFlagged` and `JoinRaises` model it.

*Keys.* The unique index is on `(scope_id, provider)`, and NULLs are distinct:
two overlapping saves leave two active platform keys (`models.py:47-63`); on
SQLite the index has no WHERE. During a KEK rotation processes on the new KEK
cannot read old rows until the sweep. `reencrypt_all` is invisible to readers
only if every reader has the KMS provider. `KeyManager.load_from_store` keeps
a deleted last key in memory (`if keys:`), and `save_to_store` appends the new
key while the store deactivated the old one.

*PII.* The scan of a rule goes on behind a match that is dropped because an
earlier rule has claimed a part of it (`pii/detectors.py:175-184`): an occurrence
that begins within the dropped one is not looked at, and stays in the text. It
takes a value that overlaps itself.

*Catalogue.* Two first syncs that overlap insert a name twice, and from then on a
sync is not idempotent: which of the two rows it updates is left to the query
(`skills.py:346`, `:406`). Demoting a tool that has an approval mode keeps the
old mode. `PATCH` with `skill_ids` loads `config.skill_links` lazily in an async
session (`agents.py:655`). A batch that lists a skill name twice violates the
primary key of the links. A sync indexes nothing, a document that arrives
late brings a deleted row back to the index, and platform rows can be neither
patched nor deleted. `AISkillPublic.company_id` is not nullable although platform
rows have none.

*Vendors.* An id that OpenAI sends after the first fragment loses the arguments
before it, and a stream whose `finish_reason` is not `tool_calls` drops its
calls. A call cut by `max_tokens` is dispatched with no arguments. `cached_prefix`
is forwarded behind the masking wrapper to OpenAI and Gemini, which do not take it
(`TypeError`), and Anthropic's prefix is not masked. Gemini's roles are mapped in
one place and not in the other (`gemini.py:36`, `:478`). Its made-up ids repeat
from turn to turn. Restored values with characters JSON
escapes make the arguments unparseable, hence `{}`. After an `error` event the
wrapper still yields the held text. A short hint corrupts a placeholder whose text it
occurs in (`pii/firewall.py:88`). `trim_history` keeps more than its quotas,
and `SlidingWindow` does not balance tool messages in OpenAI's shape.

*Conversation and screening.* Overlapping sends lose a turn when the manager
summarizes: the list that comes back replaces what the other send appended
(`conversation.py:70`). A failed or refused send leaves its question unanswered
in the list. With `keep_recent=0` the new question is summarized away. Texts and
pictures go raw to the moderation endpoint (`moderation.py:120`) where
`masking_provider.py:3` and `agent.py:168-171` speak of everything that leaves.
Shadow mode still blocks when no backend answers (`guard.py:138`, against
15-16).

*Tokens and boot.* Tokens are compared with `<` (`token_revocation.py:136`): one issued in
the second of the cutoff stays valid. `tests/test_token_revocation.py:81` wants it
so, and `RevokedStaysOut` follows it; the docstring says "issued at/before" (`:103`). A wiring failure lets everybody in even under strict. The JWKS fetch
blocks the event loop. The limiter counts per process, never forgets a client's
entry, and a wall clock set back lets more through. `resolve_pool_sizing` takes at
least one connection per pool, which may exceed the budget. `SET lock_timeout` stays
on the session that then migrates. When the one that claimed a one-shot job dies,
nobody does it until the TTL.

*MCP.* A pin check that fails leaves the drifted specs to be taken; `async with`
cannot pass pins, and when `__aenter__` fails the transport leaks. A failed
`initialize` leaves the session in place and the next `connect` uses it. A
second exit stack overwrites the first. Sanitized names may collide, only the
first page of `list_tools` is read, and drift after `connect` is not seen.

*Parsing and streaming.* `fallback_chain.py:380-381` runs ffmpeg aside "so the event
loop keeps serving other requests meanwhile", but its only caller blocks that loop
until the chain is done. A frame whose vision call raises loses what earlier frames
said. OpenAI is always told `image/png`. Callers in the repository pass the tools no
configuration (`base.py:138`). `streaming.py:160` looks a mode up by the skill's
name while the model calls the tool by its class name: a skill not named as its
class is always denied. The session of streamed tools closes without a commit. A
first message that is JSON but no object, a resolver or tool constructor that raises, or an
unknown provider type ends the socket without a frame, and tools mode sends `done` after an
`error` event. Text mode is neither metered nor masked by the tenant's policy. The
loop path of `run_with_skills` shapes its input before the prompt skills are
attached, so they do nothing there.

## What is not modelled

*Autonomous runs and invocation* are wrappers around the agent loop; *provider
policy* is a table; *egress, SQL and secret guards* are predicates over strings,
whose subject is parsing; *observability* is read back by nothing in the program;
*evals* are a sequential harness; *UIs, examples and tests* are clients. The
rest of *built-in tools* are one request or one computation each, and
`AgentLoop` lets a tool return anything or raise.

Inside modelled components: the retry's delay values and jitter, the breaker
registry (one breaker per name is assumed); `KeyManager`'s store operations and
`EnvKeyStore`; the seeding of an audit chain from persisted records, approval
waiting (the host's), Redis publish beside the alert row, `run_one_turn`, which
dispatches nothing; pricing and usage reports; what patterns and classifiers match;
plugin discovery and the vendors' message shapes, of which a text per message is
kept; OpenRouter, which inherits OpenAI's code; `trim_history`, which nothing calls;
signatures and JWKS; probes, Sentry and pool sizing; schemas and results of MCP
calls; reads, listings, search queries and the bulk reindex of the HTTP API; column
types and migration scripts. The event loop that a parsing chain blocks is not
modelled either: `ParsingDesk` is one call.

## Plan

Done: every component above modelled and checked; then the proofs of all safety
properties but those listed under [proofs](#proofs), and two refinements.

Next, in order of what they are worth:

1. `KeyStore`: an atomic key table (save, delete, read), refined by the store under
   one setting of the KEK.
2. `AgentCatalog`: `SoloSyncSettles`, with names unique among the rows of an app.
