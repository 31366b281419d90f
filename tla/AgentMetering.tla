----------------------------- MODULE AgentMetering -----------------------------
(***************************************************************************)
(* The metering of model calls: the tenant gate and its alert, the budget  *)
(* check, the provider's last_usage and the usage row (usage.py; analyze   *)
(* and analyze_stream in agent.py; /assert-allowed in api/routers).        *)
(*                                                                         *)
(* Callers make calls one after another.  An agent may be shared between   *)
(* callers, as AgentManager's are, and its provider with it; each caller   *)
(* has a database session of its own, which the host settles when a call   *)
(* ends.  A step ends where the code awaits.  One company.                 *)
(***************************************************************************)
EXTENDS Naturals, FiniteSets, Functions

CONSTANTS
    Caller,
    Agent,
    AgentOf,      \* the agent each caller uses
    Kinds,        \* entry points in use: "analyze", "stream"
    Classifier,   \* moderation may fall back to the agent's own provider
    Cap,          \* monthly budget
    MaxCost,      \* bound: cost of one call
    Months,       \* bound: months
    Calls         \* bound: calls of one caller

ASSUME MeteringAssumption ==
    /\ IsFiniteSet(Caller) /\ AgentOf \in [Caller -> Agent]
    /\ Kinds \subseteq {"analyze", "stream"}
    /\ Classifier \in BOOLEAN
    /\ {Cap, MaxCost, Months} \subseteq Nat \ {0}
    /\ Calls \in Nat

VARIABLES
    month,
    ledger,      \* committed ai_usage_events, summed per month
    throttle,    \* months whose alert_emitted key is set in Redis
    alerts,      \* notification rows per month
    blind,       \* history: alerts tried because SET raised
    lastUsage,   \* provider.last_usage of each agent, as a cost
    call         \* the current call of each caller

vars == <<month, ledger, throttle, alerts, blind, lastUsage, call>>

Month == 1 .. Months
Cost == 1 .. MaxCost
NoCost == 0

Places == {"idle", "gate", "alarm", "notify", "screen", "budget", "provider", "post",
           "record", "output", "ending"}

\* cost: history, what the vendor billed; usage: what the response reports; row:
\* the row in the caller's transaction, NoCost for none; lost: its write failed.
Calling == [at: Places, kind: Kinds, made: 0 .. Calls, cost: 0 .. MaxCost,
            usage: 0 .. MaxCost, row: 0 .. MaxCost, in: Month, lost: BOOLEAN,
            raised: BOOLEAN]

TypeOK ==
    /\ month \in Month
    /\ ledger \in [Month -> Nat]
    /\ throttle \subseteq Month
    /\ alerts \in [Month -> Nat]
    /\ blind \in [Month -> Nat]
    /\ lastUsage \in [Agent -> 0 .. MaxCost]
    /\ call \in [Caller -> Calling]

Init ==
    /\ month = 1
    /\ ledger = [m \in Month |-> 0]
    /\ throttle = {}
    /\ alerts = [m \in Month |-> 0]
    /\ blind = [m \in Month |-> 0]
    /\ lastUsage = [a \in Agent |-> NoCost]
    /\ \E k \in Kinds : call = [c \in Caller |->
          [at |-> "idle", kind |-> k, made |-> 0, cost |-> NoCost, usage |-> NoCost,
           row |-> NoCost, in |-> 1, lost |-> FALSE, raised |-> FALSE]]

At(c, place) == call[c].at = place
Go(c, place) == call' = [call EXCEPT ![c].at = place]
Raise(c) == call' = [call EXCEPT ![c].at = "ending", ![c].raised = TRUE]

\* last_usage of the caller's agent after a step in which the provider reported u.
Reports(c, u) == lastUsage' = [lastUsage EXCEPT ![AgentOf[c]] = u]

\* What screening may leave in last_usage: the classifier and the scope guard
\* complete on the provider of the agent they screen for.
Screened(c) == {lastUsage[AgentOf[c]]} \cup (IF Classifier THEN Cost ELSE {})

OverCap == ledger[month] >= Cap

alertVars == <<throttle, alerts, blind>>
-----------------------------------------------------------------------------
\* The host asks the tenant gate first, or goes straight to the agent.
Start(c) ==
    /\ At(c, "idle") /\ call[c].made < Calls
    /\ \E k \in Kinds, place \in {"gate", "screen"} :
          call' = [call EXCEPT ![c].at = place, ![c].kind = k, ![c].made = @ + 1]
    /\ UNCHANGED <<month, ledger, alertVars, lastUsage>>

\* assert_llm_allowed_for_tenant sums the month's rows.
Gate(c) ==
    /\ At(c, "gate")
    /\ Go(c, IF OverCap THEN "alarm" ELSE "screen")
    /\ UNCHANGED <<month, ledger, alertVars, lastUsage>>

\* SET NX on the key of the month it is now; Redis raises, the SET applied or
\* not: emit all the same.
Alarm(c) ==
    /\ At(c, "alarm")
    /\ \/ /\ month \in throttle
          /\ Raise(c)
          /\ UNCHANGED <<throttle, blind>>
       \/ /\ month \notin throttle
          /\ throttle' = throttle \cup {month}
          /\ call' = [call EXCEPT ![c].at = "notify", ![c].in = month]
          /\ UNCHANGED blind
       \/ /\ throttle' \in {throttle, throttle \cup {month}}
          /\ blind' = [blind EXCEPT ![month] = @ + 1]
          /\ call' = [call EXCEPT ![c].at = "notify", ![c].in = month]
    /\ UNCHANGED <<month, ledger, alerts, lastUsage>>

\* The notification row, committed with the 429; a failed insert is swallowed.
Notify(c) ==
    /\ At(c, "notify")
    /\ \E n \in {0, 1} : alerts' = [alerts EXCEPT ![call[c].in] = @ + n]
    /\ Raise(c)
    /\ UNCHANGED <<month, ledger, throttle, blind, lastUsage>>

ScreenInput(c) ==
    /\ At(c, "screen")
    /\ \E u \in Screened(c) : Reports(c, u)
    /\ Go(c, "budget") \/ Raise(c)
    /\ UNCHANGED <<month, ledger, alertVars>>

CheckBudget(c) ==
    /\ At(c, "budget")
    /\ IF OverCap THEN Raise(c) ELSE Go(c, "provider")
    /\ UNCHANGED <<month, ledger, alertVars, lastUsage>>

\* analyze: the provider sets last_usage as it returns, and no await separates
\* that from the read that fills the response.
Complete(c) ==
    /\ At(c, "provider") /\ call[c].kind = "analyze"
    /\ \E k \in Cost :
          /\ Reports(c, k)
          /\ call' = [call EXCEPT ![c].at = "record", ![c].cost = k, ![c].usage = k]
    /\ UNCHANGED <<month, ledger, alertVars>>

\* analyze_stream: the terminal chunk carries the usage.
Drained(c) ==
    /\ At(c, "provider") /\ call[c].kind = "stream"
    /\ \E k \in Cost :
          /\ Reports(c, k)
          /\ call' = [call EXCEPT ![c].at = "post", ![c].cost = k]
    /\ UNCHANGED <<month, ledger, alertVars>>

\* The provider raises, or the client closes the stream at a yield: no row.
NoResponse(c) ==
    /\ At(c, "provider")
    /\ Raise(c)
    /\ UNCHANGED <<month, ledger, alertVars, lastUsage>>

\* The sent text is screened, a flag is only logged, and last_usage is read after it.
ScreenSent(c) ==
    /\ At(c, "post")
    /\ \E u \in Screened(c) :
          /\ Reports(c, u)
          /\ call' = [call EXCEPT ![c].at = "record", ![c].usage = u]
    /\ UNCHANGED <<month, ledger, alertVars>>

\* Mutant: the recorder reads last_usage where it writes the row.
RecordLate(c) ==
    /\ At(c, "record")
    /\ call' = [call EXCEPT ![c].at = "output", ![c].row = lastUsage[AgentOf[c]], ![c].in = month]
    /\ UNCHANGED <<month, ledger, alertVars, lastUsage>>

\* _record_usage flushes one row, dated now; a failure is logged and swallowed.
Record(c) ==
    /\ At(c, "record")
    /\ \E ok \in BOOLEAN :
          call' = [call EXCEPT
              ![c].at = IF call[c].kind = "stream" THEN "ending" ELSE "output",
              ![c].row = IF ok THEN call[c].usage ELSE NoCost,
              ![c].in = month,
              ![c].lost = ~ok]
    /\ UNCHANGED <<month, ledger, alertVars, lastUsage>>

\* Output screening and the output tools; either may raise.
ScreenOutput(c) ==
    /\ At(c, "output")
    /\ \E u \in Screened(c) : Reports(c, u)
    /\ Go(c, "ending") \/ Raise(c)
    /\ UNCHANGED <<month, ledger, alertVars>>

\* The host settles the session: it commits, or rolls back a call that raised.
Settle(c) ==
    /\ At(c, "ending")
    /\ \/ ledger' = [ledger EXCEPT ![call[c].in] = @ + call[c].row]
       \/ call[c].raised /\ UNCHANGED ledger
    /\ call' = [call EXCEPT ![c] = [@ EXCEPT !.at = "idle", !.cost = NoCost,
                  !.usage = NoCost, !.row = NoCost, !.in = month, !.lost = FALSE,
                  !.raised = FALSE]]
    /\ UNCHANGED <<month, alertVars, lastUsage>>

MonthEnds ==
    /\ month < Months
    /\ month' = month + 1
    /\ UNCHANGED <<ledger, alertVars, lastUsage, call>>

Next ==
    \/ \E c \in Caller :
          \/ Start(c) \/ Gate(c) \/ Alarm(c) \/ Notify(c)
          \/ ScreenInput(c) \/ CheckBudget(c)
          \/ Complete(c) \/ Drained(c) \/ NoResponse(c) \/ ScreenSent(c)
          \/ Record(c) \/ ScreenOutput(c) \/ Settle(c)
    \/ MonthEnds

Spec == Init /\ [][Next]_vars
-----------------------------------------------------------------------------
\* What the open transactions hold for a month.
Rows(m) == [c \in Caller |-> IF call[c].in = m THEN call[c].row ELSE 0]

\* The budget is checked before a call and charged after it, so concurrent calls
\* overshoot it, but only by the calls under way when it was reached: no month
\* is charged more than Cap - 1 and one call of each caller, the rows still in
\* open transactions included (_check_budget, _record_usage).
SpendBounded ==
    \A m \in Month :
        ledger[m] + SumFunctionOnSet(Rows(m), Caller) <= Cap - 1 + Cardinality(Caller) * MaxCost

\* What the vendor billed for an analysis is in its caller's transaction before the
\* output is screened, so that neither that screening nor an output tool that
\* raises takes it from a host that commits, and it is the call's own cost, whoever
\* else completes on the provider meanwhile; only a failed write loses it (analyze:
\* record after the response is built, before the output tools).
AnalyzeBillsOwnCost ==
    \A c \in Caller :
        call[c].kind = "analyze" /\ call[c].cost # NoCost /\ call[c].at \in {"output", "ending"}
          => call[c].lost \/ call[c].row = call[c].cost

\* Concurrent refusals put one alert a month in front of the admins; there are
\* more only for trips on which Redis raised (_emit_budget_exhausted_alert).
AlertOnce == \A m \in Month : alerts[m] <= 1 + blind[m]

\* The ledger takes exactly that cost when the host settles an analysis, and passes
\* over it only when the row could not be written or the host rolls back a call that
\* raised (the row is flushed, never committed, by record_usage).
LedgerTakesOwnCosts ==
    \A c \in Caller :
        call[c].kind = "analyze" /\ At(c, "ending") /\ At(c, "idle")' =>
            \/ ledger' = [ledger EXCEPT ![call[c].in] = @ + call[c].cost]
            \/ ledger' = ledger /\ (call[c].lost \/ call[c].raised)

\* The budget of a tenant is kept, its exhaustion told and its analyses billed,
\* however refusals, charges and calls of one agent interleave
\* (assert_llm_allowed_for_tenant, _check_budget, analyze).
MeteringSound ==
    /\ [](TypeOK /\ SpendBounded /\ AnalyzeBillsOwnCost /\ AlertOnce)
    /\ [][LedgerTakesOwnCosts]_vars
================================================================================
