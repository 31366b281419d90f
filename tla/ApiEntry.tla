------------------------------- MODULE ApiEntry -------------------------------
(***************************************************************************)
(* The way into POST /analyze (api/main.py): RateLimitMiddleware, a        *)
(* sliding window over the times of each client's requests, kept in the    *)
(* memory of the process, then require_api_key.  Neither awaits before it  *)
(* has decided, so a request is one step.                                  *)
(***************************************************************************)
EXTENDS Naturals, Sequences, FiniteSets

CONSTANTS
    Address,       \* what _get_client_key tells apart
    Limit,         \* SMART_LLM_RATE_LIMIT
    WindowSecs,    \* SMART_LLM_RATE_WINDOW
    MaxTime        \* bound: time, in the unit of the window

ASSUME EntryAssumption == Limit \in Nat /\ WindowSecs \in Nat \ {0} /\ MaxTime \in Nat

VARIABLES
    time,
    auth,          \* are keys configured, and must they be
    window,        \* _requests: address -> times
    served,        \* history: when requests of an address were let through
    reply          \* the latest answer: to whom, when and which

entryVars == <<time, auth, window, served, reply>>

EntryInit ==
    /\ time = WindowSecs
    /\ auth \in [keys : BOOLEAN, required : BOOLEAN]
    /\ window = [a \in Address |-> <<>>]
    /\ served = [a \in Address |-> <<>>]
    /\ reply \in [to : Address, at : {time}, code : {"none"}]

\* _cleanup_old_requests
Later(times, cutoff) ==
    LET kept[i \in 0 .. Len(times)] ==
            IF i = 0 THEN <<>>
            ELSE IF times[i] > cutoff THEN Append(kept[i - 1], times[i]) ELSE kept[i - 1]
    IN  kept[Len(times)]
Recent(a) == Later(window[a], time - WindowSecs)

Replies(a, code) == reply' = [to |-> a, at |-> time, code |-> code]

\* require_api_key: without configured keys anybody is "anonymous", unless keys
\* are required, when nobody gets in.
Answer(presented) ==
    IF ~auth.keys THEN (IF auth.required THEN "500" ELSE "analyzed")
    ELSE IF presented = "valid" THEN "analyzed" ELSE "401"

\* Mutant: what was turned away counts too.
LimitedCounting(a) ==
    /\ Len(Recent(a)) >= Limit
    /\ window' = [window EXCEPT ![a] = Append(Recent(a), time)]
    /\ Replies(a, "429")
    /\ UNCHANGED <<time, auth, served>>

\* 429: what is turned away leaves no trace.
Limited(a) ==
    /\ Len(Recent(a)) >= Limit
    /\ window' = [window EXCEPT ![a] = Recent(a)]
    /\ Replies(a, "429")
    /\ UNCHANGED <<time, auth, served>>

\* What is let through counts, with whatever key it comes.
Passes(a) ==
    /\ Len(Recent(a)) < Limit
    /\ window' = [window EXCEPT ![a] = Append(Recent(a), time)]
    /\ served' = [served EXCEPT ![a] = Append(@, time)]
    /\ \E presented \in {"valid", "other"} : Replies(a, Answer(presented))
    /\ UNCHANGED <<time, auth>>

TimePasses ==
    /\ time < MaxTime
    /\ time' = time + 1
    /\ UNCHANGED <<auth, window, served, reply>>

EntryNext == TimePasses \/ \E a \in Address : Passes(a) \/ Limited(a)

EntrySpec == EntryInit /\ [][EntryNext]_entryVars

-----------------------------------------------------------------------------
\* The times within the window that ends at t.
Within(times, t) == Cardinality({i \in DOMAIN times : times[i] > t - WindowSecs /\ times[i] <= t})

\* Over no stretch of a window's length, wherever it starts, is a client let
\* through more often than the limit, and it is turned away only when it had
\* its whole share in the window that ends with the request: retrying against a
\* 429 neither helps nor costs (dispatch, _cleanup_old_requests).
WindowIsExact ==
    /\ \A a \in Address : \A i \in DOMAIN served[a] : Within(served[a], served[a][i]) <= Limit
    /\ reply.code = "429" => Within(served[reply.to], reply.at) = Limit
===============================================================================
