---------------------------- MODULE ToolPolicyGate ----------------------------
(***************************************************************************)
(* ToolPolicyGate.evaluate (security/tool_policy.py) with the audit chain  *)
(* it stamps and the token bucket it asks (security/rate_limit.py), as the *)
(* tool-dispatch path of the agent loop uses them.  The gate of one run    *)
(* judges one call at a time; the limiter is shared with other runs of the *)
(* same company, which take tokens whenever they like.                     *)
(***************************************************************************)
EXTENDS AuditChain

CONSTANTS
    Name,       \* what a model may call: registry names, class names, nonsense
    Risk,       \* effective_risk of the tool behind each name
    Mode,       \* approval mode of each name in the run context; "none" if absent
    Capacity,   \* of a bucket, in units of which a call costs Cost
    Cost,
    Refill,     \* units per tick
    MaxTime,    \* bound: ticks
    MaxOther    \* bound: calls of other runs

Risks == {"read", "write", "external"}
Modes == {"none", "deny", "require_approval", "allow", "auto"}
Decisions == {"allow", "deny", "approval_required"}

ASSUME GateAssumption ==
    /\ Risk \in [Name -> Risks]
    /\ Mode \in [Name -> Modes]
    /\ {Capacity, Cost, Refill, MaxTime, MaxOther} \subseteq Nat

VARIABLES
    clock,    \* time.monotonic, in ticks
    bucket,   \* per name: the tokens left and when that was
    grants,   \* history, per name: when the bucket said yes
    head,     \* AuditChain.head of this run
    log,      \* what the audit sink persisted
    lost      \* history: no record was lost, only the last ones, or an inner one

gateVars == <<clock, bucket, grants, head, log, lost>>

GateTypeOK ==
    /\ clock \in 0 .. MaxTime
    /\ \A n \in Name : bucket[n].tokens \in 0 .. Capacity /\ bucket[n].at \in 0 .. clock
    /\ lost \in {"none", "tail", "inner"}

GateInit ==
    /\ clock = 0
    /\ bucket = [n \in Name |-> [tokens |-> Capacity, at |-> 0]]
    /\ grants = [n \in Name |-> <<>>]
    /\ head = GENESIS
    /\ log = <<>>
    /\ lost = "none"

\* resolve_tool_policy.
Policy(n) ==
    CASE Mode[n] \in {"none", "deny"} -> "deny"
      [] Mode[n] = "allow" -> "allow"
      [] Mode[n] = "auto" /\ Risk[n] = "read" -> "allow"
      [] OTHER -> "approval_required"

-----------------------------------------------------------------------------
\* Tokens in the bucket of n now.
Level(n) ==
    LET filled == bucket[n].tokens + (clock - bucket[n].at) * Refill
    IN  IF filled > Capacity THEN Capacity ELSE filled

\* Mutant: a refused call leaves the time of the last refill as it was.
CheckKeepsTime(n, within) ==
    /\ within = (Level(n) >= Cost)
    /\ bucket' = [bucket EXCEPT ![n] =
                     [tokens |-> IF within THEN Level(n) - Cost ELSE Level(n),
                      at |-> IF within THEN clock ELSE @.at]]
    /\ grants' = IF within THEN [grants EXCEPT ![n] = Append(@, clock)] ELSE grants

\* TokenBucketRateLimiter.check, which says within or not.
Check(n, within) ==
    /\ within = (Level(n) >= Cost)
    /\ bucket' = [bucket EXCEPT ![n] =
                     [tokens |-> IF within THEN Level(n) - Cost ELSE Level(n), at |-> clock]]
    /\ grants' = IF within THEN [grants EXCEPT ![n] = Append(@, clock)] ELSE grants

\* The limiter is asked about calls that would be allowed; if it fails, the
\* call is allowed.
Throttle(n, limited, base, decision) ==
    IF base = "allow" /\ limited
    THEN \/ \E within \in BOOLEAN :
               /\ Check(n, within)
               /\ decision = IF within THEN "allow" ELSE "deny"
         \/ decision = "allow" /\ UNCHANGED <<bucket, grants>>
    ELSE decision = base /\ UNCHANGED <<bucket, grants>>

\* Stamp the record, advance the head, hand the record to the sink.  If the
\* sink fails the record is lost and the run goes on.
Audit(content, lossy) ==
    /\ head' = compute_hash(head, content)
    /\ \/ /\ log' = Append(log, Stamp(head, content))
          /\ lost' = IF lost = "tail" THEN "inner" ELSE lost
       \/ /\ lossy
          /\ log' = log
          /\ lost' = IF lost = "none" THEN "tail" ELSE lost

\* Mutant: a call that needs no approval needs no delegation either.
BaseTrusting(call) ==
    IF call.target = "other" /\ ~call.delegated /\ Policy(call.name) # "allow"
    THEN "deny" ELSE Policy(call.name)

\* The policy, unless the call targets another company without a delegation.
Base(call) ==
    IF call.target = "other" /\ ~call.delegated THEN "deny" ELSE Policy(call.name)

\* evaluate: policy and delegation, then the rate limit, then the audit record.
Evaluate(call, limited, lossy, decision) ==
    /\ Throttle(call.name, limited, Base(call), decision)
    /\ Audit([name |-> call.name, decision |-> decision], lossy)
    /\ clock' = clock

GateTick ==
    /\ clock < MaxTime
    /\ clock' = clock + 1
    /\ UNCHANGED <<bucket, grants, head, log, lost>>

\* Another run of this company calls n.
OtherRun(n) ==
    /\ Len(grants[n]) < MaxOther
    /\ \E within \in BOOLEAN : Check(n, within)
    /\ UNCHANGED <<clock, head, log, lost>>

-----------------------------------------------------------------------------
Without(s, i) == SubSeq(s, 1, i - 1) \o SubSeq(s, i + 1, Len(s))

\* The persisted trail verifies exactly as long as no record but the latest is
\* missing, and a trail that verifies stops doing so when a record before the
\* last is deleted, two are swapped or the content of one is changed.
AuditTrailSound ==
    /\ verify_chain(log, GENESIS) <=> lost # "inner"
    /\ verify_chain(log, GENESIS) =>
          /\ \A i \in 1 .. Len(log) - 1 : ~verify_chain(Without(log, i), GENESIS)
          /\ \A i, j \in DOMAIN log : i # j =>
                ~verify_chain([log EXCEPT ![i] = log[j], ![j] = log[i]], GENESIS)
          /\ \A i \in DOMAIN log : \A d \in Decisions \ {log[i].content.decision} :
                ~verify_chain([log EXCEPT ![i].content.decision = d], GENESIS)

\* Over any period, one name is granted at most a full bucket and what the
\* period refills, however the runs that share the bucket interleave.
RateBound ==
    \A n \in Name : \A i, j \in DOMAIN grants[n] : i <= j =>
        (j - i + 1) * Cost <= Capacity + (grants[n][j] - grants[n][i]) * Refill
===============================================================================
