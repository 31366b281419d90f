--------------------------- MODULE MCReplicasAndGraph ---------------------------
(***************************************************************************)
(* Three small protocols that share no state: requests with one            *)
(* idempotency key, the one-shot work of a boot on every replica, and the  *)
(* agent graphs a replica runs (three nodes with hops and one leaf:        *)
(* chains, diamonds, cycles, a hop taken twice, dangling ids).  Their      *)
(* interleavings say nothing: a behaviour is one of one part, and the      *)
(* others stay as they were.                                               *)
(***************************************************************************)
EXTENDS IdempotencyReplay, ReplicaBoot, AgentGraph

CONSTANTS a, b, c, d

SomeNodes == {a, b, c, d}
Ids == SomeNodes \cup {Unknown}
UpTo(n) == UNION {[1 .. k -> Ids] : k \in 0 .. n}

AllSpecs ==
    {[next |-> (a :> na @@ b :> nb @@ c :> nc @@ d :> <<>>),
      branch |-> [n \in SomeNodes |-> IF n = c THEN "x" ELSE Always]]
        : na \in UpTo(2), nb \in UpTo(1) \cup {<<c, d>>}, nc \in UpTo(1)}

VARIABLE part

partVars == <<part, replayVars, bootVars, vars>>

\* At rest the fairness of a part asks for nothing.
RequestsAtRest ==
    /\ entry = NoEntry /\ live = {} /\ produced = {}
    /\ pc = [r \in Request |-> "end"]
    /\ answer = [r \in Request |-> "error"]
    /\ got = [r \in Request |-> NoRun]
BootAtRest == BootInit /\ failOpen
GraphAtRest ==
    /\ outcome = "rejected"
    /\ spec = CHOOSE s \in Spec0 : ~Walks(s)
    /\ run = [w \in Way |-> Absent]
    /\ results = [n \in Node |-> Missing]

PartsInit ==
    /\ part \in {"requests", "boot", "graph"}
    /\ IF part = "requests" THEN ReplayInit ELSE RequestsAtRest
    /\ IF part = "boot" THEN BootInit ELSE BootAtRest
    /\ IF part = "graph" THEN Init ELSE GraphAtRest

PartsNext ==
    /\ UNCHANGED part
    /\ \/ part = "requests" /\ ReplayNext /\ UNCHANGED <<bootVars, vars>>
       \/ part = "boot" /\ BootNext /\ UNCHANGED <<replayVars, vars>>
       \/ part = "graph" /\ Next /\ UNCHANGED <<replayVars, bootVars>>

PartsSpec ==
    /\ PartsInit /\ [][PartsNext]_partVars
    /\ ReplayFairness /\ BootFairness /\ Fairness
=================================================================================
