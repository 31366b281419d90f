------------------------------ MODULE MCResilience ------------------------------
(***************************************************************************)
(* The two users of the breaker: callers of one breaker (two that retry    *)
(* once and a resilient_section), and failover (two requests, two agents   *)
(* of one vendor with two keys and one of a vendor without).  They share   *)
(* no state, so a behaviour is one of one part, and the other stays as it  *)
(* was.                                                                    *)
(***************************************************************************)
EXTENDS CircuitBreaker, ProviderFailover, TLC

CONSTANTS t1, t2, t3, r1, r2, a1, a2, b1, pa, pb

MCTask == {t1, t2, t3}
MCAttempts == (t1 :> 2) @@ (t2 :> 2) @@ (t3 :> 1)
MCProviderOf == (a1 :> pa) @@ (a2 :> pa) @@ (b1 :> pb)
MCNumKeys == (pa :> 2) @@ (pb :> 0)

VARIABLE part

resilienceVars == <<part, callsVars, vars>>

\* At rest the fairness of a part asks for nothing.
CallsAtRest ==
    /\ breaker = Fresh /\ stale = {}
    /\ stage = [t \in Task |-> "away"]
    /\ attempt = [t \in Task |-> 0]
    /\ outcome = [t \in Task |-> "none"]
    /\ recorded = [t \in Task |-> 0]
WalksAtRest ==
    /\ sequence = <<>>
    /\ breakers = [p \in Provider |-> Fresh]
    /\ index = [p \in Provider |-> 0] /\ usage = [p \in Provider |-> 0]
    /\ pc = [r \in Request |-> "done"]
    /\ pos = [r \in Request |-> 0]
    /\ skipped = [r \in Request |-> {}] /\ failed = [r \in Request |-> {}]
    /\ result = [r \in Request |-> "cancelled"]

ResilienceInit ==
    /\ part \in {"calls", "walks"}
    /\ IF part = "calls" THEN CallsInit ELSE CallsAtRest
    /\ IF part = "walks" THEN Init ELSE WalksAtRest

ResilienceNext ==
    /\ UNCHANGED part
    /\ \/ part = "calls" /\ CallsNext /\ UNCHANGED vars
       \/ part = "walks" /\ Next /\ UNCHANGED callsVars

ResilienceSpec ==
    /\ ResilienceInit /\ [][ResilienceNext]_resilienceVars
    /\ CallsFairness /\ WalksFairness
=================================================================================
