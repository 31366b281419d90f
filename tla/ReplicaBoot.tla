------------------------------ MODULE ReplicaBoot ------------------------------
(***************************************************************************)
(* Replicas of a service that boot together (service_runtime.py): each     *)
(* migrates the schema behind acquire_migration_lock, a session-level      *)
(* advisory lock awaited for lock_timeout at most, and then asks run_once, *)
(* SET NX EX in Redis, whether the one-shot work is its to do.  Replicas   *)
(* crash and start again; a migration may hang with the lock in its hands. *)
(* What a service does between and after these two calls is its own.       *)
(***************************************************************************)
EXTENDS Naturals, FiniteSets

CONSTANTS
    Replica,
    Wedged,      \* replicas whose migration may hang for ever
    NoReplica,
    MaxBoots     \* bound: starts, first and later

ASSUME BootAssumption ==
    /\ Wedged \subseteq Replica /\ NoReplica \notin Replica
    /\ MaxBoots \in Nat

VARIABLES
    stage,       \* where each replica is
    holder,      \* who holds the advisory lock
    unlocked,    \* replicas that go on without it: acquire_migration_lock was False
    claim,       \* startup:once:* is set
    failOpen,    \* fail_open of run_once
    boots,
    workers      \* history: who was told to do the work while this claim stands

bootVars == <<stage, holder, unlocked, claim, failOpen, boots, workers>>

BootInit ==
    /\ stage = [r \in Replica |-> "down"]
    /\ holder = NoReplica
    /\ unlocked = {}
    /\ claim = FALSE
    /\ failOpen \in BOOLEAN
    /\ boots = 0
    /\ workers = {}

InStage(r, where) == stage[r] = where
Enters(r, where) == stage' = [stage EXCEPT ![r] = where]

\* The connection closes, and with it the session that holds the lock.
Disconnects(r) ==
    /\ holder' = IF holder = r THEN NoReplica ELSE holder
    /\ unlocked' = unlocked \ {r}

Start(r) ==
    /\ InStage(r, "down") /\ boots < MaxBoots
    /\ boots' = boots + 1
    /\ Enters(r, "locking")
    /\ UNCHANGED <<holder, unlocked, claim, workers, failOpen>>

\* Mutant: the lock is pg_advisory_xact_lock, gone with the commit.
TransactionLock(r) ==
    /\ InStage(r, "locking") /\ holder = NoReplica
    /\ Enters(r, "migrating")
    /\ UNCHANGED <<holder, unlocked, claim, boots, workers, failOpen>>

\* pg_advisory_lock returns; the commit that follows keeps the lock.
Locks(r) ==
    /\ InStage(r, "locking") /\ holder = NoReplica
    /\ holder' = r
    /\ Enters(r, "migrating")
    /\ UNCHANGED <<unlocked, claim, boots, workers, failOpen>>

\* Mutant: SET lock_timeout is missing.
WaitsForEver(r) == FALSE

\* lock_timeout runs out, or a statement fails: rolled back, and on without it.
GivesUp(r) ==
    /\ InStage(r, "locking")
    /\ unlocked' = unlocked \cup {r}
    /\ Enters(r, "migrating")
    /\ UNCHANGED <<holder, claim, boots, workers, failOpen>>

Migrated(r) ==
    /\ InStage(r, "migrating")
    /\ Disconnects(r)
    /\ Enters(r, "claiming")
    /\ UNCHANGED <<claim, boots, workers, failOpen>>

\* Two at a time can deadlock or apply twice; DDL can exceed the lock_timeout
\* that the session has kept.  The boot fails.
MigrationFails(r) ==
    /\ InStage(r, "migrating")
    /\ Disconnects(r)
    /\ Enters(r, "down")
    /\ UNCHANGED <<claim, boots, workers, failOpen>>

\* run_once: SET NX EX wins, ...
ClaimsWork(r) ==
    /\ InStage(r, "claiming") /\ ~claim
    /\ claim' = TRUE
    /\ Enters(r, "working")
    /\ workers' = workers \cup {r}
    /\ UNCHANGED <<holder, unlocked, boots, failOpen>>

\* ... or loses, ...
LeavesWork(r) ==
    /\ InStage(r, "claiming") /\ claim
    /\ Enters(r, "serving")
    /\ UNCHANGED <<holder, unlocked, claim, boots, workers, failOpen>>

\* ... or raises, applied or not: fail_open decides.
ClaimUnknown(r) ==
    /\ InStage(r, "claiming")
    /\ claim' \in {claim, TRUE}
    /\ Enters(r, IF failOpen THEN "working" ELSE "serving")
    /\ workers' = IF failOpen THEN workers \cup {r} ELSE workers
    /\ UNCHANGED <<holder, unlocked, boots, failOpen>>

WorkDone(r) ==
    /\ InStage(r, "working")
    /\ Enters(r, "serving")
    /\ UNCHANGED <<holder, unlocked, claim, boots, workers, failOpen>>

\* The process ends at whatever await; the claim stays.
Crash(r) ==
    /\ ~InStage(r, "down")
    /\ Disconnects(r)
    /\ Enters(r, "down")
    /\ UNCHANGED <<claim, boots, workers, failOpen>>

\* ttl_seconds have gone by: longer than the work takes.
ClaimExpires ==
    /\ claim /\ \A r \in Replica : ~InStage(r, "working")
    /\ claim' = FALSE
    /\ workers' = {}
    /\ UNCHANGED <<stage, holder, unlocked, boots, failOpen>>

Proceeds(r) == Locks(r) \/ GivesUp(r) \/ ClaimsWork(r) \/ LeavesWork(r) \/ ClaimUnknown(r) \/ WorkDone(r)

BootNext ==
    \/ \E r \in Replica : Start(r) \/ Proceeds(r) \/ Migrated(r) \/ MigrationFails(r) \/ Crash(r)
    \/ ClaimExpires

\* Awaited calls come back, the lock within its timeout; migrations that are
\* not wedged end.
BootFairness ==
    /\ \A r \in Replica : WF_bootVars(Proceeds(r))
    /\ \A r \in Replica \ Wedged : WF_bootVars(Migrated(r))

BootSpec == BootInit /\ [][BootNext]_bootVars

-----------------------------------------------------------------------------
\* Whoever crashes, hangs or starts again: two replicas migrate at the same
\* time only when one of them was told that it has no lock, and unless run_once
\* was told to fail open at most one replica does the work while a claim
\* stands, although a SET that raised may have been applied
\* (acquire_migration_lock, run_once).
OneAtATime ==
    /\ \A r, s \in Replica :
          (r # s /\ InStage(r, "migrating") /\ InStage(s, "migrating")) => {r, s} \cap unlocked # {}
    /\ ~failOpen => Cardinality(workers) <= 1

\* A wedged holder cannot hang the boot of another replica: every boot comes to
\* an end, up or down (lock_timeout in acquire_migration_lock).
BootsFinish ==
    \A r \in Replica \ Wedged : InStage(r, "locking") ~> (InStage(r, "serving") \/ InStage(r, "down"))
===============================================================================
