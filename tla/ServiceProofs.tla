---------------------------- MODULE ServiceProofs ----------------------------
(***************************************************************************)
(* Proofs about the machines around the agents, for every value of their   *)
(* constants: requests under one idempotency key, replicas that boot       *)
(* together, bearer tokens, an MCP provider, the event stream of a socket, *)
(* the skills of a run, the parsing skills, the window of the rate limit.  *)
(* They share no state, so each is proved by itself.                       *)
(***************************************************************************)
EXTENDS IdempotencyReplay, ReplicaBoot, TokenGate, McpTools, StreamSocket, SkillRun,
        ParsingDesk, ApiEntry, ProofLemmas

-----------------------------------------------------------------------------
\* Requests under one idempotency key.

\* While an owner is at work the key is its claim and no other run stands;
\* once the key is gone, no run is left that may stand.
OneOwner ==
    /\ \A r, s \in Owners : r = s
    /\ Owners # {} => entry = Pending
    /\ \A r \in Owners : live \subseteq {r}
    /\ \A r \in Request : pc[r] \in {"releasing", "raising"} => live = {}
    /\ entry = NoEntry => live = {}

IInv == ReplayTypeOK /\ OneOwner /\ AtMostOnce

\* The types of the key, the control states and the history variables are
\* preserved by every step, whatever the faults.
THEOREM TypeCorrect == ReplaySpec => []ReplayTypeOK
<1> USE IdempotencyAssumption
<1> USE DEF ReplayTypeOK, Places, Owning, NoEntry, Pending, Done
<1>1. ReplayInit => ReplayTypeOK
  BY DEF ReplayInit
<1>2. ReplayTypeOK /\ [ReplayNext]_replayVars => ReplayTypeOK'
  <2> SUFFICES ASSUME ReplayTypeOK, [ReplayNext]_replayVars PROVE ReplayTypeOK'
    OBVIOUS
  <2> USE DEF InPlace, Goto, Reply, Written, MaybeWritten
  <2>1. CASE Expire
    BY <2>1 DEF Expire
  <2>2. ASSUME NEW r \in Request, Claim(r) PROVE ReplayTypeOK'
    BY <2>2 DEF Claim
  <2>3. ASSUME NEW r \in Request, ClaimLost(r) PROVE ReplayTypeOK'
    BY <2>3 DEF ClaimLost
  <2>4. ASSUME NEW r \in Request, ClaimRaises(r) PROVE ReplayTypeOK'
    BY <2>4 DEF ClaimRaises
  <2>5. ASSUME NEW r \in Request, UnguardedEnds(r) PROVE ReplayTypeOK'
    BY <2>5 DEF UnguardedEnds
  <2>6. ASSUME NEW r \in Request, Respond(r) PROVE ReplayTypeOK'
    BY <2>6 DEF Respond
  <2>7. ASSUME NEW r \in Request, HandlerRaises(r) PROVE ReplayTypeOK'
    BY <2>7 DEF HandlerRaises
  <2>8. ASSUME NEW r \in Request, ReadCacheable(r) PROVE ReplayTypeOK'
    BY <2>8 DEF ReadCacheable
  <2>9. ASSUME NEW r \in Request, ReadUncacheable(r) PROVE ReplayTypeOK'
    BY <2>9 DEF ReadUncacheable
  <2>10. ASSUME NEW r \in Request, BodyRaises(r) PROVE ReplayTypeOK'
    BY <2>10 DEF BodyRaises
  <2>11. ASSUME NEW r \in Request, Store(r) PROVE ReplayTypeOK'
    BY <2>11 DEF Store
  <2>12. ASSUME NEW r \in Request, Release(r) PROVE ReplayTypeOK'
    BY <2>12 DEF Release
  <2>13. ASSUME NEW r \in Request, Replay(r) PROVE ReplayTypeOK'
    BY <2>13 DEF Replay
  <2>14. ASSUME NEW r \in Request, Conflict(r) PROVE ReplayTypeOK'
    BY <2>14 DEF Conflict
  <2>15. ASSUME NEW r \in Request, Cancel(r) PROVE ReplayTypeOK'
    BY <2>15 DEF Cancel
  <2>16. CASE UNCHANGED replayVars
    BY <2>16 DEF replayVars
  <2> QED
    BY <2>1, <2>2, <2>3, <2>4, <2>5, <2>6, <2>7, <2>8, <2>9, <2>10, <2>11,
       <2>12, <2>13, <2>14, <2>15, <2>16 DEF ReplayNext, Serve
<1> QED
  BY <1>1, <1>2, PTL DEF ReplaySpec

LEMMA OwnersAlways ==
    ASSUME "slow" \notin Faults
    PROVE  ReplaySpec => []IInv
<1> USE IdempotencyAssumption
<1> DEFINE Inv == OneOwner /\ AtMostOnce
<1> USE DEF OneOwner, AtMostOnce, Owners, Owning, NoEntry, Pending, Done
<1>1. ReplayInit => Inv
  BY DEF ReplayInit
<1>2. ReplayTypeOK /\ Inv /\ [ReplayNext]_replayVars => Inv'
  <2> SUFFICES ASSUME ReplayTypeOK, Inv, [ReplayNext]_replayVars PROVE Inv'
    OBVIOUS
  <2> USE DEF ReplayTypeOK, Places, InPlace, Goto, Reply, Written, MaybeWritten
  <2>1. CASE Expire
    BY <2>1 DEF Expire
  <2>2. ASSUME NEW r \in Request, Claim(r) PROVE Inv'
    BY <2>2 DEF Claim
  <2>3. ASSUME NEW r \in Request, ClaimLost(r) PROVE Inv'
    BY <2>3 DEF ClaimLost
  <2>4. ASSUME NEW r \in Request, ClaimRaises(r) PROVE Inv'
    BY <2>4 DEF ClaimRaises
  <2>5. ASSUME NEW r \in Request, UnguardedEnds(r) PROVE Inv'
    BY <2>5 DEF UnguardedEnds
  <2>6. ASSUME NEW r \in Request, Respond(r) PROVE Inv'
    BY <2>6 DEF Respond
  <2>7. ASSUME NEW r \in Request, HandlerRaises(r) PROVE Inv'
    BY <2>7 DEF HandlerRaises
  <2>8. ASSUME NEW r \in Request, ReadCacheable(r) PROVE Inv'
    BY <2>8 DEF ReadCacheable
  <2>9. ASSUME NEW r \in Request, ReadUncacheable(r) PROVE Inv'
    BY <2>9 DEF ReadUncacheable
  <2>10. ASSUME NEW r \in Request, BodyRaises(r) PROVE Inv'
    BY <2>10 DEF BodyRaises
  <2>11. ASSUME NEW r \in Request, Store(r) PROVE Inv'
    BY <2>11 DEF Store
  <2>12. ASSUME NEW r \in Request, Release(r) PROVE Inv'
    BY <2>12 DEF Release
  <2>13. ASSUME NEW r \in Request, Replay(r) PROVE Inv'
    BY <2>13 DEF Replay
  <2>14. ASSUME NEW r \in Request, Conflict(r) PROVE Inv'
    BY <2>14 DEF Conflict
  <2>15. ASSUME NEW r \in Request, Cancel(r) PROVE Inv'
    BY <2>15 DEF Cancel
  <2>16. CASE UNCHANGED replayVars
    BY <2>16 DEF replayVars
  <2> QED
    BY <2>1, <2>2, <2>3, <2>4, <2>5, <2>6, <2>7, <2>8, <2>9, <2>10, <2>11,
       <2>12, <2>13, <2>14, <2>15, <2>16 DEF ReplayNext, Serve
<1>3. ReplayTypeOK /\ Inv => IInv
  BY DEF IInv
<1> QED
  BY <1>1, <1>2, <1>3, TypeCorrect, PTL DEF ReplaySpec

\* As long as no handler outlives the TTL, the claim lets through at most one
\* run of the handler per TTL period whose side effect may stand, for any number
\* of overlapping retries, cancellations, crashes, broken bodies and Redis errors.
THEOREM RunsAtMostOnce ==
    ASSUME "slow" \notin Faults
    PROVE  ReplaySpec => []AtMostOnce
<1>1. IInv => AtMostOnce
  BY DEF IInv
<1> QED BY <1>1, OwnersAlways, PTL

\* What is cached, about to be cached or was replayed is a complete response.
CachedIsComplete ==
    /\ entry.state = "done" => entry.run \in produced
    /\ \A r \in Request : pc[r] = "storing" => r \in produced
    /\ \A r \in Request : answer[r] = "replay" => got[r] \in produced

LEMMA CachedInitInv == ReplayInit => CachedIsComplete
BY DEF ReplayInit, CachedIsComplete, NoEntry

LEMMA CachedNextInv == ReplayTypeOK /\ CachedIsComplete /\ [ReplayNext]_replayVars => CachedIsComplete'
<1> USE IdempotencyAssumption
<1> SUFFICES ASSUME ReplayTypeOK, CachedIsComplete, [ReplayNext]_replayVars PROVE CachedIsComplete'
  OBVIOUS
<1> USE DEF CachedIsComplete, ReplayTypeOK, Places, Owning, NoEntry, Pending, Done, InPlace, Goto, Reply, Written, MaybeWritten
<1>1. CASE Expire
  BY <1>1 DEF Expire
<1>2. ASSUME NEW r \in Request, Claim(r) PROVE CachedIsComplete'
  BY <1>2 DEF Claim
<1>3. ASSUME NEW r \in Request, ClaimLost(r) PROVE CachedIsComplete'
  BY <1>3 DEF ClaimLost
<1>4. ASSUME NEW r \in Request, ClaimRaises(r) PROVE CachedIsComplete'
  BY <1>4 DEF ClaimRaises
<1>5. ASSUME NEW r \in Request, UnguardedEnds(r) PROVE CachedIsComplete'
  BY <1>5 DEF UnguardedEnds
<1>6. ASSUME NEW r \in Request, Respond(r) PROVE CachedIsComplete'
  BY <1>6 DEF Respond
<1>7. ASSUME NEW r \in Request, HandlerRaises(r) PROVE CachedIsComplete'
  BY <1>7 DEF HandlerRaises
<1>8. ASSUME NEW r \in Request, ReadCacheable(r) PROVE CachedIsComplete'
  BY <1>8 DEF ReadCacheable
<1>9. ASSUME NEW r \in Request, ReadUncacheable(r) PROVE CachedIsComplete'
  BY <1>9 DEF ReadUncacheable
<1>10. ASSUME NEW r \in Request, BodyRaises(r) PROVE CachedIsComplete'
  BY <1>10 DEF BodyRaises
<1>11. ASSUME NEW r \in Request, Store(r) PROVE CachedIsComplete'
  BY <1>11 DEF Store
<1>12. ASSUME NEW r \in Request, Release(r) PROVE CachedIsComplete'
  BY <1>12 DEF Release
<1>13. ASSUME NEW r \in Request, Replay(r) PROVE CachedIsComplete'
  BY <1>13 DEF Replay
<1>14. ASSUME NEW r \in Request, Conflict(r) PROVE CachedIsComplete'
  BY <1>14 DEF Conflict
<1>15. ASSUME NEW r \in Request, Cancel(r) PROVE CachedIsComplete'
  BY <1>15 DEF Cancel
<1>16. CASE UNCHANGED replayVars
  BY <1>16 DEF replayVars
<1> QED
  BY <1>1, <1>2, <1>3, <1>4, <1>5, <1>6, <1>7, <1>8, <1>9, <1>10, <1>11,
     <1>12, <1>13, <1>14, <1>15, <1>16 DEF ReplayNext, Serve

\* A record that is finished stays until Redis drops it: whoever still writes the
\* key owns it, and beside a finished record there is no owner.
LEMMA FinishedStays ==
    ASSUME IInv, [ReplayNext]_replayVars, entry.state = "done"
    PROVE  entry' \in {entry, NoEntry} /\ (entry' = NoEntry => pc' = pc)
<1>1. Owners = {} /\ entry # NoEntry /\ entry # Pending
  BY DEF IInv, OneOwner, NoEntry, Pending
<1>2. \A r \in Request : Written(r) = entry
  BY <1>1 DEF Written, InPlace, Owners, Owning
<1>3. CASE Expire
  BY <1>3 DEF Expire
<1>4. CASE UNCHANGED replayVars
  BY <1>4 DEF replayVars
<1>5. ASSUME NEW r \in Request, Serve(r) \/ Cancel(r) PROVE entry' = entry
  BY <1>1, <1>2, <1>5 DEF Serve, Cancel, Claim, ClaimLost, ClaimRaises, UnguardedEnds, Respond, HandlerRaises,
     ReadCacheable, ReadUncacheable, BodyRaises, Store, Release, Replay, Conflict, MaybeWritten
<1> QED BY <1>1, <1>3, <1>4, <1>5 DEF ReplayNext

\* As long as no handler outlives the TTL, every retry is handed a complete
\* response of a run for its key, and the same one until Redis drops it
\* (_store, _release, _replay_or_conflict).
THEOREM RetriesAgree ==
    ASSUME "slow" \notin Faults
    PROVE  ReplaySpec => ReplayIsOriginal
<1> DEFINE Complete == \A r \in Request : answer[r] = "replay" => got[r] \in produced
           NotReplaced == entry.state = "done" => entry' \in {entry, NoEntry} /\ (entry' = NoEntry => pc' = pc)
<1>1. IInv => ReplayTypeOK
  BY DEF IInv
<1>2. ReplaySpec => []CachedIsComplete
  BY CachedInitInv, CachedNextInv, TypeCorrect, PTL DEF ReplaySpec
<1>3. CachedIsComplete => Complete
  BY DEF CachedIsComplete
<1>4. IInv /\ [ReplayNext]_replayVars => [NotReplaced]_replayVars
  BY FinishedStays
<1>5. ReplaySpec => []Complete /\ [][NotReplaced]_replayVars
  <2> HIDE DEF Complete, NotReplaced
  <2> QED BY <1>2, <1>3, <1>4, OwnersAlways, PTL DEF ReplaySpec
<1> QED BY <1>5 DEF ReplayIsOriginal

\* Whoever is about to have its response stored is the run that stands, and no
\* client has an answer before its request ends.
StandsWhileServed ==
    /\ \A r \in Request : pc[r] \in {"running", "reading", "storing"} => r \in live
    /\ \A r \in Request : got[r] # NoRun => pc[r] = "end"

LEMMA StandsInitInv == ReplayInit => StandsWhileServed
BY DEF ReplayInit, StandsWhileServed

LEMMA StandsNextInv ==
    ASSUME IInv, StandsWhileServed, [ReplayNext]_replayVars, "slow" \notin Faults
    PROVE  StandsWhileServed'
<1> USE DEF IInv, ReplayTypeOK, OneOwner, StandsWhileServed, Owners, Owning, Places, InPlace, Goto, Reply
<1>1. CASE Expire
  BY <1>1 DEF Expire
<1>2. ASSUME NEW r \in Request,
             \/ Claim(r) \/ ClaimLost(r) \/ ClaimRaises(r) \/ UnguardedEnds(r) \/ Respond(r)
             \/ ReadCacheable(r) \/ BodyRaises(r) \/ Store(r) \/ Replay(r) \/ Conflict(r) \/ Cancel(r)
      PROVE  StandsWhileServed'
  BY <1>2 DEF Claim, ClaimLost, ClaimRaises, UnguardedEnds, Respond, ReadCacheable, BodyRaises,
              Store, Replay, Conflict, Cancel
<1>3. ASSUME NEW r \in Request, HandlerRaises(r) \/ ReadUncacheable(r) \/ Release(r)
      PROVE  StandsWhileServed'
  BY <1>3 DEF HandlerRaises, ReadUncacheable, Release
<1>4. CASE UNCHANGED replayVars
  BY <1>4 DEF replayVars
<1> QED BY <1>1, <1>2, <1>3, <1>4 DEF ReplayNext, Serve

LEMMA PromiseStep ==
    ASSUME IInv, StandsWhileServed, [ReplayNext]_replayVars, "slow" \notin Faults
    PROVE  [Promise!Next]_(Promise!pvars)
<1> USE IdempotencyAssumption DEF Promise!pvars
<1>0. /\ ReplayTypeOK /\ OneOwner
      /\ \A r \in Owners : entry = Pending /\ entry.run = NoRun /\ live \subseteq {r}
      /\ \A r \in Request : pc[r] # "end" => got[r] = NoRun
      /\ NoEntry.run = NoRun /\ \A r \in Request : Done(r).run = r
  BY DEF IInv, OneOwner, StandsWhileServed, Pending, NoEntry, Done
<1>1. CASE Expire
  <2>1. Promise!Forget
    BY <1>0, <1>1 DEF Expire, Promise!Forget
  <2> QED BY <2>1 DEF Promise!Next
<1>2. ASSUME NEW r \in Request, Claim(r) PROVE Promise!Begin(r)
  BY <1>0, <1>2 DEF Claim, Written, InPlace, NoEntry, Pending, OneOwner, Promise!Begin
<1>3. ASSUME NEW r \in Request, HandlerRaises(r) \/ ReadUncacheable(r) PROVE Promise!Withdraw(r)
  BY <1>0, <1>3 DEF HandlerRaises, ReadUncacheable, InPlace, Owners, Owning, StandsWhileServed, Promise!Withdraw
<1>4. ASSUME NEW r \in Request,
             ClaimLost(r) \/ Respond(r) \/ ReadCacheable(r) \/ Conflict(r)
      PROVE  UNCHANGED <<live, entry.run, got>>
  BY <1>4 DEF ClaimLost, Respond, ReadCacheable, Conflict
<1>5. ASSUME NEW r \in Request, ClaimRaises(r)
      PROVE  UNCHANGED <<live, entry.run, got>>
  BY <1>5 DEF ClaimRaises, MaybeWritten, Written, InPlace, NoEntry, Pending
<1>6. ASSUME NEW r \in Request, UnguardedEnds(r) \/ BodyRaises(r)
      PROVE  Promise!Answer(r) \/ UNCHANGED <<live, entry.run, got>>
  BY <1>0, <1>6 DEF UnguardedEnds, BodyRaises, InPlace, Reply, ReplayTypeOK, Promise!Answer
<1>7. ASSUME NEW r \in Request, Store(r)
      PROVE  Promise!Keep(r) \/ Promise!Answer(r)
  BY <1>0, <1>7 DEF Store, MaybeWritten, Written, InPlace, Reply, Owners, Owning, StandsWhileServed, ReplayTypeOK,
                    Promise!Keep, Promise!Answer
<1>8. ASSUME NEW r \in Request, Release(r)
      PROVE  Promise!Answer(r) \/ UNCHANGED <<live, entry.run, got>>
  BY <1>0, <1>8 DEF Release, MaybeWritten, Written, InPlace, Reply, Owners, Owning, ReplayTypeOK, Promise!Answer
<1>9. ASSUME NEW r \in Request, Replay(r)
      PROVE  Promise!Answer(r)
  <2>1. entry.run \in Request /\ entry.run # NoRun
    BY <1>0, <1>9 DEF Replay, ReplayTypeOK, NoEntry, Pending
  <2>2. got[r] = NoRun
    BY <1>0, <1>9 DEF Replay, InPlace
  <2>3. got' = [got EXCEPT ![r] = entry.run] /\ UNCHANGED <<live, entry>>
    BY <1>9 DEF Replay, Reply
  <2> QED BY <2>1, <2>2, <2>3 DEF Promise!Answer
<1>10. ASSUME NEW r \in Request, Cancel(r)
       PROVE  Promise!Keep(r) \/ UNCHANGED <<live, entry.run, got>>
  BY <1>0, <1>10 DEF Cancel, MaybeWritten, Written, InPlace, Reply, Owners, Owning, StandsWhileServed, ReplayTypeOK,
                     NoEntry, Pending, Promise!Keep
<1>11. CASE UNCHANGED replayVars
  BY <1>11 DEF replayVars
<1> QED BY <1>1, <1>2, <1>3, <1>4, <1>5, <1>6, <1>7, <1>8, <1>9, <1>10, <1>11
        DEF ReplayNext, Serve, Promise!Next

\* As long as no handler outlives the TTL, the middleware, its Redis key and all
\* that may fail in between implement the promise of ReplayContract.
THEOREM ImplementsPromise ==
    ASSUME "slow" \notin Faults
    PROVE  ReplaySpec => HonoursPromise
<1>1. ReplayInit => Promise!Init
  BY DEF ReplayInit, Promise!Init, NoEntry
<1>2. ReplaySpec => []StandsWhileServed
  BY StandsInitInv, StandsNextInv, OwnersAlways, PTL DEF ReplaySpec
<1>3. IInv /\ StandsWhileServed /\ [ReplayNext]_replayVars => [Promise!Next]_(Promise!pvars)
  BY PromiseStep
<1> QED BY <1>1, <1>2, <1>3, OwnersAlways, PTL DEF ReplaySpec, HonoursPromise, Promise!Spec

-----------------------------------------------------------------------------
\* Replicas that boot together.

BootStages == {"down", "locking", "migrating", "claiming", "working", "serving"}

BootTypeOK ==
    /\ stage \in [Replica -> BootStages]
    /\ holder \in Replica \cup {NoReplica}
    /\ claim \in BOOLEAN /\ failOpen \in BOOLEAN
    /\ workers \subseteq Replica

\* Who migrates has the lock or was told that it has not.
LockedOrTold == \A r \in Replica : InStage(r, "migrating") => holder = r \/ r \in unlocked

\* Without a claim nobody was sent to work.
OneWorker ==
    ~failOpen => /\ \A r, s \in workers : r = s
                 /\ ~claim => workers = {}

BootInv == BootTypeOK /\ LockedOrTold /\ OneWorker

LEMMA BootInitInv == BootInit => BootInv
BY DEF BootInit, BootInv, BootTypeOK, BootStages, LockedOrTold, OneWorker, InStage

LEMMA BootNextInv == BootInv /\ [BootNext]_bootVars => BootInv'
<1> USE BootAssumption
<1> SUFFICES ASSUME BootInv, [BootNext]_bootVars PROVE BootInv'
  OBVIOUS
<1> USE DEF BootInv, BootTypeOK, BootStages, LockedOrTold, OneWorker, InStage, Enters, Disconnects
<1>1. ASSUME NEW r \in Replica, Start(r) PROVE BootInv'
  BY <1>1 DEF Start
<1>2. ASSUME NEW r \in Replica, Locks(r) PROVE BootInv'
  BY <1>2 DEF Locks
<1>3. ASSUME NEW r \in Replica, GivesUp(r) PROVE BootInv'
  BY <1>3 DEF GivesUp
<1>4. ASSUME NEW r \in Replica, Migrated(r) PROVE BootInv'
  BY <1>4 DEF Migrated
<1>5. ASSUME NEW r \in Replica, MigrationFails(r) PROVE BootInv'
  BY <1>5 DEF MigrationFails
<1>6. ASSUME NEW r \in Replica, ClaimsWork(r) PROVE BootInv'
  BY <1>6 DEF ClaimsWork
<1>7. ASSUME NEW r \in Replica, LeavesWork(r) PROVE BootInv'
  BY <1>7 DEF LeavesWork
<1>8. ASSUME NEW r \in Replica, ClaimUnknown(r) PROVE BootInv'
  BY <1>8 DEF ClaimUnknown
<1>9. ASSUME NEW r \in Replica, WorkDone(r) PROVE BootInv'
  BY <1>9 DEF WorkDone
<1>10. ASSUME NEW r \in Replica, Crash(r) PROVE BootInv'
  BY <1>10 DEF Crash
<1>11. CASE ClaimExpires
  BY <1>11 DEF ClaimExpires
<1>12. CASE UNCHANGED bootVars
  BY <1>12 DEF bootVars
<1> QED BY <1>1, <1>2, <1>3, <1>4, <1>5, <1>6, <1>7, <1>8, <1>9, <1>10, <1>11, <1>12
        DEF BootNext, Proceeds

\* Any number of replicas may boot, crash and hang: two migrate together only if
\* one was told that it has no lock, and a claim that fails closed sends at most
\* one to work (acquire_migration_lock, run_once).
THEOREM OneReplicaAtATime == BootSpec => []OneAtATime
<1>1. BootSpec => []BootInv
  BY BootInitInv, BootNextInv, PTL DEF BootSpec
<1>2. BootInv => OneAtATime
  <2> SUFFICES ASSUME BootInv PROVE OneAtATime
    OBVIOUS
  <2>1. ASSUME NEW r \in Replica, NEW s \in Replica, r # s, InStage(r, "migrating"), InStage(s, "migrating")
        PROVE  {r, s} \cap unlocked # {}
    BY <2>1 DEF BootInv, LockedOrTold
  <2>2. ASSUME ~failOpen PROVE Cardinality(workers) <= 1
    <3>1. CASE workers = {}
      BY <3>1, FS_EmptySet
    <3>2. CASE workers # {}
      <4>1. PICK r \in workers : workers = {r}
        BY <2>2, <3>2 DEF BootInv, OneWorker
      <4> QED BY <4>1, FS_Singleton
    <3> QED BY <3>1, <3>2
  <2> QED BY <2>1, <2>2 DEF OneAtATime
<1> QED BY <1>1, <1>2, PTL

-----------------------------------------------------------------------------
\* Tokens.

Cutoffs == [at : Nat, until : Nat]
Checked == [pc : {"admitted", "jti", "sub"}, token : Token, own : BOOLEAN, cutoff : Nat,
            blind : BOOLEAN, late : BOOLEAN]

TokenTypeOK ==
    /\ clock \in Nat
    /\ env \in [url : {"unset", "good", "bad"}, strict : BOOLEAN]
    /\ client \in {"unasked", "wired", "none"}
    /\ jtiUntil \in [Token -> Nat]
    /\ cutoff \in Cutoffs
    /\ signout \in [Revoker -> Nat]
    /\ request \in [Connection -> {NoRequest} \cup Checked]
    /\ withdrawn \subseteq Token
    /\ signedOut \in Nat /\ undercut \in Nat

\* A marker outlives every token it covers, no cutoff is ahead of its time, and
\* none is behind what the callers of revoke_user_tokens were told, unless an older
\* one landed upon it: then it is no older than that.
MarkersLast ==
    /\ client = "none" => env.url # "good"
    /\ \A t \in withdrawn : t.jti = "own" /\ jtiUntil[t] = t.exp
    /\ signedOut <= cutoff.at \/ undercut <= cutoff.at
    /\ cutoff.at <= clock
    /\ \A t \in Token : t.born < cutoff.at => t.exp <= cutoff.until
    /\ \A w \in Revoker : signout[w] # NoSignout => signout[w] <= clock

\* What the reads ahead of a request still find: what it arrived after is not
\* undone, but for a cutoff that an older one replaced.
RevokedIsSeen ==
    \A r \in Connection :
        LET q == request[r]
        IN  q.pc # "none" =>
              /\ q.cutoff <= signedOut
              /\ q.pc = "jti" /\ q.own => q.token \in withdrawn
              /\ q.pc = "sub" /\ q.own => q.late

TokenInv == TokenTypeOK /\ MarkersLast /\ RevokedIsSeen /\ RevokedStaysOut

LEMMA TokenInitInv == TokenInit => TokenInv
BY TokenAssumption
   DEF TokenInit, TokenInv, TokenTypeOK, Cutoffs, NoRequest, NoSignout, MarkersLast,
       RevokedIsSeen, RevokedStaysOut, RequestAt

\* A request that arrives, reads a marker or fails to changes nothing but itself.
LEMMA RequestStep ==
    ASSUME TokenInv, NEW r \in Connection,
           NEW q \in {NoRequest} \cup Checked, request' = [request EXCEPT ![r] = q],
           client' \in {client, Wired},
           UNCHANGED <<clock, env, jtiUntil, cutoff, signout, withdrawn, signedOut, undercut>>,
           q # NoRequest =>
               /\ q.cutoff <= signedOut
               /\ q.pc = "jti" /\ q.own => q.token \in withdrawn
               /\ q.pc = "sub" /\ q.own => q.late
               /\ q.pc = "admitted" =>
                     \/ env.url # "good"
                     \/ q.blind /\ ~env.strict
                     \/ q.late
                     \/ ~q.own /\ (q.token.born < q.cutoff => undercut <= q.token.born)
    PROVE  TokenInv'
<1>0. request'[r] = q /\ \A s \in Connection \ {r} : request'[s] = request[s]
  BY DEF TokenInv, TokenTypeOK
<1>p. q.pc # "none" => q # NoRequest
  BY DEF NoRequest
<1>1. TokenTypeOK'
  BY DEF TokenInv, TokenTypeOK, Wired
<1>2. MarkersLast'
  BY DEF TokenInv, TokenTypeOK, MarkersLast, Wired, NoSignout
<1>3. RevokedIsSeen'
  BY <1>0, <1>p DEF TokenInv, RevokedIsSeen
<1>4. RevokedStaysOut'
  BY <1>0, <1>p DEF TokenInv, RevokedStaysOut, RequestAt, Excused
<1> QED BY <1>1, <1>2, <1>3, <1>4 DEF TokenInv

\* A request between its two reads, after Redis has answered one of them.
LEMMA RequestAnswered ==
    ASSUME request \in [Connection -> {NoRequest} \cup Checked], NEW r \in Connection,
           request[r] \in Checked, NEW next \in {"admitted", "sub"}, Answered(r, next)
    PROVE  \E q \in Checked :
              /\ request' = [request EXCEPT ![r] = q]
              /\ q.pc = next /\ q.token = request[r].token /\ q.own = request[r].own
              /\ q.cutoff = request[r].cutoff
              /\ q.late <=> request[r].late \/ clock >= request[r].token.exp
<1> DEFINE b == request[r].late \/ clock >= request[r].token.exp
           q == [request[r] EXCEPT !.pc = next, !.late = b]
<1>1. request' = [request EXCEPT ![r] = q]
  BY DEF Answered
<1>2. b \in BOOLEAN
  OBVIOUS
<1> SUFFICES ASSUME NEW late \in BOOLEAN, late = b
             PROVE  LET p == [request[r] EXCEPT !.pc = next, !.late = late]
                    IN  /\ p \in Checked
                        /\ p.pc = next /\ p.token = request[r].token /\ p.own = request[r].own
                        /\ p.cutoff = request[r].cutoff /\ p.late = late
  BY <1>1, <1>2
<1> HIDE DEF b
<1> QED BY DEF Checked

\* The TTL of a token's own entry ends with the token.
LEMMA JtiListedWhileAlive ==
    ASSUME TokenInv, NEW t \in withdrawn
    PROVE  t.jti = "own" /\ (JtiListed(t) <=> clock < t.exp)
BY TokenAssumption DEF TokenInv, TokenTypeOK, MarkersLast, JtiListed

LEMMA TokenNextInv == TokenInv /\ [TokenNext]_tokenVars => TokenInv'
<1> SUFFICES ASSUME TokenInv, [TokenNext]_tokenVars PROVE TokenInv'
  OBVIOUS
<1>0. TokenTypeOK /\ MarkersLast /\ RevokedIsSeen /\ RevokedStaysOut
  BY DEF TokenInv
<1>1. ASSUME NEW r \in Connection, NEW t \in Token, Arrive(r, t) PROVE TokenInv'
  <2> DEFINE p == [pc |-> IF Wired = "none" THEN "admitted" ELSE IF t.jti = "own" THEN "jti" ELSE "sub",
                   token |-> t, own |-> t \in withdrawn, cutoff |-> signedOut,
                   blind |-> FALSE, late |-> FALSE]
             q == IF ~Decodes(t) THEN NoRequest ELSE p
  <2>1. p \in Checked
    BY <1>0 DEF Checked, TokenTypeOK
  <2>2. /\ request' = [request EXCEPT ![r] = q] /\ client' \in {client, Wired}
        /\ UNCHANGED <<clock, env, jtiUntil, cutoff, signout, withdrawn, signedOut, undercut>>
    BY <1>1 DEF Arrive
  <2>3. Wired = "none" => env.url # "good"
    BY <1>0 DEF Wired, MarkersLast, TokenTypeOK
  <2>4. t \in withdrawn => t.jti = "own"
    BY <1>0 DEF MarkersLast
  <2>5. signedOut <= signedOut
    BY <1>0 DEF TokenTypeOK
  <2>6. /\ p.cutoff <= signedOut
        /\ p.pc = "jti" /\ p.own => p.token \in withdrawn
        /\ p.pc = "sub" /\ p.own => p.late
        /\ p.pc = "admitted" => env.url # "good"
    BY <2>3, <2>4, <2>5
  <2> HIDE DEF p
  <2>7. q \in {NoRequest} \cup Checked /\ (q # NoRequest => q = p)
    BY <2>1
  <2> HIDE DEF q
  <2> QED BY <2>2, <2>6, <2>7, RequestStep
<1>2. ASSUME NEW r \in Connection, RequestAt(r, "jti") \/ RequestAt(r, "sub")
      PROVE  /\ request \in [Connection -> {NoRequest} \cup Checked] /\ request[r] \in Checked
             /\ request[r].pc # "none"
             /\ request[r].token \in Token /\ request[r].late \in BOOLEAN /\ request[r].own \in BOOLEAN
             /\ request[r].cutoff \in Nat /\ request[r].cutoff <= signedOut
  BY <1>0, <1>2 DEF RequestAt, TokenTypeOK, Checked, NoRequest, RevokedIsSeen
<1>3. ASSUME NEW r \in Connection, TurnedAway(r) PROVE TokenInv'
  BY <1>3, RequestStep DEF TurnedAway
<1>4. ASSUME NEW r \in Connection, ReadJti(r), Answered(r, "sub"), ~JtiListed(request[r].token)
      PROVE  TokenInv'
  <2>1. RequestAt(r, "jti")
    BY <1>4 DEF ReadJti
  <2>2. PICK q \in Checked :
              /\ request' = [request EXCEPT ![r] = q]
              /\ q.pc = "sub" /\ q.token = request[r].token /\ q.own = request[r].own
              /\ q.cutoff = request[r].cutoff
              /\ q.late <=> request[r].late \/ clock >= request[r].token.exp
    BY <1>2, <1>4, <2>1, RequestAnswered
  <2>3. ASSUME request[r].own PROVE clock >= request[r].token.exp
    <3>1. request[r].token \in withdrawn
      BY <1>0, <2>1, <2>3 DEF RevokedIsSeen, RequestAt
    <3> QED BY <1>0, <1>2, <1>4, <2>1, <3>1, JtiListedWhileAlive, TokenAssumption DEF TokenTypeOK
  <2>4. UNCHANGED <<clock, env, client, jtiUntil, cutoff, signout, withdrawn, signedOut, undercut>>
    BY <1>4 DEF Answered
  <2> QED BY <1>2, <2>1, <2>2, <2>3, <2>4, RequestStep
<1>5. ASSUME NEW r \in Connection, RequestAt(r, "sub"), Answered(r, "admitted"),
             ~(CutoffSet /\ Predates(request[r].token))
      PROVE  TokenInv'
  <2> DEFINE t == request[r].token
             late == request[r].late \/ clock >= t.exp
  <2>1. PICK q \in Checked :
              /\ request' = [request EXCEPT ![r] = q]
              /\ q.pc = "admitted" /\ q.token = t /\ q.own = request[r].own
              /\ q.cutoff = request[r].cutoff
              /\ q.late <=> late
    BY <1>2, <1>5, RequestAnswered
  <2>2. request[r].own => request[r].late
    BY <1>0, <1>2, <1>5 DEF RevokedIsSeen, RequestAt
  <2>3. ASSUME t.born < request[r].cutoff, ~(undercut <= t.born) PROVE clock >= t.exp
    <3>1. /\ t \in Token /\ t.born \in Nat /\ t.exp \in Nat /\ t.iat \in {t.born, NoIat}
          /\ cutoff.at \in Nat /\ cutoff.until \in Nat /\ clock \in Nat /\ undercut \in Nat
          /\ signedOut \in Nat /\ request[r].cutoff \in Nat /\ request[r].cutoff <= signedOut
      BY <1>0, <1>2, <1>5, TokenAssumption DEF TokenTypeOK, Cutoffs
    <3>2. t.born < cutoff.at
      BY <1>0, <2>3, <3>1 DEF MarkersLast
    <3>3. t.exp <= cutoff.until
      BY <1>0, <3>1, <3>2 DEF MarkersLast
    <3>4. Predates(t)
      BY <3>1, <3>2 DEF Predates
    <3>5. ~(cutoff.until > clock)
      BY <1>5, <3>4 DEF CutoffSet
    <3> QED BY <3>1, <3>3, <3>5
  <2>4. UNCHANGED <<clock, env, client, jtiUntil, cutoff, signout, withdrawn, signedOut, undercut>>
    BY <1>5 DEF Answered
  <2>5. q.late \/ (~q.own /\ (q.token.born < q.cutoff => undercut <= q.token.born))
    <3>1. q.own => q.late
      BY <2>1, <2>2
    <3>2. q.token.born < q.cutoff /\ ~(undercut <= q.token.born) => q.late
      BY <2>1, <2>3
    <3> QED BY <3>1, <3>2
  <2>6. q.cutoff <= signedOut
    BY <1>2, <1>5, <2>1
  <2> QED BY <2>1, <2>4, <2>5, <2>6, RequestStep
<1>6. ASSUME NEW r \in Connection, ReadFails(r), ~TurnedAway(r) PROVE TokenInv'
  <2> DEFINE q == [request[r] EXCEPT !.pc = "admitted", !.blind = TRUE]
  <2>1. /\ request' = [request EXCEPT ![r] = q] /\ ~env.strict
        /\ UNCHANGED <<clock, env, client, jtiUntil, cutoff, signout, withdrawn, signedOut, undercut>>
    BY <1>6 DEF ReadFails
  <2>2. request[r] \in Checked /\ request[r].cutoff <= signedOut
    BY <1>2, <1>6 DEF ReadFails
  <2>3. q \in Checked /\ q.pc = "admitted" /\ q.blind /\ q.cutoff = request[r].cutoff
    BY <2>2 DEF Checked
  <2> HIDE DEF q
  <2> QED BY <2>1, <2>2, <2>3, RequestStep
<1>7. ASSUME NEW r \in Connection, ReadJti(r) \/ ReadCutoff(r) \/ ReadFails(r) PROVE TokenInv'
  BY <1>3, <1>4, <1>5, <1>6, <1>7 DEF ReadJti, ReadCutoff
\* The others leave the requests alone, and what they rely on.
<1>8. ASSUME request' = request, env' = env, signedOut <= signedOut', undercut' <= undercut,
             withdrawn \subseteq withdrawn', {signedOut', undercut'} \subseteq Nat
      PROVE  RevokedIsSeen' /\ RevokedStaysOut'
  <2>1. ASSUME NEW r \in Connection, request[r].pc # "none"
        PROVE  /\ request[r] \in Checked /\ request[r].cutoff \in Nat
               /\ request[r].token \in Token /\ request[r].token.born \in Nat
    BY <1>0, <2>1, TokenAssumption DEF TokenTypeOK, Checked, NoRequest
  <2>2. signedOut \in Nat /\ undercut \in Nat
    BY <1>0 DEF TokenTypeOK
  <2>3. RevokedIsSeen'
    BY <1>0, <1>8, <2>1, <2>2 DEF RevokedIsSeen
  <2>4. RevokedStaysOut'
    <3> SUFFICES ASSUME NEW r \in Connection, RequestAt(r, "admitted")
                 PROVE  /\ request[r].own => Excused(r)
                        /\ request[r].token.born < request[r].cutoff
                              => Excused(r) \/ undercut' <= request[r].token.born
      BY <1>8 DEF RevokedStaysOut, RequestAt, Excused
    <3>1. /\ request[r].own => Excused(r)
          /\ request[r].token.born < request[r].cutoff
                => Excused(r) \/ undercut <= request[r].token.born
      BY <1>0 DEF RevokedStaysOut
    <3>2. request[r].token.born \in Nat
      BY <2>1 DEF RequestAt
    <3> QED BY <1>8, <2>2, <3>1, <3>2
  <2> QED BY <2>3, <2>4
<1>9. ASSUME NEW t \in Token, RevokeJti(t) \/ RevokeJtiFails(t) PROVE TokenInv'
  <2>1. /\ t.jti = "own" /\ t.exp \in Nat
        /\ jtiUntil' \in {jtiUntil, [jtiUntil EXCEPT ![t] = t.exp]}
        /\ \/ jtiUntil' = [jtiUntil EXCEPT ![t] = t.exp] /\ withdrawn' = withdrawn \cup {t}
           \/ withdrawn' = withdrawn
        /\ UNCHANGED <<clock, env, client, cutoff, signout, request, signedOut, undercut>>
    BY <1>9, TokenAssumption DEF RevokeJti, RevokeJtiFails
  <2>2. TokenTypeOK' /\ MarkersLast'
    BY <1>0, <2>1 DEF TokenTypeOK, MarkersLast, NoSignout
  <2>3. RevokedIsSeen' /\ RevokedStaysOut'
    BY <1>0, <1>8, <2>1 DEF TokenTypeOK
  <2> QED BY <2>2, <2>3 DEF TokenInv
<1>10. ASSUME NEW w \in Revoker, SignOut(w) PROVE TokenInv'
  <2>1. TokenTypeOK' /\ MarkersLast'
    BY <1>0, <1>10 DEF SignOut, TokenTypeOK, MarkersLast, NoSignout, Cutoffs
  <2>2. RevokedIsSeen' /\ RevokedStaysOut'
    BY <1>0, <1>8, <1>10 DEF SignOut, TokenTypeOK
  <2> QED BY <2>1, <2>2 DEF TokenInv
\* A sign-out lands, or may have landed, perhaps upon a later one.
<1>11. ASSUME NEW w \in Revoker, SignOutLands(w) \/ SignOutFails(w) PROVE TokenInv'
  <2> DEFINE moment == signout[w]
  <2>1. /\ moment # NoSignout /\ signout' = [signout EXCEPT ![w] = NoSignout]
        /\ \/ /\ Overwrites(moment)
              /\ signedOut' \in {signedOut, IF moment > signedOut THEN moment ELSE signedOut}
           \/ UNCHANGED <<cutoff, undercut, signedOut>>
        /\ UNCHANGED <<clock, env, client, jtiUntil, request, withdrawn>>
    BY <1>11 DEF SignOutLands, SignOutFails
  <2>2. /\ moment \in Nat /\ clock \in Nat /\ signedOut \in Nat /\ undercut \in Nat
        /\ cutoff \in Cutoffs /\ cutoff.at \in Nat /\ moment <= clock /\ NoSignout \in Nat
    BY <1>0, <2>1, TokenAssumption DEF TokenTypeOK, MarkersLast, NoSignout, Cutoffs
  <2>3. Marker(moment) \in Cutoffs /\ Marker(moment).at = moment /\ Marker(moment).until = clock + Life
    BY <2>2, TokenAssumption DEF Marker, Cutoffs
  <2>4. /\ signout' \in [Revoker -> Nat]
        /\ \A v \in Revoker : signout'[v] # NoSignout => signout'[v] <= clock
    BY <1>0, <2>1, <2>2 DEF TokenTypeOK, MarkersLast
  <2>5. /\ cutoff' \in Cutoffs /\ signedOut' \in Nat /\ undercut' \in Nat
        /\ signedOut <= signedOut' /\ undercut' <= undercut
        /\ cutoff'.at <= clock /\ (signedOut' <= cutoff'.at \/ undercut' <= cutoff'.at)
    <3>1. CASE UNCHANGED <<cutoff, undercut, signedOut>>
      BY <1>0, <2>2, <3>1 DEF MarkersLast
    <3>2. CASE /\ Overwrites(moment)
               /\ signedOut' \in {signedOut, IF moment > signedOut THEN moment ELSE signedOut}
      <4>1. cutoff' = Marker(moment) /\ cutoff'.at = moment
            /\ undercut' = IF moment < cutoff.at /\ moment < undercut THEN moment ELSE undercut
        BY <2>3, <3>2 DEF Overwrites
      <4>2. signedOut' \in Nat /\ signedOut <= signedOut' /\ (signedOut' = signedOut \/ signedOut' = moment)
        BY <2>2, <3>2
      <4>3. signedOut <= cutoff.at \/ undercut <= cutoff.at
        BY <1>0 DEF MarkersLast
      <4>4. undercut' \in Nat /\ undercut' <= undercut
        BY <2>2, <4>1
      <4>5. CASE moment < cutoff.at
        BY <2>2, <2>3, <4>1, <4>2, <4>4, <4>5
      <4>6. CASE ~(moment < cutoff.at)
        BY <2>2, <2>3, <4>1, <4>2, <4>3, <4>4, <4>6
      <4> QED BY <4>5, <4>6
    <3> QED BY <2>1, <3>1, <3>2
  <2>6. ASSUME NEW t \in Token, t.born < cutoff'.at PROVE t.exp <= cutoff'.until
    <3>1. CASE cutoff' = cutoff
      BY <1>0, <2>6, <3>1 DEF MarkersLast
    <3>2. CASE cutoff' = Marker(moment)
      BY <2>2, <2>3, <2>6, <3>2, TokenAssumption
    <3> QED BY <2>1, <3>1, <3>2 DEF Overwrites
  <2>7. TokenTypeOK' /\ MarkersLast'
    BY <1>0, <2>1, <2>4, <2>5, <2>6 DEF TokenTypeOK, MarkersLast
  <2>8. RevokedIsSeen' /\ RevokedStaysOut'
    BY <1>0, <1>8, <2>1, <2>5
  <2> QED BY <2>7, <2>8 DEF TokenInv
<1>12. CASE Second
  <2>1. TokenTypeOK' /\ MarkersLast'
    BY <1>0, <1>12 DEF Second, TokenTypeOK, MarkersLast, NoSignout, Cutoffs
  <2>2. RevokedIsSeen' /\ RevokedStaysOut'
    BY <1>0, <1>8, <1>12 DEF Second, TokenTypeOK
  <2> QED BY <2>1, <2>2 DEF TokenInv
<1>13. CASE UNCHANGED tokenVars
  <2>1. TokenTypeOK' /\ MarkersLast'
    BY <1>0, <1>13 DEF tokenVars, TokenTypeOK, MarkersLast
  <2>2. RevokedIsSeen' /\ RevokedStaysOut'
    BY <1>0, <1>8, <1>13 DEF tokenVars, TokenTypeOK
  <2> QED BY <2>1, <2>2 DEF TokenInv
<1> QED BY <1>1, <1>7, <1>9, <1>10, <1>11, <1>12, <1>13 DEF TokenNext

\* A revocation that has returned keeps the tokens it covers out for the rest of
\* their lives, whatever requests, connections and clock do in between and however
\* many revocations overlap; only an older sign-out whose SET lands upon a later one
\* lets tokens back in, and none that it covers itself (is_revoked, revoke_jti,
\* revoke_user_tokens).
THEOREM RevocationHolds == TokenSpec => []RevokedStaysOut
<1>1. TokenSpec => []TokenInv
  BY TokenInitInv, TokenNextInv, PTL DEF TokenSpec
<1>2. TokenInv => RevokedStaysOut
  BY DEF TokenInv
<1> QED BY <1>1, <1>2, PTL

-----------------------------------------------------------------------------
\* MCP.

\* Whoever is connected after a strict check has the specs that were approved.
McpInv ==
    /\ server \in Catalogue /\ specs \in Catalogue
    /\ pinned \in {NoPins} \cup Pins
    /\ (host = "connected" /\ pinned.change = "raise") => specs = pinned.tools
    /\ ToolsAsApproved

\* No drift is no difference: a catalogue says of every name what it stands for.
LEMMA NoDrift ==
    ASSUME NEW old \in Catalogue, NEW new \in Catalogue, ~Drifted(old, new)
    PROVE  old = new
BY DEF Drifted, Catalogue

LEMMA McpInitInv == McpInit => McpInv
BY DEF McpInit, McpInv, Catalogue, NoTools, NoPins, ToolsAsApproved

LEMMA McpNextInv == McpInv /\ [McpNext]_mcpVars => McpInv'
<1> SUFFICES ASSUME McpInv, [McpNext]_mcpVars PROVE McpInv'
  OBVIOUS
<1> USE DEF McpInv, ToolsAsApproved
<1>1. CASE Connect
  BY <1>1 DEF Connect
<1>2. CASE SessionOpens \/ SessionFails \/ ListFails
  BY <1>2 DEF SessionOpens, SessionFails, ListFails
<1>3. CASE Lists
  <2>1. /\ specs' = server /\ pinned' = pinned /\ server' = server /\ taken' = taken
        /\ host' = IF pinned.change = "raise" /\ Drifted(pinned.tools, server)
                   THEN "failed" ELSE "connected"
    BY <1>3 DEF Lists
  <2>2. ASSUME pinned.change = "raise", host' = "connected" PROVE specs' = pinned.tools
    <3>1. pinned.tools \in Catalogue
      BY <2>2 DEF NoPins, Pins
    <3>2. ~Drifted(pinned.tools, server)
      BY <2>1, <2>2
    <3> QED BY <2>1, <3>1, <3>2, NoDrift
  <2> QED BY <2>1, <2>2
<1>4. CASE TakeTools
  BY <1>4 DEF TakeTools
<1>5. CASE Close
  BY <1>5 DEF Close
<1>6. CASE Redefine
  BY <1>6 DEF Redefine
<1>7. CASE Drops \/ UNCHANGED mcpVars
  BY <1>7 DEF Drops, mcpVars
<1> QED BY <1>1, <1>2, <1>3, <1>4, <1>5, <1>6, <1>7 DEF McpNext

\* What the host takes after connect(on_change="raise") is what was approved,
\* for every server and however connects failed before (get_action_tools).
THEOREM ApprovedToolsOnly == McpSpec => []ToolsAsApproved
<1>1. McpSpec => []McpInv
  BY McpInitInv, McpNextInv, PTL DEF McpSpec
<1>2. McpInv => ToolsAsApproved
  BY DEF McpInv
<1> QED BY <1>1, <1>2, PTL

-----------------------------------------------------------------------------
\* The streaming socket.

Endings == {<<"done">>, <<"error">>, <<"data", "done">>, <<"data", "error">>}

\* What a stage of the handler has shown and established; the next stages rely
\* on it.
StagesInOrder ==
    /\ at \in {"accepted", "authenticating", "authorizing", "finding", "resolving", "building",
               "streaming", "closed", "over"}
    /\ at \notin {"streaming", "closed"} => frames = <<>> /\ called = {}
    /\ at = "streaming" => frames \in {<<>>, <<"data">>}
    /\ at = "closed" => frames \in {<<>>, <<"data">>} \cup Endings
    /\ at \in {"finding", "resolving", "building", "streaming"} => IsAdmin
    /\ at \in {"resolving", "building", "streaming"} => IsSuper \/ agentOf = principal.company
    /\ at \in {"accepted", "authenticating", "authorizing", "finding", "resolving", "building"} =>
          offered = {} /\ allowed = {}
    /\ offered \subseteq ResolveActionTools /\ allowed \subseteq Modes

StreamInv == StagesInOrder /\ StreamsAreSafe

\* The frames that may reach a client, one more at a time.
LEMMA FramesGrow ==
    ASSUME frames \in {<<>>, <<"data">>}, NEW f \in {"data", "done", "error"}, Shows(f)
    PROVE  frames' = IF ~there THEN frames
                     ELSE IF frames = <<>> THEN <<f>>
                     ELSE IF f = "data" THEN <<"data">> ELSE <<"data", f>>
<1>1. Append(<<"data">>, f) = <<"data", f>> /\ Append(<<>>, f) = <<f>>
  BY OneAndOne
<1>2. <<"none">> \o <<"data">> = <<"none", "data">> /\ <<"none">> \o <<>> = <<"none">>
  BY OneAndOne
<1>3. Last(<<"none", "data">>) = "data" /\ Last(<<"none">>) = "none"
  BY DEF Last
<1>4. <<"data">> # <<>>
  OBVIOUS
<1>5. CASE frames = <<>>
  BY <1>1, <1>2, <1>3, <1>5 DEF Shows
<1>6. CASE frames = <<"data">>
  BY <1>1, <1>2, <1>3, <1>4, <1>6 DEF Shows
<1> QED BY <1>5, <1>6

LEMMA StreamInitInv == StreamInit => StreamInv
BY DEF StreamInit, StreamInv, StagesInOrder, StreamsAreSafe, EndsAreTold, AnswersGoToAdmins,
       ToolsAreLinked, Contains, Active, ResolveActionTools, Modes, Nobody

\* What is no part of an answer.
LEMMA NothingOfAnAnswer ==
    /\ \A s \in {<<>>, <<"error">>} : ~Contains(s, "data") /\ ~Contains(s, "done")
    /\ <<>> # <<"data">> /\ <<>> # <<"error">> /\ <<>> # <<"done">>
BY DEF Contains

\* The stages before the first delta have shown nothing.
LEMMA RefusalKeepsInv ==
    ASSUME StreamInv, at \notin {"streaming", "closed", "over"},
           NEW c \in {4401, 4403, 4404, 1011}, Refused(c)
    PROVE  StreamInv'
<1>1. /\ at' = "closed" /\ frames' = (IF there THEN <<"error">> ELSE <<>>)
      /\ code' = (IF there THEN c ELSE 0)
      /\ UNCHANGED <<mode, principal, agentOf, links, offered, allowed, called, there>>
  <2>1. frames = <<>> /\ code = 0 /\ Shows("error") /\ CloseWith(c)
    BY DEF Refused, StreamInv, StagesInOrder, StreamsAreSafe, EndsAreTold
  <2>2. frames' = IF there THEN <<"error">> ELSE <<>>
    BY <2>1, FramesGrow
  <2> QED BY <2>1, <2>2 DEF Refused, CloseWith, Stays
<1>2. called = {} /\ called' = {}
  BY <1>1 DEF StreamInv, StagesInOrder
<1>3. StagesInOrder'
  BY <1>1, <1>2 DEF StreamInv, StagesInOrder, ResolveActionTools, Modes, Active, Endings
<1>4. EndsAreTold'
  BY <1>1 DEF EndsAreTold
<1>5. AnswersGoToAdmins' /\ ToolsAreLinked'
  BY <1>1, <1>2, NothingOfAnAnswer DEF AnswersGoToAdmins, ToolsAreLinked
<1> QED BY <1>3, <1>4, <1>5 DEF StreamInv, StreamsAreSafe

LEMMA StreamNextInv == StreamInv /\ [StreamNext]_streamVars => StreamInv'
<1> SUFFICES ASSUME StreamInv, [StreamNext]_streamVars PROVE StreamInv'
  OBVIOUS
<1>0. StagesInOrder /\ EndsAreTold /\ AnswersGoToAdmins /\ ToolsAreLinked
  BY DEF StreamInv, StreamsAreSafe
<1> USE DEF StreamInv, StreamsAreSafe
\* The handler goes on, or falls over, before it has shown anything.
<1>1. ASSUME at \notin {"streaming", "closed", "over"},
             at' \in {"authenticating", "authorizing", "finding", "resolving", "building", "over",
                      "streaming"},
             UNCHANGED <<called, frames, code>>,
             at' \in {"finding", "resolving", "building", "streaming"} => IsAdmin',
             at' \in {"resolving", "building", "streaming"} =>
                 IsSuper' \/ agentOf' = principal'.company,
             \/ at' # "streaming" /\ UNCHANGED <<offered, allowed>>
             \/ at' = "streaming" /\ offered' \subseteq ResolveActionTools' /\ allowed' \subseteq Modes'
      PROVE  StreamInv'
  <2>1. frames' = <<>> /\ called' = {} /\ code' = 0
    BY <1>0, <1>1 DEF StagesInOrder, EndsAreTold
  <2>2. \/ offered' = {} /\ allowed' = {}
        \/ at' = "streaming" /\ offered' \subseteq ResolveActionTools' /\ allowed' \subseteq Modes'
    BY <1>0, <1>1 DEF StagesInOrder
  <2>3. StagesInOrder'
    BY <1>1, <2>1, <2>2 DEF StagesInOrder
  <2>4. EndsAreTold' /\ AnswersGoToAdmins' /\ ToolsAreLinked'
    BY <1>1, <2>1, NothingOfAnAnswer DEF EndsAreTold, AnswersGoToAdmins, ToolsAreLinked
  <2> QED BY <2>3, <2>4
<1>2. CASE ReceiveInit
  <2>1. CASE at' = "closed" /\ CloseWith(1003) /\ UNCHANGED <<mode, frames>> /\ Stays
    <3>1. at = "accepted" /\ frames = <<>> /\ called = {} /\ code = 0
      BY <1>0, <1>2 DEF ReceiveInit, StagesInOrder, EndsAreTold
    <3>2. /\ at' = "closed" /\ frames' = <<>> /\ code' = (IF there THEN 1003 ELSE 0)
          /\ UNCHANGED <<mode, principal, agentOf, links, offered, allowed, called, there>>
      BY <2>1, <3>1 DEF CloseWith, Stays
    <3>3. StagesInOrder'
      BY <1>0, <3>1, <3>2 DEF StagesInOrder, ResolveActionTools, Modes, Active
    <3>4. EndsAreTold' /\ AnswersGoToAdmins' /\ ToolsAreLinked'
      BY <3>1, <3>2, NothingOfAnAnswer DEF EndsAreTold, AnswersGoToAdmins, ToolsAreLinked
    <3> QED BY <3>3, <3>4
  <2> QED BY <1>1, <1>2, <2>1, RefusalKeepsInv DEF ReceiveInit, Advances, Stays, Falls
<1>3. CASE Authenticate
  BY <1>1, <1>3, RefusalKeepsInv DEF Authenticate, Advances, Stays, Falls
<1>4. CASE Authorize
  BY <1>1, <1>4, RefusalKeepsInv DEF Authorize, Advances, Stays, IsAdmin
<1>5. CASE FindAgent
  BY <1>0, <1>1, <1>5, RefusalKeepsInv
     DEF FindAgent, Advances, Stays, Falls, IsAdmin, IsSuper, StagesInOrder
<1>6. CASE ResolveKey
  BY <1>0, <1>1, <1>6, RefusalKeepsInv
     DEF ResolveKey, Advances, Stays, Falls, IsAdmin, IsSuper, StagesInOrder
<1>7. CASE Build
  <2>1. CASE Falls
    BY <1>1, <1>7, <2>1 DEF Build, Falls, Stays
  <2>2. CASE ~Falls
    <3>1. /\ at = "building" /\ at' = "streaming"
          /\ UNCHANGED <<frames, code, mode, principal, agentOf, links, called, there>>
          /\ \/ offered' = ResolveActionTools /\ allowed' = Modes
             \/ UNCHANGED <<offered, allowed>>
      BY <1>7, <2>2 DEF Build, Advances
    <3>2. offered' \subseteq ResolveActionTools' /\ allowed' \subseteq Modes'
      BY <1>0, <3>1 DEF StagesInOrder, ResolveActionTools, Modes, Active
    <3> QED BY <1>0, <1>1, <3>1, <3>2 DEF IsAdmin, IsSuper, StagesInOrder
  <2> QED BY <2>1, <2>2
\* While the answer streams, and when it ends.
<1>8. ASSUME at = "streaming", frames' \in {frames, <<>>, <<"data">>} \cup Endings,
             UNCHANGED <<principal, agentOf, links, offered, allowed, called, there>>,
             \/ at' = "streaming" /\ frames' \in {<<>>, <<"data">>} /\ code' = code
             \/ at' = "closed" /\ there /\ code' = 1000 /\ frames' \in Endings
             \/ at' = "closed" /\ ~there /\ frames' = frames
      PROVE  StreamInv'
  <2>1. StagesInOrder'
    BY <1>0, <1>8 DEF StagesInOrder, IsAdmin, IsSuper, ResolveActionTools, Modes, Active
  <2>2. EndsAreTold'
    BY <1>0, <1>8 DEF EndsAreTold, Endings
  <2>3. AnswersGoToAdmins'
    BY <1>0, <1>8 DEF AnswersGoToAdmins, StagesInOrder, IsAdmin, IsSuper
  <2>4. ToolsAreLinked'
    BY <1>0, <1>8 DEF ToolsAreLinked, Active
  <2> QED BY <2>1, <2>2, <2>3, <2>4
<1>9. CASE Forward
  <2>1. at = "streaming" /\ frames \in {<<>>, <<"data">>} /\ Shows("data")
        /\ UNCHANGED <<at, code, principal, agentOf, links, offered, allowed, called, there>>
    BY <1>0, <1>9 DEF Forward, Stays, StagesInOrder
  <2>2. frames' \in {<<>>, <<"data">>}
    BY <2>1, FramesGrow
  <2> QED BY <1>8, <2>1, <2>2
<1>10. CASE AnswerEnds
  <2>1. /\ at = "streaming" /\ frames \in {<<>>, <<"data">>} /\ (Shows("done") \/ Shows("error"))
        /\ at' = "closed" /\ CloseWith(1000)
        /\ UNCHANGED <<principal, agentOf, links, offered, allowed, called, there>>
    BY <1>0, <1>10 DEF AnswerEnds, Stays, StagesInOrder
  <2>2. IF there THEN frames' \in Endings ELSE frames' = frames
    BY <2>1, FramesGrow DEF Endings
  <2> QED BY <1>8, <2>1, <2>2 DEF CloseWith
<1>11. ASSUME NEW n \in CallName, CallTool(n) PROVE StreamInv'
  <2>1. /\ at = "streaming" /\ n \in offered \cap allowed /\ called' = called \cup {n}
        /\ UNCHANGED <<at, principal, agentOf, links, offered, allowed, there, frames, code>>
    BY <1>11 DEF CallTool
  <2>2. StagesInOrder' /\ EndsAreTold'
    BY <1>0, <2>1 DEF StagesInOrder, EndsAreTold, IsAdmin, IsSuper, ResolveActionTools, Modes, Active
  <2>3. AnswersGoToAdmins'
    BY <1>0, <2>1 DEF AnswersGoToAdmins, StagesInOrder, IsAdmin, IsSuper
  <2>4. ToolsAreLinked'
    <3>1. /\ \E i \in Active : links[i].kind = "python_tool" /\ links[i].class = n
          /\ \E i \in Active : links[i].name = n /\ links[i].lets
      BY <1>0, <2>1 DEF StagesInOrder, ResolveActionTools, Modes
    <3> QED BY <1>0, <2>1, <3>1 DEF ToolsAreLinked, Active
  <2> QED BY <2>2, <2>3, <2>4
<1>12. CASE FindsLeft \/ Leave \/ UNCHANGED streamVars
  <2>1. /\ UNCHANGED <<principal, agentOf, links, offered, allowed, called, frames, code>>
        /\ \/ at' = at
           \/ ~there /\ ~there' /\ at' = "closed" /\ at \notin {"closed", "over"}
        /\ at = "closed" => there' = there
    BY <1>12 DEF FindsLeft, Leave, streamVars, Stays
  <2>2. StagesInOrder'
    BY <1>0, <2>1 DEF StagesInOrder, IsAdmin, IsSuper, ResolveActionTools, Modes, Active
  <2>3. EndsAreTold'
    BY <1>0, <2>1 DEF EndsAreTold
  <2>4. AnswersGoToAdmins' /\ ToolsAreLinked'
    BY <1>0, <2>1 DEF AnswersGoToAdmins, ToolsAreLinked, IsAdmin, Active
  <2> QED BY <2>2, <2>3, <2>4
<1> QED BY <1>2, <1>3, <1>4, <1>5, <1>6, <1>7, <1>9, <1>10, <1>11, <1>12 DEF StreamNext

\* However the client, the checks and the answer interleave: an end is told to a
\* client that stays, answers go to administrators only, and a tool that runs is
\* linked and allowed (agent_stream).
THEOREM StreamsStaySafe == StreamSpec => []StreamsAreSafe
<1>1. StreamSpec => []StreamInv
  BY StreamInitInv, StreamNextInv, PTL DEF StreamSpec
<1>2. StreamInv => StreamsAreSafe
  BY DEF StreamInv
<1> QED BY <1>1, <1>2, PTL

-----------------------------------------------------------------------------
\* Runs that share an agent's tools.

\* What is appended is a suffix.
LEMMA AppendedIsSuffix ==
    ASSUME NEW S, NEW t \in Seq(S), NEW m \in Seq(S)
    PROVE  IsSuffix(m, t \o m)
<1> DEFINE whole == t \o m
           n == Len(m)
<1>1. /\ whole \in Seq(S) /\ n \in Nat /\ Len(t) \in Nat /\ Len(whole) = Len(t) + n
      /\ \A i \in 1 .. n : whole[Len(t) + i] = m[i]
  <2>1. /\ whole \in Seq(S) /\ Len(whole) = Len(t) + n /\ n \in Nat /\ Len(t) \in Nat
        /\ \A i \in 1 .. Len(t) + n : whole[i] = IF i <= Len(t) THEN t[i] ELSE m[i - Len(t)]
    BY ConcatProperties
  <2>2. ASSUME NEW i \in 1 .. n PROVE whole[Len(t) + i] = m[i]
    <3>1. Len(t) + i \in 1 .. Len(t) + n /\ ~(Len(t) + i <= Len(t)) /\ (Len(t) + i) - Len(t) = i
      BY <2>1
    <3> QED BY <2>1, <3>1
  <2> QED BY <2>1, <2>2
<1> HIDE DEF whole, n
<1>2. /\ Reverse(m) \in Seq(S) /\ Len(Reverse(m)) = n
      /\ \A i \in 1 .. n : Reverse(m)[i] = m[(n - i) + 1]
  BY <1>1 DEF Reverse, n
<1>3. /\ Reverse(whole) \in Seq(S) /\ Len(Reverse(whole)) = Len(t) + n
      /\ \A i \in 1 .. Len(t) + n : Reverse(whole)[i] = whole[(Len(t) + n - i) + 1]
  BY <1>1 DEF Reverse
<1>4. ASSUME NEW i \in 1 .. n PROVE Reverse(m)[i] = Reverse(whole)[i]
  <2>1. (n - i) + 1 \in 1 .. n /\ i \in 1 .. Len(t) + n
        /\ (Len(t) + n - i) + 1 = Len(t) + ((n - i) + 1)
    BY <1>1
  <2> QED BY <1>1, <1>2, <1>3, <2>1
<1>5. /\ \A i \in 1 .. n : Reverse(m)[i] \in S /\ Reverse(whole)[i] \in S
  BY <1>1, <1>2, <1>3, ElementOfSeq
<1>6. /\ SubSeq(Reverse(m), 1, n) \in Seq(S) /\ SubSeq(Reverse(whole), 1, n) \in Seq(S)
      /\ Len(SubSeq(Reverse(m), 1, n)) = n /\ Len(SubSeq(Reverse(whole), 1, n)) = n
      /\ \A i \in 1 .. n : /\ SubSeq(Reverse(m), 1, n)[i] = Reverse(m)[i]
                           /\ SubSeq(Reverse(whole), 1, n)[i] = Reverse(whole)[i]
  BY <1>1, <1>5, SubSeqProperties
<1>7. SubSeq(Reverse(m), 1, n) = SubSeq(Reverse(whole), 1, n)
  BY <1>4, <1>6, SeqEqual
<1>8. IsSuffix(m, whole)
  BY <1>1, <1>2, <1>3, <1>7 DEF IsSuffix, IsPrefix
<1> QED BY <1>8 DEF whole

Stages == {"none", "resolving", "ended"} \cup Under
Skills == {<<>>} \cup {<<sk>> : sk \in Skill}
Jobs == [stage : Stages, kind : {"analyze", "prompt", "loop"}, mine : Skills,
         found : Seq(Skill), shaped : Seq(Skill)]

SkillTypeOK ==
    /\ tools \in Seq(Skill)
    /\ job \in [AgentCall -> Jobs]
    /\ orderly \in BOOLEAN
    /\ \A c \in AgentCall : Kind(c) = "analyze" => job[c].mine = <<>>

\* While nothing was out of order there is one call at most, and it has the
\* tools to itself: its own skills are attached, and it found none.
OneAtTheTools ==
    orderly => \A c \in AgentCall : job[c].stage \in Under =>
        /\ \A d \in AgentCall : job[d].stage \in Under => d = c
        /\ job[c].found = <<>>
        /\ tools = IF Kind(c) = "loop" /\ job[c].stage \in {"recording", "checking"}
                   THEN <<>> ELSE job[c].mine

\* Before its skills are attached a call was shaped by nothing.
Unshaped ==
    \A c \in AgentCall : job[c].stage \in {"none", "resolving"} => job[c].shaped = <<>>

SkillInv == SkillTypeOK /\ OneAtTheTools /\ Unshaped /\ SkillsStayInTheirRun

LEMMA SkillInitInv == SkillInit => SkillInv
BY DEF SkillInit, SkillInv, SkillTypeOK, OneAtTheTools, Unshaped, SkillsStayInTheirRun, Jobs, NoJob,
       Stages, Skills, Under, Kind, Quiet


\* A call at the tools goes on or ends; orderly, it ends with the tools as it
\* found them.
LEMMA CallMoves ==
    ASSUME SkillInv, NEW c \in AgentCall, NEW to \in Under \cup {"ended"}, Moves(c, to),
           job[c].stage \in Under, tools' \in {tools, job[c].found}, orderly' \in BOOLEAN,
           orderly' => /\ orderly
                       /\ tools' = IF to = "ended" \/ (Kind(c) = "loop" /\ to \in {"recording", "checking"})
                                   THEN <<>> ELSE job[c].mine
    PROVE  SkillInv'
<1>1. /\ tools \in Seq(Skill) /\ job \in [AgentCall -> Jobs] /\ job[c] \in Jobs
      /\ job' = [job EXCEPT ![c].stage = to] /\ to \in Stages
  BY DEF SkillInv, SkillTypeOK, Moves, Stages
<1>2. /\ job' \in [AgentCall -> Jobs] /\ job'[c].stage = to
      /\ \A d \in AgentCall \ {c} : job'[d] = job[d]
  BY <1>1 DEF Jobs
<1>3. \A d \in AgentCall : /\ job'[d].kind = job[d].kind /\ job'[d].mine = job[d].mine
                           /\ job'[d].found = job[d].found /\ job'[d].shaped = job[d].shaped
  BY <1>1 DEF Jobs
<1>4. SkillTypeOK'
  BY <1>1, <1>2, <1>3 DEF SkillInv, SkillTypeOK, Jobs, Kind
<1>5. ASSUME orderly', NEW d \in AgentCall, job'[d].stage \in Under PROVE d = c
  BY <1>2, <1>5 DEF SkillInv, OneAtTheTools
<1>6. OneAtTheTools'
  <2> SUFFICES ASSUME orderly', NEW d \in AgentCall, job'[d].stage \in Under
               PROVE  /\ \A e \in AgentCall : job'[e].stage \in Under => e = d
                      /\ job'[d].found = <<>>
                      /\ tools' = IF Kind(d)' = "loop" /\ job'[d].stage \in {"recording", "checking"}
                                  THEN <<>> ELSE job'[d].mine
    BY DEF OneAtTheTools
  <2>1. d = c
    BY <1>5
  <2>2. job[c].found = <<>>
    BY DEF SkillInv, OneAtTheTools
  <2>3. to # "ended"
    BY <1>2, <2>1 DEF Under
  <2> QED BY <1>2, <1>3, <1>5, <2>1, <2>2, <2>3 DEF Kind
<1>7. Unshaped'
  BY <1>2, <1>3 DEF SkillInv, Unshaped, Under
<1>8. SkillsStayInTheirRun'
  <2>1. ASSUME NEW d \in AgentCall, Kind(d)' = "prompt", job'[d].stage \in Under
        PROVE  IsSuffix(job'[d].mine, job'[d].shaped)
    BY <1>2, <1>3, <2>1 DEF SkillInv, SkillsStayInTheirRun, Kind
  <2>2. orderly' => \A d \in AgentCall : job'[d].shaped \in {<<>>, job'[d].mine}
    BY <1>3 DEF SkillInv, SkillsStayInTheirRun
  <2>3. ASSUME orderly', Quiet' PROVE tools' = <<>>
    <3>1. to = "ended"
      BY <1>2, <2>3 DEF Quiet
    <3> QED BY <2>3, <3>1
  <2> QED BY <2>1, <2>2, <2>3 DEF SkillsStayInTheirRun
<1> QED BY <1>4, <1>6, <1>7, <1>8 DEF SkillInv

\* A call that is not at the tools stays away from them.
LEMMA CallStaysAway ==
    ASSUME SkillInv, NEW c \in AgentCall, job[c].stage \notin Under, NEW q \in Jobs,
           job' = [job EXCEPT ![c] = q], q.stage \in {"resolving", "ended"},
           q.shaped = <<>>, q.kind = "analyze" => q.mine = <<>>, UNCHANGED <<tools, orderly>>
    PROVE  SkillInv'
<1>1. /\ job' \in [AgentCall -> Jobs] /\ job'[c] = q
      /\ \A d \in AgentCall \ {c} : job'[d] = job[d]
  BY DEF SkillInv, SkillTypeOK
<1>2. q.stage \notin Under
  BY DEF Under
<1>3. SkillTypeOK' /\ OneAtTheTools' /\ Unshaped'
  BY <1>1, <1>2 DEF SkillInv, SkillTypeOK, OneAtTheTools, Unshaped, Kind
<1>4. Quiet' => Quiet
  BY <1>1 DEF Quiet
<1>5. SkillsStayInTheirRun'
  BY <1>1, <1>2, <1>4 DEF SkillInv, SkillsStayInTheirRun, Kind
<1> QED BY <1>3, <1>5 DEF SkillInv

\* What a call finds and has, orderly or not.
LEMMA AtTheTools ==
    ASSUME SkillInv, NEW c \in AgentCall
    PROVE  /\ job[c] \in Jobs /\ orderly \in BOOLEAN /\ tools \in Seq(Skill)
           /\ job[c].mine \in Seq(Skill) /\ job[c].found \in Seq(Skill)
           /\ Kind(c) \in {"analyze", "prompt", "loop"}
           /\ Kind(c) = "analyze" => job[c].mine = <<>>
           /\ orderly /\ job[c].stage \in Under =>
                 /\ job[c].found = <<>>
                 /\ tools = IF Kind(c) = "loop" /\ job[c].stage \in {"recording", "checking"}
                            THEN <<>> ELSE job[c].mine
<1>1. job[c] \in Jobs /\ orderly \in BOOLEAN /\ tools \in Seq(Skill)
  BY DEF SkillInv, SkillTypeOK
<1>2. ASSUME NEW m \in Skills PROVE m \in Seq(Skill)
  <2>1. <<>> \in Seq(Skill) /\ \A sk \in Skill : <<sk>> \in Seq(Skill)
    OBVIOUS
  <2> QED BY <2>1 DEF Skills
<1>3. job[c].mine \in Seq(Skill) /\ job[c].found \in Seq(Skill) /\ Kind(c) \in {"analyze", "prompt", "loop"}
  BY <1>1, <1>2 DEF Jobs, Kind
<1> QED BY <1>1, <1>3 DEF SkillInv, SkillTypeOK, OneAtTheTools

LEMMA SkillNextInv == SkillInv /\ [SkillNext]_skillVars => SkillInv'
<1> SUFFICES ASSUME SkillInv, [SkillNext]_skillVars PROVE SkillInv'
  OBVIOUS
<1>1. ASSUME NEW c \in AgentCall, Resolve(c) PROVE SkillInv'
  <2>1. PICK kind \in {"analyze", "prompt", "loop"}, mine \in Skills :
            /\ kind = "analyze" => mine = <<>>
            /\ job' = [job EXCEPT ![c] = [NoJob EXCEPT !.stage = "resolving", !.kind = kind, !.mine = mine]]
    BY <1>1 DEF Resolve, Skills
  <2> DEFINE q == [NoJob EXCEPT !.stage = "resolving", !.kind = kind, !.mine = mine]
  <2>2. /\ q.stage = "resolving" /\ q.kind = kind /\ q.mine = mine /\ q.shaped = <<>>
        /\ q \in Jobs
    <3>1. NoJob \in Jobs /\ NoJob.shaped = <<>>
      <4>1. <<>> \in Seq(Skill) /\ <<>> \in Skills
        BY DEF Skills
      <4> QED BY <4>1 DEF NoJob, Jobs, Stages
    <3>2. "resolving" \in Stages
      BY DEF Stages
    <3> QED BY <3>1, <3>2 DEF Jobs
  <2>3. q.kind = "analyze" => q.mine = <<>>
    BY <2>1, <2>2
  <2>4. job[c].stage \notin Under /\ UNCHANGED <<tools, orderly>>
    BY <1>1 DEF Resolve, AtStage, Under
  <2>5. job' = [job EXCEPT ![c] = q]
    BY <2>1
  <2> HIDE DEF q
  <2> QED BY <2>2, <2>3, <2>4, <2>5, CallStaysAway
<1>2. ASSUME NEW c \in AgentCall, Unresolved(c) PROVE SkillInv'
  <2> DEFINE q == [job[c] EXCEPT !.stage = "ended"]
  <2>1. job[c].stage = "resolving" /\ UNCHANGED <<tools, orderly>> /\ job' = [job EXCEPT ![c] = q]
    BY <1>2 DEF Unresolved, AtStage, Moves
  <2>2. q \in Jobs /\ q.stage = "ended" /\ q.shaped = <<>> /\ (q.kind = "analyze" => q.mine = <<>>)
    BY <2>1 DEF SkillInv, SkillTypeOK, Unshaped, Jobs, Stages, Kind
  <2>3. job[c].stage \notin Under
    BY <2>1 DEF Under
  <2> HIDE DEF q
  <2> QED BY <2>1, <2>2, <2>3, CallStaysAway
<1>3. ASSUME NEW c \in AgentCall, Attach(c) PROVE SkillInv'
  <2> DEFINE to == Attached(c)
             shape == IF Kind(c) = "loop" THEN tools ELSE to
  <2>1. /\ job[c].stage = "resolving" /\ tools' = to
        /\ job' = [job EXCEPT ![c].stage = "gating", ![c].found = tools, ![c].shaped = shape]
        /\ orderly' = (orderly /\ \A d \in AgentCall : job[d].stage \notin Under)
    BY <1>3 DEF Attach, AtStage
  <2>2. /\ tools \in Seq(Skill) /\ job[c].mine \in Seq(Skill) /\ job[c] \in Jobs
        /\ to \in Seq(Skill) /\ shape \in Seq(Skill)
    BY AtTheTools, ConcatProperties DEF Attached
  <2>3. Kind(c) = "prompt" => IsSuffix(job[c].mine, shape)
    BY <2>2, AppendedIsSuffix DEF Attached
  <2>4. orderly' => /\ tools = <<>> /\ to = job[c].mine /\ shape \in {<<>>, job[c].mine}
    <3>1. orderly' => orderly /\ tools = <<>>
      BY <2>1 DEF SkillInv, SkillsStayInTheirRun, Quiet
    <3>2. <<>> \o job[c].mine = job[c].mine
      BY <2>2, ConcatEmptySeq
    <3> QED BY <3>1, <3>2, AtTheTools DEF Attached
  <2> HIDE DEF to, shape
  <2>5. /\ job' \in [AgentCall -> Jobs] /\ job'[c].stage = "gating" /\ job'[c].kind = job[c].kind
        /\ job'[c].mine = job[c].mine /\ job'[c].found = tools /\ job'[c].shaped = shape
        /\ \A d \in AgentCall \ {c} : job'[d] = job[d]
    BY <2>1, <2>2 DEF SkillInv, SkillTypeOK, Jobs, Stages, Under
  <2>6. SkillTypeOK'
    BY <2>1, <2>2, <2>5 DEF SkillInv, SkillTypeOK, Kind
  <2>7. OneAtTheTools' /\ Unshaped'
    BY <2>1, <2>4, <2>5 DEF SkillInv, OneAtTheTools, Unshaped, Kind, Under
  <2>8. ~Quiet'
    BY <2>5 DEF Quiet, Under
  <2>9. SkillsStayInTheirRun'
    BY <2>1, <2>3, <2>4, <2>5, <2>8 DEF SkillInv, SkillsStayInTheirRun, Kind, Under
  <2> QED BY <2>6, <2>7, <2>9 DEF SkillInv
<1>4. ASSUME NEW c \in AgentCall, LetIn(c) PROVE SkillInv'
  <2>1. /\ job[c].stage = "gating" /\ job[c].stage \in Under /\ Moves(c, "calling")
        /\ "calling" \in Under \cup {"ended"} /\ orderly' \in BOOLEAN /\ tools' \in {tools, job[c].found}
    BY <1>4, AtTheTools DEF LetIn, AtStage, Under
  <2>2. ASSUME orderly'
        PROVE  /\ orderly
               /\ tools' = IF "calling" = "ended" \/ (Kind(c) = "loop" /\ "calling" \in {"recording", "checking"})
                           THEN <<>> ELSE job[c].mine
    BY <1>4, <2>1, <2>2, AtTheTools DEF LetIn
  <2> QED BY <2>1, <2>2, CallMoves
<1>5. ASSUME NEW c \in AgentCall, Refuse(c) PROVE SkillInv'
  <2>1. /\ job[c].stage = "gating" /\ job[c].stage \in Under /\ Moves(c, "ended")
        /\ "ended" \in Under \cup {"ended"} /\ orderly' \in BOOLEAN /\ tools' \in {tools, job[c].found}
    BY <1>5, AtTheTools DEF Refuse, AtStage, Under
  <2>2. ASSUME orderly'
        PROVE  /\ orderly
               /\ tools' = IF "ended" = "ended" \/ (Kind(c) = "loop" /\ "ended" \in {"recording", "checking"})
                           THEN <<>> ELSE job[c].mine
    BY <1>5, <2>1, <2>2, AtTheTools DEF Refuse
  <2> QED BY <2>1, <2>2, CallMoves
<1>6. ASSUME NEW c \in AgentCall, CallReturns(c) PROVE SkillInv'
  <2>1. /\ job[c].stage = "calling" /\ job[c].stage \in Under /\ Moves(c, "recording")
        /\ "recording" \in Under \cup {"ended"} /\ orderly' \in BOOLEAN /\ tools' \in {tools, job[c].found}
    BY <1>6, AtTheTools DEF CallReturns, AtStage, Under
  <2>2. ASSUME orderly'
        PROVE  /\ orderly
               /\ tools' = IF "recording" = "ended" \/ (Kind(c) = "loop" /\ "recording" \in {"recording", "checking"})
                           THEN <<>> ELSE job[c].mine
    BY <1>6, <2>1, <2>2, AtTheTools DEF CallReturns
  <2> QED BY <2>1, <2>2, CallMoves
<1>7. ASSUME NEW c \in AgentCall, CallRaises(c) PROVE SkillInv'
  <2>1. /\ job[c].stage = "calling" /\ job[c].stage \in Under /\ Moves(c, "ended")
        /\ "ended" \in Under \cup {"ended"} /\ orderly' \in BOOLEAN /\ tools' \in {tools, job[c].found}
    BY <1>7, AtTheTools DEF CallRaises, AtStage, Under
  <2>2. ASSUME orderly'
        PROVE  /\ orderly
               /\ tools' = IF "ended" = "ended" \/ (Kind(c) = "loop" /\ "ended" \in {"recording", "checking"})
                           THEN <<>> ELSE job[c].mine
    BY <1>7, <2>1, <2>2, AtTheTools DEF CallRaises
  <2> QED BY <2>1, <2>2, CallMoves
<1>8. ASSUME NEW c \in AgentCall, Recorded(c) PROVE SkillInv'
  <2>1. /\ job[c].stage = "recording" /\ job[c].stage \in Under /\ Moves(c, "checking")
        /\ "checking" \in Under \cup {"ended"} /\ orderly' \in BOOLEAN /\ tools' \in {tools, job[c].found}
    BY <1>8, AtTheTools DEF Recorded, AtStage, Under
  <2>2. ASSUME orderly'
        PROVE  /\ orderly
               /\ tools' = IF "checking" = "ended" \/ (Kind(c) = "loop" /\ "checking" \in {"recording", "checking"})
                           THEN <<>> ELSE job[c].mine
    BY <1>8, <2>1, <2>2, AtTheTools DEF Recorded
  <2> QED BY <2>1, <2>2, CallMoves
<1>9. ASSUME NEW c \in AgentCall, Ends(c) PROVE SkillInv'
  <2>1. /\ job[c].stage = "checking" /\ job[c].stage \in Under /\ Moves(c, "ended")
        /\ "ended" \in Under \cup {"ended"} /\ orderly' \in BOOLEAN /\ tools' \in {tools, job[c].found}
    BY <1>9, AtTheTools DEF Ends, AtStage, Under
  <2>2. ASSUME orderly'
        PROVE  /\ orderly
               /\ tools' = IF "ended" = "ended" \/ (Kind(c) = "loop" /\ "ended" \in {"recording", "checking"})
                           THEN <<>> ELSE job[c].mine
    BY <1>9, <2>1, <2>2, AtTheTools DEF Ends
  <2> QED BY <2>1, <2>2, CallMoves
<1>10. CASE UNCHANGED skillVars
  BY <1>10 DEF skillVars, SkillInv, SkillTypeOK, OneAtTheTools, Unshaped, SkillsStayInTheirRun,
               Kind, Quiet
<1> QED BY <1>1, <1>2, <1>3, <1>4, <1>5, <1>6, <1>7, <1>8, <1>9, <1>10 DEF SkillNext

\* Skills stay in the run they were named for, as long as runs of the agent
\* neither overlap nor are refused before the loop; a run's own skills shape its
\* input in any case (run_with_skills, analyze).
THEOREM SkillsStay == RunsSpec => []SkillsStayInTheirRun
<1>1. RunsSpec => []SkillInv
  BY SkillInitInv, SkillNextInv, PTL DEF RunsSpec
<1>2. SkillInv => SkillsStayInTheirRun
  BY DEF SkillInv
<1> QED BY <1>1, <1>2, PTL

-----------------------------------------------------------------------------
\* Parsing.

\* Strategies that send, and all of them.
Sender == {"transcription_api", "vision_llm", "video_vision"}
Strategy == Sender \cup {"tesseract", "whisper_local"}

Letter == [by : Strategy, what : Nat, to : VisionVendor]
How == {"raised", "returned empty"}
Failure == Strategy \X How
Reading == Strategy \X Nat

Chain == Strategies(given.skill)
Tried(strategy) == \E i \in DOMAIN failures : failures[i][1] = strategy

ParsingTypeOK ==
    /\ given \in Given
    /\ failures \in Seq(Failure)
    /\ rest \in Seq(Strategy)
    /\ left \subseteq Nat
    /\ chunks \in Seq(Nat)
    /\ result.text \in Seq(Nat)
    /\ sent \in Seq(Letter)
    /\ read \in Seq(Reading)

\* The strategies that have failed and those that are left make up the chain.
TriedInOrder ==
    /\ Len(failures) + Len(rest) = Len(Chain)
    /\ \A i \in DOMAIN failures : failures[i][1] = Chain[i]
    /\ \A i \in DOMAIN rest : rest[i] = Chain[Len(failures) + i]

\* What was sent or read was by a strategy that was tried, or by the one under
\* way; never by the first, and not by one that has yet to start.
ByTheirTurn ==
    /\ \A i \in DOMAIN sent : Tried(sent[i].by) \/ (rest # <<>> /\ sent[i].by = Head(rest))
    /\ \A i \in DOMAIN read : Tried(read[i][1]) \/ (rest # <<>> /\ read[i][1] = Head(rest))
    /\ result = Unanswered /\ left = NotSampled =>
          /\ \A i \in DOMAIN sent : Tried(sent[i].by)
          /\ \A i \in DOMAIN read : Tried(read[i][1])
          /\ chunks = <<>>

SentOnce ==
    /\ \A i \in DOMAIN sent : sent[i].by \in Sender /\ sent[i].to \in AllowedTo(sent[i].by)
    /\ \A i \in DOMAIN sent : \A j \in 1 .. i - 1 : sent[i] # sent[j]

Film == "video_vision"

\* Frames are looked at from the first to the last, and what is read of them is
\* what the stitched text will say.
InFilmOrder ==
    left # NotSampled =>
        /\ result = Unanswered /\ rest # <<>> /\ Head(rest) = Film
        /\ left \subseteq 1 .. MaxFrames
        /\ \A i \in DOMAIN sent : sent[i].by = Film => sent[i].what \notin left
        /\ \A i, j \in DOMAIN chunks : i < j => chunks[i] < chunks[j]
        /\ \A i \in DOMAIN chunks : \A f \in left : chunks[i] < f
        /\ \A i \in DOMAIN read : read[i][1] = Film => \E j \in DOMAIN chunks : read[i][2] = chunks[j]
        /\ \A j \in DOMAIN chunks : \E i \in DOMAIN read : read[i] = <<Film, chunks[j]>>

\* A text is by the strategy under way, all of what it read.
TextIsWhole ==
    /\ result.kind = "error" => rest = <<>>
    /\ result.text # <<>> =>
          /\ rest # <<>> /\ result.by = Head(rest)
          /\ \A i, j \in DOMAIN result.text : i < j => result.text[i] < result.text[j]
          /\ \A i \in DOMAIN read : read[i][1] = result.by =>
                \E j \in DOMAIN result.text : read[i][2] = result.text[j]
          /\ \A j \in DOMAIN result.text : \E i \in DOMAIN read : read[i] = <<result.by, result.text[j]>>

ParsingInv ==
    /\ ParsingTypeOK /\ TriedInOrder /\ ByTheirTurn /\ SentOnce /\ InFilmOrder /\ TextIsWhole

\* The chain begins with a reader on the host and tries no strategy twice.
LEMMA ChainIs ==
    /\ Chain \in Seq(Strategy) /\ Len(Chain) \in 2 .. 3
    /\ \A i, j \in DOMAIN Chain : Chain[i] = Chain[j] => i = j
    /\ Chain[1] \notin Sender
<1>1. CASE Chain = <<"tesseract", "vision_llm">>
  BY <1>1 DEF Strategy, Sender
<1>2. CASE Chain = <<"whisper_local", "transcription_api">>
  BY <1>2 DEF Strategy, Sender
<1>3. CASE Chain = <<"whisper_local", "transcription_api", "video_vision">>
  BY <1>3 DEF Strategy, Sender
<1> QED BY <1>1, <1>2, <1>3 DEF Chain, Strategies

LEMMA ParsingInitInv == ParsingInit => ParsingInv
<1> SUFFICES ASSUME ParsingInit PROVE ParsingInv
  OBVIOUS
<1>1. given \in Given /\ rest = Chain /\ failures = <<>> /\ left = NotSampled /\ chunks = <<>>
      /\ result = Unanswered /\ sent = <<>> /\ read = <<>>
  BY DEF ParsingInit, Chain
<1>2. Unanswered.text = <<>> /\ Unanswered.kind = "pending"
  BY DEF Unanswered
<1>3. ParsingTypeOK
  BY <1>1, <1>2, ChainIs DEF ParsingTypeOK, NotSampled, WholeFile
<1>4. TriedInOrder
  BY <1>1, ChainIs DEF TriedInOrder
<1>5. ByTheirTurn /\ SentOnce /\ InFilmOrder /\ TextIsWhole
  BY <1>1, <1>2 DEF ByTheirTurn, SentOnce, InFilmOrder, TextIsWhole
<1> QED BY <1>3, <1>4, <1>5 DEF ParsingInv

\* A sequence that has grown by one element, or not at all.
Grown(before, after, e) == after = before \/ after = Append(before, e)

LEMMA GrownBy ==
    ASSUME NEW S, NEW before \in Seq(S), NEW e \in S, NEW after, Grown(before, after, e)
    PROVE  /\ after \in Seq(S)
           /\ \A i \in DOMAIN before : i \in DOMAIN after /\ after[i] = before[i]
           /\ \A i \in DOMAIN after :
                 \/ i \in DOMAIN before /\ after[i] = before[i]
                 \/ i = Len(before) + 1 /\ after = Append(before, e) /\ after[i] = e
BY DEF Grown

\* The strategy whose turn it is has not been tried.
LEMMA HeadIsNew ==
    ASSUME ParsingTypeOK, TriedInOrder, rest # <<>>
    PROVE  /\ Head(rest) \in Strategy /\ Head(rest) = Chain[Len(failures) + 1]
           /\ ~Tried(Head(rest)) /\ Tail(rest) \in Seq(Strategy) /\ Len(Tail(rest)) = Len(rest) - 1
           /\ \A i \in DOMAIN Tail(rest) : Tail(rest)[i] = rest[i + 1]
<1>1. /\ rest \in Seq(Strategy) /\ failures \in Seq(Failure)
      /\ Len(rest) \in Nat \ {0} /\ Len(failures) \in Nat
  BY DEF ParsingTypeOK
<1>2. /\ Head(rest) = rest[1] /\ 1 \in DOMAIN rest
      /\ Tail(rest) \in Seq(Strategy) /\ Len(Tail(rest)) = Len(rest) - 1
      /\ \A i \in DOMAIN Tail(rest) : Tail(rest)[i] = rest[i + 1]
  BY <1>1
<1>3. Head(rest) = Chain[Len(failures) + 1] /\ Len(failures) + 1 \in DOMAIN Chain
      /\ \A i \in DOMAIN failures : i \in DOMAIN Chain /\ i # Len(failures) + 1
  <2>1. /\ DOMAIN Chain = 1 .. Len(Chain) /\ Len(Chain) = Len(failures) + Len(rest)
        /\ DOMAIN failures = 1 .. Len(failures)
    BY <1>1, ChainIs DEF TriedInOrder, ParsingTypeOK
  <2>2. rest[1] = Chain[Len(failures) + 1]
    BY <1>2 DEF TriedInOrder
  <2> QED BY <1>1, <1>2, <2>1, <2>2
<1>4. ~Tried(Head(rest))
  BY <1>3, ChainIs DEF Tried, TriedInOrder, ParsingTypeOK
<1> QED BY <1>1, <1>2, <1>3, <1>4

\* What a strategy may send: to whom it was configured for, and not again.
MaySend ==
    \/ sent' = sent
    \/ \E e \in Letter :
          /\ sent' = Append(sent, e)
          /\ e.by = Head(rest) /\ e.by \in Sender /\ e.to \in AllowedTo(e.by)
          /\ \A i \in DOMAIN sent : sent[i] # e

LEMMA SendingKeeps ==
    ASSUME ParsingTypeOK, SentOnce, MaySend, given' = given
    PROVE  /\ sent' \in Seq(Letter) /\ SentOnce'
           /\ \A i \in DOMAIN sent' :
                 \/ i \in DOMAIN sent /\ sent'[i] = sent[i]
                 \/ sent' # sent /\ sent'[i].by = Head(rest)
<1>1. sent \in Seq(Letter) /\ \A s : AllowedTo(s)' = AllowedTo(s)
  BY DEF ParsingTypeOK, AllowedTo
<1>2. CASE sent' = sent
  BY <1>1, <1>2 DEF SentOnce
<1>3. ASSUME NEW e \in Letter,
             sent' = Append(sent, e) /\ e.by = Head(rest) /\ e.by \in Sender /\ e.to \in AllowedTo(e.by),
             \A i \in DOMAIN sent : sent[i] # e
      PROVE  /\ sent' \in Seq(Letter) /\ SentOnce'
             /\ \A i \in DOMAIN sent' :
                   \/ i \in DOMAIN sent /\ sent'[i] = sent[i]
                   \/ sent' # sent /\ sent'[i].by = Head(rest)
  <2>1. /\ sent' \in Seq(Letter) /\ Len(sent') = Len(sent) + 1 /\ Len(sent) \in Nat
        /\ DOMAIN sent = 1 .. Len(sent) /\ DOMAIN sent' = 1 .. Len(sent')
        /\ \A i \in DOMAIN sent : sent'[i] = sent[i]
        /\ sent'[Len(sent) + 1] = e
    BY <1>1, <1>3
  <2>2. \A i \in DOMAIN sent' : i \in DOMAIN sent \/ i = Len(sent) + 1
    BY <2>1
  <2>3. \A i \in DOMAIN sent' : sent'[i].by \in Sender /\ sent'[i].to \in AllowedTo(sent'[i].by)
    BY <1>3, <2>1, <2>2 DEF SentOnce
  <2>4. ASSUME NEW i \in DOMAIN sent', NEW j \in 1 .. i - 1 PROVE sent'[i] # sent'[j]
    <3>1. j \in DOMAIN sent /\ sent'[j] = sent[j]
      BY <2>1
    <3>2. CASE i \in DOMAIN sent
      BY <2>1, <3>1, <3>2 DEF SentOnce
    <3>3. CASE i = Len(sent) + 1
      BY <1>3, <2>1, <3>1, <3>3
    <3> QED BY <2>2, <3>2, <3>3
  <2>5. SentOnce'
    BY <1>1, <2>3, <2>4 DEF SentOnce
  <2> QED BY <1>3, <2>1, <2>2, <2>5
<1> QED BY <1>2, <1>3 DEF MaySend

\* A strategy that has failed is one of those that were tried.
LEMMA PassingKeeps ==
    ASSUME ParsingInv, result = Unanswered, rest # <<>>, MaySend, UNCHANGED read,
           \E how \in How : Passed(how)
    PROVE  ParsingInv'
<1>0. ParsingTypeOK /\ TriedInOrder /\ ByTheirTurn /\ SentOnce /\ Chain \in Seq(Strategy)
  BY ChainIs DEF ParsingInv
<1>1. /\ rest' = Tail(rest)
      /\ left' = NotSampled /\ chunks' = <<>> /\ given' = given /\ result' = result
  BY DEF Passed
<1>2. /\ Head(rest) \in Strategy /\ Head(rest) = Chain[Len(failures) + 1]
      /\ Tail(rest) \in Seq(Strategy) /\ Len(Tail(rest)) = Len(rest) - 1
      /\ \A i \in DOMAIN Tail(rest) : Tail(rest)[i] = rest[i + 1]
      /\ rest \in Seq(Strategy) /\ failures \in Seq(Failure)
  BY <1>0, HeadIsNew DEF ParsingTypeOK
<1>3. /\ sent' \in Seq(Letter) /\ SentOnce'
      /\ \A i \in DOMAIN sent' :
            \/ i \in DOMAIN sent /\ sent'[i] = sent[i]
            \/ sent'[i].by = Head(rest)
  BY <1>0, <1>1, SendingKeeps
<1>10. PICK outcome \in Failure : outcome[1] = Head(rest) /\ failures' = Append(failures, outcome)
  <2>1. PICK how \in How : failures' = Append(failures, <<Head(rest), how>>)
    BY DEF Passed
  <2>2. <<Head(rest), how>> \in Failure /\ <<Head(rest), how>>[1] = Head(rest)
    BY <1>2 DEF Failure
  <2> QED BY <2>1, <2>2
<1>4. /\ failures' \in Seq(Failure)
      /\ Len(failures') = Len(failures) + 1 /\ Len(failures) \in Nat /\ Len(rest) \in Nat \ {0}
      /\ \A i \in DOMAIN failures : i \in DOMAIN failures' /\ failures'[i] = failures[i]
      /\ Len(failures') \in DOMAIN failures' /\ failures'[Len(failures')] = outcome
      /\ \A i \in DOMAIN failures' : i \in DOMAIN failures \/ i = Len(failures')
  <2>1. Len(failures) \in Nat /\ Len(rest) \in Nat \ {0}
    BY <1>2
  <2>2. Grown(failures, failures', outcome)
    BY <1>10 DEF Grown
  <2>3. /\ failures' \in Seq(Failure)
        /\ \A i \in DOMAIN failures : i \in DOMAIN failures' /\ failures'[i] = failures[i]
        /\ \A i \in DOMAIN failures' : i \in DOMAIN failures \/ i = Len(failures) + 1
    BY <1>2, <1>10, <2>2, GrownBy
  <2>4. Len(failures') = Len(failures) + 1 /\ failures'[Len(failures) + 1] = outcome
    BY <1>2, <1>10
  <2>5. Len(failures') \in DOMAIN failures'
    BY <2>1, <2>3, <2>4
  <2> QED BY <2>1, <2>3, <2>4, <2>5
<1>5. \A s : Tried(s)' <=> Tried(s) \/ s = Head(rest)
  BY <1>4, <1>10 DEF Tried
<1>6. ParsingTypeOK'
  <2>1. left' \subseteq Nat
    BY <1>1 DEF NotSampled, WholeFile
  <2>2. chunks' \in Seq(Nat)
    BY <1>1
  <2>3. rest' \in Seq(Strategy)
    BY <1>1, <1>2
  <2> QED BY <1>0, <1>1, <1>3, <1>4, <2>1, <2>2, <2>3 DEF ParsingTypeOK
<1>7. TriedInOrder'
  <2>1. Chain' = Chain
    BY <1>1 DEF Chain
  <2>2. \A i \in DOMAIN failures' : failures'[i][1] = Chain[i]
    <3>1. Len(failures') = Len(failures) + 1 => failures'[Len(failures')][1] = Chain[Len(failures')]
      BY <1>2, <1>4, <1>10
    <3> QED BY <1>0, <1>4, <3>1 DEF TriedInOrder
  <2>3. ASSUME NEW i \in DOMAIN rest' PROVE rest'[i] = Chain[Len(failures') + i]
    <3>1. i \in Nat /\ i + 1 \in DOMAIN rest /\ rest'[i] = rest[i + 1]
      <4>1. rest' \in Seq(Strategy) /\ Len(rest') = Len(rest) - 1 /\ Len(rest) \in Nat \ {0}
        BY <1>1, <1>2, <1>4
      <4>2. DOMAIN rest' = 1 .. Len(rest') /\ DOMAIN rest = 1 .. Len(rest)
        BY <1>2, <4>1
      <4>3. i \in Nat /\ i + 1 \in DOMAIN rest
        BY <2>3, <4>1, <4>2
      <4> QED BY <1>1, <1>2, <2>3, <4>3
    <3>2. rest[i + 1] = Chain[Len(failures) + (i + 1)]
      BY <1>0, <3>1 DEF TriedInOrder
    <3> QED BY <1>4, <3>1, <3>2
  <2> QED BY <1>0, <1>1, <1>2, <1>4, <2>1, <2>2, <2>3 DEF TriedInOrder
<1>8. ByTheirTurn'
  <2>1. (\A i \in DOMAIN sent : Tried(sent[i].by))'
    BY <1>0, <1>3, <1>5 DEF ByTheirTurn
  <2>2. (\A i \in DOMAIN read : Tried(read[i][1]))'
    BY <1>0, <1>5 DEF ByTheirTurn
  <2> QED BY <1>1, <2>1, <2>2 DEF ByTheirTurn
<1>9. InFilmOrder' /\ TextIsWhole'
  BY <1>1 DEF InFilmOrder, TextIsWhole, Unanswered
<1> QED BY <1>3, <1>6, <1>7, <1>8, <1>9 DEF ParsingInv

\* A strategy that reads the whole file answers with it.
LEMMA ReadingKeeps ==
    ASSUME ParsingInv, result = Unanswered, rest # <<>>, left = NotSampled, MaySend, ReadWhole
    PROVE  ParsingInv'
<1> DEFINE page == <<Head(rest), WholeFile>>
<1>0. ParsingTypeOK /\ TriedInOrder /\ ByTheirTurn /\ SentOnce
  BY DEF ParsingInv
<1>1. /\ read' = Append(read, page)
      /\ result' = [kind |-> Wrapped("text"), by |-> Head(rest), text |-> <<WholeFile>>]
      /\ left' = NotSampled /\ UNCHANGED <<given, rest, failures, chunks>>
  BY DEF ReadWhole, Reads, Returned
<1>2. /\ Head(rest) \in Strategy /\ ~Tried(Head(rest)) /\ WholeFile \in Nat
      /\ read \in Seq(Reading) /\ page \in Reading
  BY <1>0, HeadIsNew DEF ParsingTypeOK, WholeFile, Reading
<1>3. /\ sent' \in Seq(Letter) /\ SentOnce'
      /\ \A i \in DOMAIN sent' :
            \/ i \in DOMAIN sent /\ sent'[i] = sent[i]
            \/ sent'[i].by = Head(rest)
  BY <1>0, <1>1, SendingKeeps
<1>5. page[1] = Head(rest) /\ page[2] = WholeFile
  OBVIOUS
<1> HIDE DEF page
<1>4. /\ read' \in Seq(Reading)
      /\ Len(read) + 1 \in DOMAIN read' /\ read'[Len(read) + 1] = page
      /\ \A i \in DOMAIN read' :
            \/ i \in DOMAIN read /\ read'[i] = read[i]
            \/ i = Len(read) + 1
  BY <1>1, <1>2
<1>6. /\ result'.text \in Seq(Nat) /\ result'.text = <<WholeFile>> /\ result'.by = Head(rest)
      /\ result'.kind \notin {"error", "pending"}
  BY <1>1, <1>2 DEF Wrapped
<1>7. ParsingTypeOK'
  BY <1>0, <1>1, <1>3, <1>4, <1>6 DEF ParsingTypeOK
<1>8. TriedInOrder'
  BY <1>0, <1>1 DEF TriedInOrder, Chain
<1>9. ByTheirTurn'
  <2>1. \A s : Tried(s)' <=> Tried(s)
    BY <1>1 DEF Tried
  <2>2. result' # Unanswered
    BY <1>6 DEF Unanswered
  <2>3. (\A i \in DOMAIN sent : Tried(sent[i].by) \/ (rest # <<>> /\ sent[i].by = Head(rest)))'
    BY <1>0, <1>1, <1>3, <2>1 DEF ByTheirTurn
  <2>4. (\A i \in DOMAIN read : Tried(read[i][1]) \/ (rest # <<>> /\ read[i][1] = Head(rest)))'
    BY <1>0, <1>1, <1>4, <1>5, <2>1 DEF ByTheirTurn
  <2> QED BY <2>2, <2>3, <2>4 DEF ByTheirTurn
<1>10. InFilmOrder'
  BY <1>1 DEF InFilmOrder
<1>11. TextIsWhole'
  <2>1. ASSUME NEW i \in DOMAIN read', read'[i][1] = Head(rest)
        PROVE  read'[i][2] = WholeFile
    BY <1>0, <1>2, <1>4, <1>5, <2>1 DEF ByTheirTurn
  <2>2. DOMAIN result'.text = {1} /\ result'.text[1] = WholeFile
    BY <1>6
  <2>3. read'[Len(read) + 1] = <<result'.by, result'.text[1]>>
    BY <1>4, <1>6, <2>2 DEF page
  <2>4. \A i, j \in DOMAIN result'.text : ~(i < j)
    BY <2>2
  <2> QED BY <1>1, <1>4, <1>6, <2>1, <2>2, <2>3, <2>4 DEF TextIsWhole
<1> QED BY <1>3, <1>7, <1>8, <1>9, <1>10, <1>11 DEF ParsingInv

\* A strategy that sends once and reads at most the whole file.
LEMMA OneShotKeeps ==
    ASSUME ParsingInv, result = Unanswered, rest # <<>>, Head(rest) # Film \/ left = NotSampled, MaySend,
           ReadWhole \/ ReadNothing \/ Failed
    PROVE  ParsingInv'
<1>1. left = NotSampled
  BY DEF ParsingInv, InFilmOrder
<1>2. CASE ReadWhole
  BY <1>1, <1>2, ReadingKeeps
<1>3. CASE ReadNothing
  BY <1>3, PassingKeeps DEF ReadNothing, Returned, How
<1>4. CASE Failed
  BY <1>4, PassingKeeps DEF Failed, How
<1> QED BY <1>2, <1>3, <1>4

\* Whoever has not sent anything yet may send the file.
LEMMA FirstLetter ==
    ASSUME ParsingInv, result = Unanswered, rest # <<>>, left = NotSampled,
           NEW what \in Nat, NEW to \in VisionVendor, Sends(what, to),
           Head(rest) \in Sender, to \in AllowedTo(Head(rest))
    PROVE  MaySend
<1> DEFINE e == [by |-> Head(rest), what |-> what, to |-> to]
<1>1. e \in Letter /\ e.by = Head(rest) /\ e.to = to /\ sent' = Append(sent, e)
  BY DEF Letter, Strategy, Sends
<1>2. ASSUME NEW i \in DOMAIN sent PROVE sent[i] # e
  BY <1>1, HeadIsNew DEF ParsingInv, ByTheirTurn
<1> HIDE DEF e
<1> QED BY <1>1, <1>2 DEF MaySend

LEMMA FirstFrame ==
    ASSUME NEW S \in SUBSET Nat, S # {}
    PROVE  Min(S) \in S /\ \A f \in S : Min(S) <= f
BY LeastNumber DEF Min

\* The next frame of the film is sent for the first time, and what is read of it
\* comes after all that was read before.
LEMMA LookingKeeps ==
    ASSUME ParsingInv, ParsingAssumption, Trying("video_vision"), Looked, NEW frame \in left,
           \A f \in left : frame <= f, LookAt(frame)
    PROVE  ParsingInv'
<1>0. /\ ParsingTypeOK /\ TriedInOrder /\ ByTheirTurn /\ SentOnce /\ InFilmOrder /\ TextIsWhole
      /\ result = Unanswered /\ rest # <<>> /\ Head(rest) = Film /\ left # NotSampled /\ left # {}
  BY DEF ParsingInv, Trying, Looked, Film
<1>1. /\ left' = left \ {frame} /\ UNCHANGED <<given, rest, failures, result>>
      /\ \/ sent' = sent
         \/ VisionReady /\ Sends(frame, given.vision)
      /\ \/ read' = read /\ chunks' = chunks
         \/ read' = Append(read, <<Film, frame>>) /\ chunks' = Append(chunks, frame)
  BY <1>0 DEF LookAt, Reads
<1>2. /\ left \subseteq 1 .. MaxFrames /\ MaxFrames \in Nat /\ frame \in Nat /\ frame \in 1 .. MaxFrames
      /\ sent \in Seq(Letter) /\ read \in Seq(Reading) /\ chunks \in Seq(Nat)
      /\ Film \in Sender /\ Film \in Strategy
  BY <1>0 DEF ParsingTypeOK, InFilmOrder, ParsingAssumption, Film, Sender, Strategy
<1>3. /\ \/ sent' = sent
         \/ \E e \in Letter : /\ sent' = Append(sent, e) /\ e.by = Film /\ e.what = frame
                              /\ e.to \in AllowedTo(Film)
  <2>1. ASSUME VisionReady, Sends(frame, given.vision)
        PROVE  \E e \in Letter : /\ sent' = Append(sent, e) /\ e.by = Film /\ e.what = frame
                                 /\ e.to \in AllowedTo(Film)
    <3> DEFINE e == [by |-> Film, what |-> frame, to |-> given.vision]
    <3>1. given.vision \in VisionVendor /\ given.vision \in AllowedTo(Film)
      BY <2>1 DEF VisionReady, VisionVendor, AllowedTo, Film
    <3>2. e \in Letter
      BY <1>2, <3>1 DEF Letter, VisionVendor
    <3>3. sent' = Append(sent, e) /\ e.by = Film /\ e.what = frame /\ e.to = given.vision
      BY <1>0, <2>1 DEF Sends
    <3> HIDE DEF e
    <3> QED BY <3>1, <3>2, <3>3
  <2> QED BY <1>1, <2>1
<1>4. MaySend
  BY <1>0, <1>2, <1>3 DEF MaySend, InFilmOrder
<1>5. /\ sent' \in Seq(Letter) /\ SentOnce'
  BY <1>0, <1>1, <1>4, SendingKeeps
<1>6. \A i \in DOMAIN sent' :
         \/ i \in DOMAIN sent /\ sent'[i] = sent[i]
         \/ sent'[i].by = Film /\ sent'[i].what = frame
  <2>1. ASSUME NEW e \in Letter, sent' = Append(sent, e), e.by = Film, e.what = frame,
               NEW i \in DOMAIN sent'
        PROVE  \/ i \in DOMAIN sent /\ sent'[i] = sent[i]
               \/ sent'[i].by = Film /\ sent'[i].what = frame
    BY <1>2, <2>1
  <2> QED BY <1>3, <2>1
<1>7. /\ read' \in Seq(Reading) /\ chunks' \in Seq(Nat)
      /\ \A i \in DOMAIN read' :
            \/ i \in DOMAIN read /\ read'[i] = read[i]
            \/ i = Len(read') /\ read'[i] = <<Film, frame>> /\ chunks' # chunks
      /\ \A i \in DOMAIN read : i \in DOMAIN read' /\ read'[i] = read[i]
  <2>1. CASE read' = read /\ chunks' = chunks
    BY <1>2, <2>1
  <2>2. CASE read' = Append(read, <<Film, frame>>) /\ chunks' = Append(chunks, frame)
    <3>1. <<Film, frame>> \in Reading
      BY <1>2 DEF Reading
    <3>2. Len(chunks') = Len(chunks) + 1 /\ chunks' # chunks
      BY <1>2, <2>2
    <3> QED BY <1>2, <2>2, <3>1, <3>2
  <2> QED BY <1>1, <2>1, <2>2
<1>8. /\ \A j \in DOMAIN chunks' :
            \/ j \in DOMAIN chunks /\ chunks'[j] = chunks[j]
            \/ /\ j = Len(chunks) + 1 /\ chunks'[j] = frame
               /\ Len(read') \in DOMAIN read' /\ read'[Len(read')] = <<Film, frame>>
      /\ \A j \in DOMAIN chunks : j \in DOMAIN chunks' /\ chunks'[j] = chunks[j]
      /\ chunks' # chunks => Len(chunks) + 1 \in DOMAIN chunks' /\ chunks'[Len(chunks) + 1] = frame
  <2>1. CASE read' = read /\ chunks' = chunks
    BY <2>1
  <2>2. CASE read' = Append(read, <<Film, frame>>) /\ chunks' = Append(chunks, frame)
    <3> DEFINE seen == <<Film, frame>>
    <3>1. seen \in Reading
      BY <1>2 DEF Reading
    <3>2. read' = Append(read, seen)
      BY <2>2
    <3> HIDE DEF seen
    <3>3. Len(read') \in DOMAIN read' /\ read'[Len(read')] = seen
      BY <1>2, <3>1, <3>2
    <3>4. /\ \A j \in DOMAIN chunks' : j \in DOMAIN chunks \/ j = Len(chunks) + 1
          /\ \A j \in DOMAIN chunks : j \in DOMAIN chunks' /\ chunks'[j] = chunks[j]
          /\ Len(chunks) + 1 \in DOMAIN chunks' /\ chunks'[Len(chunks) + 1] = frame
      BY <1>2, <2>2
    <3> QED BY <3>3, <3>4 DEF seen
  <2> QED BY <1>1, <2>1, <2>2
<1>9. ParsingTypeOK'
  BY <1>0, <1>1, <1>5, <1>7 DEF ParsingTypeOK
<1>10. TriedInOrder'
  BY <1>0, <1>1 DEF TriedInOrder, Chain
<1>11. \A s : Tried(s)' <=> Tried(s)
  BY <1>1 DEF Tried
<1>12. left' # NotSampled
  BY <1>1, <1>2 DEF NotSampled, WholeFile
<1>13. ByTheirTurn'
  <2>1. (\A i \in DOMAIN sent : Tried(sent[i].by) \/ (rest # <<>> /\ sent[i].by = Head(rest)))'
    BY <1>0, <1>1, <1>6, <1>11 DEF ByTheirTurn
  <2>2. (\A i \in DOMAIN read : Tried(read[i][1]) \/ (rest # <<>> /\ read[i][1] = Head(rest)))'
    BY <1>0, <1>1, <1>7, <1>11 DEF ByTheirTurn
  <2> QED BY <1>12, <2>1, <2>2 DEF ByTheirTurn
<1>14. InFilmOrder'
  <2>1. ASSUME NEW i \in DOMAIN sent', sent'[i].by = Film PROVE sent'[i].what \notin left'
    BY <1>0, <1>1, <1>6, <2>1 DEF InFilmOrder
  <2>2. ASSUME NEW i \in DOMAIN chunks', NEW j \in DOMAIN chunks', i < j
        PROVE  chunks'[i] < chunks'[j]
    <3>1. i \in Nat /\ j \in Nat /\ DOMAIN chunks = 1 .. Len(chunks) /\ Len(chunks) \in Nat
          /\ DOMAIN chunks' = 1 .. Len(chunks') /\ Len(chunks') \in Nat
      BY <1>2, <1>7
    <3>2. CASE j \in DOMAIN chunks
      BY <1>0, <1>8, <2>2, <3>1, <3>2 DEF InFilmOrder
    <3>3. CASE j = Len(chunks) + 1 /\ chunks'[j] = frame
      BY <1>0, <1>8, <2>2, <3>1, <3>3 DEF InFilmOrder
    <3> QED BY <1>8, <3>2, <3>3
  <2>3. ASSUME NEW i \in DOMAIN chunks', NEW f \in left' PROVE chunks'[i] < f
    <3>1. f \in left /\ f # frame /\ frame <= f /\ f \in Nat
      BY <1>1, <1>2
    <3> QED BY <1>0, <1>2, <1>8, <3>1 DEF InFilmOrder
  <2>4. ASSUME NEW i \in DOMAIN read', read'[i][1] = Film
        PROVE  \E j \in DOMAIN chunks' : read'[i][2] = chunks'[j]
    BY <1>0, <1>7, <1>8, <2>4 DEF InFilmOrder
  <2>5. ASSUME NEW j \in DOMAIN chunks' PROVE \E i \in DOMAIN read' : read'[i] = <<Film, chunks'[j]>>
    <3>1. CASE j \in DOMAIN chunks /\ chunks'[j] = chunks[j]
      <4>1. PICK i \in DOMAIN read : read[i] = <<Film, chunks[j]>>
        BY <1>0, <3>1 DEF InFilmOrder
      <4>2. i \in DOMAIN read' /\ read'[i] = read[i]
        BY <1>7
      <4> QED BY <3>1, <4>1, <4>2
    <3>2. CASE chunks'[j] = frame /\ Len(read') \in DOMAIN read' /\ read'[Len(read')] = <<Film, frame>>
      BY <3>2
    <3> QED BY <1>8, <3>1, <3>2
  <2> QED BY <1>0, <1>1, <1>2, <2>1, <2>2, <2>3, <2>4, <2>5 DEF InFilmOrder
<1>15. TextIsWhole'
  BY <1>0, <1>1 DEF TextIsWhole, Unanswered
<1> QED BY <1>5, <1>9, <1>10, <1>13, <1>14, <1>15 DEF ParsingInv

LEMMA FailedFrameKeeps ==
    ASSUME ParsingInv, Trying("video_vision"), Looked, NEW frame \in left, FrameRaises(frame)
    PROVE  ParsingInv'
<1>0. /\ ParsingTypeOK /\ InFilmOrder
      /\ result = Unanswered /\ rest # <<>> /\ Head(rest) = Film /\ left # NotSampled
  BY DEF ParsingInv, Trying, Looked, Film
<1>1. UNCHANGED read /\ Passed("raised")
  BY DEF FrameRaises, Failed
<1>2. MaySend
  <2>1. CASE sent' = sent
    BY <2>1 DEF MaySend
  <2>2. CASE VisionReady /\ Sends(frame, given.vision)
    <3> DEFINE e == [by |-> Film, what |-> frame, to |-> given.vision]
    <3>1. given.vision \in VisionVendor /\ given.vision \in AllowedTo(Film)
      BY <2>2 DEF VisionReady, VisionVendor, AllowedTo, Film
    <3>2. e \in Letter /\ Film \in Sender
      BY <1>0, <3>1 DEF Letter, VisionVendor, Strategy, Sender, Film, ParsingTypeOK
    <3>3. sent' = Append(sent, e) /\ e.by = Film /\ e.what = frame /\ e.to = given.vision
      BY <1>0, <2>2 DEF Sends
    <3> HIDE DEF e
    <3>4. \A i \in DOMAIN sent : sent[i] # e
      BY <1>0, <3>3 DEF InFilmOrder
    <3> QED BY <1>0, <3>1, <3>2, <3>3, <3>4 DEF MaySend
  <2> QED BY <2>1, <2>2 DEF FrameRaises
<1> QED BY <1>0, <1>1, <1>2, PassingKeeps DEF How

LEMMA SamplingKeeps ==
    ASSUME ParsingInv, ParsingAssumption, SampleFrames
    PROVE  ParsingInv'
<1>0. /\ ParsingTypeOK /\ TriedInOrder /\ ByTheirTurn /\ SentOnce /\ TextIsWhole
      /\ result = Unanswered /\ rest # <<>> /\ Head(rest) = Film /\ left = NotSampled
      /\ sent' = sent
  BY DEF ParsingInv, SampleFrames, Trying, Film
<1>1. CASE ReadNothing \/ Failed
  BY <1>0, <1>1, OneShotKeeps DEF MaySend
<1>2. ASSUME NEW n \in 1 .. MaxFrames,
             left' = 1 .. n /\ UNCHANGED <<given, rest, failures, chunks, result, read>>
      PROVE  ParsingInv'
  <2>1. left' \subseteq 1 .. MaxFrames /\ left' \subseteq Nat /\ 1 \in left' /\ left' # NotSampled
    BY <1>2 DEF ParsingAssumption, NotSampled, WholeFile
  <2>2. ~Tried(Film) /\ chunks = <<>>
    BY <1>0, HeadIsNew DEF ByTheirTurn
  <2>3. \A i \in DOMAIN sent : sent[i].by # Film
    BY <1>0, <2>2 DEF ByTheirTurn
  <2>4. \A i \in DOMAIN read : read[i][1] # Film
    BY <1>0, <2>2 DEF ByTheirTurn
  <2>5. InFilmOrder'
    BY <1>0, <1>2, <2>1, <2>2, <2>3, <2>4 DEF InFilmOrder
  <2>6. ParsingTypeOK' /\ TriedInOrder'
    BY <1>0, <1>2, <2>1 DEF ParsingTypeOK, TriedInOrder, Chain
  <2>7. \A s : Tried(s)' <=> Tried(s)
    BY <1>2 DEF Tried
  <2>8. ByTheirTurn'
    BY <1>0, <1>2, <2>1, <2>7 DEF ByTheirTurn
  <2>9. SentOnce' /\ TextIsWhole'
    BY <1>0, <1>2 DEF SentOnce, AllowedTo, TextIsWhole
  <2> QED BY <2>5, <2>6, <2>8, <2>9 DEF ParsingInv
<1> QED BY <1>1, <1>2 DEF SampleFrames

\* What was seen of the frames is the text, or there is none.
LEMMA StitchKeeps ==
    ASSUME ParsingInv, Stitch
    PROVE  ParsingInv'
<1>0. /\ ParsingTypeOK /\ TriedInOrder /\ ByTheirTurn /\ SentOnce /\ InFilmOrder /\ TextIsWhole
      /\ result = Unanswered /\ rest # <<>> /\ Head(rest) = Film /\ left = {} /\ left # NotSampled
      /\ sent' = sent /\ read' = read /\ Returned(chunks)
  BY DEF ParsingInv, Stitch, Trying, Film, NotSampled
<1>1. CASE chunks = <<>>
  BY <1>0, <1>1, PassingKeeps DEF Returned, MaySend, How
<1>2. CASE chunks # <<>>
  <2>1. /\ result'.text = chunks /\ result'.by = Film /\ result'.kind \notin {"error", "pending"}
        /\ left' = NotSampled /\ UNCHANGED <<given, rest, failures, chunks>>
    BY <1>0, <1>2 DEF Returned, Wrapped
  <2>2. ParsingTypeOK' /\ TriedInOrder'
    BY <1>0, <2>1 DEF ParsingTypeOK, TriedInOrder, Chain, NotSampled, WholeFile
  <2>3. \A s : Tried(s)' <=> Tried(s)
    BY <2>1 DEF Tried
  <2>4. result' # Unanswered
    BY <2>1 DEF Unanswered
  <2>5. ByTheirTurn'
    BY <1>0, <2>1, <2>3, <2>4 DEF ByTheirTurn
  <2>6. SentOnce' /\ InFilmOrder'
    BY <1>0, <2>1 DEF SentOnce, AllowedTo, InFilmOrder
  <2>7. TextIsWhole'
    BY <1>0, <2>1 DEF TextIsWhole, InFilmOrder
  <2> QED BY <2>2, <2>5, <2>6, <2>7 DEF ParsingInv
<1> QED BY <1>1, <1>2

LEMMA ParsingNextInv == ParsingInv /\ [ParsingNext]_parsingVars => ParsingInv'
<1> SUFFICES ASSUME ParsingInv, [ParsingNext]_parsingVars PROVE ParsingInv'
  OBVIOUS
<1>0. ParsingTypeOK /\ TriedInOrder /\ InFilmOrder /\ ParsingAssumption /\ WholeFile \in Nat
  BY ParsingAssumption DEF ParsingInv, WholeFile
<1>1. CASE Tesseract \/ WhisperLocal
  <2>1. /\ result = Unanswered /\ rest # <<>> /\ Head(rest) # Film /\ sent' = sent
        /\ ReadWhole \/ ReadNothing \/ Failed
    BY <1>1 DEF Tesseract, WhisperLocal, Trying, Film
  <2> QED BY <2>1, OneShotKeeps DEF MaySend
<1>2. CASE TranscriptionApi
  <2>1. /\ result = Unanswered /\ rest # <<>> /\ Head(rest) = "transcription_api" /\ Head(rest) # Film
        /\ Head(rest) \in Sender
        /\ ReadWhole \/ ReadNothing \/ Failed
        /\ \/ sent' = sent
           \/ given.transcription = "openai" /\ Sends(WholeFile, "openai")
    BY <1>2 DEF TranscriptionApi, Trying, Film, Sender
  <2>2. given.transcription = "openai" => "openai" \in AllowedTo(Head(rest))
    BY <2>1 DEF AllowedTo
  <2>3. left = NotSampled
    BY <1>0, <2>1 DEF InFilmOrder
  <2>4. CASE sent' = sent
    BY <2>1, <2>4, OneShotKeeps DEF MaySend
  <2>5. CASE given.transcription = "openai" /\ Sends(WholeFile, "openai")
    <3>1. "openai" \in VisionVendor
      BY DEF VisionVendor
    <3>2. MaySend
      BY <1>0, <2>1, <2>2, <2>3, <2>5, <3>1, FirstLetter
    <3> QED BY <2>1, <3>2, OneShotKeeps
  <2> QED BY <2>1, <2>4, <2>5
<1>3. CASE VisionLlm
  <2>1. /\ result = Unanswered /\ rest # <<>> /\ Head(rest) = "vision_llm" /\ Head(rest) # Film
        /\ Head(rest) \in Sender
        /\ ReadWhole \/ ReadNothing \/ Failed
        /\ \/ sent' = sent
           \/ VisionReady /\ Sends(WholeFile, given.vision)
    BY <1>3 DEF VisionLlm, Trying, Film, Sender
  <2>2. VisionReady => given.vision \in AllowedTo(Head(rest)) /\ given.vision \in VisionVendor
    BY <2>1 DEF AllowedTo, VisionReady, VisionVendor
  <2>3. left = NotSampled
    BY <1>0, <2>1 DEF InFilmOrder
  <2>4. CASE sent' = sent
    BY <2>1, <2>4, OneShotKeeps DEF MaySend
  <2>5. CASE VisionReady /\ Sends(WholeFile, given.vision)
    BY <1>0, <2>1, <2>2, <2>3, <2>5, FirstLetter, OneShotKeeps
  <2> QED BY <2>1, <2>4, <2>5
<1>4. CASE SampleFrames
  BY <1>0, <1>4, SamplingKeeps
<1>5. CASE Frames
  <2>1. /\ Trying("video_vision") /\ Looked /\ left # {}
        /\ LookAt(Min(left)) \/ FrameRaises(Min(left))
    BY <1>5 DEF Frames, NextFrame, Looked
  <2>2. Min(left) \in left /\ \A f \in left : Min(left) <= f
    BY <1>0, <2>1, FirstFrame DEF ParsingTypeOK
  <2> QED BY <1>0, <2>1, <2>2, LookingKeeps, FailedFrameKeeps
<1>6. CASE Stitch
  BY <1>6, StitchKeeps
<1>7. CASE AllFailed
  <2>1. /\ result'.text = <<>> /\ rest = <<>> /\ result' # Unanswered
        /\ UNCHANGED <<given, rest, failures, left, chunks, sent, read>>
    BY <1>7 DEF AllFailed, Unanswered, Wrapped
  <2>2. left = NotSampled
    BY <1>0, <2>1 DEF InFilmOrder
  <2>3. \A s : Tried(s)' <=> Tried(s)
    BY <2>1 DEF Tried
  <2>4. ParsingTypeOK' /\ TriedInOrder' /\ SentOnce'
    <3>1. result'.text \in Seq(Nat)
      BY <2>1
    <3> QED BY <2>1, <3>1 DEF ParsingInv, ParsingTypeOK, TriedInOrder, SentOnce, Chain, AllowedTo
  <2>5. ByTheirTurn'
    BY <2>1, <2>3 DEF ParsingInv, ByTheirTurn
  <2>6. InFilmOrder' /\ TextIsWhole'
    BY <2>1, <2>2 DEF InFilmOrder, TextIsWhole
  <2> QED BY <2>4, <2>5, <2>6 DEF ParsingInv
<1>8. CASE UNCHANGED parsingVars
  <2>1. \A s : Tried(s)' <=> Tried(s)
    BY <1>8 DEF parsingVars, Tried
  <2>2. ParsingTypeOK' /\ TriedInOrder' /\ SentOnce' /\ InFilmOrder' /\ TextIsWhole'
    BY <1>8 DEF parsingVars, ParsingInv, ParsingTypeOK, TriedInOrder, SentOnce, Chain, AllowedTo,
                InFilmOrder, TextIsWhole
  <2>3. ByTheirTurn'
    BY <1>8, <2>1 DEF parsingVars, ParsingInv, ByTheirTurn
  <2> QED BY <2>2, <2>3 DEF ParsingInv
<1> QED BY <1>1, <1>2, <1>3, <1>4, <1>5, <1>6, <1>7, <1>8 DEF ParsingNext

\* What the invariant says of the strategies and their texts is what the host
\* asked for and what it is told.
LEMMA ParsingInvIsEnough == ParsingInv => ReadAsConfigured
<1> SUFFICES ASSUME ParsingInv PROVE ReadAsConfigured
  OBVIOUS
<1>0. ParsingTypeOK /\ TriedInOrder /\ ByTheirTurn /\ SentOnce /\ TextIsWhole /\ given \in Given
  BY DEF ParsingInv, ParsingTypeOK
<1>1. /\ failures \in Seq(Failure) /\ rest \in Seq(Strategy)
      /\ Len(failures) \in Nat /\ Len(rest) \in Nat /\ Chain \in Seq(Strategy) /\ Len(Chain) \in Nat
  BY <1>0, ChainIs DEF ParsingTypeOK
<1>2. ASSUME NEW i \in DOMAIN sent
      PROVE  /\ failures # <<>> /\ failures[1][1] = Chain[1]
  <2>1. sent[i].by \in Sender /\ sent[i].by # Chain[1]
    BY <1>0, ChainIs DEF SentOnce
  <2>2. CASE Tried(sent[i].by)
    BY <1>0, <1>1, <2>2 DEF Tried, TriedInOrder
  <2>3. CASE rest # <<>> /\ sent[i].by = Head(rest)
    <3>1. Len(failures) # 0
      BY <1>0, <1>1, <2>1, <2>3, HeadIsNew
    <3> QED BY <1>0, <1>1, <3>1 DEF TriedInOrder
  <2> QED BY <1>0, <2>2, <2>3 DEF ByTheirTurn
<1>3. NothingLeavesUnasked
  BY <1>0, <1>2 DEF NothingLeavesUnasked, SentOnce, Chain
<1>4. [i \in DOMAIN failures |-> failures[i][1]] \o rest = Chain
  <2> DEFINE names == [i \in DOMAIN failures |-> failures[i][1]]
  <2>1. names \in Seq(Strategy) /\ Len(names) = Len(failures)
    <3>1. \A i \in DOMAIN failures : failures[i] \in Failure
      BY <1>1
    <3>2. \A f \in Failure : f[1] \in Strategy
      BY DEF Failure
    <3>3. DOMAIN failures = 1 .. Len(failures)
      BY <1>1
    <3>4. names \in [1 .. Len(failures) -> Strategy]
      BY <3>1, <3>2, <3>3
    <3> HIDE DEF names
    <3> QED BY <1>1, <3>4
  <2>2. \A i \in 1 .. Len(names) : names[i] = Chain[i]
    BY <1>0, <1>1, <2>1 DEF TriedInOrder
  <2> HIDE DEF names
  <2>3. names \o rest \in Seq(Strategy) /\ Len(names \o rest) = Len(Chain)
    <3>1. Len(failures) + Len(rest) = Len(Chain)
      BY <1>0 DEF TriedInOrder
    <3> QED BY <1>1, <2>1, <3>1
  <2>4. ASSUME NEW i \in 1 .. Len(Chain) PROVE (names \o rest)[i] = Chain[i]
    <3>1. CASE i <= Len(names)
      BY <1>1, <2>1, <2>2, <3>1
    <3>2. CASE i > Len(names)
      <4>1. i - Len(names) \in DOMAIN rest /\ (names \o rest)[i] = rest[i - Len(names)]
        BY <1>0, <1>1, <2>1, <2>3, <3>2 DEF TriedInOrder
      <4>2. rest[i - Len(names)] = Chain[Len(failures) + (i - Len(names))]
        BY <1>0, <4>1 DEF TriedInOrder
      <4> QED BY <1>1, <2>1, <4>1, <4>2
    <3>3. i \in Nat /\ Len(names) \in Nat /\ (i <= Len(names) \/ i > Len(names))
      <4>1. i \in Nat
        BY <1>1
      <4>2. Len(names) \in Nat
        BY <1>1, <2>1
      <4> QED BY <4>1, <4>2
    <3> QED BY <3>1, <3>2, <3>3
  <2>5. names \o rest = Chain
    BY <1>1, <2>3, <2>4, SeqEqual
  <2> QED BY <2>5 DEF names
<1>5. ASSUME result.text # <<>>
      PROVE  ToSet(result.text) = {r[2] : r \in {x \in ToSet(read) : x[1] = result.by}}
  <2>1. /\ \A i \in DOMAIN read : read[i][1] = result.by =>
              \E j \in DOMAIN result.text : read[i][2] = result.text[j]
        /\ \A j \in DOMAIN result.text : \E i \in DOMAIN read : read[i] = <<result.by, result.text[j]>>
    BY <1>0, <1>5 DEF TextIsWhole
  <2> QED BY <2>1 DEF ToSet
<1>6. ASSUME result.text # <<>>, NEW i \in DOMAIN sent
      PROVE  sent[i].by = result.by \/ \E f \in ToSet(failures) : f[1] = sent[i].by
  BY <1>0, <1>6 DEF ByTheirTurn, TextIsWhole, Tried, ToSet
<1>7. FirstReaderAnswers
  BY <1>0, <1>4, <1>5, <1>6 DEF FirstReaderAnswers, TextIsWhole, Chain
<1> QED BY <1>3, <1>7 DEF ReadAsConfigured

\* Whatever the configuration and whatever fails, nothing leaves the host that it
\* did not choose to send, and the text is the whole of what the first strategy
\* to read anything read (run_chain_mixed, vision_llm_strategy).
THEOREM ReadsAreAsConfigured == ParsingSpec => []ReadAsConfigured
<1>1. ParsingSpec => []ParsingInv
  BY ParsingInitInv, ParsingNextInv, PTL DEF ParsingSpec
<1> QED BY <1>1, ParsingInvIsEnough, PTL

-----------------------------------------------------------------------------
\* The rate limiter's window.

\* it keeps, of the first n times, those after the from.
KeepsUpTo(times, from, n, it) ==
    it = [i \in 0 .. n |->
            IF i = 0 THEN <<>>
            ELSE IF times[i] > from THEN Append(it[i - 1], times[i]) ELSE it[i - 1]]

LEMMA KeepingExists ==
    ASSUME NEW times, NEW from, NEW len \in Nat
    PROVE  \E it : KeepsUpTo(times, from, len, it)
<1> DEFINE Bad == {n \in Nat : ~\E it : KeepsUpTo(times, from, n, it)}
<1>1. Bad = {}
  <2> SUFFICES ASSUME Bad # {} PROVE FALSE
    OBVIOUS
  <2>1. PICK n \in Bad : \A m \in Bad : n <= m
    <3>1. Bad \in SUBSET Nat
      OBVIOUS
    <3> HIDE DEF Bad
    <3> QED BY <3>1, LeastNumber
  <2>2. CASE n = 0
    <3> DEFINE it == [i \in 0 .. 0 |-> <<>>]
    <3>1. KeepsUpTo(times, from, 0, it)
      BY DEF KeepsUpTo
    <3> QED BY <2>1, <2>2, <3>1
  <2>3. CASE n # 0
    <3>1. n \in Nat /\ n - 1 \in Nat /\ n - 1 \notin Bad
      <4>1. n \in Nat
        OBVIOUS
      <4> HIDE DEF Bad
      <4> QED BY <2>1, <2>3, <4>1
    <3>2. PICK it : KeepsUpTo(times, from, n - 1, it)
      BY <3>1
    <3> DEFINE Value(f, i) == IF i = 0 THEN <<>>
                              ELSE IF times[i] > from THEN Append(f[i - 1], times[i]) ELSE f[i - 1]
               more == [i \in 0 .. n |-> Value(it, i)]
    <3>3. it = [i \in 0 .. n - 1 |-> Value(it, i)]
      BY <3>2 DEF KeepsUpTo
    <3> HIDE DEF Value
    <3>4. \A i \in 0 .. n - 1 : more[i] = it[i]
      BY <3>1, <3>3
    <3>5. \A i \in 0 .. n : Value(it, i) = Value(more, i)
      <4> HIDE DEF more
      <4>1. \A i \in 0 .. n : i # 0 => i - 1 \in 0 .. n - 1
        BY <3>1
      <4> QED BY <3>4, <4>1 DEF Value
    <3>6. more = [i \in 0 .. n |-> Value(more, i)]
      BY <3>5
    <3>7. KeepsUpTo(times, from, n, more)
      <4> HIDE DEF more
      <4> QED BY <3>6 DEF KeepsUpTo, Value
    <3> QED BY <2>1, <3>7
  <2> QED BY <2>2, <2>3
<1> QED BY <1>1

\* it leads, one time after the other, to what stays.
LeadsTo(times, from, it) ==
    /\ Later(times, from) = it[Len(times)]
    /\ it[0] = <<>>
    /\ \A i \in 1 .. Len(times) :
          it[i] = IF times[i] > from THEN Append(it[i - 1], times[i]) ELSE it[i - 1]

LEMMA LaterIsKept ==
    ASSUME NEW times, Len(times) \in Nat, NEW from
    PROVE  \E it : LeadsTo(times, from, it)
<1> DEFINE it == CHOOSE f : KeepsUpTo(times, from, Len(times), f)
<1>1. KeepsUpTo(times, from, Len(times), it)
  BY KeepingExists
<1>2. Later(times, from) = it[Len(times)]
  BY DEF Later, KeepsUpTo
<1> HIDE DEF it
<1>3. /\ it[0] = <<>>
      /\ \A i \in 1 .. Len(times) :
           it[i] = IF times[i] > from THEN Append(it[i - 1], times[i]) ELSE it[i - 1]
  <2> DEFINE Value(i) == IF i = 0 THEN <<>>
                         ELSE IF times[i] > from THEN Append(it[i - 1], times[i]) ELSE it[i - 1]
  <2>1. it = [i \in 0 .. Len(times) |-> Value(i)]
    BY <1>1 DEF KeepsUpTo
  <2> HIDE DEF Value
  <2>2. \A i \in 0 .. Len(times) : it[i] = Value(i)
    BY <2>1
  <2>3. 0 \in 0 .. Len(times) /\ \A i \in 1 .. Len(times) : i \in 0 .. Len(times) /\ i # 0
    OBVIOUS
  <2> QED BY <2>2, <2>3 DEF Value
<1>4. LeadsTo(times, from, it)
  BY <1>2, <1>3 DEF LeadsTo
<1> QED BY <1>4

Ascending(times) == \A i, j \in 1 .. Len(times) : i <= j => times[i] <= times[j]
\* The first n times are before the from, the others are not.
Cut(times, from, n) ==
    /\ n \in 0 .. Len(times)
    /\ \A i \in 1 .. n : times[i] <= from
    /\ \A i \in n + 1 .. Len(times) : times[i] > from
\* ts is times without the first n.
Rest(ts, times, n) ==
    /\ n \in 0 .. Len(times)
    /\ Len(ts) = Len(times) - n
    /\ \A i \in 1 .. Len(ts) : ts[i] = times[n + i]

LEMMA HasCut ==
    ASSUME NEW times \in Seq(Nat), Ascending(times), NEW from \in Int
    PROVE  \E n \in 0 .. Len(times) : Cut(times, from, n)
<1> DEFINE After == {i \in 1 .. Len(times) : times[i] > from}
<1>0. Len(times) \in Nat /\ \A i \in 1 .. Len(times) : times[i] \in Nat
  OBVIOUS
<1>1. CASE After = {}
  <2>1. Cut(times, from, Len(times))
    BY <1>0, <1>1 DEF Cut
  <2> QED BY <1>0, <2>1
<1>2. CASE After # {}
  <2>1. PICK f \in After : \A i \in After : f <= i
    <3>1. After \in SUBSET Nat
      OBVIOUS
    <3> HIDE DEF After
    <3> QED BY <1>2, <3>1, LeastNumber
  <2>2. f \in 1 .. Len(times) /\ times[f] > from
    OBVIOUS
  <2>3. \A i \in 1 .. f - 1 : times[i] <= from
    BY <1>0, <2>1, <2>2
  <2>4. \A i \in f .. Len(times) : times[i] > from
    BY <1>0, <2>2 DEF Ascending
  <2>5. Cut(times, from, f - 1) /\ f - 1 \in 0 .. Len(times)
    BY <1>0, <2>2, <2>3, <2>4 DEF Cut
  <2> QED BY <2>5
<1> QED BY <1>1, <1>2

\* Of ascending times the later ones are the last ones.
LEMMA LaterIsRest ==
    ASSUME NEW times \in Seq(Nat), NEW from \in Int, NEW n, Cut(times, from, n)
    PROVE  Later(times, from) \in Seq(Nat) /\ Rest(Later(times, from), times, n)
<1>0. /\ Len(times) \in Nat /\ n \in Nat /\ n <= Len(times)
      /\ \A i \in 1 .. Len(times) : times[i] \in Nat
  BY DEF Cut
<1>a. PICK it : LeadsTo(times, from, it)
  BY <1>0, LaterIsKept
<1>1. /\ Later(times, from) = it[Len(times)]
      /\ it[0] = <<>>
      /\ \A i \in 1 .. Len(times) :
           it[i] = IF times[i] > from THEN Append(it[i - 1], times[i]) ELSE it[i - 1]
  BY <1>a DEF LeadsTo
<1> DEFINE Good(i) == /\ it[i] \in Seq(Nat)
                      /\ i <= n => Len(it[i]) = 0
                      /\ i > n => Len(it[i]) = i - n
                      /\ \A m \in 1 .. Len(it[i]) : it[i][m] = times[n + m]
           Bad == {i \in 0 .. Len(times) : ~Good(i)}
<1>2. Bad = {}
  <2> SUFFICES ASSUME Bad # {} PROVE FALSE
    OBVIOUS
  <2>1. PICK b \in Bad : \A m \in Bad : b <= m
    <3>1. Bad \in SUBSET Nat
      OBVIOUS
    <3> HIDE DEF Bad
    <3> QED BY <3>1, LeastNumber
  <2>2. b \in 0 .. Len(times) /\ ~Good(b)
    OBVIOUS
  <2>3. b # 0
    <3>1. Good(0)
      BY <1>0, <1>1
    <3> QED BY <2>2, <3>1
  <2>4. b \in 1 .. Len(times) /\ b - 1 \in 0 .. Len(times) /\ b - 1 \notin Bad
    <3> HIDE DEF Bad
    <3> QED BY <1>0, <2>1, <2>2, <2>3
  <2>5. Good(b - 1)
    BY <2>4
  <2> HIDE DEF Bad
  <2>6. CASE b <= n
    <3>1. times[b] <= from /\ times[b] \in Nat
      BY <1>0, <2>4, <2>6 DEF Cut
    <3>2. it[b] = it[b - 1]
      BY <1>1, <2>4, <3>1
    <3> QED BY <1>0, <2>2, <2>4, <2>5, <2>6, <3>2
  <2>7. CASE b > n
    <3>1. times[b] > from /\ times[b] \in Nat
      BY <1>0, <2>4, <2>7 DEF Cut
    <3>2. it[b] = Append(it[b - 1], times[b])
      BY <1>1, <2>4, <3>1
    <3>3. it[b - 1] \in Seq(Nat) /\ Len(it[b - 1]) = b - 1 - n
      <4>1. b \in Nat /\ n \in Nat /\ (b - 1 <= n \/ b - 1 > n)
        BY <1>0, <2>4
      <4>2. /\ it[b - 1] \in Seq(Nat)
            /\ b - 1 <= n => Len(it[b - 1]) = 0
            /\ b - 1 > n => Len(it[b - 1]) = b - 1 - n
        BY <2>5
      <4> HIDE DEF Good
      <4> QED BY <2>7, <4>1, <4>2
    <3>4. /\ it[b] \in Seq(Nat) /\ Len(it[b]) = b - n
          /\ \A m \in 1 .. b - 1 - n : it[b][m] = it[b - 1][m]
          /\ it[b][b - n] = times[b]
      BY <1>0, <2>4, <2>7, <3>1, <3>2, <3>3
    <3>5. \A m \in 1 .. b - n : it[b][m] = times[n + m]
      <4> SUFFICES ASSUME NEW m \in 1 .. b - n PROVE it[b][m] = times[n + m]
        OBVIOUS
      <4>1. CASE m \in 1 .. b - 1 - n
        BY <2>5, <3>3, <3>4, <4>1
      <4>2. CASE m = b - n
        <5>1. n + m = b
          BY <1>0, <2>4, <4>2
        <5> QED BY <3>4, <4>2, <5>1
      <4> QED BY <1>0, <2>4, <4>1, <4>2
    <3> QED BY <1>0, <2>2, <2>4, <2>7, <3>4, <3>5
  <2> QED BY <1>0, <2>4, <2>6, <2>7
<1>3. Good(Len(times))
  BY <1>0, <1>2
<1> HIDE DEF Bad
<1>4. Len(it[Len(times)]) = Len(times) - n
  BY <1>0, <1>3
<1> QED BY <1>0, <1>1, <1>3, <1>4 DEF Rest

\* How many of ascending times a window that ends after them holds.
LEMMA WithinIsRest ==
    ASSUME NEW times \in Seq(Nat), NEW t \in Nat, \A i \in 1 .. Len(times) : times[i] <= t,
           NEW n, Cut(times, t - WindowSecs, n)
    PROVE  Within(times, t) = Len(times) - n
<1>1. Len(times) \in Nat /\ n \in 0 .. Len(times) /\ DOMAIN times = 1 .. Len(times)
  BY DEF Cut
<1>a. \A i \in 1 .. Len(times) : times[i] \in Nat
  OBVIOUS
<1>b. t - WindowSecs \in Int
  BY EntryAssumption
<1>2. {i \in DOMAIN times : times[i] > t - WindowSecs /\ times[i] <= t} = n + 1 .. Len(times)
  BY <1>1, <1>a, <1>b DEF Cut
<1>3. Cardinality(n + 1 .. Len(times)) = Len(times) - n
  <2>1. n + 1 \in Int /\ Len(times) \in Int /\ n <= Len(times)
    BY <1>1
  <2>2. Cardinality(n + 1 .. Len(times)) =
          IF n + 1 > Len(times) THEN 0 ELSE Len(times) - (n + 1) + 1
    BY <2>1, FS_Interval
  <2>3. n \in Nat /\ Len(times) \in Nat
    BY <1>1
  <2> QED BY <2>1, <2>2, <2>3
<1> QED BY <1>2, <1>3 DEF Within

\* A client's window is what it was served, without times that have passed.
EntryInv ==
    /\ time \in Nat
    /\ window \in [Address -> Seq(Nat)] /\ served \in [Address -> Seq(Nat)]
    /\ reply.to \in Address /\ reply.at \in 0 .. time
    /\ \A a \in Address :
          /\ Ascending(served[a])
          /\ \A i \in 1 .. Len(served[a]) : served[a][i] <= time
          /\ \E k \in 0 .. Len(served[a]) :
                /\ Rest(window[a], served[a], k)
                /\ \A i \in 1 .. k : served[a][i] <= time - WindowSecs
          /\ \A t \in 0 .. time : Within(served[a], t) <= Limit
    /\ reply.code = "429" => Within(served[reply.to], reply.at) = Limit

LEMMA EntryStarts == EntryInit => EntryInv
<1> SUFFICES ASSUME EntryInit PROVE EntryInv
  OBVIOUS
<1>1. /\ time \in Nat /\ reply.to \in Address /\ reply.at = time /\ reply.code = "none"
      /\ time - WindowSecs \in Int
  BY EntryAssumption DEF EntryInit
<1>2. ASSUME NEW a \in Address
      PROVE  /\ window[a] = <<>> /\ served[a] = <<>> /\ Ascending(served[a])
             /\ Rest(window[a], served[a], 0)
             /\ \A t \in 0 .. time : Within(served[a], t) <= Limit
  <2>1. window[a] = <<>> /\ served[a] = <<>>
    BY DEF EntryInit
  <2>2. Ascending(<<>>) /\ Rest(<<>>, <<>>, 0)
    BY DEF Ascending, Rest
  <2>3. ASSUME NEW t \in 0 .. time PROVE Within(<<>>, t) <= Limit
    <3>1. {i \in DOMAIN <<>> : <<>>[i] > t - WindowSecs /\ <<>>[i] <= t} = {}
      OBVIOUS
    <3>2. Within(<<>>, t) = 0
      BY <3>1, FS_EmptySet DEF Within
    <3> QED BY <3>2, EntryAssumption
  <2> QED BY <2>1, <2>2, <2>3
<1>3. window \in [Address -> Seq(Nat)] /\ served \in [Address -> Seq(Nat)]
  BY DEF EntryInit
<1> QED BY <1>1, <1>2, <1>3 DEF EntryInv

\* What the limiter counts is how often the client was served.
LEMMA RecentCounts ==
    ASSUME EntryInv, NEW a \in Address
    PROVE  /\ Recent(a) \in Seq(Nat)
           /\ Len(Recent(a)) = Within(served[a], time)
           /\ \E k \in 0 .. Len(served[a]) :
                 Rest(Recent(a), served[a], k) /\ Cut(served[a], time - WindowSecs, k)
<1>1. /\ time \in Nat /\ window[a] \in Seq(Nat) /\ served[a] \in Seq(Nat)
      /\ Ascending(served[a]) /\ \A i \in 1 .. Len(served[a]) : served[a][i] <= time
      /\ Len(window[a]) \in Nat /\ Len(served[a]) \in Nat /\ time - WindowSecs \in Int
  BY EntryAssumption DEF EntryInv
<1>2. PICK k \in 0 .. Len(served[a]) :
         /\ Rest(window[a], served[a], k)
         /\ \A i \in 1 .. k : served[a][i] <= time - WindowSecs
  BY DEF EntryInv
<1>3. Ascending(window[a])
  BY <1>1, <1>2 DEF Ascending, Rest
<1>4. PICK n \in 0 .. Len(window[a]) : Cut(window[a], time - WindowSecs, n)
  BY <1>1, <1>3, HasCut
<1>5. Recent(a) \in Seq(Nat) /\ Rest(Recent(a), window[a], n)
  BY <1>1, <1>4, LaterIsRest DEF Recent
<1>6. Len(Recent(a)) \in Nat
  BY <1>5
<1>7. k + n \in 0 .. Len(served[a]) /\ Len(Recent(a)) = Len(served[a]) - (k + n)
  BY <1>1, <1>2, <1>4, <1>5 DEF Rest
<1>8. Rest(Recent(a), served[a], k + n)
  <2>1. ASSUME NEW i \in 1 .. Len(Recent(a)) PROVE Recent(a)[i] = served[a][(k + n) + i]
    <3>1. Recent(a)[i] = window[a][n + i] /\ n + i \in 1 .. Len(window[a])
      <4>1. Recent(a)[i] = window[a][n + i] /\ Len(Recent(a)) = Len(window[a]) - n
        BY <1>5 DEF Rest
      <4> QED BY <1>1, <1>4, <1>6, <4>1
    <3>2. window[a][n + i] = served[a][k + (n + i)] /\ k + (n + i) = (k + n) + i
      BY <1>1, <1>2, <1>4, <3>1 DEF Rest
    <3> QED BY <3>1, <3>2
  <2> QED BY <1>7, <2>1 DEF Rest
<1>9. Cut(served[a], time - WindowSecs, k + n)
  <2>1. ASSUME NEW i \in 1 .. k + n PROVE served[a][i] <= time - WindowSecs
    <3>1. CASE i <= k
      BY <1>1, <1>2, <1>4, <3>1
    <3>2. CASE i > k
      <4>1. i - k \in 1 .. n /\ i - k \in 1 .. Len(window[a]) /\ k + (i - k) = i
        BY <1>1, <1>2, <1>4, <3>2
      <4> QED BY <1>2, <1>4, <4>1 DEF Cut, Rest
    <3> QED BY <1>2, <1>4, <3>1, <3>2
  <2>2. ASSUME NEW i \in (k + n) + 1 .. Len(served[a]) PROVE served[a][i] > time - WindowSecs
    <3>1. i - k \in n + 1 .. Len(window[a]) /\ i - k \in 1 .. Len(window[a]) /\ k + (i - k) = i
      BY <1>1, <1>2, <1>4 DEF Rest
    <3> QED BY <1>2, <1>4, <3>1 DEF Cut, Rest
  <2> QED BY <1>7, <2>1, <2>2 DEF Cut
<1>10. Within(served[a], time) = Len(Recent(a))
  BY <1>1, <1>7, <1>9, WithinIsRest
<1> QED BY <1>5, <1>7, <1>8, <1>9, <1>10

LEMMA PassesKeeps ==
    ASSUME EntryInv, NEW a \in Address, Passes(a)
    PROVE  EntryInv'
<1>1. /\ Len(Recent(a)) < Limit /\ time' = time
      /\ window' = [window EXCEPT ![a] = Append(Recent(a), time)]
      /\ served' = [served EXCEPT ![a] = Append(@, time)]
      /\ \E presented \in {"valid", "other"} : Replies(a, Answer(presented))
  BY DEF Passes
<1>2. /\ time \in Nat /\ served[a] \in Seq(Nat) /\ Len(served[a]) \in Nat /\ Ascending(served[a])
      /\ \A i \in 1 .. Len(served[a]) : served[a][i] <= time
      /\ \A i \in 1 .. Len(served[a]) : served[a][i] \in Nat
      /\ WindowSecs \in Nat \ {0} /\ Limit \in Nat
  BY EntryAssumption DEF EntryInv
<1>3. PICK k \in 0 .. Len(served[a]) :
         /\ Rest(Recent(a), served[a], k) /\ Cut(served[a], time - WindowSecs, k)
         /\ Recent(a) \in Seq(Nat) /\ Len(Recent(a)) = Within(served[a], time)
  BY RecentCounts
<1> DEFINE w == Append(Recent(a), time)
           s == Append(served[a], time)
<1>4. /\ window'[a] = w /\ served'[a] = s /\ w \in Seq(Nat) /\ s \in Seq(Nat)
      /\ \A b \in Address : b # a => window'[b] = window[b] /\ served'[b] = served[b]
      /\ window' \in [Address -> Seq(Nat)] /\ served' \in [Address -> Seq(Nat)]
  BY <1>1, <1>2, <1>3 DEF EntryInv
<1>5. /\ Len(s) = Len(served[a]) + 1 /\ s[Len(served[a]) + 1] = time
      /\ \A i \in 1 .. Len(served[a]) : s[i] = served[a][i]
  BY <1>2
<1>6. /\ Len(Recent(a)) \in Nat /\ Len(w) = Len(Recent(a)) + 1 /\ w[Len(Recent(a)) + 1] = time
      /\ \A i \in 1 .. Len(Recent(a)) : w[i] = Recent(a)[i]
  BY <1>2, <1>3
<1> HIDE DEF w, s
<1>7. Ascending(s) /\ \A i \in 1 .. Len(s) : s[i] <= time
  <2>1. \A i \in 1 .. Len(s) : s[i] <= time
    BY <1>2, <1>5
  <2>2. ASSUME NEW i \in 1 .. Len(s), NEW j \in 1 .. Len(s), i <= j PROVE s[i] <= s[j]
    <3>1. CASE j = Len(served[a]) + 1
      BY <1>5, <2>1, <3>1
    <3>2. CASE j \in 1 .. Len(served[a])
      BY <1>2, <1>5, <2>2, <3>2 DEF Ascending
    <3> QED BY <1>2, <1>5, <3>1, <3>2
  <2> QED BY <2>1, <2>2 DEF Ascending
<1>8. Cut(s, time - WindowSecs, k)
  <2>1. k \in 0 .. Len(s) /\ \A i \in 1 .. k : s[i] <= time - WindowSecs
    <3>1. \A i \in 1 .. k : served[a][i] <= time - WindowSecs
      BY <1>3 DEF Cut
    <3>2. k \in 0 .. Len(s) /\ \A i \in 1 .. k : i \in 1 .. Len(served[a])
      BY <1>2, <1>3, <1>5
    <3> QED BY <1>5, <3>1, <3>2
  <2>2. \A i \in k + 1 .. Len(s) : s[i] > time - WindowSecs
    <3> SUFFICES ASSUME NEW i \in k + 1 .. Len(s) PROVE s[i] > time - WindowSecs
      OBVIOUS
    <3>1. CASE i = Len(served[a]) + 1
      BY <1>2, <1>5, <3>1
    <3>2. CASE i \in k + 1 .. Len(served[a])
      BY <1>2, <1>3, <1>5, <3>2 DEF Cut
    <3> QED BY <1>2, <1>3, <1>5, <3>1, <3>2
  <2> QED BY <2>1, <2>2 DEF Cut
<1>9. Rest(w, s, k)
  <2>1. k \in 0 .. Len(s) /\ Len(w) = Len(s) - k
    BY <1>2, <1>3, <1>5, <1>6 DEF Rest
  <2>2. ASSUME NEW i \in 1 .. Len(w) PROVE w[i] = s[k + i]
    <3>1. CASE i = Len(Recent(a)) + 1
      BY <1>2, <1>3, <1>5, <1>6, <3>1 DEF Rest
    <3>2. CASE i \in 1 .. Len(Recent(a))
      <4>1. Recent(a)[i] = served[a][k + i] /\ Len(Recent(a)) = Len(served[a]) - k
        BY <1>3, <3>2 DEF Rest
      <4>2. k + i \in 1 .. Len(served[a])
        <5>1. /\ Len(Recent(a)) \in Nat /\ Len(served[a]) \in Nat /\ k \in 0 .. Len(served[a])
              /\ Len(Recent(a)) = Len(served[a]) - k /\ i \in 1 .. Len(Recent(a))
          BY <1>2, <1>3, <1>6, <3>2, <4>1
        <5> HIDE DEF w, s
        <5> QED BY <5>1
      <4> QED BY <1>5, <1>6, <3>2, <4>1, <4>2
    <3> QED BY <1>6, <3>1, <3>2
  <2> QED BY <2>1, <2>2 DEF Rest
<1>10. \A t \in 0 .. time : Within(s, t) <= Limit
  <2>1. Within(s, time) <= Limit
    <3>1. Within(s, time) = Len(s) - k
      BY <1>2, <1>4, <1>7, <1>8, WithinIsRest
    <3> QED BY <1>1, <1>2, <1>3, <1>5, <1>6, <3>1 DEF Rest
  <2>2. ASSUME NEW t \in 0 .. time, t # time PROVE Within(s, t) <= Limit
    <3>1. DOMAIN s = 1 .. Len(s) /\ DOMAIN served[a] = 1 .. Len(served[a])
      BY <1>2, <1>4
    <3>2. {i \in DOMAIN s : s[i] > t - WindowSecs /\ s[i] <= t}
            = {i \in DOMAIN served[a] : served[a][i] > t - WindowSecs /\ served[a][i] <= t}
      BY <1>2, <1>5, <2>2, <3>1
    <3> QED BY <3>2 DEF EntryInv, Within
  <2> QED BY <2>1, <2>2
<1>11. reply'.to \in Address /\ reply'.at = time /\ reply'.code # "429"
  BY <1>1 DEF Replies, Answer
<1>12. \A b \in Address :
         /\ Ascending(served'[b])
         /\ \A i \in 1 .. Len(served'[b]) : served'[b][i] <= time'
         /\ \E n \in 0 .. Len(served'[b]) :
               /\ Rest(window'[b], served'[b], n)
               /\ \A i \in 1 .. n : served'[b][i] <= time' - WindowSecs
         /\ \A t \in 0 .. time' : Within(served'[b], t) <= Limit
  <2>1. /\ k \in 0 .. Len(s) /\ \A i \in 1 .. k : s[i] <= time - WindowSecs
    BY <1>8 DEF Cut
  <2> QED BY <1>1, <1>4, <1>7, <1>9, <1>10, <2>1 DEF EntryInv
<1>13. time' \in Nat /\ reply'.at \in 0 .. time'
  BY <1>1, <1>2, <1>11
<1> QED BY <1>4, <1>11, <1>12, <1>13 DEF EntryInv

LEMMA LimitedKeeps ==
    ASSUME EntryInv, NEW a \in Address, Limited(a)
    PROVE  EntryInv'
<1>1. /\ Len(Recent(a)) >= Limit /\ time' = time /\ served' = served
      /\ window' = [window EXCEPT ![a] = Recent(a)]
      /\ reply' = [to |-> a, at |-> time, code |-> "429"]
  BY DEF Limited, Replies
<1>2. PICK k \in 0 .. Len(served[a]) :
         /\ Rest(Recent(a), served[a], k) /\ Cut(served[a], time - WindowSecs, k)
         /\ Recent(a) \in Seq(Nat) /\ Len(Recent(a)) = Within(served[a], time)
  BY RecentCounts
<1>3. time \in Nat /\ Len(Recent(a)) \in Nat /\ Limit \in Nat
  BY <1>2, EntryAssumption DEF EntryInv
<1>4. Within(served[a], time) <= Limit
  BY <1>3 DEF EntryInv
<1>5. Within(served[a], time) = Limit
  BY <1>1, <1>2, <1>3, <1>4
<1>6. \A i \in 1 .. k : served[a][i] <= time - WindowSecs
  BY <1>2 DEF Cut
<1>7. /\ window'[a] = Recent(a) /\ window' \in [Address -> Seq(Nat)]
      /\ \A b \in Address : b # a => window'[b] = window[b]
  BY <1>1, <1>2 DEF EntryInv
<1>8. \A b \in Address : \E n \in 0 .. Len(served[b]) :
         Rest(window'[b], served[b], n) /\ \A i \in 1 .. n : served[b][i] <= time - WindowSecs
  <2> SUFFICES ASSUME NEW b \in Address
               PROVE  \E n \in 0 .. Len(served[b]) :
                         Rest(window'[b], served[b], n) /\ \A i \in 1 .. n : served[b][i] <= time - WindowSecs
    OBVIOUS
  <2>1. CASE b = a
    BY <1>2, <1>6, <1>7, <2>1
  <2>2. CASE b # a
    BY <1>7, <2>2 DEF EntryInv
  <2> QED BY <2>1, <2>2
<1>9. reply'.to = a /\ reply'.at = time /\ time \in 0 .. time'
  BY <1>1, <1>3
<1>10. /\ time' \in Nat /\ served' \in [Address -> Seq(Nat)]
       /\ \A b \in Address :
             /\ Ascending(served'[b])
             /\ \A i \in 1 .. Len(served'[b]) : served'[b][i] <= time'
             /\ \E n \in 0 .. Len(served'[b]) :
                   /\ Rest(window'[b], served'[b], n)
                   /\ \A i \in 1 .. n : served'[b][i] <= time' - WindowSecs
             /\ \A t \in 0 .. time' : Within(served'[b], t) <= Limit
  BY <1>1, <1>8 DEF EntryInv
<1> QED BY <1>1, <1>5, <1>7, <1>9, <1>10 DEF EntryInv

LEMMA TimeKeeps ==
    ASSUME EntryInv, TimePasses
    PROVE  EntryInv'
<1>1. time \in Nat /\ time' = time + 1 /\ UNCHANGED <<window, served, reply>>
      /\ WindowSecs \in Nat /\ Limit \in Nat
  BY EntryAssumption DEF TimePasses, EntryInv
<1>2. ASSUME NEW a \in Address
      PROVE  /\ \A i \in 1 .. Len(served[a]) : served[a][i] <= time + 1
             /\ \E k \in 0 .. Len(served[a]) :
                   /\ Rest(window[a], served[a], k)
                   /\ \A i \in 1 .. k : served[a][i] <= time + 1 - WindowSecs
             /\ \A t \in 0 .. time + 1 : Within(served[a], t) <= Limit
  <2>1. /\ served[a] \in Seq(Nat) /\ Len(served[a]) \in Nat /\ DOMAIN served[a] = 1 .. Len(served[a])
        /\ \A i \in 1 .. Len(served[a]) : served[a][i] \in Nat /\ served[a][i] <= time
    BY DEF EntryInv
  <2>2. PICK k \in 0 .. Len(served[a]) :
           /\ Rest(window[a], served[a], k)
           /\ \A i \in 1 .. k : served[a][i] <= time - WindowSecs
    BY DEF EntryInv
  <2>3. \A i \in 1 .. k : served[a][i] <= time + 1 - WindowSecs
    BY <1>1, <2>1, <2>2
  <2>4. Within(served[a], time + 1) <= Limit
    <3> DEFINE Span(t) == {i \in DOMAIN served[a] : served[a][i] > t - WindowSecs /\ served[a][i] <= t}
               Before == Span(time)
               Then == Span(time + 1)
    <3>a. \A t : Within(served[a], t) = Cardinality(Span(t))
      BY DEF Within
    <3>1. Then \subseteq Before
      BY <1>1, <2>1
    <3>2. IsFiniteSet(Before)
      <4>1. Before \subseteq 1 .. Len(served[a])
        BY <2>1
      <4>2. IsFiniteSet(1 .. Len(served[a]))
        BY <2>1, FS_Interval
      <4> HIDE DEF Before
      <4> QED BY <4>1, <4>2, FS_Subset
    <3>3. Cardinality(Before) <= Limit
      <4>1. Within(served[a], time) <= Limit
        BY <1>1 DEF EntryInv
      <4> QED BY <3>a, <4>1
    <3>4. /\ Cardinality(Then) \in Nat /\ Cardinality(Before) \in Nat
          /\ Cardinality(Then) <= Cardinality(Before)
      <4> HIDE DEF Then, Before
      <4> QED BY <3>1, <3>2, FS_Subset, FS_CardinalityType
    <3>5. Within(served[a], time + 1) = Cardinality(Then)
      BY <3>a
    <3> HIDE DEF Then, Before
    <3> QED BY <1>1, <3>3, <3>4, <3>5
  <2>5. \A t \in 0 .. time + 1 : Within(served[a], t) <= Limit
    <3>1. \A t \in 0 .. time + 1 : t \in 0 .. time \/ t = time + 1
      BY <1>1
    <3> QED BY <2>4, <3>1 DEF EntryInv
  <2> QED BY <1>1, <2>1, <2>2, <2>3, <2>5
<1>3. \A t \in 0 .. time : t \in 0 .. time + 1
  BY <1>1
<1> QED BY <1>1, <1>2, <1>3 DEF EntryInv

\* Over no stretch of a window's length is a client let through more often than
\* the limit, and it is turned away only when it had its whole share
\* (dispatch, _cleanup_old_requests).
THEOREM WindowStaysExact == EntrySpec => []WindowIsExact
<1>1. EntryInv /\ [EntryNext]_entryVars => EntryInv'
  <2> SUFFICES ASSUME EntryInv, [EntryNext]_entryVars PROVE EntryInv'
    OBVIOUS
  <2>1. CASE UNCHANGED entryVars
    BY <2>1 DEF entryVars, EntryInv
  <2> QED BY <2>1, PassesKeeps, LimitedKeeps, TimeKeeps DEF EntryNext
<1>2. EntryInv => WindowIsExact
  <2> SUFFICES ASSUME EntryInv PROVE WindowIsExact
    OBVIOUS
  <2>1. ASSUME NEW a \in Address, NEW i \in DOMAIN served[a] PROVE served[a][i] \in 0 .. time
    <3>1. served[a] \in Seq(Nat) /\ i \in 1 .. Len(served[a]) /\ time \in Nat
      BY DEF EntryInv
    <3>2. served[a][i] \in Nat /\ served[a][i] <= time
      BY <3>1 DEF EntryInv
    <3> QED BY <3>1, <3>2
  <2> QED BY <2>1 DEF EntryInv, WindowIsExact
<1> QED BY <1>1, <1>2, EntryStarts, PTL DEF EntrySpec
==============================================================================
