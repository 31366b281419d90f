--------------------------- MODULE IdempotencyReplay ---------------------------
(***************************************************************************)
(* IdempotencyMiddleware of api/middleware.py: requests that carry the     *)
(* same Idempotency-Key, credential, method and path, and so meet in one   *)
(* Redis key.  Requests of different keys share nothing and are left out,  *)
(* like requests that are not eligible (no header, a read, an exempt path).*)
(*                                                                         *)
(* A request suspends at SET NX, at call_next, while it reads the body, at *)
(* the final SET or DELETE and at GET; each is one action.  A Redis call   *)
(* that raises or is cancelled may or may not have been applied.           *)
(*                                                                         *)
(* What the surroundings may do to a run is the constant Faults:           *)
(*   "redis"  a Redis call raises, or there is no client                   *)
(*   "body"   the response body raises while it is read                    *)
(*   "cancel" a request is cancelled, or its process dies, at any await    *)
(*   "expire" the key's TTL runs out while no owner of it is running       *)
(*   "slow"   the TTL runs out under a running owner                       *)
(***************************************************************************)

CONSTANTS Request, Faults, NoRun

ASSUME IdempotencyAssumption ==
    /\ Faults \subseteq {"redis", "body", "cancel", "expire", "slow"}
    /\ NoRun \notin Request

VARIABLES
    entry,     \* the Redis value: its state and, once done, whose run it holds
    pc,        \* control state of each request
    answer,    \* what each request's client got
    got,       \* the run whose response that was
    live,      \* history: runs under a claim whose side effect may stand
    produced   \* history: runs that produced a complete, cacheable response

replayVars == <<entry, pc, answer, got, live, produced>>

NoEntry  == [state |-> "absent", run |-> NoRun]
Pending == [state |-> "pending", run |-> NoRun]
Done(r) == [state |-> "done", run |-> r]

Owning == {"running", "reading", "storing", "releasing", "raising"}
Places == Owning \cup {"start", "unguarded", "lookup", "end"}

ReplayTypeOK ==
    /\ entry \in {NoEntry, Pending} \cup {Done(r) : r \in Request}
    /\ pc \in [Request -> Places]
    /\ answer \in [Request -> {"none", "own", "replay", "error"}]
    /\ got \in [Request -> Request \cup {NoRun}]
    /\ live \subseteq Request
    /\ produced \subseteq Request
    /\ \A r \in Request : got[r] # NoRun <=> answer[r] \in {"own", "replay"}

ReplayInit ==
    /\ entry = NoEntry
    /\ pc = [r \in Request |-> "start"]
    /\ answer = [r \in Request |-> "none"]
    /\ got = [r \in Request |-> NoRun]
    /\ live = {}
    /\ produced = {}

InPlace(r, place) == pc[r] = place
Goto(r, place) == pc' = [pc EXCEPT ![r] = place]

Reply(r, how, run) ==
    /\ Goto(r, "end")
    /\ answer' = [answer EXCEPT ![r] = how]
    /\ got' = [got EXCEPT ![r] = run]

\* The key once the Redis write r awaits is applied.  The claim is SET NX; the
\* final SET and DELETE are unconditional, whoever holds the key by then.
Written(r) ==
    CASE InPlace(r, "start") /\ entry = NoEntry -> Pending
      [] InPlace(r, "storing") -> Done(r)
      [] InPlace(r, "releasing") \/ InPlace(r, "raising") -> NoEntry
      [] OTHER -> entry

\* A write that raises or is cancelled leaves the key as it was or as written.
MaybeWritten(r) == entry' \in {entry, Written(r)}

-----------------------------------------------------------------------------
\* Mutant: the claim is a plain SET.
ClaimWithoutNX(r) ==
    /\ InPlace(r, "start")
    /\ entry' = Pending
    /\ Goto(r, "running")
    /\ live' = live \cup {r}
    /\ UNCHANGED <<answer, got, produced>>

\* SET NX wins the key: run the handler as its owner.
Claim(r) ==
    /\ InPlace(r, "start")
    /\ entry = NoEntry
    /\ entry' = Written(r)
    /\ Goto(r, "running")
    /\ live' = live \cup {r}
    /\ UNCHANGED <<answer, got, produced>>

\* SET NX loses.
ClaimLost(r) ==
    /\ InPlace(r, "start")
    /\ entry # NoEntry
    /\ Goto(r, "lookup")
    /\ UNCHANGED <<entry, answer, got, live, produced>>

\* SET NX raises, or there is no client: run the handler without protection.
ClaimRaises(r) ==
    /\ InPlace(r, "start")
    /\ "redis" \in Faults
    /\ MaybeWritten(r)
    /\ Goto(r, "unguarded")
    /\ UNCHANGED <<answer, got, live, produced>>

\* An unguarded run ends with a response or an error; nothing is stored.
UnguardedEnds(r) ==
    /\ InPlace(r, "unguarded")
    /\ Reply(r, "own", r) \/ Reply(r, "error", NoRun)
    /\ UNCHANGED <<entry, live, produced>>

\* call_next returned a response; its body is still to be read.
Respond(r) ==
    /\ InPlace(r, "running")
    /\ Goto(r, "reading")
    /\ UNCHANGED <<entry, answer, got, live, produced>>

\* call_next raised an Exception: release the claim, then let it propagate.
HandlerRaises(r) ==
    /\ InPlace(r, "running")
    /\ Goto(r, "raising")
    /\ live' = live \ {r}
    /\ UNCHANGED <<entry, answer, got, produced>>

\* The body is complete: below 500 and small enough to cache ...
ReadCacheable(r) ==
    /\ InPlace(r, "reading")
    /\ Goto(r, "storing")
    /\ produced' = produced \cup {r}
    /\ UNCHANGED <<entry, answer, got, live>>

\* Mutant: every complete response is cached, a 5xx too.
ReadAnythingCached(r) ==
    /\ InPlace(r, "reading")
    /\ Goto(r, "storing")
    /\ live' = live \ {r}
    /\ UNCHANGED <<entry, answer, got, produced>>

\* ... or a 5xx or an oversized one, which a retry is meant to run again.
ReadUncacheable(r) ==
    /\ InPlace(r, "reading")
    /\ Goto(r, "releasing")
    /\ live' = live \ {r}
    /\ UNCHANGED <<entry, answer, got, produced>>

\* The body iterator raises: this is after the try, nothing is released.
BodyRaises(r) ==
    /\ "body" \in Faults
    /\ InPlace(r, "reading")
    /\ Reply(r, "error", NoRun)
    /\ UNCHANGED <<entry, live, produced>>

\* _store, best effort.
Store(r) ==
    /\ InPlace(r, "storing")
    /\ IF "redis" \in Faults THEN MaybeWritten(r) ELSE entry' = Written(r)
    /\ Reply(r, "own", r)
    /\ UNCHANGED <<live, produced>>

\* _release, best effort.
Release(r) ==
    /\ InPlace(r, "releasing") \/ InPlace(r, "raising")
    /\ IF "redis" \in Faults THEN MaybeWritten(r) ELSE entry' = Written(r)
    /\ IF InPlace(r, "raising") THEN Reply(r, "error", NoRun) ELSE Reply(r, "own", r)
    /\ UNCHANGED <<live, produced>>

\* GET finds a finished record: replay it.
Replay(r) ==
    /\ InPlace(r, "lookup")
    /\ entry.state = "done"
    /\ Reply(r, "replay", entry.run)
    /\ UNCHANGED <<entry, live, produced>>

\* GET finds a claim, or nothing any more, or raises: 409.  The client backs
\* off and sends the request again.
Conflict(r) ==
    /\ InPlace(r, "lookup")
    /\ entry.state # "done" \/ "redis" \in Faults
    /\ Goto(r, "start")
    /\ UNCHANGED <<entry, answer, got, live, produced>>

\* Mutant: the claim is released in a finally clause.
CancelReleases(r) ==
    /\ "cancel" \in Faults
    /\ pc[r] # "end"
    /\ entry' = IF InPlace(r, "start") \/ InPlace(r, "lookup") \/ InPlace(r, "unguarded") THEN entry ELSE NoEntry
    /\ Reply(r, "error", NoRun)
    /\ UNCHANGED <<live, produced>>

\* CancelledError is no Exception, and a dead process handles nothing.
Cancel(r) ==
    /\ "cancel" \in Faults
    /\ pc[r] # "end"
    /\ MaybeWritten(r)
    /\ Reply(r, "error", NoRun)
    /\ UNCHANGED <<live, produced>>

Owners == {r \in Request : pc[r] \in Owning}

\* Mutant: claims are written without ex=ttl_seconds.
ExpireDoneOnly ==
    /\ "expire" \in Faults
    /\ entry.state = "done"
    /\ entry' = NoEntry
    /\ live' = live \cap Owners
    /\ UNCHANGED <<pc, answer, got, produced>>

\* Redis drops the key.  The runs of the period that ended are forgotten.
Expire ==
    /\ entry # NoEntry
    /\ \/ "expire" \in Faults /\ Owners = {}
       \/ "slow" \in Faults
    /\ entry' = NoEntry
    /\ live' = live \cap Owners
    /\ UNCHANGED <<pc, answer, got, produced>>

Serve(r) ==
    \/ Claim(r) \/ ClaimLost(r) \/ ClaimRaises(r) \/ UnguardedEnds(r)
    \/ Respond(r) \/ HandlerRaises(r) \/ ReadCacheable(r) \/ ReadUncacheable(r)
    \/ BodyRaises(r) \/ Store(r) \/ Release(r) \/ Replay(r) \/ Conflict(r)

ReplayNext == Expire \/ \E r \in Request : Serve(r) \/ Cancel(r)

ReplaySpec == ReplayInit /\ [][ReplayNext]_replayVars

\* Handlers end, clients retry after a 409, and the TTL of a key runs out.
ReplayFairness == WF_replayVars(Expire) /\ \A r \in Request : WF_replayVars(Serve(r))

-----------------------------------------------------------------------------
\* However retries overlap, whatever is cancelled, dies or breaks off in
\* mid-body and whichever Redis call fails, within one TTL period the claim
\* lets through at most one run of the handler whose side effect may stand (a
\* run that raised, answered 5xx or was too big to cache is to be repeated).
AtMostOnce == \A a, b \in live : a = b

\* What a retry is handed is a complete, cacheable response of a run for this
\* very key - never a claim, a 5xx or half a body - and every retry until the
\* TTL is handed the same: no late claim, store or release replaces what is
\* cached (_store, _release, _replay_or_conflict).
ReplayIsOriginal ==
    /\ [](\A r \in Request : answer[r] = "replay" => got[r] \in produced)
    /\ [][entry.state = "done" => entry' \in {entry, NoEntry} /\ (entry' = NoEntry => pc' = pc)]_replayVars

Promise == INSTANCE ReplayContract WITH standing <- live, kept <- entry.run, given <- got

\* Redis, the claims and their faults implement what the key promises: no run
\* begins beside one that stands or over a response that is kept, and clients
\* get the response of their own run or the one kept (IdempotencyMiddleware).
HonoursPromise == Promise!Spec

\* A client that retries on 409 is answered in the end.
RetryIsAnswered == \A r \in Request : pc[r] = "start" ~> pc[r] = "end"
=============================================================================
