------------------------------ MODULE TokenGate ------------------------------
(***************************************************************************)
(* Bearer tokens at the door of a service: authenticate in current_user.py *)
(* (decode_platform_token of platform_auth.py, then the shared denylist of *)
(* token_revocation.py), for one user whose tokens are revoked one by one  *)
(* (revoke_jti) or all together (revoke_user_tokens) while requests that   *)
(* carry them are between two of their awaits.                             *)
(*                                                                         *)
(* Time is counted in whole seconds, as the claims and the TTLs are.  The  *)
(* signer and the caller of the two revocations are outside of this        *)
(* repository: tokens are data, and a revocation is called with the TTL    *)
(* its docstring asks for.                                                 *)
(***************************************************************************)
EXTENDS Naturals

CONSTANTS
    Connection,  \* connections: one request after another
    Token,       \* the user's tokens
    NoIat,       \* iat of a legacy token
    Revoker,     \* calls of revoke_user_tokens that may be under way at once
    Life,        \* the longest life of a token
    MaxClock     \* bound: seconds

ASSUME TokenAssumption ==
    /\ Life \in Nat /\ MaxClock \in Nat \ {0}
    /\ \A t \in Token :
          /\ {t.born, t.exp} \subseteq Nat /\ t.iat \in {t.born, NoIat}
          /\ t.born < t.exp /\ t.exp <= t.born + Life
          /\ t.scope \in {"full", "refresh"} /\ t.jti \in {"none", "own"}

VARIABLES
    clock,
    env,         \* TOKEN_REVOCATION_REDIS_URL and TOKEN_REVOCATION_STRICT
    client,      \* _rev_redis: "unasked" until the first check
    jtiUntil,    \* sb:revoked:jti:* -> when the key expires, 0: no such key
    cutoff,      \* sb:revoked:user:* -> its value and when it expires
    signout,     \* revoke_user_tokens under way: the cutoff it was called with
    request,
    withdrawn,   \* history: tokens that revoke_jti has returned for
    signedOut,   \* history: the last cutoff that revoke_user_tokens returned for
    undercut     \* history: the oldest cutoff whose SET replaced a later one

tokenVars == <<clock, env, client, jtiUntil, cutoff, signout, request, withdrawn, signedOut,
               undercut>>

NoSignout == MaxClock + 1
NoRequest == [pc |-> "none"]   \* none came yet, or it was refused

TokenInit ==
    /\ clock = 1
    /\ env \in [url : {"unset", "good", "bad"}, strict : BOOLEAN]
    /\ client = "unasked"
    /\ jtiUntil = [t \in Token |-> 0]
    /\ cutoff = [at |-> 0, until |-> 0]
    /\ signout = [w \in Revoker |-> NoSignout]
    /\ request = [r \in Connection |-> NoRequest]
    /\ withdrawn = {}
    /\ signedOut = 0
    /\ undercut = NoSignout

RequestAt(r, pc) == request[r].pc = pc
Ended(r) == RequestAt(r, "none") \/ RequestAt(r, "admitted")
JtiListed(t) == jtiUntil[t] > clock
CutoffSet == cutoff.until > clock

-----------------------------------------------------------------------------
\* decode_platform_token with require=["sub", "exp"].
Decodes(t) == clock < t.exp /\ t.scope = "full"

\* _revocation_redis: asked for once, whatever came of it.
Wired == IF client = "unasked" THEN (IF env.url = "good" THEN "wired" ELSE "none") ELSE client

\* A request comes: it is refused, or let in unchecked, or the first GET goes
\* out.  own, cutoff: history, what callers of the two revocations had been told
\* by then.
Arrive(r, t) ==
    /\ Ended(r) /\ t.born <= clock
    /\ client' = IF Decodes(t) THEN Wired ELSE client
    /\ request' = [request EXCEPT ![r] = IF ~Decodes(t) THEN NoRequest ELSE
          [pc |-> IF Wired = "none" THEN "admitted" ELSE IF t.jti = "own" THEN "jti" ELSE "sub",
           token |-> t, own |-> t \in withdrawn, cutoff |-> signedOut,
           blind |-> FALSE, late |-> FALSE]]
    /\ UNCHANGED <<clock, env, jtiUntil, cutoff, signout, withdrawn, signedOut, undercut>>

TurnedAway(r) ==
    /\ request' = [request EXCEPT ![r] = NoRequest]
    /\ UNCHANGED <<clock, env, client, jtiUntil, cutoff, signout, withdrawn, signedOut, undercut>>

\* Redis answers: where r goes.  late: history, the token had run out by then.
Answered(r, pc) ==
    /\ request' = [request EXCEPT ![r].pc = pc,
                                  ![r].late = @ \/ clock >= request[r].token.exp]
    /\ UNCHANGED <<clock, env, client, jtiUntil, cutoff, signout, withdrawn, signedOut, undercut>>

\* Mutant: the check ends with the token's own entry.
ReadJtiOnly(r) ==
    /\ RequestAt(r, "jti")
    /\ IF JtiListed(request[r].token) THEN TurnedAway(r) ELSE Answered(r, "admitted")

ReadJti(r) ==
    /\ RequestAt(r, "jti")
    /\ IF JtiListed(request[r].token) THEN TurnedAway(r) ELSE Answered(r, "sub")

\* Under a cutoff a token that says nothing of its age is taken for an old one.
Predates(t) == t.iat = NoIat \/ t.iat < cutoff.at

ReadCutoff(r) ==
    /\ RequestAt(r, "sub")
    /\ IF CutoffSet /\ Predates(request[r].token) THEN TurnedAway(r) ELSE Answered(r, "admitted")

\* Either GET raises; blind: history.
ReadFails(r) ==
    /\ RequestAt(r, "jti") \/ RequestAt(r, "sub")
    /\ IF env.strict THEN TurnedAway(r)
       ELSE /\ request' = [request EXCEPT ![r].pc = "admitted", ![r].blind = TRUE]
            /\ UNCHANGED <<clock, env, client, jtiUntil, cutoff, signout, withdrawn, signedOut, undercut>>

-----------------------------------------------------------------------------
\* revoke_jti with the token's remaining life, none of it left: nothing to do.
RevokeJti(t) ==
    /\ t.jti = "own" /\ t.born <= clock /\ clock < t.exp
    /\ jtiUntil' = [jtiUntil EXCEPT ![t] = t.exp]
    /\ withdrawn' = withdrawn \cup {t}
    /\ UNCHANGED <<clock, env, client, cutoff, signout, request, signedOut, undercut>>

\* SET raises, applied or not: its caller was told nothing.
RevokeJtiFails(t) ==
    /\ t.jti = "own" /\ t.born <= clock /\ clock < t.exp
    /\ jtiUntil' \in {jtiUntil, [jtiUntil EXCEPT ![t] = t.exp]}
    /\ UNCHANGED <<clock, env, client, cutoff, signout, request, withdrawn, signedOut, undercut>>

\* revoke_user_tokens is called with the time as its cutoff and goes to Redis.
SignOut(w) ==
    /\ signout[w] = NoSignout
    /\ signout' = [signout EXCEPT ![w] = clock]
    /\ UNCHANGED <<clock, env, client, jtiUntil, cutoff, request, withdrawn, signedOut, undercut>>

\* The TTL covers the longest possible token life.
Marker(at) == [at |-> at, until |-> clock + Life]

\* SET: unconditional, whatever cutoff is there.
Overwrites(at) ==
    /\ cutoff' = Marker(at)
    /\ undercut' = IF at < cutoff.at /\ at < undercut THEN at ELSE undercut

SignOutLands(w) ==
    /\ signout[w] # NoSignout
    /\ Overwrites(signout[w])
    /\ signedOut' = IF signout[w] > signedOut THEN signout[w] ELSE signedOut
    /\ signout' = [signout EXCEPT ![w] = NoSignout]
    /\ UNCHANGED <<clock, env, client, jtiUntil, request, withdrawn>>

SignOutFails(w) ==
    /\ signout[w] # NoSignout
    /\ Overwrites(signout[w]) \/ UNCHANGED <<cutoff, undercut>>
    /\ signout' = [signout EXCEPT ![w] = NoSignout]
    /\ UNCHANGED <<clock, env, client, jtiUntil, request, withdrawn, signedOut>>

\* A second goes by; keys whose time has come are gone with it.
Second ==
    /\ clock < MaxClock
    /\ clock' = clock + 1
    /\ UNCHANGED <<env, client, jtiUntil, cutoff, signout, request, withdrawn, signedOut, undercut>>

TokenNext ==
    \/ \E r \in Connection : \/ \E t \in Token : Arrive(r, t)
                         \/ ReadJti(r) \/ ReadCutoff(r) \/ ReadFails(r)
    \/ \E t \in Token : RevokeJti(t) \/ RevokeJtiFails(t)
    \/ \E w \in Revoker : SignOut(w) \/ SignOutLands(w) \/ SignOutFails(w)
    \/ Second

TokenSpec == TokenInit /\ [][TokenNext]_tokenVars

-----------------------------------------------------------------------------
\* The exceptions the code documents: the service names no denylist, or Redis fails
\* it and it is not strict (token_is_revoked, is_revoked); and a token whose life
\* ended while the check went on.
Excused(r) == \/ env.url # "good"
              \/ request[r].blind /\ ~env.strict
              \/ request[r].late

\* From the moment a revocation has returned, no request that comes later gets
\* in with a token it covers, until the token has expired of itself - whatever
\* expires, is revoked again, or fails between the two reads of the check, and
\* however revocations overlap.  Only when the SET of an older sign-out landed upon
\* a later one do the tokens come back that the older cutoff does not cover.  A
\* token of the very second of a sign-out is one of the new login (is_revoked:
\* int(iat) < int(cutoff); test_user_cutoff_revokes_older_tokens_only).
RevokedStaysOut ==
    \A r \in Connection : RequestAt(r, "admitted") =>
        /\ request[r].own => Excused(r)
        /\ request[r].token.born < request[r].cutoff
             => Excused(r) \/ undercut <= request[r].token.born

\* The claim of token_revocation.py:103 ("Revoke EVERY token for user `sub` issued
\* at/before `cutoff_ts`") for the tokens issued before: a sign-out that has
\* returned keeps them out.
SignOutIsKept ==
    \A r \in Connection : RequestAt(r, "admitted") =>
        (request[r].token.born < request[r].cutoff => Excused(r))
==============================================================================
