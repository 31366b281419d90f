--------------------------- MODULE ReplayContract ---------------------------
(***************************************************************************)
(* What an idempotency key promises to the clients that send it, without   *)
(* Redis, claims or suspended requests: a run begins only while none       *)
(* stands and no response is kept, a response that is kept is that of the  *)
(* one run that stands, and whoever is not answered by a run of its own is *)
(* handed the response that is kept.                                       *)
(***************************************************************************)
CONSTANTS Request, NoRun

VARIABLES standing,  \* the runs whose side effect may stand
          kept,      \* the run whose response is kept, NoRun without one
          given      \* request -> the run whose response its client got

pvars == <<standing, kept, given>>

Init == standing = {} /\ kept = NoRun /\ given = [r \in Request |-> NoRun]

Begin(r) ==
    /\ standing = {} /\ kept = NoRun
    /\ standing' = {r}
    /\ UNCHANGED <<kept, given>>

\* The run raised, or its response is one that a retry is to improve on.
Withdraw(r) ==
    /\ r \in standing /\ kept = NoRun
    /\ standing' = standing \ {r}
    /\ UNCHANGED <<kept, given>>

\* The client of the run may be gone by then.
Keep(r) ==
    /\ r \in standing /\ kept = NoRun
    /\ kept' = r
    /\ given' \in {given, [given EXCEPT ![r] = r]}
    /\ UNCHANGED standing

Answer(r) ==
    /\ given[r] = NoRun
    /\ \E run \in {r, kept} \ {NoRun} : given' = [given EXCEPT ![r] = run]
    /\ UNCHANGED <<standing, kept>>

\* The period of the key is over.
Forget ==
    /\ standing' = {} /\ kept' = NoRun
    /\ UNCHANGED given

Next == Forget \/ \E r \in Request : Begin(r) \/ Withdraw(r) \/ Keep(r) \/ Answer(r)

Spec == Init /\ [][Next]_pvars
=============================================================================
