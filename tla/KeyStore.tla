-------------------------------- MODULE KeyStore --------------------------------
(***************************************************************************)
(* The encrypted key table (DatabaseKeyStore in key_store.py, the envelope *)
(* of secret_envelope.py, the index of models.py): saves that rotate a     *)
(* scope's key, deletes, the migration to envelopes and the rotation of    *)
(* the key-encryption key, run by several processes on one table while     *)
(* they are reconfigured one after another.  One LLM provider.             *)
(*                                                                         *)
(* A row's secret never changes, so a ciphertext is what it takes to open  *)
(* it.  The database is at READ COMMITTED: an UPDATE sees the rows         *)
(* committed when it starts and waits for those another transaction holds. *)
(***************************************************************************)
EXTENDS Naturals, FiniteSets

CONSTANTS
    Process,     \* processes, each with its DatabaseKeyStore
    Scope,       \* scope ids
    Null,        \* no scope: the keys of the platform
    MaxRows      \* bound: rows ever made

ASSUME KeyStoreAssumption == Null \in Scope /\ MaxRows \in Nat

VARIABLES
    kms,         \* KEK each store wraps with: "none" before KMS, then "old", "new"
    row,         \* the committed table
    made,        \* rows made so far
    txn,         \* the transaction each store is in
    swept        \* history: rewrap_all returned, begun with no store before "new"

keyVars == <<kms, row, made, txn, swept>>

Id == 1 .. MaxRows
KEK == {"none", "old", "new"}

\* kek "none": plain Fernet.  marked: a v2 envelope, which names its KEK.
Cipher == [kek : KEK, marked : BOOLEAN]
Fernet == [kek |-> "none", marked |-> FALSE]
Row == [live : BOOLEAN, scope : Scope, active : BOOLEAN, cipher : Cipher]
NoRow == [live |-> FALSE, scope |-> Null, active |-> FALSE, cipher |-> Fernet]

\* seen: rows the first statement saw; held: rows it changed; last: begun after
\* the last store was reconfigured.
Txn == [op : {"idle", "update", "insert", "reencrypt", "rewrap"}, scope : Scope,
        seen : SUBSET Id, held : SUBSET Id, last : BOOLEAN]
NoTxn == [op |-> "idle", scope |-> Null, seen |-> {}, held |-> {}, last |-> FALSE]

KeyTypeOK ==
    /\ kms \in [Process -> KEK]
    /\ made \in 0 .. MaxRows
    /\ row \in [Id -> Row]
    /\ \A r \in Id : row[r].live => r <= made
    /\ txn \in [Process -> Txn]
    /\ \A s, t \in Process : s # t => txn[s].held \cap txn[t].held = {}
    /\ swept \in BOOLEAN

Live(scope) == {r \in Id : row[r].live /\ row[r].active /\ row[r].scope = scope}

\* Rows made by earlier releases, v1 envelopes included, under a uniform setting.
KeyInit ==
    /\ \E k \in {"none", "old"} :
          /\ kms = [s \in Process |-> k]
          /\ made \in 0 .. MaxRows - 2
          /\ row \in [Id -> [live : BOOLEAN, scope : Scope, active : BOOLEAN,
                             cipher : {Fernet} \cup [kek : {k} \ {"none"}, marked : BOOLEAN]]
                            \cup {NoRow}]
    /\ \A r \in Id : row[r] # NoRow <=> row[r].live
    /\ \A r \in Id : row[r].live <=> r <= made
    /\ \A scope \in Scope : Cardinality(Live(scope)) <= 1
    /\ txn = [s \in Process |-> NoTxn]
    /\ swept = FALSE

-----------------------------------------------------------------------------
Encrypt(s) == IF kms[s] = "none" THEN Fernet ELSE [kek |-> kms[s], marked |-> TRUE]
Opens(s, cipher) == cipher.kek \in {"none", kms[s]}

Idle(s) == txn[s].op = "idle"
In(s, op) == txn[s].op = op
End(s) == txn' = [txn EXCEPT ![s] = NoTxn]
HeldByOthers(s) == UNION {txn[t].held : t \in Process \ {s}}

\* save_key: the UPDATE that deactivates the scope's key starts,
SaveBegins(s) ==
    /\ Idle(s)
    /\ \E scope \in Scope :
          txn' = [txn EXCEPT ![s] = [NoTxn EXCEPT !.op = "update", !.scope = scope,
                                                  !.seen = Live(scope)]]
    /\ UNCHANGED <<kms, row, made, swept>>

\* and has the locks: it changes what is still active of the rows it saw.
SaveUpdates(s) ==
    /\ In(s, "update")
    /\ txn[s].seen \cap HeldByOthers(s) = {}
    /\ txn' = [txn EXCEPT ![s].op = "insert",
                          ![s].held = {r \in txn[s].seen : row[r].live /\ row[r].active}]
    /\ UNCHANGED <<kms, row, made, swept>>

\* The unique index over active rows (scope_id, provider); NULLs are distinct.
IndexAllows(s) == txn[s].scope = Null \/ Live(txn[s].scope) \subseteq txn[s].held

Insert(s, r) ==
    row' = [i \in Id |->
        IF i = r THEN [live |-> TRUE, scope |-> txn[s].scope, active |-> TRUE, cipher |-> Encrypt(s)]
        ELSE IF i \in txn[s].held THEN [row[i] EXCEPT !.active = FALSE]
        ELSE row[i]]

SaveCommits(s) ==
    /\ In(s, "insert") /\ made < MaxRows
    /\ IndexAllows(s)
    /\ made' = made + 1
    /\ Insert(s, made')
    /\ End(s)
    /\ UNCHANGED <<kms, swept>>

\* IntegrityError.
SaveFails(s) ==
    /\ In(s, "insert") /\ ~IndexAllows(s)
    /\ End(s)
    /\ UNCHANGED <<kms, row, made, swept>>

DeleteKey(r) ==
    /\ row[r].live
    /\ \A s \in Process : r \notin txn[s].held
    /\ row' = [row EXCEPT ![r] = NoRow]
    /\ UNCHANGED <<kms, made, txn, swept>>

\* A sweep reads the whole table; it will rewrite the rows in `seen'.
SweepBegins(s, op, rows) ==
    /\ Idle(s)
    /\ txn' = [txn EXCEPT ![s] = [NoTxn EXCEPT !.op = op, !.seen = rows,
                                               !.last = \A t \in Process : kms[t] = "new"]]
    /\ UNCHANGED <<kms, row, made, swept>>

Legacy(r) == row[r].cipher = Fernet
AllRows == {r \in Id : row[r].live}

\* reencrypt_all
ReencryptBegins(s) ==
    /\ kms[s] # "none"
    /\ SweepBegins(s, "reencrypt", {r \in AllRows : Legacy(r)})

\* Mutant: v1 envelopes, which name no KEK, are left alone.
OnOldKEKMarked(s) == {r \in AllRows : ~Legacy(r) /\ row[r].cipher.marked /\ ~Opens(s, row[r].cipher)}

\* Neither marked with the new KEK nor found to open under it.
OnOldKEK(s) == {r \in AllRows : ~Legacy(r) /\ ~Opens(s, row[r].cipher)}

\* rewrap_all(old_provider), run with the new KEK.
RewrapBegins(s) ==
    /\ kms[s] = "new"
    /\ SweepBegins(s, "rewrap", OnOldKEK(s))

Sweeping(s) == In(s, "reencrypt") \/ In(s, "rewrap")

SweepCommits(s) ==
    /\ Sweeping(s)
    /\ \A r \in txn[s].seen : row[r].live
    /\ txn[s].seen \cap HeldByOthers(s) = {}
    /\ row' = [r \in Id |-> IF r \in txn[s].seen THEN [row[r] EXCEPT !.cipher = Encrypt(s)]
                            ELSE row[r]]
    /\ swept' = (swept \/ (In(s, "rewrap") /\ txn[s].last))
    /\ End(s)
    /\ UNCHANGED <<kms, made>>

\* The KMS fails, or a row it was to rewrite is gone (StaleDataError): nothing is
\* rewritten.
SweepFails(s) ==
    /\ Sweeping(s)
    /\ End(s)
    /\ UNCHANGED <<kms, row, made, swept>>

\* The operator restarts a process with the next setting; what it was doing is lost.
Reconfigure(s) ==
    /\ kms' = [kms EXCEPT ![s] = IF @ = "none" THEN "old" ELSE "new"]
    /\ End(s)
    /\ UNCHANGED <<row, made, swept>>

KeyNext ==
    \/ \E s \in Process :
          \/ SaveBegins(s) \/ SaveUpdates(s) \/ SaveCommits(s) \/ SaveFails(s)
          \/ ReencryptBegins(s) \/ RewrapBegins(s) \/ SweepCommits(s) \/ SweepFails(s)
          \/ Reconfigure(s)
    \/ \E r \in Id : DeleteKey(r)

KeySpec == KeyInit /\ [][KeyNext]_keyVars

-----------------------------------------------------------------------------
\* However saves overlap, a scope has at most one active key; overlapping saves
\* of the platform's own keys are not held to it, as their scope is NULL
\* (save_key; the index of LLMApiKey).
OneActivePerScope == \A scope \in Scope \ {Null} : Cardinality(Live(scope)) <= 1

\* While all processes have one setting, every row opens under it for all of them,
\* sweeps, saves and deletes going on: always before the KEK is rotated, and again
\* for ever once a sweep begun after the last reconfiguration has returned, from
\* when on the old KEK may be destroyed (_encrypt, _decrypt, reencrypt_all,
\* rewrap_all).
KeysStayReadable ==
    (\/ \A s \in Process : kms[s] = "none"
     \/ \A s \in Process : kms[s] = "old"
     \/ swept)
      => \A s \in Process, r \in AllRows : Opens(s, row[r].cipher)

\* The table of keys serves every process, whatever overlaps (key_store.py).
KeyTableSound == KeyTypeOK /\ OneActivePerScope /\ KeysStayReadable
================================================================================
