------------------------------ MODULE AuditChain ------------------------------
(***************************************************************************)
(* security/audit_chain.py: the hash chain over agent-action audit records.*)
(* A hash stands for what it was computed from, so that two hashes are     *)
(* equal exactly when all the records below them are: the hash of a record *)
(* is the sequence of contents from the seed of the chain to that record.  *)
(***************************************************************************)
EXTENDS Sequences, Naturals

GENESIS == <<>>

compute_hash(prev, content) == Append(prev, content)

\* AuditChain.stamp: the record that goes to the sink; its record_hash is the
\* new head of the chain.
Stamp(head, content) ==
    [content |-> content, prev_hash |-> head, record_hash |-> compute_hash(head, content)]

\* Mutant: the links are checked, the hashes are not recomputed.
verify_links_only(records, head) ==
    \A i \in DOMAIN records :
        records[i].prev_hash = IF i = 1 THEN head ELSE records[i - 1].record_hash

\* Every record links to the one before it and its hash recomputes.
verify_chain(records, head) ==
    \A i \in DOMAIN records :
        LET prev == IF i = 1 THEN head ELSE records[i - 1].record_hash
        IN  /\ records[i].prev_hash = prev
            /\ records[i].record_hash = compute_hash(prev, records[i].content)
===============================================================================
