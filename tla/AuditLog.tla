----------------------------- MODULE AuditLog ------------------------------
(***************************************************************************)
(* The hash-chained audit log (audit.py).                                  *)
(*                                                                         *)
(* A record is its content (body), the hash of the record before it (prev) *)
(* and its own hash.  The chain hash is taken to be injective: a digest is *)
(* the sequence of contents it was computed over, so hashing appends the   *)
(* content to the previous digest, and the genesis hash is the empty one.  *)
(***************************************************************************)
EXTENDS Naturals, Sequences

GENESIS_HASH == <<>>

\* Signer.chain_hash(prev, payload): two digests are equal exactly when both
\* arguments are.
ChainHash(prev, body) == Append(prev, body)

\* The AuditRecord that append builds from the predecessor hash it has read.
AuditRecord(prev, body) ==
    [body |-> body, prev |-> prev, hash |-> ChainHash(prev, body)]

\* Mutation of LastHash: records[0] where the code has records[-1].
FirstHash(log) == IF log = <<>> THEN GENESIS_HASH ELSE log[1].hash

\* records[-1].hash if records else GENESIS_HASH
LastHash(log) == IF log = <<>> THEN GENESIS_HASH ELSE log[Len(log)].hash

\* AuditLog.verify, over the log in memory or over the lines of the file
\* (cli.cmd_audit_verify loads them into a log and calls verify).
Verify(log) ==
    \A i \in DOMAIN log :
        /\ log[i].prev = IF i = 1 THEN GENESIS_HASH ELSE log[i - 1].hash
        /\ log[i].hash = ChainHash(log[i].prev, log[i].body)

=============================================================================
