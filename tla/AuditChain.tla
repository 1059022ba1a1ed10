----------------------------- MODULE AuditChain -----------------------------
(***************************************************************************)
(* The records of the remediation audit log and the hash chain through     *)
(* them: remediation/audit.py, AuditRecord, hash_body and verify_chain.    *)
(*                                                                         *)
(* A digest is modelled by what SHA-256 is relied on for, that two         *)
(* different bodies never have the same digest.  The body of a record      *)
(* holds the digest of the record before it, so a collision-free digest of *)
(* a body is as good as the sequence of all the bodies up to it: that      *)
(* sequence is the digest here, and the digest before the first record,    *)
(* GENESIS, is the empty one.                                              *)
(*                                                                         *)
(* Abstracted from a record: the time, the actor, the reason and the       *)
(* wording of the detail.  Kept from the detail: already_executed, which   *)
(* an approval records from a read it made earlier.                        *)
(***************************************************************************)
EXTENDS Naturals, Sequences

CONSTANT Proposal   \* proposal ids

Decision == {"proposed", "approved", "rejected", "executed", "failed"}

Body == [sequence: Nat, decision: Decision, proposal: Proposal, already: BOOLEAN]

Digest  == Seq(Body)
GENESIS == << >>

AuditRecord == [body: Body, previous_hash: Digest, record_hash: Digest]

HashBody(body, previous) == Append(previous, body)

(***************************************************************************)
(* The digest the next record chains onto, and the record sealed onto the  *)
(* records already in the log.                                             *)
(***************************************************************************)
HeadHash(records) ==
  IF records = << >> THEN GENESIS ELSE records[Len(records)].record_hash

Sealed(records, decision, proposal, already) ==
  LET body == [sequence |-> Len(records), decision |-> decision,
               proposal |-> proposal, already |-> already]
  IN  [body          |-> body,
       previous_hash |-> HeadHash(records),
       record_hash   |-> HashBody(body, HeadHash(records))]

(***************************************************************************)
(* verify_chain finds no broken link: every record is in its own place,    *)
(* carries the digest of the record before it, and its own digest is the   *)
(* digest of what it says.                                                 *)
(***************************************************************************)
Intact(record) == record.record_hash = HashBody(record.body, record.previous_hash)

LinkHolds(records, i) ==
  /\ records[i].body.sequence = i - 1
  /\ records[i].previous_hash = IF i = 1 THEN GENESIS ELSE records[i - 1].record_hash
  /\ Intact(records[i])

VerifyChain(records) == \A i \in 1 .. Len(records) : LinkHolds(records, i)
=============================================================================
