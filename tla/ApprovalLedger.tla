--------------------------- MODULE ApprovalLedger ---------------------------
(***************************************************************************)
(* The records of an account-scoped approval ledger, and what they mean.   *)
(* The ledgers of strict executable approvals and of product installations *)
(* share this form: an approval names what it approves by a path (with its *)
(* vendor) and a fingerprint, a revocation names the approval it ends.     *)
(***************************************************************************)
EXTENDS Naturals, Sequences, FiniteSets

CONSTANTS
  Paths,         \* canonical paths, each standing for a vendor and a path
  Fingerprints,  \* digests of what was approved
  MaxRecords     \* MAX_REGISTRY_RECORDS

ASSUME LedgerAssumption == MaxRecords \in Nat

(***************************************************************************)
(* A record's digest covers its content and the previous digest; here it   *)
(* is the record's id with the id of the previous record.  "of" is the     *)
(* approval that a revocation ends; 0 is no id.                            *)
(***************************************************************************)
Record == [id : Nat, previous : Nat, event : {"approved", "revoked"},
           path : Paths, fingerprint : Fingerprints, of : Nat]

IdAt(records, i) == IF i = 0 THEN 0 ELSE records[i].id

Revokes(r, a) == r.event = "revoked" /\ r.of = a.id

\* The i-th record is an approval that is active after the first n records.
ActiveAt(records, n, i) ==
  /\ i \in 1..n /\ records[i].event = "approved"
  /\ \A k \in 1..n : ~Revokes(records[k], records[i])

Active(records) == {i \in DOMAIN records : ActiveAt(records, Len(records), i)}

\* _verify, of complete lines
Chained(records) ==
  /\ Len(records) <= MaxRecords
  /\ \A i \in DOMAIN records :
       /\ records[i].previous = IdAt(records, i - 1)
       /\ \A j \in 1..(i - 1) : records[j].id # records[i].id

\* _active_records: no two active approvals of a path, and revocations only
\* of active approvals, by id and fingerprint.
Consistent(records) ==
  \A i \in DOMAIN records :
    IF records[i].event = "approved"
    THEN ~\E j \in 1..(i - 1) :
           ActiveAt(records, i - 1, j) /\ records[j].path = records[i].path
    ELSE \E j \in 1..(i - 1) :
           /\ ActiveAt(records, i - 1, j) /\ Revokes(records[i], records[j])
           /\ records[j].path = records[i].path
           /\ records[j].fingerprint = records[i].fingerprint

Replays(records) == Chained(records) /\ Consistent(records)

\* The first records of a ledger.
Begins(prefix, records) ==
  Len(prefix) <= Len(records) /\ SubSeq(records, 1, Len(prefix)) = prefix

\* _build_record
Approval(records, id, path, fingerprint) ==
  [id |-> id, previous |-> IdAt(records, Len(records)), event |-> "approved",
   path |-> path, fingerprint |-> fingerprint, of |-> 0]

Revocation(records, id, i) ==
  [id |-> id, previous |-> IdAt(records, Len(records)), event |-> "revoked",
   path |-> records[i].path, fingerprint |-> records[i].fingerprint,
   of |-> records[i].id]

\* An approval is added only for a path that has none.
NoneActiveFault(records, path) ==
  records = <<>> \/ records[Len(records)].path # path
    \/ records[Len(records)].event = "revoked"

NoneActive(records, path) == \A i \in Active(records) : records[i].path # path
=============================================================================
