-------------------------- MODULE ProductApprovals --------------------------
(***************************************************************************)
(* The account's ledger of strict executable approvals and the recovery of *)
(* its partial tail.  Every command that changes the ledger verifies it    *)
(* and works under one exclusive file lock, so at most one is under way;   *)
(* it may fail or die at any point, and the lock goes with it.  The host   *)
(* may crash and lose what was not synced.                                 *)
(*                                                                         *)
(* An append that stops half-way leaves its bytes: nothing is rolled back. *)
(* A partial last line then stops every reader until an operator inspects  *)
(* the damage and confirms the recovery of exactly what was inspected.     *)
(* The recovery publishes an archive of the damaged bytes and a manifest,  *)
(* both immutable, and then truncates the file in place.                   *)
(***************************************************************************)
EXTENDS ApprovalLedger

CONSTANTS
  Contexts,      \* reasons and operator references given with a recovery
  MaxManifests,  \* MAX_RECOVERY_MANIFESTS
  MaxIds,        \* bound of the model: record ids ever drawn
  None

ASSUME ApprovalsAssumption == MaxManifests \in Nat /\ MaxIds \in Nat

VARIABLES
  ledger,    \* the file, and the number of its records known to be on disk
  former,    \* contents before truncations that are not on disk yet
  command,   \* the command that holds the exclusive lock
  reports,   \* damage that operators have inspected
  evidence,  \* archives and manifests, in the order they were published
  durable,   \* how many of them are known to be on disk
  issued,    \* record ids drawn so far (uuid4)
  kept       \* history: records promised to stay, all before included

approvalVars ==
  <<ledger, former, command, reports, evidence, durable, issued, kept>>

(***************************************************************************)
(* A partial line is known by the id of the record that was being written; *)
(* a tail of 0 is a complete ledger.  Digests, sizes, inode and times of a *)
(* report stand and fall with the content: no other write of the file      *)
(* leaves the same fragment.                                               *)
(***************************************************************************)
Ids == 1..MaxIds

Content == [records |-> ledger.records, tail |-> ledger.tail]

Contents == [records : Seq(Record), tail : 0..MaxIds]

Ledgers == [records : Seq(Record), tail : 0..MaxIds, synced : Nat]

Artifact == [kind : {"archive", "manifest"}, of : Contents, context : Contexts \cup {None}]

Phases == {"idle", "written", "confirmed", "archived", "prepared", "checked", "truncated"}

Commands == [phase : Phases, of : Contents \cup {None}, context : Contexts \cup {None}]

Idle == [phase |-> "idle", of |-> None, context |-> None]

\* _verify and _active_records, as every writer and reader calls them.
Verified == ledger.tail = 0 /\ Replays(ledger.records)

Damaged == ledger.tail # 0 /\ Replays(ledger.records)

Enter(phase) == command' = [command EXCEPT !.phase = phase]

-----------------------------------------------------------------------------
Draw(id) == issued < MaxIds /\ id = issued + 1 /\ issued' = id

(***************************************************************************)
(* What approve_candidate and revoke_approval would append.  What is       *)
(* already approved is reported (ReportApproved); another fingerprint of   *)
(* an approved path is refused.                                            *)
(***************************************************************************)
Approvals(id) ==
  {Approval(ledger.records, id, path, fingerprint) :
     path \in {p \in Paths : NoneActive(ledger.records, p)},
     fingerprint \in Fingerprints}

Revocations(id) == {Revocation(ledger.records, id, i) : i \in Active(ledger.records)}

Proposed(id) == Approvals(id) \cup Revocations(id)

\* _append_locked writes the line at the end of the file, before the fsync.
WriteRecord ==
  /\ command = Idle /\ Verified /\ Len(ledger.records) < MaxRecords
  /\ \E id \in Ids : Draw(id) /\ \E r \in Proposed(id) :
       ledger' = [ledger EXCEPT !.records = Append(@, r)]
  /\ Enter("written")
  /\ UNCHANGED <<former, reports, evidence, durable, kept>>

\* The write stops half-way: the bytes are retained, the command ends.
WriteTorn ==
  /\ command = Idle /\ Verified /\ Len(ledger.records) < MaxRecords
  /\ \E id \in Ids : /\ Draw(id) /\ Proposed(id) # {}
                     /\ ledger' = [ledger EXCEPT !.tail = id]
  /\ UNCHANGED <<former, command, reports, evidence, durable, kept>>

SyncedFault == ledger

Synced == [ledger EXCEPT !.synced = Len(ledger.records)]

\* fsync succeeds and the command reports the new record.
SyncRecord ==
  /\ command.phase = "written"
  /\ ledger' = Synced /\ former' = {}
  /\ kept' = Len(ledger.records)
  /\ command' = Idle
  /\ UNCHANGED <<reports, evidence, durable, issued>>

(***************************************************************************)
(* Approving what is already approved reports the record that is there,    *)
(* and syncs nothing.  When the command that wrote the record died before  *)
(* its fsync, the report promises no more than that the record is in the   *)
(* file now; a record that is on disk stays.                               *)
(***************************************************************************)
ReportApproved ==
  /\ command = Idle /\ Verified
  /\ \E i \in Active(ledger.records) :
       kept' = IF i \in kept..ledger.synced THEN i ELSE kept
  /\ UNCHANGED <<ledger, former, command, reports, evidence, durable, issued>>

\* The command ends where it is, by an error or because its process dies.
Abandon ==
  /\ command # Idle
  /\ command' = Idle
  /\ UNCHANGED <<ledger, former, reports, evidence, durable, issued, kept>>

-----------------------------------------------------------------------------
\* approval_recovery_status, on a damaged ledger
Inspect ==
  /\ command = Idle /\ Damaged
  /\ reports' = reports \cup {Content}
  /\ UNCHANGED <<ledger, former, command, evidence, durable, issued, kept>>

Published == {evidence[i] : i \in DOMAIN evidence}

Manifests == {e \in Published : e.kind = "manifest"}

ManifestsOf(content) == {e \in Manifests : e.of = content}

Archived(content) == \E e \in Published : e.kind = "archive" /\ e.of = content

RoomForManifestFault(content) == Cardinality(Manifests) <= MaxManifests

\* require_recovery_capacity
RoomForManifest(content) ==
  ManifestsOf(content) = {} => Cardinality(Manifests) < MaxManifests

\* recover_partial_tail with the guards of an inspected report
ConfirmRecovery ==
  /\ command = Idle /\ Damaged
  /\ Content \in reports
  /\ RoomForManifest(Content)
  /\ \E context \in Contexts :
       command' = [phase |-> "confirmed", of |-> Content, context |-> context]
  /\ UNCHANGED <<ledger, former, reports, evidence, durable, issued, kept>>

(***************************************************************************)
(* An artifact is written beside and renamed into place; the directory is  *)
(* then synced.  When that fails the artifact stays, not known to be on    *)
(* disk, and the command ends.                                             *)
(***************************************************************************)
Publish(artifact, phase) ==
  /\ evidence' = Append(evidence, artifact)
  /\ \/ durable' = Len(evidence') /\ Enter(phase)
     \/ durable' = durable /\ command' = Idle

\* What an earlier attempt published is used as it is.
Reuse(phase) == Enter(phase) /\ UNCHANGED <<evidence, durable>>

\* create_recovery_archive
PublishArchive ==
  /\ command.phase = "confirmed"
  /\ IF Archived(command.of)
     THEN Reuse("archived")
     ELSE Publish([kind |-> "archive", of |-> command.of, context |-> None], "archived")
  /\ UNCHANGED <<ledger, former, reports, issued, kept>>

\* create_recovery_manifest; the context of an existing manifest must agree.
PublishManifest ==
  /\ command.phase = "archived"
  /\ IF ManifestsOf(command.of) = {}
     THEN Publish([kind |-> "manifest", of |-> command.of, context |-> command.context],
                  "prepared")
     ELSE /\ \A e \in ManifestsOf(command.of) : e.context = command.context
          /\ Reuse("prepared")
  /\ UNCHANGED <<ledger, former, reports, issued, kept>>

\* inspect_reconciled_recovery_evidence, for a ledger with these records
Reconciles(records) ==
  \A e \in Manifests : Archived(e.of) /\ Begins(e.of.records, records)

EvidenceSyncedFault == durable

EvidenceSynced == Len(evidence)

\* The last checks, and sync_recovery_directory.
CheckEvidence ==
  /\ command.phase = "prepared"
  /\ Content = command.of /\ Damaged
  /\ Archived(Content) /\ ManifestsOf(Content) # {}
  /\ Reconciles(ledger.records)
  /\ durable' = EvidenceSynced
  /\ Enter("checked")
  /\ UNCHANGED <<ledger, former, reports, evidence, issued, kept>>

\* ftruncate to the verified prefix
Truncate ==
  /\ command.phase = "checked"
  /\ ledger' = [ledger EXCEPT !.tail = 0]
  /\ former' = former \cup {Content}
  /\ Enter("truncated")
  /\ UNCHANGED <<reports, evidence, durable, issued, kept>>

SyncTruncation ==
  /\ command.phase = "truncated"
  /\ ledger' = Synced /\ former' = {}
  /\ command' = Idle
  /\ UNCHANGED <<reports, evidence, durable, issued, kept>>

-----------------------------------------------------------------------------
\* The record that starts where the first k records of an image end.
Partial(image, k) ==
  IF k = Len(image.records) THEN image.tail ELSE image.records[k + 1].id

(***************************************************************************)
(* The host stops.  Of the ledger, at least what was synced is found       *)
(* again, as it is now or as it was before a truncation, with or without   *)
(* a part of what followed; of the artifacts, those known to be on disk    *)
(* and any of the later ones, in their order.                              *)
(***************************************************************************)
HostCrash ==
  /\ \E image \in {Content} \cup former :
       \E k \in ledger.synced..Len(image.records) : \E tail \in {0, Partial(image, k)} :
         ledger' = [records |-> SubSeq(image.records, 1, k), tail |-> tail, synced |-> k]
  /\ \E k \in durable..Len(evidence) : evidence' = SubSeq(evidence, 1, k) /\ durable' = k
  /\ former' = {} /\ command' = Idle
  /\ UNCHANGED <<reports, issued, kept>>

-----------------------------------------------------------------------------
ApprovalsInit ==
  /\ ledger = [records |-> <<>>, tail |-> 0, synced |-> 0]
  /\ former = {} /\ command = Idle /\ reports = {}
  /\ evidence = <<>> /\ durable = 0
  /\ issued = 0 /\ kept = 0

ApprovalsNext ==
  \/ WriteRecord \/ WriteTorn \/ SyncRecord \/ ReportApproved \/ Abandon
  \/ Inspect \/ ConfirmRecovery \/ PublishArchive \/ PublishManifest
  \/ CheckEvidence \/ Truncate \/ SyncTruncation
  \/ HostCrash

ApprovalsSpec == ApprovalsInit /\ [][ApprovalsNext]_approvalVars

-----------------------------------------------------------------------------
(***************************************************************************)
(* Types, and the bound on manifests that keeps the scan of evidence       *)
(* possible: more of them would stop every later inspection.               *)
(* (require_recovery_capacity.)                                            *)
(***************************************************************************)
ApprovalsTypeOK ==
  /\ ledger \in Ledgers /\ former \subseteq Contents
  /\ ledger.synced \in 0..Len(ledger.records)
  /\ command \in Commands /\ reports \subseteq Contents
  /\ evidence \in Seq(Artifact) /\ durable \in 0..Len(evidence)
  /\ issued \in 0..MaxIds /\ kept \in 0..ledger.synced
  /\ Cardinality(Manifests) <= MaxManifests

(***************************************************************************)
(* The complete lines of the ledger replay, whatever was torn, lost or     *)
(* brought back: a path never has two active approvals, and every          *)
(* revocation ends an active approval.  (_verify and _active_records,      *)
(* which refuse the whole ledger otherwise.)                               *)
(***************************************************************************)
LedgerReplays == Replays(ledger.records)

\* Records are Record; the log is that of the complete lines.
Log == INSTANCE AppendOnlyLog WITH Records <- Record, log <- ledger.records, kept <- kept

(***************************************************************************)
(* An approval or a revocation whose append was reported, and an approval  *)
(* reported as already given once it is on disk, are never lost or         *)
(* altered, and nothing else is lost but at the end and in a crash: the    *)
(* ledger implements an append-only log, across recoveries and crashes.    *)
(* Not promised: an approval reported as already given whose record was    *)
(* never synced.  (_append_locked, _approve_fingerprinted_candidate,       *)
(* recover_partial_tail.)                                                  *)
(***************************************************************************)
ApprovalsPersist == Log!LogSpec

OnDisk == {evidence[i] : i \in 1..durable}

(***************************************************************************)
(* No command discards a fragment that was not inspected, or before its    *)
(* archive and its manifest are on disk.  (recover_partial_tail.)          *)
(***************************************************************************)
Discards == ledger.tail # 0 /\ ledger'.tail = 0 /\ command'.phase = "truncated"

TailDiscardedWithEvidence ==
  [][Discards =>
       /\ Content \in reports
       /\ \E a, m \in OnDisk : /\ a.kind = "archive" /\ a.of = Content
                               /\ m.kind = "manifest" /\ m.of = Content]_approvalVars

(***************************************************************************)
(* Recovery evidence reconciles with every complete ledger, in particular  *)
(* with what a crash leaves.  (The order of writes in                      *)
(* recover_partial_tail, as IMPLEMENTATION_NOTES.md describes it.)         *)
(***************************************************************************)
EvidenceReconciles == ledger.tail = 0 => Reconciles(ledger.records)
=============================================================================
