------------------------------- MODULE Journal -------------------------------
(***************************************************************************)
(* The project journal: a file of chained records, one per line, that many *)
(* short-lived processes append to under the project transaction lock.     *)
(* A process verifies the whole file once per transaction and then works   *)
(* on its cached view, after comparing the file's identity with it.        *)
(*                                                                         *)
(* A write may fail half-way and leave a partial last line; a process may  *)
(* die anywhere; the host may crash and lose what was not synced.  A       *)
(* partial last line stops all readers until an operator inspects it and   *)
(* confirms its recovery: the damaged file is archived and replaced, by a  *)
(* rename, by its complete records and a recovery record.                  *)
(***************************************************************************)
EXTENDS Naturals, Sequences

CONSTANTS
  Processes,    \* processes that use the journal
  MaxRecords,   \* MAX_JOURNAL_RECORDS
  MaxIds,       \* bound of the model: record ids ever drawn
  None

ASSUME JournalAssumption ==
  MaxRecords \in Nat /\ MaxIds \in Nat /\ None \notin Processes

VARIABLES
  journal,    \* the file at the journal's path
  former,     \* replaced files that a host crash may still bring back
  lock,       \* the process that holds the project transaction lock
  procs,      \* the processes' own state
  archives,   \* damaged files saved by recoveries
  issued,     \* record ids drawn so far (uuid4)
  kept        \* history: records whose append succeeded, all before included

journalVars == <<journal, former, lock, procs, archives, issued, kept>>

(***************************************************************************)
(* A record's digest is that of its content, the previous digest included: *)
(* here its id, and the id of the previous record.  A recovery record also *)
(* names the partial line it discards, known by the id of the record that  *)
(* was being written; 0 is no id.                                          *)
(***************************************************************************)
Ids == 1..MaxIds

Record == [id : Ids, sequence : Nat, previous : 0..MaxIds, discards : 0..MaxIds]

Garbled == [id |-> 0, sequence |-> 0, previous |-> 0, discards |-> 0]

JournalFile == [records : Seq(Record \cup {Garbled}), tail : 0..MaxIds, synced : Nat]

Content == [records |-> journal.records, tail |-> journal.tail]

Phases == {"idle", "held", "written", "archived", "replaced"}

IdAt(records, i) == IF i = 0 THEN 0 ELSE records[i].id

\* _verify_records, of complete lines
Chained(records) ==
  /\ Len(records) <= MaxRecords
  /\ \A i \in DOMAIN records :
       /\ records[i] # Garbled
       /\ records[i].sequence = i
       /\ records[i].previous = IdAt(records, i - 1)
       /\ \A j \in 1..(i - 1) : records[j].id # records[i].id

\* Records that extend a verified view.
NextRecord(view, id, discards) ==
  [id |-> id, sequence |-> Len(view) + 1, previous |-> IdAt(view, Len(view)),
   discards |-> discards]

Holds(p, phase) == lock = p /\ procs[p].phase = phase

\* The view lives and dies with the transaction.
Left(proc) == [proc EXCEPT !.phase = "idle", !.view = None]

Enter(p, phase) == procs' = [procs EXCEPT ![p].phase = phase]

-----------------------------------------------------------------------------
\* project_transaction; the lock file is locked without waiting for ever.
Acquire(p) ==
  /\ procs[p].phase = "idle" /\ lock = None
  /\ lock' = p
  /\ Enter(p, "held")
  /\ UNCHANGED <<journal, former, archives, issued, kept>>

Release(p) ==
  /\ Holds(p, "held")
  /\ lock' = None
  /\ procs' = [procs EXCEPT ![p] = Left(@)]
  /\ UNCHANGED <<journal, former, archives, issued, kept>>

\* _journal_cache_locked: the first use verifies the complete file.
Verify(p) ==
  /\ Holds(p, "held") /\ procs[p].view = None
  /\ journal.tail = 0 /\ Chained(journal.records)
  /\ procs' = [procs EXCEPT ![p].view = journal.records]
  /\ UNCHANGED <<journal, former, lock, archives, issued, kept>>

ViewCurrentFault(p) == procs[p].view # None

\* Later uses compare the file's identity, size and times with the view.
ViewCurrent(p) ==
  procs[p].view # None /\ journal.tail = 0 /\ journal.records = procs[p].view

-----------------------------------------------------------------------------
Draw(id) == id \in Ids /\ id = issued + 1 /\ issued' = id

RoomForRecordFault(p) == Len(procs[p].view) <= MaxRecords

RoomForRecord(p) == Len(procs[p].view) < MaxRecords

\* The bytes go to the end of the file, whatever is there.
WriteRecord(p) ==
  /\ Holds(p, "held") /\ ViewCurrent(p)
  /\ RoomForRecord(p)
  /\ \E id \in Ids :
       /\ Draw(id)
       /\ journal' = [journal EXCEPT
            !.records = Append(@, IF journal.tail # 0 THEN Garbled
                                  ELSE NextRecord(procs[p].view, id, 0)),
            !.tail = 0]
  /\ Enter(p, "written")
  /\ UNCHANGED <<former, lock, archives, kept>>

\* The write stops half-way, by an error or because the process dies next.
WriteTorn(p) ==
  /\ Holds(p, "held") /\ ViewCurrent(p)
  /\ RoomForRecord(p)
  /\ \E id \in Ids : Draw(id) /\ journal' = [journal EXCEPT !.tail = id]
  /\ UNCHANGED <<former, lock, procs, archives, kept>>

SyncedFault == journal

Synced == [journal EXCEPT !.synced = Len(journal.records)]

(***************************************************************************)
(* fsync succeeds and the append is reported as done.  The promise counts  *)
(* only when the path itself is known to be durable: after an installed    *)
(* recovery whose directory sync is not confirmed the code makes none.     *)
(***************************************************************************)
SyncRecord(p) ==
  /\ Holds(p, "written")
  /\ journal' = Synced
  /\ procs' = [procs EXCEPT ![p].phase = "held",
                 ![p].view = Append(@, journal.records[Len(journal.records)])]
  /\ kept' = IF former = {} THEN Len(journal.records) ELSE kept
  /\ UNCHANGED <<former, lock, archives, issued>>

\* fsync fails: the record is in the file, the caller is told otherwise.
SyncFails(p) ==
  /\ Holds(p, "written")
  /\ Enter(p, "held")
  /\ UNCHANGED <<journal, former, lock, archives, issued, kept>>

-----------------------------------------------------------------------------
\* Nobody holds the exclusive lock of the journal file itself.
Quiet == \A p \in Processes : procs[p].phase \in {"idle", "held"}

\* inspect_partial_tail, by an operator, without the project lock.
Inspect(p) ==
  /\ procs[p].phase = "idle" /\ Quiet
  /\ journal.tail # 0 /\ Chained(journal.records)
  /\ procs' = [procs EXCEPT ![p].report = Content]
  /\ UNCHANGED <<journal, former, lock, archives, issued, kept>>

ReportConfirmedFault(p) == procs[p].report # None

\* The full digest given by the operator is that of the file now.
ReportConfirmed(p) == procs[p].report = Content

\* recover_partial_tail up to the sealed archive.
ArchiveDamage(p) ==
  /\ Holds(p, "held")
  /\ journal.tail # 0 /\ Chained(journal.records)
  /\ Len(journal.records) < MaxRecords
  /\ ReportConfirmed(p)
  /\ archives' = archives \cup {Content}
  /\ Enter(p, "archived")
  /\ UNCHANGED <<journal, former, lock, issued, kept>>

\* _replace_partial_journal: a synced new file takes the path.
ReplaceJournal(p) ==
  /\ Holds(p, "archived")
  /\ ReportConfirmed(p)
  /\ \E id \in Ids :
       /\ Draw(id)
       /\ journal' = LET view == journal.records IN
            [records |-> Append(view, NextRecord(view, id, journal.tail)),
             tail |-> 0, synced |-> Len(view) + 1]
  /\ former' = former \cup {journal}
  /\ procs' = [procs EXCEPT ![p].phase = "replaced", ![p].view = None]
  /\ UNCHANGED <<lock, archives, kept>>

\* The directory is synced; verification of the new file follows.
SyncDirectory(p) ==
  /\ Holds(p, "replaced")
  /\ former' = {}
  /\ kept' = Len(journal.records)
  /\ Enter(p, "held")
  /\ UNCHANGED <<journal, lock, archives, issued>>

\* A step of the recovery fails; an installed file stays installed.
RecoveryFails(p) ==
  /\ Holds(p, "archived") \/ Holds(p, "replaced")
  /\ Enter(p, "held")
  /\ UNCHANGED <<journal, former, lock, archives, issued, kept>>

-----------------------------------------------------------------------------
\* The process dies; the operating system drops its lock.
Crash(p) ==
  /\ procs[p].phase # "idle"
  /\ lock' = None
  /\ procs' = [procs EXCEPT ![p] = Left(@)]
  /\ UNCHANGED <<journal, former, archives, issued, kept>>

\* What a host crash leaves of a file: its synced records, maybe more.
Survivors(file) ==
  {[records |-> SubSeq(file.records, 1, k), tail |-> t, synced |-> k] :
     k \in file.synced..Len(file.records), t \in {0, file.tail}}
  \cup {[records |-> SubSeq(file.records, 1, k), tail |-> file.records[k + 1].id,
         synced |-> k] : k \in file.synced..(Len(file.records) - 1)}

HostCrash ==
  /\ journal' \in UNION {Survivors(file) : file \in {journal} \cup former}
  /\ former' = {}
  /\ lock' = None
  /\ procs' = [p \in Processes |-> Left(procs[p])]
  /\ UNCHANGED <<archives, issued, kept>>

-----------------------------------------------------------------------------
JournalInit ==
  /\ journal = [records |-> <<>>, tail |-> 0, synced |-> 0]
  /\ former = {}
  /\ lock = None
  /\ procs = [p \in Processes |-> [phase |-> "idle", view |-> None, report |-> None]]
  /\ archives = {}
  /\ issued = 0
  /\ kept = 0

JournalNext ==
  \/ \E p \in Processes :
       \/ Acquire(p) \/ Release(p) \/ Verify(p)
       \/ WriteRecord(p) \/ WriteTorn(p) \/ SyncRecord(p) \/ SyncFails(p)
       \/ Inspect(p) \/ ArchiveDamage(p) \/ ReplaceJournal(p)
       \/ SyncDirectory(p) \/ RecoveryFails(p)
       \/ Crash(p)
  \/ HostCrash

JournalSpec == JournalInit /\ [][JournalNext]_journalVars
-----------------------------------------------------------------------------
\* Shape of the state; the record limit is never exceeded.
JournalTypeOK ==
  /\ journal \in JournalFile
  /\ former \subseteq JournalFile
  /\ lock \in Processes \cup {None}
  /\ \A p \in Processes : /\ procs[p].phase \in Phases
                          /\ procs[p].phase # "idle" <=> lock = p
  /\ issued \in 0..MaxIds
  /\ kept \in Nat
  /\ Len(journal.records) <= MaxRecords

(***************************************************************************)
(* The only damage the code's own failures can leave is the one recovery   *)
(* is for: the complete lines are always a verified chain, whatever write  *)
(* failed, process died, or view went stale.  A record written behind a    *)
(* partial line, or from a stale view, would be corruption for ever.       *)
(***************************************************************************)
OnlyTailDamage ==
  \A file \in {journal} \cup former : Chained(file.records)

(***************************************************************************)
(* A partial line is discarded only by a recovery whose operator inspected *)
(* exactly this file, before the lock was taken, and only when the damaged *)
(* file is in the archives.                                                *)
(***************************************************************************)
TailDiscarded ==
  journal.tail # 0 /\ journal'.tail = 0 /\ Len(journal'.records) > Len(journal.records)

RecoveryConfirmed ==
  [][TailDiscarded => /\ Content \in archives
                      /\ \E p \in Processes : lock = p /\ procs[p].report = Content]_journalVars

(***************************************************************************)
(* The journal implements an append-only log: records are added only at    *)
(* the end, one by one; no step, recovery included, drops a complete       *)
(* record, save a host crash; and a host crash never drops a record whose  *)
(* append had been reported as done.                                       *)
(***************************************************************************)
Log == INSTANCE AppendOnlyLog
         WITH Records <- Record, log <- journal.records, kept <- kept

AppendOnly == Log!LogSpec
=============================================================================
