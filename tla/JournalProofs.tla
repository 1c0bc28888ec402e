---------------------------- MODULE JournalProofs ----------------------------
(***************************************************************************)
(* Theorems about Journal: the record chain survives every failure, the    *)
(* journal implements AppendOnlyLog, and recovery needs its confirmation,  *)
(* for any number of processes and any limits.                             *)
(***************************************************************************)
EXTENDS Journal, TLAPS

Files == {journal} \cup former

Lines == Seq(Record \cup {Garbled})

Report == [records : Lines, tail : 0..MaxIds]

Process == [phase : Phases, view : Lines \cup {None}, report : Report \cup {None}]

ShapeInv ==
  /\ journal \in JournalFile
  /\ former \subseteq JournalFile
  /\ lock \in Processes \cup {None}
  /\ procs \in [Processes -> Process]
  /\ issued \in 0..MaxIds
  /\ kept \in Nat

\* One process works under the lock; what each phase has established.
PhaseInv ==
  \A p \in Processes :
    /\ procs[p].phase # "idle" <=> lock = p
    /\ procs[p].phase = "written" => journal.records # <<>> /\ procs[p].view # None
    /\ procs[p].phase = "archived" =>
         procs[p].report \in archives /\ Len(journal.records) < MaxRecords
    /\ procs[p].phase = "replaced" => journal.synced = Len(journal.records)

\* Every file that can be the journal: its records and ids are sound, and
\* it holds what was promised.
FileInv(f) ==
  /\ Chained(f.records)
  /\ f.tail <= issued
  /\ \A i \in DOMAIN f.records : f.records[i].id <= issued
  /\ f.synced <= Len(f.records)
  /\ kept <= f.synced
  /\ Len(f.records) <= Len(journal.records)
  /\ f.records = SubSeq(journal.records, 1, Len(f.records))

JInv == ShapeInv /\ PhaseInv /\ \A f \in Files : FileInv(f)
-----------------------------------------------------------------------------
\* A record that extends a verified chain under a fresh id keeps it one.
LEMMA ChainExtends ==
  ASSUME NEW s \in Lines, Chained(s), Len(s) < MaxRecords,
         NEW id \in Ids, \A i \in DOMAIN s : s[i].id # id,
         NEW d \in 0..MaxIds
  PROVE  LET t == Append(s, NextRecord(s, id, d)) IN
           /\ t \in Lines
           /\ Chained(t)
           /\ Len(t) = Len(s) + 1
           /\ NextRecord(s, id, d) \in Record
           /\ t[Len(t)] = NextRecord(s, id, d)
           /\ \A i \in DOMAIN s : t[i] = s[i]
           /\ s = SubSeq(t, 1, Len(s))
<1> DEFINE r == NextRecord(s, id, d)
           t == Append(s, r)
<1>1. /\ r \in Record /\ r # Garbled
      /\ r.id = id /\ r.sequence = Len(s) + 1 /\ r.previous = IdAt(s, Len(s))
  <2>1. Len(s) \in Nat
    BY DEF Lines
  <2>2. IdAt(s, Len(s)) \in 0..MaxIds
    <3>1. CASE Len(s) = 0
      BY <3>1, JournalAssumption DEF IdAt
    <3>2. CASE Len(s) # 0
      <4>1. s[Len(s)] \in Record \cup {Garbled}
        BY <3>2 DEF Lines
      <4>2. s[Len(s)] # Garbled
        BY <2>1, <3>2 DEF Chained, Lines
      <4>3. QED
        BY <3>2, <4>1, <4>2 DEF IdAt, Record, Ids
    <3>3. QED
      BY <3>1, <3>2
  <2>3. QED
    BY <2>1, <2>2, JournalAssumption DEF NextRecord, Record, Garbled, Ids
<1> HIDE DEF r
<1>2. /\ t \in Lines
      /\ Len(t) = Len(s) + 1
      /\ t[Len(s) + 1] = r
      /\ \A i \in 1..Len(s) : t[i] = s[i]
      /\ DOMAIN s = 1..Len(s) /\ DOMAIN t = 1..(Len(s) + 1)
      /\ Len(s) \in Nat
  BY <1>1 DEF Lines
<1>3. s = SubSeq(t, 1, Len(s))
  BY <1>1 DEF Lines
<1> HIDE DEF t
<1>4. Chained(t)
  <2>1. Len(t) <= MaxRecords
    BY <1>2, JournalAssumption
  <2>2. ASSUME NEW i \in DOMAIN t
        PROVE  /\ t[i] # Garbled
               /\ t[i].sequence = i
               /\ t[i].previous = IdAt(t, i - 1)
               /\ \A j \in 1..(i - 1) : t[j].id # t[i].id
    <3>1. CASE i = Len(s) + 1
      BY <1>1, <1>2, <3>1 DEF IdAt
    <3>2. CASE i \in 1..Len(s)
      <4>1. IdAt(t, i - 1) = IdAt(s, i - 1)
        BY <1>2, <3>2 DEF IdAt
      <4>2. QED
        BY <1>2, <3>2, <4>1 DEF Chained
    <3>3. QED
      BY <1>2, <3>1, <3>2
  <2>3. QED
    BY <2>1, <2>2 DEF Chained
<1>5. QED
  BY <1>1, <1>2, <1>3, <1>4 DEF r, t

\* A prefix of a verified chain is one.
LEMMA ChainPrefix ==
  ASSUME NEW s \in Lines, Chained(s), NEW k \in 0..Len(s)
  PROVE  LET t == SubSeq(s, 1, k) IN
           /\ t \in Lines
           /\ Chained(t)
           /\ Len(t) = k
           /\ \A i \in 1..k : t[i] = s[i]
<1> DEFINE t == SubSeq(s, 1, k)
<1>1. /\ t \in Lines /\ Len(t) = k
      /\ \A i \in 1..k : t[i] = s[i]
      /\ DOMAIN t = 1..k /\ DOMAIN s = 1..Len(s)
      /\ k \in Nat /\ Len(s) \in Nat /\ k <= Len(s)
  BY DEF Lines
<1> HIDE DEF t
<1>2. Chained(t)
  <2>1. ASSUME NEW i \in 1..k
        PROVE  IdAt(t, i - 1) = IdAt(s, i - 1)
    BY <1>1 DEF IdAt
  <2>2. QED
    BY <1>1, <2>1, JournalAssumption DEF Chained
<1>3. QED
  BY <1>1, <1>2 DEF t

-----------------------------------------------------------------------------
\* The only file that steps of a process change is the journal itself.
LEMMA FilesKept ==
  ASSUME JInv, UNCHANGED journal, former' \subseteq former, issued' = issued,
         kept' = kept
  PROVE  \A f \in Files' : FileInv(f)'
BY DEF JInv, Files, FileInv

\* An extended journal, and the other files beside it.
LEMMA FilesExtended ==
  ASSUME JInv, NEW p \in Processes, NEW id \in Ids, Draw(id),
         NEW d \in 0..MaxIds, Len(journal.records) < MaxRecords,
         NEW n \in Nat, kept <= n, n <= Len(journal.records) + 1,
         journal' = [records |-> Append(journal.records, NextRecord(journal.records, id, d)),
                     tail |-> 0, synced |-> n],
         former' \subseteq former \cup {journal}, kept' = kept
  PROVE  /\ \A f \in Files' : FileInv(f)'
         /\ journal' \in JournalFile /\ former' \subseteq JournalFile
         /\ journal'.records # <<>>
         /\ journal'.synced = n /\ Len(journal'.records) = Len(journal.records) + 1
<1> DEFINE s == journal.records
           t == Append(s, NextRecord(s, id, d))
<1>1. /\ s \in Lines /\ Chained(s) /\ Len(s) \in Nat
      /\ DOMAIN s = 1..Len(s)
      /\ \A i \in DOMAIN s : s[i].id <= issued /\ s[i].id \in Nat
      /\ issued \in Nat /\ kept \in Nat
  BY DEF JInv, ShapeInv, Files, FileInv, JournalFile, Lines, Record, Garbled, Ids
<1>2. id = issued + 1 /\ issued' = id
  BY DEF Draw
<1>3. \A i \in DOMAIN s : s[i].id # id
  BY <1>1, <1>2
<1>4. /\ t \in Lines /\ Chained(t) /\ Len(t) = Len(s) + 1
      /\ NextRecord(s, id, d) \in Record
      /\ t[Len(t)] = NextRecord(s, id, d)
      /\ \A i \in DOMAIN s : t[i] = s[i]
      /\ s = SubSeq(t, 1, Len(s))
  BY <1>1, <1>3, ChainExtends
<1>5. journal' = [records |-> t, tail |-> 0, synced |-> n]
  OBVIOUS
<1>6. t[Len(s) + 1].id = id /\ DOMAIN t = 1..(Len(s) + 1)
  BY <1>1, <1>4 DEF NextRecord, Lines
<1> HIDE DEF t
<1>7. /\ journal'.records = t /\ journal'.tail = 0 /\ journal'.synced = n
      /\ journal' \in JournalFile
  <2>1. journal'.records = t /\ journal'.tail = 0 /\ journal'.synced = n
    BY <1>5
  <2>2. 0 \in 0..MaxIds
    BY JournalAssumption
  <2>3. [records |-> t, tail |-> 0, synced |-> n] \in JournalFile
    BY <1>4, <2>2 DEF JournalFile, Lines
  <2>4. QED
    BY <1>5, <2>1, <2>3
<1>8. FileInv(journal)'
  <2>1. t = SubSeq(t, 1, Len(t))
    BY <1>4 DEF Lines
  <2>2. \A i \in DOMAIN t : t[i].id <= issued'
    BY <1>1, <1>2, <1>4, <1>6 DEF Ids
  <2>3. Len(t) \in Nat /\ 0 <= issued'
    BY <1>1, <1>2, <1>4
  <2>4. n <= Len(t) /\ kept' <= n
    BY <1>4
  <2>5. /\ Chained(journal'.records)
        /\ journal'.tail <= issued'
        /\ \A i \in DOMAIN journal'.records : journal'.records[i].id <= issued'
        /\ journal'.synced <= Len(journal'.records)
        /\ kept' <= journal'.synced
        /\ Len(journal'.records) <= Len(journal'.records)
        /\ journal'.records = SubSeq(journal'.records, 1, Len(journal'.records))
    <3>1. Chained(journal'.records)
      BY <1>4, <1>7
    <3>2. journal'.tail <= issued'
      BY <1>7, <2>3
    <3>3. \A i \in DOMAIN journal'.records : journal'.records[i].id <= issued'
      BY <1>7, <2>2
    <3>4. journal'.synced <= Len(journal'.records) /\ kept' <= journal'.synced
      BY <1>7, <2>4
    <3>5. Len(journal'.records) <= Len(journal'.records)
      BY <1>7, <2>3
    <3>6. journal'.records = SubSeq(journal'.records, 1, Len(journal'.records))
      BY <1>7, <2>1
    <3>7. QED
      BY <3>1, <3>2, <3>3, <3>4, <3>5, <3>6
  <2>6. QED
    BY <2>5 DEF FileInv
<1>9. ASSUME NEW f \in Files
      PROVE  FileInv(f)'
  <2>1. FileInv(f) /\ f.records \in Lines /\ f.tail \in Nat
    BY DEF JInv, ShapeInv, Files, JournalFile, Lines
  <2>2. Len(f.records) \in 0..Len(s)
    BY <1>1, <2>1 DEF FileInv, Lines
  <2>3. SubSeq(t, 1, Len(f.records)) = SubSeq(s, 1, Len(f.records))
    BY <1>1, <1>4, <2>2 DEF Lines
  <2>4. \A i \in DOMAIN f.records : f.records[i].id <= issued'
    <3>1. \A i \in DOMAIN f.records : f.records[i].id \in Nat
      BY <2>1 DEF Lines, Record, Garbled, Ids
    <3>2. QED
      BY <1>1, <1>2, <2>1, <3>1 DEF FileInv
  <2>5. QED
    BY <1>1, <1>2, <1>4, <1>7, <2>1, <2>2, <2>3, <2>4 DEF FileInv
<1>10. t # <<>>
  BY <1>1, <1>4
<1>11. former' \subseteq JournalFile
  BY DEF JInv, ShapeInv
<1>12. QED
  BY <1>4, <1>7, <1>8, <1>9, <1>10, <1>11 DEF Files

-----------------------------------------------------------------------------
\* A process as it is after a step that changes its phase and its view.
LEMMA ProcessMoved ==
  ASSUME ShapeInv, NEW p \in Processes, NEW phase \in Phases,
         NEW view \in Lines \cup {None},
         \/ procs' = [procs EXCEPT ![p].phase = phase, ![p].view = view]
         \/ view = procs[p].view /\ Enter(p, phase)
         \/ /\ phase = "idle" /\ view = None
            /\ procs' = [procs EXCEPT ![p] = Left(@)]
  PROVE  /\ procs' \in [Processes -> Process]
         /\ procs'[p].phase = phase
         /\ procs'[p].view = view
         /\ procs'[p].report = procs[p].report
         /\ \A q \in Processes \ {p} : procs'[q] = procs[q]
<1> DEFINE x == [phase |-> phase, view |-> view, report |-> procs[p].report]
<1>1. procs[p] \in Process /\ procs \in [Processes -> Process]
  BY DEF ShapeInv
<1>2. procs[p] = [phase |-> procs[p].phase, view |-> procs[p].view, report |-> procs[p].report]
  BY <1>1 DEF Process
<1>3. procs' = [procs EXCEPT ![p] = x]
  BY <1>1, <1>2 DEF Enter, Left, Process
<1>4. x \in Process /\ x.phase = phase /\ x.view = view /\ x.report = procs[p].report
  BY <1>1 DEF Process
<1> HIDE DEF x
<1>5. QED
  BY <1>1, <1>3, <1>4

\* The phases are consistent after a step of p, when the journal keeps what
\* the phases of the others rely on: they are all idle.
LEMMA PhasesKept ==
  ASSUME ShapeInv, PhaseInv, NEW p \in Processes, lock \in {p, None},
         \A q \in Processes \ {p} : procs'[q] = procs[q],
         procs'[p].phase # "idle" <=> lock' = p,
         lock' \in {p, None}, None \notin Processes,
         procs'[p].phase = "written" => journal'.records # <<>> /\ procs'[p].view # None,
         procs'[p].phase = "archived" =>
           procs'[p].report \in archives' /\ Len(journal'.records) < MaxRecords,
         procs'[p].phase = "replaced" => journal'.synced = Len(journal'.records)
  PROVE  PhaseInv'
<1>1. \A q \in Processes \ {p} : procs[q].phase = "idle"
  BY DEF PhaseInv
<1>2. QED
  BY <1>1 DEF PhaseInv

-----------------------------------------------------------------------------
\* The steps that leave the journal alone, one case per action.
LEMMA LockSteps ==
  ASSUME JInv, NEW p \in Processes,
         Acquire(p) \/ Release(p) \/ Crash(p) \/ Verify(p)
           \/ Inspect(p) \/ ArchiveDamage(p) \/ SyncFails(p) \/ RecoveryFails(p)
  PROVE  JInv'
<1> USE JournalAssumption
<1>1. UNCHANGED journal /\ UNCHANGED former /\ UNCHANGED issued /\ UNCHANGED kept
  BY DEF Acquire, Release, Crash, Verify, Inspect, ArchiveDamage, SyncFails, RecoveryFails
<1>2. \A f \in Files' : FileInv(f)'
  BY <1>1, FilesKept
<1>3. ShapeInv /\ PhaseInv /\ procs[p] \in Process
  BY DEF JInv, ShapeInv
<1>4. procs' \in [Processes -> Process] /\ lock' \in Processes \cup {None} /\ PhaseInv'
  <2>1. CASE Acquire(p)
    <3>1. procs' \in [Processes -> Process] /\ procs'[p].phase = "held"
          /\ \A q \in Processes \ {p} : procs'[q] = procs[q]
      BY <1>3, <2>1, ProcessMoved DEF Acquire, Phases, Process
    <3>2. QED
      BY <1>1, <1>3, <2>1, <3>1, PhasesKept DEF Acquire
  <2>2. CASE Release(p) \/ Crash(p)
    <3>1. procs' \in [Processes -> Process] /\ procs'[p].phase = "idle"
          /\ \A q \in Processes \ {p} : procs'[q] = procs[q]
      BY <1>3, <2>2, ProcessMoved DEF Release, Crash, Phases
    <3>2. lock = p /\ lock' = None
      BY <1>3, <2>2 DEF Release, Crash, Holds, PhaseInv
    <3>3. QED
      BY <1>1, <1>3, <3>1, <3>2, PhasesKept
  <2>3. CASE Verify(p)
    <3>1. procs' = [procs EXCEPT ![p].view = journal.records] /\ journal.records \in Lines
      BY <2>3 DEF Verify, JInv, ShapeInv, JournalFile, Lines
    <3>2. procs' \in [Processes -> Process] /\ procs'[p].phase = "held"
          /\ \A q \in Processes \ {p} : procs'[q] = procs[q]
      BY <1>3, <2>3, <3>1 DEF Verify, Holds, ShapeInv, Process
    <3>3. QED
      BY <1>1, <1>3, <2>3, <3>2, PhasesKept DEF Verify, Holds
  <2>4. CASE Inspect(p)
    <3>1. Content \in Report
      BY DEF Content, Report, Lines, JInv, ShapeInv, JournalFile
    <3>2. /\ procs' \in [Processes -> Process]
          /\ \A q \in Processes \ {p} : procs'[q] = procs[q]
          /\ procs'[p].phase = "idle" /\ procs'[p].view = procs[p].view
      BY <1>3, <2>4, <3>1 DEF Inspect, ShapeInv, Process
    <3>3. lock' = lock /\ lock # p /\ procs[p].phase = "idle"
      BY <1>3, <2>4 DEF Inspect, PhaseInv
    <3>4. \A q \in Processes : /\ procs'[q].phase = procs[q].phase
                               /\ procs'[q].view = procs[q].view
      BY <3>2, <3>3
    <3>5. \A q \in Processes : procs[q].phase = "archived" => procs'[q].report = procs[q].report
      BY <3>2, <3>3
    <3>6. archives' = archives
      BY <2>4 DEF Inspect
    <3>7. PhaseInv'
      BY <1>1, <1>3, <3>3, <3>4, <3>5, <3>6 DEF PhaseInv
    <3>8. QED
      BY <1>3, <3>2, <3>3, <3>7 DEF ShapeInv
  <2>5. CASE ArchiveDamage(p)
    <3>1. procs' \in [Processes -> Process] /\ procs'[p].phase = "archived"
          /\ procs'[p].report = procs[p].report
          /\ \A q \in Processes \ {p} : procs'[q] = procs[q]
      <4>1. Enter(p, "archived") /\ procs[p].view \in Lines \cup {None} /\ "archived" \in Phases
        BY <1>3, <2>5 DEF ArchiveDamage, Phases, Process
      <4>2. QED
        BY <1>3, <4>1, ProcessMoved
    <3>2. procs[p].report \in archives' /\ Len(journal.records) < MaxRecords
      BY <2>5 DEF ArchiveDamage, ReportConfirmed
    <3>3. QED
      BY <1>1, <1>3, <2>5, <3>1, <3>2, PhasesKept DEF ArchiveDamage, Holds
  <2>6. CASE SyncFails(p) \/ RecoveryFails(p)
    <3>1. procs' \in [Processes -> Process] /\ procs'[p].phase = "held"
          /\ \A q \in Processes \ {p} : procs'[q] = procs[q]
      <4>1. /\ Enter(p, "held") /\ procs[p].view \in Lines \cup {None}
            /\ "held" \in Phases
        BY <1>3, <2>6 DEF SyncFails, RecoveryFails, Phases, Process
      <4>2. QED
        BY <1>3, <4>1, ProcessMoved
    <3>2. lock = p /\ lock' = p
      BY <2>6 DEF SyncFails, RecoveryFails, Holds
    <3>3. QED
      BY <1>1, <1>3, <3>1, <3>2, PhasesKept
  <2>7. QED
    BY <2>1, <2>2, <2>3, <2>4, <2>5, <2>6
<1>5. QED
  BY <1>1, <1>2, <1>3, <1>4 DEF JInv, ShapeInv

-----------------------------------------------------------------------------
\* A file of the journal has typed fields.
LEMMA FileTypes ==
  ASSUME JInv, NEW f \in Files
  PROVE  /\ f \in JournalFile
         /\ f = [records |-> f.records, tail |-> f.tail, synced |-> f.synced]
         /\ f.records \in Lines /\ Len(f.records) \in Nat
         /\ f.tail \in 0..MaxIds /\ f.synced \in Nat
         /\ FileInv(f)
         /\ DOMAIN f.records = 1..Len(f.records)
         /\ \A i \in DOMAIN f.records : f.records[i].id \in 0..MaxIds
<1>1. f \in JournalFile /\ FileInv(f)
  BY DEF JInv, ShapeInv, Files
<1>2. f.records \in Lines /\ Len(f.records) \in Nat /\ DOMAIN f.records = 1..Len(f.records)
  BY <1>1 DEF JournalFile, Lines
<1>3. \A i \in DOMAIN f.records : f.records[i].id \in 0..MaxIds
  BY <1>2, JournalAssumption DEF Lines, Record, Garbled, Ids
<1>4. QED
  BY <1>1, <1>2, <1>3 DEF JournalFile

\* The journal's records are untouched; its tail and synced length move on.
LEMMA FilesTouched ==
  ASSUME JInv, NEW t \in 0..MaxIds, NEW n \in Nat,
         journal' = [records |-> journal.records, tail |-> t, synced |-> n],
         former' \subseteq former, issued' \in Nat, issued <= issued', t <= issued',
         n <= Len(journal.records), kept' \in Nat, kept' <= n,
         kept' = kept \/ former' = {}
  PROVE  /\ \A f \in Files' : FileInv(f)'
         /\ journal' \in JournalFile /\ former' \subseteq JournalFile
         /\ journal'.records = journal.records /\ journal'.synced = n
<1>1. /\ journal \in Files /\ issued \in Nat
      /\ journal.records \in Lines
      /\ FileInv(journal)
      /\ \A i \in DOMAIN journal.records : journal.records[i].id \in Nat
      /\ Len(journal.records) \in Nat
  BY FileTypes, JournalAssumption DEF Files, JInv, ShapeInv
<1>2. journal'.records = journal.records /\ journal'.tail = t /\ journal'.synced = n
  OBVIOUS
<1>3. [records |-> journal.records, tail |-> t, synced |-> n] \in JournalFile
  BY <1>1 DEF JournalFile, Lines
<1>4. ASSUME NEW f \in Files
      PROVE  \A i \in DOMAIN f.records : f.records[i].id <= issued'
  <2>1. \A i \in DOMAIN f.records : f.records[i].id \in Nat /\ f.records[i].id <= issued
    BY FileTypes DEF FileInv
  <2>2. QED
    BY <1>1, <2>1
<1>5. FileInv(journal)'
  <2>1. Chained(journal.records) /\ journal.records = SubSeq(journal.records, 1, Len(journal.records))
    BY <1>1 DEF FileInv
  <2>2. \A i \in DOMAIN journal.records : journal.records[i].id <= issued'
    BY <1>1, <1>4
  <2>3. n <= Len(journal.records) /\ kept' <= n /\ t <= issued'
        /\ Len(journal.records) <= Len(journal.records)
    BY <1>1
  <2>4. QED
    BY <1>2, <2>1, <2>2, <2>3 DEF FileInv
<1>6. ASSUME NEW f \in former'
      PROVE  FileInv(f)'
  <2>1. f \in Files /\ kept' = kept
    BY DEF Files
  <2>2. FileInv(f) /\ f.tail \in Nat
    BY <2>1, FileTypes
  <2>3. f.tail <= issued'
    BY <1>1, <2>2 DEF FileInv
  <2>4. QED
    BY <1>2, <1>4, <2>1, <2>2, <2>3 DEF FileInv
<1>7. QED
  BY <1>2, <1>3, <1>5, <1>6 DEF Files, JInv, ShapeInv

\* A record is written.
LEMMA WriteRecordStep ==
  ASSUME JInv, NEW p \in Processes, WriteRecord(p)
  PROVE  JInv'
<1> DEFINE s == journal.records
<1>1. /\ journal \in Files /\ journal.synced \in Nat /\ kept \in Nat
      /\ FileInv(journal) /\ Len(s) \in Nat
      /\ journal = [records |-> s, tail |-> journal.tail, synced |-> journal.synced]
  BY FileTypes DEF Files, JInv, ShapeInv
<1>2. procs[p].view = s /\ journal.tail = 0 /\ Len(s) < MaxRecords
  BY DEF WriteRecord, ViewCurrent, RoomForRecord
<1>3. PICK id \in Ids :
        /\ Draw(id)
        /\ journal' = [journal EXCEPT
             !.records = Append(@, IF journal.tail # 0 THEN Garbled
                                   ELSE NextRecord(procs[p].view, id, 0)),
             !.tail = 0]
  BY DEF WriteRecord
<1>4. journal' = [records |-> Append(s, NextRecord(s, id, 0)), tail |-> 0,
                  synced |-> journal.synced]
  BY <1>1, <1>2, <1>3
<1>5. 0 \in 0..MaxIds /\ former' \subseteq former \cup {journal} /\ kept' = kept
      /\ kept <= journal.synced /\ journal.synced <= Len(s) + 1
  BY <1>1, JournalAssumption DEF WriteRecord, FileInv
<1>6. /\ \A f \in Files' : FileInv(f)'
      /\ journal' \in JournalFile /\ former' \subseteq JournalFile
      /\ journal'.records # <<>>
  BY <1>1, <1>2, <1>3, <1>4, <1>5, FilesExtended
<1>7. procs' \in [Processes -> Process] /\ procs'[p].phase = "written"
      /\ procs'[p].view # None
      /\ \A q \in Processes \ {p} : procs'[q] = procs[q]
  <2>1. /\ Enter(p, "written") /\ procs[p].view \in Lines \cup {None} /\ ShapeInv
        /\ procs[p].view # None
    BY DEF WriteRecord, ViewCurrent, JInv, ShapeInv, Process
  <2>2. "written" \in Phases
    BY DEF Phases
  <2>3. QED
    BY <2>1, <2>2, ProcessMoved
<1>8. PhaseInv'
  BY <1>6, <1>7, PhasesKept, JournalAssumption DEF WriteRecord, Holds, JInv
<1>9. issued' \in 0..MaxIds /\ UNCHANGED lock
  BY <1>3 DEF Draw, Ids, WriteRecord
<1>10. QED
  BY <1>5, <1>6, <1>7, <1>8, <1>9 DEF JInv, ShapeInv

\* A write stops half-way.
LEMMA WriteTornStep ==
  ASSUME JInv, NEW p \in Processes, WriteTorn(p)
  PROVE  JInv'
<1>1. /\ journal \in Files /\ journal.synced \in Nat /\ kept \in Nat
      /\ FileInv(journal) /\ Len(journal.records) \in Nat /\ issued \in Nat
      /\ journal = [records |-> journal.records, tail |-> journal.tail, synced |-> journal.synced]
  BY FileTypes, JournalAssumption DEF Files, JInv, ShapeInv
<1>2. PICK id \in Ids : Draw(id) /\ journal' = [journal EXCEPT !.tail = id]
  BY DEF WriteTorn
<1>3. journal' = [records |-> journal.records, tail |-> id, synced |-> journal.synced]
  BY <1>1, <1>2
<1>4. /\ id \in 0..MaxIds /\ issued' \in 0..MaxIds /\ issued <= issued' /\ id <= issued'
      /\ issued' \in Nat
  BY <1>1, <1>2, JournalAssumption DEF Draw, Ids
<1>5. UNCHANGED <<former, lock, procs, archives, kept>>
  BY DEF WriteTorn
<1>6. /\ \A f \in Files' : FileInv(f)'
      /\ journal' \in JournalFile /\ former' \subseteq JournalFile
      /\ journal'.records = journal.records /\ journal'.synced = journal.synced
  BY <1>1, <1>3, <1>4, <1>5, FilesTouched DEF FileInv
<1>7. PhaseInv'
  BY <1>5, <1>6 DEF PhaseInv, JInv
<1>8. QED
  BY <1>4, <1>5, <1>6, <1>7 DEF JInv, ShapeInv

\* A written record is synced and reported.
LEMMA SyncRecordStep ==
  ASSUME JInv, NEW p \in Processes, SyncRecord(p)
  PROVE  JInv'
<1> DEFINE n == Len(journal.records)
<1>1. /\ journal \in Files /\ kept \in Nat /\ issued \in 0..MaxIds
      /\ FileInv(journal) /\ n \in Nat /\ journal.records \in Lines
      /\ journal = [records |-> journal.records, tail |-> journal.tail, synced |-> journal.synced]
      /\ journal.tail \in 0..MaxIds /\ journal.synced \in Nat
      /\ DOMAIN journal.records = 1..n
  BY FileTypes DEF Files, JInv, ShapeInv
<1>2. /\ journal' = [records |-> journal.records, tail |-> journal.tail, synced |-> n]
      /\ UNCHANGED <<former, lock, archives, issued>>
      /\ kept' = IF former = {} THEN n ELSE kept
  BY <1>1 DEF SyncRecord, Synced
<1>3. /\ kept' \in Nat /\ kept' <= n /\ (kept' = kept \/ former' = {})
      /\ issued' \in Nat /\ issued <= issued' /\ journal.tail <= issued' /\ n <= n
      /\ former' \subseteq former
  BY <1>1, <1>2, JournalAssumption DEF FileInv
<1>4. /\ \A f \in Files' : FileInv(f)'
      /\ journal' \in JournalFile /\ former' \subseteq JournalFile
      /\ journal'.records = journal.records
  BY <1>1, <1>2, <1>3, FilesTouched
<1>5. procs' \in [Processes -> Process] /\ procs'[p].phase = "held"
      /\ \A q \in Processes \ {p} : procs'[q] = procs[q]
  <2>1. journal.records[n] \in Record \cup {Garbled}
    BY <1>1 DEF SyncRecord, Holds, JInv, PhaseInv, Lines
  <2>2. procs[p] \in Process /\ ShapeInv /\ "held" \in Phases
    BY DEF JInv, ShapeInv, Phases
  <2>3. CASE procs[p].view \in Lines
    <3>1. Append(procs[p].view, journal.records[n]) \in Lines
      BY <2>1, <2>3 DEF Lines
    <3>2. QED
      BY <2>2, <3>1, ProcessMoved DEF SyncRecord
  <2>4. QED
    BY <2>2, <2>3 DEF Process, JInv, PhaseInv, SyncRecord, Holds
<1>6. PhaseInv'
  BY <1>2, <1>5, PhasesKept, JournalAssumption DEF SyncRecord, Holds, JInv
<1>7. QED
  BY <1>1, <1>2, <1>3, <1>4, <1>5, <1>6 DEF JInv, ShapeInv

\* The recovered journal takes the path.
LEMMA ReplaceStep ==
  ASSUME JInv, NEW p \in Processes, ReplaceJournal(p)
  PROVE  JInv'
<1> DEFINE s == journal.records
<1>1. /\ journal \in Files /\ kept \in Nat /\ FileInv(journal) /\ Len(s) \in Nat
      /\ journal.tail \in 0..MaxIds /\ journal.synced \in Nat
  BY FileTypes DEF Files, JInv, ShapeInv
<1>2. Len(s) < MaxRecords
  BY DEF ReplaceJournal, Holds, JInv, PhaseInv
<1>3. PICK id \in Ids :
        /\ Draw(id)
        /\ journal' = [records |-> Append(s, NextRecord(s, id, journal.tail)),
                       tail |-> 0, synced |-> Len(s) + 1]
  BY DEF ReplaceJournal
<1>4. /\ Len(s) + 1 \in Nat /\ kept <= Len(s) + 1 /\ Len(s) + 1 <= Len(s) + 1
      /\ former' \subseteq former \cup {journal} /\ kept' = kept /\ lock' = lock
  BY <1>1 DEF ReplaceJournal, FileInv
<1>5. /\ \A f \in Files' : FileInv(f)'
      /\ journal' \in JournalFile /\ former' \subseteq JournalFile
      /\ journal'.synced = Len(journal'.records)
  BY <1>1, <1>2, <1>3, <1>4, FilesExtended
<1>6. procs' \in [Processes -> Process] /\ procs'[p].phase = "replaced"
      /\ \A q \in Processes \ {p} : procs'[q] = procs[q]
  <2>1. ShapeInv /\ "replaced" \in Phases
        /\ procs' = [procs EXCEPT ![p].phase = "replaced", ![p].view = None]
    BY DEF JInv, Phases, ReplaceJournal
  <2>2. QED
    BY <2>1, ProcessMoved
<1>7. PhaseInv'
  BY <1>4, <1>5, <1>6, PhasesKept, JournalAssumption DEF ReplaceJournal, Holds, JInv
<1>8. issued' \in 0..MaxIds
  BY <1>3 DEF Draw, Ids
<1>9. QED
  BY <1>4, <1>5, <1>6, <1>7, <1>8 DEF JInv, ShapeInv

\* The directory is synced: only the new journal can survive.
LEMMA SyncDirectoryStep ==
  ASSUME JInv, NEW p \in Processes, SyncDirectory(p)
  PROVE  JInv'
<1> DEFINE n == Len(journal.records)
<1>1. /\ journal \in Files /\ issued \in 0..MaxIds
      /\ FileInv(journal) /\ n \in Nat
      /\ journal = [records |-> journal.records, tail |-> journal.tail, synced |-> journal.synced]
      /\ journal.tail \in 0..MaxIds
  BY FileTypes DEF Files, JInv, ShapeInv
<1>2. /\ journal.synced = n /\ lock' = lock
      /\ UNCHANGED <<journal, lock, archives, issued>>
      /\ former' = {} /\ kept' = n
  BY DEF SyncDirectory, Holds, JInv, PhaseInv
<1>3. journal' = [records |-> journal.records, tail |-> journal.tail, synced |-> n]
  BY <1>1, <1>2
<1>4. /\ kept' \in Nat /\ kept' <= n /\ issued' \in Nat /\ issued <= issued'
      /\ journal.tail <= issued' /\ former' \subseteq former /\ n <= n
  BY <1>1, <1>2, JournalAssumption DEF FileInv
<1>5. /\ \A f \in Files' : FileInv(f)'
      /\ journal' \in JournalFile /\ former' \subseteq JournalFile
  BY <1>1, <1>2, <1>3, <1>4, FilesTouched
<1>6. procs' \in [Processes -> Process] /\ procs'[p].phase = "held"
      /\ \A q \in Processes \ {p} : procs'[q] = procs[q]
  <2>1. /\ ShapeInv /\ "held" \in Phases /\ procs[p].view \in Lines \cup {None}
        /\ Enter(p, "held")
    BY DEF JInv, ShapeInv, Phases, SyncDirectory, Process
  <2>2. QED
    BY <2>1, ProcessMoved
<1>7. PhaseInv'
  BY <1>2, <1>6, PhasesKept, JournalAssumption DEF SyncDirectory, Holds, JInv
<1>8. QED
  BY <1>1, <1>2, <1>4, <1>5, <1>6, <1>7 DEF JInv, ShapeInv

\* What survives a host crash is a prefix of the journal with all promises.
LEMMA SurvivorIsPrefix ==
  ASSUME JInv, NEW f \in Files, NEW g \in Survivors(f)
  PROVE  /\ g \in JournalFile
         /\ Chained(g.records)
         /\ g.tail <= issued
         /\ \A i \in DOMAIN g.records : g.records[i].id <= issued
         /\ g.synced = Len(g.records)
         /\ Len(g.records) \in kept..Len(journal.records)
         /\ g.records = SubSeq(journal.records, 1, Len(g.records))
<1> DEFINE s == f.records
           j == journal.records
<1>1. /\ s \in Lines /\ Len(s) \in Nat /\ Chained(s) /\ DOMAIN s = 1..Len(s)
      /\ f.tail \in 0..MaxIds /\ f.tail <= issued /\ f.synced \in Nat
      /\ kept <= f.synced /\ f.synced <= Len(s) /\ Len(s) <= Len(j)
      /\ s = SubSeq(j, 1, Len(s))
      /\ \A i \in DOMAIN s : s[i].id \in 0..MaxIds /\ s[i].id <= issued
      /\ kept \in Nat /\ issued \in 0..MaxIds
  BY FileTypes DEF FileInv, JInv, ShapeInv
<1>2. j \in Lines /\ Len(j) \in Nat
  BY FileTypes DEF Files
<1>3. PICK k \in f.synced..Len(s), t \in 0..MaxIds :
        /\ g = [records |-> SubSeq(s, 1, k), tail |-> t, synced |-> k]
        /\ t <= issued
  <2>1. 0 \in 0..MaxIds /\ 0 <= issued
    BY <1>1, JournalAssumption
  <2>2. CASE \E k \in f.synced..Len(s), t \in {0, f.tail} :
               g = [records |-> SubSeq(s, 1, k), tail |-> t, synced |-> k]
    BY <1>1, <2>1, <2>2
  <2>3. CASE \E k \in f.synced..(Len(s) - 1) :
               g = [records |-> SubSeq(s, 1, k), tail |-> s[k + 1].id, synced |-> k]
    <3>1. PICK k \in f.synced..(Len(s) - 1) :
            g = [records |-> SubSeq(s, 1, k), tail |-> s[k + 1].id, synced |-> k]
      BY <2>3
    <3>2. k \in f.synced..Len(s) /\ k + 1 \in DOMAIN s
      BY <1>1
    <3>3. QED
      BY <1>1, <3>1, <3>2
  <2>4. QED
    BY <2>2, <2>3 DEF Survivors
<1>4. k \in 0..Len(s) /\ k \in Nat /\ kept <= k /\ k <= Len(j)
  BY <1>1, <1>2, JournalAssumption
<1> DEFINE r == SubSeq(s, 1, k)
<1>5. /\ r \in Lines /\ Chained(r) /\ Len(r) = k
      /\ \A i \in 1..k : r[i] = s[i]
      /\ DOMAIN r = 1..k
  BY <1>1, <1>4, ChainPrefix DEF Lines
<1>6. r = SubSeq(j, 1, k)
  BY <1>1, <1>2, <1>4 DEF Lines
<1>7. \A i \in DOMAIN r : r[i].id <= issued
  BY <1>1, <1>4, <1>5
<1> HIDE DEF r
<1>8. g.records = r /\ g.tail = t /\ g.synced = k /\ g \in JournalFile
  <2>1. [records |-> r, tail |-> t, synced |-> k] \in JournalFile
    BY <1>4, <1>5 DEF JournalFile, Lines
  <2>2. g = [records |-> r, tail |-> t, synced |-> k]
    BY <1>3 DEF r
  <2>3. QED
    BY <2>1, <2>2
<1>9. k \in kept..Len(j)
  BY <1>1, <1>2, <1>4
<1>10. QED
  BY <1>3, <1>5, <1>6, <1>7, <1>8, <1>9

\* The host crashes.
LEMMA HostCrashStep ==
  ASSUME JInv, HostCrash
  PROVE  /\ JInv'
         /\ \E k \in kept..Len(journal.records) :
              journal'.records = SubSeq(journal.records, 1, k)
<1>1. PICK f \in Files : journal' \in Survivors(f)
  BY DEF HostCrash, Files
<1>2. /\ journal' \in JournalFile
      /\ Chained(journal'.records)
      /\ journal'.tail <= issued
      /\ \A i \in DOMAIN journal'.records : journal'.records[i].id <= issued
      /\ journal'.synced = Len(journal'.records)
      /\ Len(journal'.records) \in kept..Len(journal.records)
      /\ journal'.records = SubSeq(journal.records, 1, Len(journal'.records))
  BY <1>1, SurvivorIsPrefix
<1>3. former' = {} /\ lock' = None /\ UNCHANGED <<archives, issued, kept>>
  BY DEF HostCrash
<1>4. FileInv(journal)'
  <2>1. journal'.records = SubSeq(journal'.records, 1, Len(journal'.records))
    BY <1>2 DEF JournalFile, Lines
  <2>2. Len(journal'.records) \in Nat /\ kept \in Nat
    BY <1>2 DEF JournalFile, JInv, ShapeInv
  <2>3. QED
    BY <1>2, <1>3, <2>1, <2>2 DEF FileInv
<1>5. /\ procs' \in [Processes -> Process]
      /\ \A p \in Processes : procs'[p].phase = "idle"
  <2>1. ASSUME NEW p \in Processes
        PROVE  Left(procs[p]) \in Process /\ Left(procs[p]).phase = "idle"
    BY DEF Left, JInv, ShapeInv, Process, Phases
  <2>2. procs' = [p \in Processes |-> Left(procs[p])]
    BY DEF HostCrash
  <2>3. QED
    BY <2>1, <2>2
<1>6. PhaseInv'
  BY <1>3, <1>5, JournalAssumption DEF PhaseInv
<1>7. QED
  BY <1>2, <1>3, <1>4, <1>5, <1>6 DEF JInv, ShapeInv, Files

LEMMA JournalStarts == JournalInit => JInv
<1> SUFFICES ASSUME JournalInit PROVE JInv
  OBVIOUS
<1> USE JournalAssumption
<1>1. journal \in JournalFile /\ Len(journal.records) = 0 /\ journal.records = <<>>
      /\ journal.tail = 0 /\ journal.synced = 0
  <2>1. <<>> \in Seq(Record \cup {Garbled}) /\ 0 \in 0..MaxIds /\ Len(<<>>) = 0
    OBVIOUS
  <2>2. journal = [records |-> <<>>, tail |-> 0, synced |-> 0]
    BY DEF JournalInit
  <2>3. QED
    BY <2>1, <2>2 DEF JournalFile
<1>2. ShapeInv
  BY <1>1 DEF JournalInit, ShapeInv, Process, Phases
<1>3. PhaseInv
  BY DEF JournalInit, PhaseInv
<1>4. FileInv(journal)
  <2>1. Chained(<<>>) /\ <<>> = SubSeq(<<>>, 1, 0)
    BY DEF Chained
  <2>2. QED
    BY <1>1, <2>1 DEF FileInv, JournalInit
<1>5. QED
  BY <1>2, <1>3, <1>4 DEF JInv, Files, JournalInit

LEMMA JournalStep == JInv /\ [JournalNext]_journalVars => JInv'
<1> SUFFICES ASSUME JInv, [JournalNext]_journalVars PROVE JInv'
  OBVIOUS
<1>1. ASSUME NEW p \in Processes,
             Acquire(p) \/ Release(p) \/ Crash(p) \/ Verify(p)
               \/ Inspect(p) \/ ArchiveDamage(p) \/ SyncFails(p) \/ RecoveryFails(p)
      PROVE  JInv'
  BY <1>1, LockSteps
<1>2. ASSUME NEW p \in Processes,
             WriteRecord(p) \/ WriteTorn(p) \/ SyncRecord(p)
               \/ ReplaceJournal(p) \/ SyncDirectory(p)
      PROVE  JInv'
  BY <1>2, WriteRecordStep, WriteTornStep, SyncRecordStep, ReplaceStep, SyncDirectoryStep
<1>3. CASE HostCrash
  BY <1>3, HostCrashStep
<1>4. CASE UNCHANGED journalVars
  BY <1>4 DEF journalVars, JInv, ShapeInv, PhaseInv, Files, FileInv
<1>5. QED
  BY <1>1, <1>2, <1>3, <1>4 DEF JournalNext

\* The inductive invariant holds in every reachable state.
THEOREM JournalInvariant == JournalSpec => []JInv
BY JournalStarts, JournalStep, PTL DEF JournalSpec

(***************************************************************************)
(* The journal and every file a host crash may bring back in its place are *)
(* verified chains, whatever failed before: the damage an append can leave *)
(* is a partial last line and nothing else.                                *)
(***************************************************************************)
THEOREM ChainSurvives == JournalSpec => []OnlyTailDamage
<1>1. JInv => OnlyTailDamage
  BY DEF JInv, OnlyTailDamage, Files, FileInv
<1>2. QED
  BY <1>1, JournalInvariant, PTL

\* The state is well typed and the record limit holds, for any limit.
THEOREM JournalTypeCorrect == JournalSpec => []JournalTypeOK
<1>1. JInv => JournalTypeOK
  BY DEF JInv, ShapeInv, PhaseInv, Files, FileInv, Chained, JournalTypeOK, Process
<1>2. QED
  BY <1>1, JournalInvariant, PTL

-----------------------------------------------------------------------------
\* Every step of the journal is a step of the append-only log, or none.
LEMMA LogStep == JInv /\ [JournalNext]_journalVars => [Log!LogNext]_<<journal.records, kept>>
<1> SUFFICES ASSUME JInv, [JournalNext]_journalVars
             PROVE  Log!LogNext \/ (UNCHANGED journal.records /\ UNCHANGED kept)
  OBVIOUS
<1> DEFINE s == journal.records
<1>1. /\ s \in Lines /\ Len(s) \in Nat /\ kept \in Nat /\ kept <= Len(s)
      /\ FileInv(journal) /\ journal \in Files
      /\ \A i \in DOMAIN s : s[i].id <= issued /\ s[i].id \in Nat
      /\ issued \in Nat
  BY FileTypes, JournalAssumption DEF Files, FileInv, JInv, ShapeInv
<1>2. ASSUME NEW p \in Processes, NEW id \in Ids, NEW d \in 0..MaxIds, Draw(id),
             Len(s) < MaxRecords,
             journal'.records = Append(s, NextRecord(s, id, d)), kept' = kept
      PROVE  Log!LogNext
  <2>1. \A i \in DOMAIN s : s[i].id # id
    BY <1>1, <1>2 DEF Draw
  <2>2. /\ Chained(s)
        /\ NextRecord(s, id, d) \in Record
        /\ Len(journal'.records) = Len(s) + 1
        /\ journal'.records[Len(journal'.records)] = NextRecord(s, id, d)
        /\ s = SubSeq(journal'.records, 1, Len(s))
    BY <1>1, <1>2, <2>1, ChainExtends DEF FileInv
  <2>3. kept' \in kept..Len(journal'.records)
    BY <1>1, <1>2, <2>2
  <2>4. QED
    BY <2>2, <2>3 DEF Log!LogNext, Log!Extend, Log!Promise
<1>3. ASSUME NEW p \in Processes, WriteRecord(p)
      PROVE  Log!LogNext
  <2>1. procs[p].view = s /\ journal.tail = 0 /\ Len(s) < MaxRecords /\ kept' = kept
    BY <1>3 DEF WriteRecord, ViewCurrent, RoomForRecord
  <2>2. PICK id \in Ids :
        /\ Draw(id)
        /\ journal' = [journal EXCEPT
             !.records = Append(@, IF journal.tail # 0 THEN Garbled
                                   ELSE NextRecord(procs[p].view, id, 0)),
             !.tail = 0]
    BY <1>3 DEF WriteRecord
  <2>3. journal'.records = Append(s, NextRecord(s, id, 0))
    BY <1>1, <2>1, <2>2, FileTypes
  <2>4. 0 \in 0..MaxIds
    BY JournalAssumption
  <2>5. QED
    BY <1>2, <2>1, <2>2, <2>3, <2>4
<1>4. ASSUME NEW p \in Processes, ReplaceJournal(p)
      PROVE  Log!LogNext
  <2>1. Len(s) < MaxRecords /\ kept' = kept /\ journal.tail \in 0..MaxIds
    BY <1>1, <1>4, FileTypes DEF ReplaceJournal, Holds, JInv, PhaseInv
  <2>2. PICK id \in Ids :
        /\ Draw(id)
        /\ journal' = [records |-> Append(s, NextRecord(s, id, journal.tail)),
                       tail |-> 0, synced |-> Len(s) + 1]
    BY <1>4 DEF ReplaceJournal
  <2>3. QED
    BY <1>2, <2>1, <2>2
<1>5. ASSUME NEW p \in Processes, SyncRecord(p) \/ SyncDirectory(p)
      PROVE  Log!LogNext
  <2>1. journal'.records = s
    BY <1>1, <1>5, FileTypes DEF SyncRecord, Synced, SyncDirectory
  <2>2. kept' \in {kept, Len(s)}
    BY <1>5 DEF SyncRecord, SyncDirectory
  <2>3. QED
    BY <1>1, <2>1, <2>2 DEF Log!LogNext, Log!Promise
<1>6. ASSUME NEW p \in Processes, WriteTorn(p)
      PROVE  UNCHANGED journal.records /\ UNCHANGED kept
  BY <1>1, <1>6, FileTypes DEF WriteTorn
<1>7. CASE HostCrash
  BY <1>7, HostCrashStep DEF HostCrash, Log!LogNext, Log!Lose
<1>8. ASSUME NEW p \in Processes,
             Acquire(p) \/ Release(p) \/ Crash(p) \/ Verify(p)
               \/ Inspect(p) \/ ArchiveDamage(p) \/ SyncFails(p) \/ RecoveryFails(p)
      PROVE  UNCHANGED journal.records /\ UNCHANGED kept
  BY <1>8 DEF Acquire, Release, Crash, Verify, Inspect, ArchiveDamage, SyncFails,
              RecoveryFails
<1>9. CASE UNCHANGED journalVars
  BY <1>9 DEF journalVars
<1>10. QED
  BY <1>3, <1>4, <1>5, <1>6, <1>7, <1>8, <1>9 DEF JournalNext

(***************************************************************************)
(* The journal implements AppendOnlyLog: complete records are only added,  *)
(* at the end; only a host crash removes any, and never one whose append   *)
(* was reported as done.                                                   *)
(***************************************************************************)
THEOREM ImplementsLog == JournalSpec => AppendOnly
<1>1. JournalInit => Log!LogInit
  BY DEF JournalInit, Log!LogInit
<1>2. QED
  BY <1>1, LogStep, JournalInvariant, PTL DEF JournalSpec, AppendOnly, Log!LogSpec

(***************************************************************************)
(* No partial line is discarded without an archive of the whole damaged    *)
(* file and an operator who inspected exactly this file.                   *)
(***************************************************************************)
THEOREM RecoveryIsConfirmed == JournalSpec => RecoveryConfirmed
<1> DEFINE Confirmed ==
      TailDiscarded => /\ Content \in archives
                       /\ \E p \in Processes : lock = p /\ procs[p].report = Content
<1>1. JInv /\ [JournalNext]_journalVars => [Confirmed]_journalVars
  <2> SUFFICES ASSUME JInv, [JournalNext]_journalVars, TailDiscarded
               PROVE  \E p \in Processes : ReplaceJournal(p)
    BY DEF ReplaceJournal, Holds, ReportConfirmed, JInv, PhaseInv
  <2>1. /\ journal \in Files /\ Len(journal.records) \in Nat /\ kept \in Nat
        /\ journal \in JournalFile
    BY FileTypes DEF Files, JInv, ShapeInv
  <2>2. ~HostCrash
    <3>1. SUFFICES ASSUME HostCrash PROVE FALSE
      OBVIOUS
    <3>2. PICK k \in kept..Len(journal.records) :
            journal'.records = SubSeq(journal.records, 1, k)
      BY <3>1, HostCrashStep
    <3>3. Len(journal'.records) = k
      BY <2>1, <3>2 DEF JournalFile
    <3>4. QED
      BY <2>1, <3>3 DEF TailDiscarded
  <2>3. ASSUME NEW p \in Processes, WriteRecord(p) \/ SyncRecord(p) \/ WriteTorn(p)
        PROVE  FALSE
    BY <2>1, <2>3 DEF WriteRecord, ViewCurrent, SyncRecord, Synced, WriteTorn, TailDiscarded,
                      JournalFile, Ids
  <2>4. journal' # journal
    BY DEF TailDiscarded
  <2>5. QED
    BY <2>2, <2>3, <2>4 DEF JournalNext, journalVars, Acquire, Release, Crash, Verify,
         Inspect, ArchiveDamage, SyncFails, RecoveryFails, SyncDirectory
<1>2. QED
  BY <1>1, JournalInvariant, PTL DEF JournalSpec, RecoveryConfirmed, Confirmed
=============================================================================
