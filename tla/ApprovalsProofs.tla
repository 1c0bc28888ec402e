--------------------------- MODULE ApprovalsProofs ---------------------------
(***************************************************************************)
(* Theorems about ProductApprovals: the ledger of approvals replays after  *)
(* every failure, it implements AppendOnlyLog, the evidence of recoveries  *)
(* stays within its limit, and no fragment goes without its evidence, for  *)
(* any paths, fingerprints and limits.                                     *)
(***************************************************************************)
EXTENDS ProductApprovals, FiniteSetTheorems, TLAPS

ShapeInv ==
  /\ ledger \in Ledgers
  /\ ledger.synced <= Len(ledger.records)
  /\ former \subseteq Contents
  /\ command \in Commands
  /\ reports \subseteq Contents
  /\ issued \in 0..MaxIds
  /\ kept \in 0..ledger.synced

\* What is in the ledger replays, and its ids were drawn.
RecordsInv ==
  /\ Replays(ledger.records)
  /\ \A i \in DOMAIN ledger.records : ledger.records[i].id \in 1..issued

\* A crash can only bring back what the ledger still begins with.
FormerInv == \A image \in former : Begins(image.records, ledger.records)

EvidenceInv ==
  /\ evidence \in Seq(Artifact)
  /\ durable \in 0..Len(evidence)
  /\ IsFiniteSet(Manifests)
  /\ Cardinality(Manifests) <= MaxManifests

\* What a recovery has established in each of its phases.
PhaseInv ==
  /\ command.phase \in {"confirmed", "archived", "prepared", "checked"} =>
       command.of = Content /\ Content \in reports
  /\ command.phase \in {"confirmed", "archived"} => RoomForManifest(command.of)
  /\ command.phase = "checked" =>
       durable = Len(evidence) /\ Archived(Content) /\ ManifestsOf(Content) # {}

AInv == ShapeInv /\ RecordsInv /\ FormerInv /\ EvidenceInv /\ PhaseInv

-----------------------------------------------------------------------------
\* Which approvals are active after n records is decided by those records.
LEMMA ActiveLocal ==
  ASSUME NEW s \in Seq(Record), NEW t \in Seq(Record), NEW n \in Nat,
         n <= Len(s), n <= Len(t), \A i \in 1..n : s[i] = t[i],
         NEW j
  PROVE  ActiveAt(s, n, j) <=> ActiveAt(t, n, j)
BY DEF ActiveAt

\* The record at i may follow those before it: Consistent, record by record.
Follows(s, i) ==
  IF s[i].event = "approved"
  THEN ~\E j \in 1..(i - 1) : ActiveAt(s, i - 1, j) /\ s[j].path = s[i].path
  ELSE \E j \in 1..(i - 1) :
         /\ ActiveAt(s, i - 1, j) /\ Revokes(s[i], s[j])
         /\ s[j].path = s[i].path /\ s[j].fingerprint = s[i].fingerprint

LEMMA FollowsLocal ==
  ASSUME NEW s \in Seq(Record), NEW t \in Seq(Record), NEW i \in Nat \ {0},
         i <= Len(s), i <= Len(t), \A j \in 1..i : s[j] = t[j]
  PROVE  Follows(s, i) <=> Follows(t, i)
<1>1. \A j : ActiveAt(s, i - 1, j) <=> ActiveAt(t, i - 1, j)
  BY ActiveLocal
<1>2. s[i] = t[i] /\ \A j \in 1..(i - 1) : s[j] = t[j]
  OBVIOUS
<1>3. QED
  BY <1>1, <1>2 DEF Follows, Revokes

\* The beginning of a ledger that replays, replays.
LEMMA ReplaysPrefix ==
  ASSUME NEW s \in Seq(Record), Replays(s), NEW k \in 0..Len(s)
  PROVE  LET t == SubSeq(s, 1, k) IN
           /\ t \in Seq(Record) /\ Len(t) = k /\ DOMAIN t = 1..k
           /\ \A i \in 1..k : t[i] = s[i]
           /\ Replays(t)
<1> DEFINE t == SubSeq(s, 1, k)
<1>1. /\ t \in Seq(Record) /\ Len(t) = k /\ DOMAIN t = 1..k
      /\ \A i \in 1..k : t[i] = s[i]
      /\ DOMAIN s = 1..Len(s) /\ k \in Nat /\ Len(s) \in Nat /\ k <= Len(s)
  OBVIOUS
<1> HIDE DEF t
<1>2. Chained(t)
  <2>1. \A i \in 1..k : IdAt(t, i - 1) = IdAt(s, i - 1)
    BY <1>1 DEF IdAt
  <2>2. QED
    BY <1>1, <2>1, LedgerAssumption DEF Replays, Chained
<1>3. Consistent(t)
  <2>1. \A i \in 1..k : Follows(s, i)
    <3>1. Consistent(s) /\ \A i \in 1..k : i \in DOMAIN s
      BY <1>1 DEF Replays
    <3>2. QED
      BY <3>1 DEF Consistent, Follows
  <2>2. \A i \in 1..k : Follows(t, i)
    BY <1>1, <2>1, FollowsLocal
  <2>3. QED
    BY <1>1, <2>2 DEF Consistent, Follows
<1>4. QED
  BY <1>1, <1>2, <1>3 DEF t, Replays

\* A new record that approves what has no approval, or ends an active one.
LEMMA ReplaysExtended ==
  ASSUME NEW s \in Seq(Record), Replays(s), Len(s) < MaxRecords,
         NEW id \in Nat \ {0}, \A i \in DOMAIN s : s[i].id # id,
         NEW r,
         \/ \E path \in Paths, fingerprint \in Fingerprints :
              NoneActive(s, path) /\ r = Approval(s, id, path, fingerprint)
         \/ \E i \in Active(s) : r = Revocation(s, id, i)
  PROVE  LET t == Append(s, r) IN
           /\ r \in Record /\ r.id = id
           /\ t \in Seq(Record) /\ Len(t) = Len(s) + 1
           /\ DOMAIN t = 1..(Len(s) + 1)
           /\ t[Len(s) + 1] = r
           /\ \A i \in DOMAIN s : t[i] = s[i]
           /\ s = SubSeq(t, 1, Len(s))
           /\ Replays(t)
<1> DEFINE t == Append(s, r)
           n == Len(s)
<1>1. n \in Nat /\ DOMAIN s = 1..n /\ \A i \in 1..n : s[i] \in Record
  OBVIOUS
<1>2. IdAt(s, n) \in Nat
  <2>1. n # 0 => s[n] \in Record
    BY <1>1
  <2>2. QED
    BY <2>1 DEF IdAt, Record
<1>3. /\ r \in Record /\ r.id = id /\ r.previous = IdAt(s, n)
  BY <1>1, <1>2 DEF Approval, Revocation, Record, Active, ActiveAt
<1>4. /\ t \in Seq(Record) /\ Len(t) = n + 1 /\ DOMAIN t = 1..(n + 1)
      /\ t[n + 1] = r /\ \A i \in 1..n : t[i] = s[i]
  BY <1>1, <1>3
<1>5. s = SubSeq(t, 1, n)
  BY <1>1, <1>3
<1> HIDE DEF t
<1>6. Chained(t)
  <2>1. ASSUME NEW i \in 1..(n + 1)
        PROVE  /\ t[i].previous = IdAt(t, i - 1)
               /\ \A j \in 1..(i - 1) : t[j].id # t[i].id
    <3>1. IdAt(t, i - 1) = IdAt(s, i - 1)
      BY <1>1, <1>4 DEF IdAt
    <3>2. CASE i = n + 1
      BY <1>1, <1>3, <1>4, <3>1, <3>2
    <3>3. CASE i \in 1..n
      BY <1>1, <1>4, <3>1, <3>3 DEF Replays, Chained
    <3>4. QED
      BY <1>1, <3>2, <3>3
  <2>2. Len(t) <= MaxRecords
    BY <1>1, <1>4, LedgerAssumption
  <2>3. QED
    BY <1>4, <2>1, <2>2 DEF Chained
<1>7. Consistent(t)
  <2>1. \A i \in 1..n : Follows(t, i)
    <3>1. \A i \in 1..n : Follows(s, i)
      <4>1. Consistent(s)
        BY DEF Replays
      <4>2. QED
        BY <1>1, <4>1 DEF Consistent, Follows
    <3>2. QED
      BY <1>1, <1>4, <3>1, FollowsLocal
  <2>2. IF r.event = "approved"
        THEN ~\E j \in 1..n : ActiveAt(s, n, j) /\ s[j].path = r.path
        ELSE \E j \in 1..n :
               /\ ActiveAt(s, n, j) /\ Revokes(r, s[j])
               /\ s[j].path = r.path /\ s[j].fingerprint = r.fingerprint
    <3>1. ASSUME NEW path \in Paths, NEW fingerprint \in Fingerprints,
                 NoneActive(s, path), r = Approval(s, id, path, fingerprint)
          PROVE  /\ r.event = "approved"
                 /\ ~\E j \in 1..n : ActiveAt(s, n, j) /\ s[j].path = r.path
      BY <1>1, <3>1 DEF NoneActive, Active, Approval
    <3>2. ASSUME NEW i \in Active(s), r = Revocation(s, id, i)
          PROVE  /\ r.event # "approved"
                 /\ ActiveAt(s, n, i) /\ i \in 1..n /\ Revokes(r, s[i])
                 /\ s[i].path = r.path /\ s[i].fingerprint = r.fingerprint
      BY <1>1, <3>2 DEF Active, Revocation, Revokes
    <3>3. QED
      BY <3>1, <3>2
  <2>3. \A j \in 1..n : ActiveAt(t, n, j) <=> ActiveAt(s, n, j)
    <3>1. n <= Len(s) /\ n <= Len(t) /\ \A i \in 1..n : s[i] = t[i]
      BY <1>1, <1>4
    <3>2. QED
      BY <1>1, <1>4, <3>1, ActiveLocal
  <2>4. Follows(t, n + 1)
    <3>1. (n + 1) - 1 = n
      BY <1>1
    <3>2. QED
      BY <1>4, <2>2, <2>3, <3>1 DEF Follows, Revokes
  <2>5. \A i \in 1..(n + 1) : i \in 1..n \/ i = n + 1
    BY <1>1
  <2>6. QED
    BY <1>4, <2>1, <2>4, <2>5 DEF Consistent, Follows
<1>8. QED
  BY <1>1, <1>3, <1>4, <1>5, <1>6, <1>7 DEF t, Replays

-----------------------------------------------------------------------------
\* The fields of the ledger and of the command, with their types.
LEMMA Fields ==
  ASSUME AInv
  PROVE  /\ ledger = [records |-> ledger.records, tail |-> ledger.tail, synced |-> ledger.synced]
         /\ ledger.records \in Seq(Record) /\ Len(ledger.records) \in Nat
         /\ DOMAIN ledger.records = 1..Len(ledger.records)
         /\ ledger.tail \in 0..MaxIds /\ ledger.synced \in Nat
         /\ issued \in Nat /\ kept \in Nat /\ kept <= ledger.synced
         /\ Content \in Contents
         /\ Content.records = ledger.records /\ Content.tail = ledger.tail
         /\ Idle \in Commands /\ Idle.phase = "idle"
<1>1. ledger \in Ledgers /\ kept \in 0..ledger.synced /\ issued \in 0..MaxIds
  BY DEF AInv, ShapeInv
<1>2. QED
  BY <1>1, ApprovalsAssumption DEF Ledgers, Content, Contents, Idle, Commands, Phases

\* A command goes on to another phase.
LEMMA Entered ==
  ASSUME AInv, NEW phase \in Phases, Enter(phase)
  PROVE  /\ command' \in Commands
         /\ command'.phase = phase /\ command'.of = command.of
         /\ command'.context = command.context
BY DEF AInv, ShapeInv, Commands, Enter

\* The records stay as they are.
LEMMA RecordsKept ==
  ASSUME AInv, ledger'.records = ledger.records, issued' \in Nat, issued <= issued',
         former' \subseteq former \cup {Content}
  PROVE  RecordsInv' /\ FormerInv'
<1>1. RecordsInv'
  <2>1. \A i \in DOMAIN ledger.records : ledger.records[i].id \in 1..issued'
    BY Fields DEF AInv, RecordsInv
  <2>2. QED
    BY <2>1 DEF AInv, RecordsInv
<1>2. Begins(ledger.records, ledger.records)
  BY Fields DEF Begins
<1>3. FormerInv'
  BY <1>2, Fields DEF AInv, FormerInv
<1>4. QED
  BY <1>1, <1>3

LEMMA EvidenceKept ==
  ASSUME AInv, UNCHANGED evidence, UNCHANGED durable
  PROVE  EvidenceInv' /\ Manifests' = Manifests
BY DEF AInv, EvidenceInv, Manifests, Published

\* The phases up to the truncation rely on the content and the evidence.
Recovering == {"confirmed", "archived", "prepared", "checked"}

LEMMA NotRecovering ==
  ASSUME command'.phase \notin Recovering
  PROVE  PhaseInv'
BY DEF PhaseInv, Recovering

-----------------------------------------------------------------------------
\* A record is written at the end of a complete ledger.
LEMMA RecordWritten ==
  ASSUME AInv, WriteRecord
  PROVE  /\ AInv'
         /\ Len(ledger'.records) = Len(ledger.records) + 1
         /\ SubSeq(ledger'.records, 1, Len(ledger.records)) = ledger.records
         /\ ledger'.records[Len(ledger'.records)] \in Record
         /\ kept' = kept
<1> DEFINE s == ledger.records
<1>1. PICK id \in Ids : Draw(id) /\ \E r \in Proposed(id) :
        ledger' = [ledger EXCEPT !.records = Append(@, r)]
  BY DEF WriteRecord
<1>2. PICK r \in Proposed(id) : ledger' = [ledger EXCEPT !.records = Append(@, r)]
  BY <1>1
<1>3. /\ id \in Nat \ {0} /\ id = issued + 1 /\ issued' = id /\ id <= MaxIds
      /\ \A i \in DOMAIN s : s[i].id # id
  BY <1>1, Fields, ApprovalsAssumption DEF Ids, Draw, AInv, RecordsInv
<1>4. \/ \E path \in Paths, fingerprint \in Fingerprints :
           NoneActive(s, path) /\ r = Approval(s, id, path, fingerprint)
      \/ \E i \in Active(s) : r = Revocation(s, id, i)
  BY <1>2 DEF Proposed, Approvals, Revocations
<1>5. s \in Seq(Record) /\ Replays(s) /\ Len(s) < MaxRecords
  BY Fields DEF WriteRecord, AInv, RecordsInv
<1> DEFINE t == Append(s, r)
<1>6. /\ r \in Record /\ r.id = id
      /\ t \in Seq(Record) /\ Len(t) = Len(s) + 1
      /\ DOMAIN t = 1..(Len(s) + 1)
      /\ t[Len(s) + 1] = r
      /\ \A i \in DOMAIN s : t[i] = s[i]
      /\ s = SubSeq(t, 1, Len(s))
      /\ Replays(t)
  BY <1>3, <1>4, <1>5, ReplaysExtended
<1>7. ledger' = [records |-> t, tail |-> ledger.tail, synced |-> ledger.synced]
  BY <1>2, Fields
<1> HIDE DEF t
<1>8. ledger'.records = t /\ ledger'.tail = ledger.tail /\ ledger'.synced = ledger.synced
  BY <1>7
<1>9. /\ command' \in Commands /\ command'.phase = "written"
      /\ UNCHANGED <<former, reports, evidence, durable, kept>>
  BY Entered DEF WriteRecord, Phases
<1>10. ShapeInv'
  <2>1. ledger' \in Ledgers
    BY <1>6, <1>7, Fields DEF Ledgers
  <2>2. ledger'.synced <= Len(ledger'.records)
    BY <1>6, <1>8, Fields DEF AInv, ShapeInv
  <2>3. issued' \in 0..MaxIds /\ kept' \in 0..ledger'.synced
    BY <1>3, <1>8, <1>9 DEF AInv, ShapeInv
  <2>4. QED
    BY <1>9, <2>1, <2>2, <2>3 DEF AInv, ShapeInv
<1>11. RecordsInv'
  <2>1. ASSUME NEW i \in DOMAIN t
        PROVE  t[i].id \in 1..issued'
    <3>1. CASE i = Len(s) + 1
      BY <1>3, <1>6, <3>1
    <3>2. CASE i \in DOMAIN s
      <4>1. s[i].id \in 1..issued
        BY <3>2 DEF AInv, RecordsInv
      <4>2. QED
        BY <1>3, <1>6, <3>2, <4>1, Fields
    <3>3. QED
      BY <1>6, <3>1, <3>2, Fields
  <2>2. QED
    BY <1>6, <1>8, <2>1 DEF RecordsInv
<1>12. FormerInv'
  <2>1. ASSUME NEW image \in former
        PROVE  Begins(image.records, t)
    <3>1. /\ image.records \in Seq(Record) /\ Len(image.records) \in Nat
          /\ Len(image.records) <= Len(s)
          /\ SubSeq(s, 1, Len(image.records)) = image.records
      BY <2>1 DEF AInv, ShapeInv, Contents, FormerInv, Begins
    <3>2. SubSeq(t, 1, Len(image.records)) = SubSeq(s, 1, Len(image.records))
      BY <1>5, <1>6, <3>1
    <3>3. QED
      BY <1>6, <3>1, <3>2, Fields DEF Begins
  <2>2. QED
    BY <1>8, <1>9, <2>1 DEF FormerInv
<1>13. EvidenceInv' /\ PhaseInv'
  BY <1>9, EvidenceKept, NotRecovering DEF Recovering
<1>14. QED
  BY <1>6, <1>8, <1>9, <1>10, <1>11, <1>12, <1>13 DEF AInv

\* A write stops half-way.
LEMMA RecordTorn ==
  ASSUME AInv, WriteTorn
  PROVE  AInv' /\ ledger'.records = ledger.records /\ kept' = kept
<1>1. PICK id \in Ids : Draw(id) /\ ledger' = [ledger EXCEPT !.tail = id]
  BY DEF WriteTorn
<1>2. ledger' = [records |-> ledger.records, tail |-> id, synced |-> ledger.synced]
  BY <1>1, Fields
<1>3. ledger'.records = ledger.records /\ ledger'.synced = ledger.synced
  BY <1>2
<1>4. UNCHANGED <<former, command, reports, evidence, durable, kept>> /\ command = Idle
  BY DEF WriteTorn
<1>5. issued' \in 0..MaxIds /\ issued' \in Nat /\ issued <= issued' /\ id \in 0..MaxIds
  BY <1>1, Fields, ApprovalsAssumption DEF Ids, Draw
<1>6. ShapeInv'
  <2>1. ledger' \in Ledgers
    BY <1>2, <1>5, Fields DEF Ledgers
  <2>2. QED
    BY <1>3, <1>4, <1>5, <2>1 DEF AInv, ShapeInv
<1>7. RecordsInv' /\ FormerInv'
  BY <1>3, <1>4, <1>5, RecordsKept
<1>8. EvidenceInv' /\ PhaseInv'
  BY <1>4, Fields, EvidenceKept, NotRecovering DEF Recovering
<1>9. QED
  BY <1>3, <1>4, <1>6, <1>7, <1>8 DEF AInv

\* The file is synced as it is, after an append or a truncation.
LEMMA FileSynced ==
  ASSUME AInv, SyncRecord \/ SyncTruncation
  PROVE  /\ AInv' /\ ledger'.records = ledger.records
         /\ kept' \in {kept, Len(ledger.records)}
<1>1. ledger' = [records |-> ledger.records, tail |-> ledger.tail,
                 synced |-> Len(ledger.records)]
  BY Fields DEF SyncRecord, SyncTruncation, Synced
<1>2. ledger'.records = ledger.records /\ ledger'.synced = Len(ledger.records)
  BY <1>1
<1>3. /\ former' = {} /\ command' = Idle /\ UNCHANGED <<reports, evidence, durable, issued>>
      /\ kept' \in {kept, Len(ledger.records)}
  BY DEF SyncRecord, SyncTruncation
<1>4. ShapeInv'
  <2>1. ledger' \in Ledgers /\ ledger'.synced <= Len(ledger'.records)
    BY <1>1, Fields DEF Ledgers
  <2>2. kept <= Len(ledger.records)
    BY Fields DEF AInv, ShapeInv
  <2>3. kept' \in 0..ledger'.synced
    BY <1>2, <1>3, <2>2, Fields
  <2>4. QED
    BY <1>3, <2>1, <2>3, Fields DEF AInv, ShapeInv
<1>5. RecordsInv' /\ FormerInv'
  BY <1>2, <1>3, Fields, RecordsKept
<1>6. EvidenceInv' /\ PhaseInv'
  BY <1>3, Fields, EvidenceKept, NotRecovering DEF Recovering
<1>7. QED
  BY <1>2, <1>3, <1>4, <1>5, <1>6 DEF AInv

-----------------------------------------------------------------------------
\* A command ends early, an operator inspects, or confirms a recovery.
LEMMA NothingWritten ==
  ASSUME AInv, Abandon \/ Inspect \/ ConfirmRecovery
  PROVE  AInv' /\ ledger' = ledger /\ kept' = kept
<1>1. /\ UNCHANGED <<ledger, former, evidence, durable, issued, kept>>
      /\ reports \subseteq reports'
  BY DEF Abandon, Inspect, ConfirmRecovery
<1>2. RecordsInv' /\ FormerInv' /\ EvidenceInv'
  BY <1>1, Fields, RecordsKept, EvidenceKept
<1>3. command' \in Commands /\ reports' \subseteq Contents /\ PhaseInv'
  <2>1. CASE Abandon
    BY <2>1, Fields, NotRecovering DEF Abandon, Recovering, AInv, ShapeInv
  <2>2. CASE Inspect
    BY <2>2, Fields, NotRecovering DEF Inspect, Recovering, AInv, ShapeInv
  <2>3. CASE ConfirmRecovery
    <3>1. PICK context \in Contexts :
            command' = [phase |-> "confirmed", of |-> Content, context |-> context]
      BY <2>3 DEF ConfirmRecovery
    <3>2. command' \in Commands
      BY <3>1, Fields DEF Commands, Phases
    <3>3. /\ reports' = reports /\ Content \in reports /\ RoomForManifest(Content)
          /\ command'.phase = "confirmed" /\ command'.of = Content
      BY <2>3, <3>1 DEF ConfirmRecovery
    <3>4. RoomForManifest(command.of)'
      BY <1>1, <3>3 DEF RoomForManifest, ManifestsOf, Manifests, Published
    <3>5. Content' = Content
      BY <1>1 DEF Content
    <3>6. PhaseInv'
      BY <3>3, <3>4, <3>5 DEF PhaseInv
    <3>7. QED
      BY <3>2, <3>3, <3>6 DEF AInv, ShapeInv
  <2>4. QED
    BY <2>1, <2>2, <2>3
<1>4. ShapeInv'
  BY <1>1, <1>3 DEF AInv, ShapeInv
<1>5. QED
  BY <1>1, <1>2, <1>3, <1>4 DEF AInv

\* An approval is reported that is there already.
LEMMA AlreadyReported ==
  ASSUME AInv, ReportApproved
  PROVE  AInv' /\ ledger' = ledger /\ kept' \in kept..ledger.synced
<1>1. UNCHANGED <<ledger, former, command, reports, evidence, durable, issued>>
  BY DEF ReportApproved
<1>2. kept' \in kept..ledger.synced /\ ledger.synced \in Nat
  <2>1. PICK i \in Active(ledger.records) :
          kept' = IF i \in kept..ledger.synced THEN i ELSE kept
    BY DEF ReportApproved
  <2>2. ledger.synced \in Nat /\ kept \in Nat /\ kept <= ledger.synced
    BY Fields
  <2>3. QED
    BY <2>1, <2>2
<1>3. kept' \in 0..ledger'.synced
  BY <1>1, <1>2, Fields
<1>4. ShapeInv'
  BY <1>1, <1>3 DEF AInv, ShapeInv
<1>5. RecordsInv' /\ FormerInv' /\ EvidenceInv'
  BY <1>1, Fields, RecordsKept, EvidenceKept
<1>6. PhaseInv'
  BY <1>1 DEF AInv, PhaseInv, Content, Manifests, ManifestsOf, Archived, Published,
              RoomForManifest
<1>7. QED
  BY <1>1, <1>2, <1>4, <1>5, <1>6 DEF AInv

\* An artifact is added to the evidence; it may be known to be on disk.
LEMMA Publishes ==
  ASSUME AInv, NEW a \in Artifact, evidence' = Append(evidence, a),
         durable' \in {durable, Len(evidence')}
  PROVE  /\ evidence' \in Seq(Artifact) /\ durable' \in 0..Len(evidence')
         /\ Published' = Published \cup {a}
         /\ IsFiniteSet(Manifests')
         /\ a.kind # "manifest" => Manifests' = Manifests
         /\ a.kind = "manifest" =>
              Manifests' = Manifests \cup {a}
              /\ Cardinality(Manifests') <= Cardinality(Manifests) + 1
<1>1. evidence \in Seq(Artifact) /\ durable \in 0..Len(evidence) /\ IsFiniteSet(Manifests)
  BY DEF AInv, EvidenceInv
<1>2. /\ evidence' \in Seq(Artifact) /\ Len(evidence') = Len(evidence) + 1
      /\ DOMAIN evidence' = 1..(Len(evidence) + 1) /\ DOMAIN evidence = 1..Len(evidence)
      /\ evidence'[Len(evidence) + 1] = a
      /\ \A i \in 1..Len(evidence) : evidence'[i] = evidence[i]
      /\ Len(evidence) \in Nat
  BY <1>1
<1>3. Published' = Published \cup {a}
  BY <1>2 DEF Published
<1>4. Manifests' = IF a.kind = "manifest" THEN Manifests \cup {a} ELSE Manifests
  BY <1>3 DEF Manifests
<1>5. /\ IsFiniteSet(Manifests \cup {a})
      /\ Cardinality(Manifests \cup {a}) <= Cardinality(Manifests) + 1
  <2>1. Cardinality(Manifests) \in Nat
    BY <1>1, FS_CardinalityType
  <2>2. /\ IsFiniteSet(Manifests \cup {a})
        /\ Cardinality(Manifests \cup {a})
             = IF a \in Manifests THEN Cardinality(Manifests) ELSE Cardinality(Manifests) + 1
    BY <1>1, FS_AddElement
  <2>3. QED
    BY <2>1, <2>2
<1>6. durable' \in 0..Len(evidence')
  BY <1>1, <1>2
<1>7. QED
  BY <1>1, <1>2, <1>3, <1>4, <1>5, <1>6

\* The archive is published, or used as it is.
LEMMA ArchivePublished ==
  ASSUME AInv, PublishArchive
  PROVE  AInv' /\ ledger' = ledger /\ kept' = kept
<1>1. UNCHANGED <<ledger, former, reports, issued, kept>> /\ command.phase = "confirmed"
  BY DEF PublishArchive
<1>2. /\ command.of = Content /\ Content \in reports /\ RoomForManifest(command.of)
      /\ command.of \in Contents
  BY <1>1, Fields DEF AInv, PhaseInv
<1>3. "archived" \in Phases
  BY DEF Phases
<1>4. EvidenceInv' /\ Manifests' = Manifests
  <2>1. CASE UNCHANGED <<evidence, durable>>
    BY <2>1, EvidenceKept
  <2>2. CASE ~UNCHANGED <<evidence, durable>>
    <3>1. DEFINE a == [kind |-> "archive", of |-> command.of, context |-> None]
    <3>2. a \in Artifact /\ a.kind # "manifest"
      BY <1>2 DEF Artifact
    <3>3. evidence' = Append(evidence, a) /\ durable' \in {durable, Len(evidence')}
      BY <2>2 DEF PublishArchive, Publish, Reuse
    <3> HIDE DEF a
    <3>4. QED
      BY <3>2, <3>3, Publishes DEF AInv, EvidenceInv
  <2>3. QED
    BY <2>1, <2>2
<1>5. command' \in Commands
      /\ (command' = Idle \/ (command'.phase = "archived" /\ command'.of = command.of))
  BY <1>3, Entered, Fields DEF PublishArchive, Publish, Reuse
<1>6. Content' = Content
  BY <1>1 DEF Content
<1>7. PhaseInv'
  <2>1. CASE command' = Idle
    BY <2>1, Fields, NotRecovering DEF Recovering
  <2>2. CASE command'.phase = "archived" /\ command'.of = command.of
    BY <1>1, <1>2, <1>4, <1>6, <2>2 DEF PhaseInv, RoomForManifest, ManifestsOf
  <2>3. QED
    BY <1>5, <2>1, <2>2
<1>8. RecordsInv' /\ FormerInv'
  BY <1>1, Fields, RecordsKept
<1>9. ShapeInv'
  BY <1>1, <1>5 DEF AInv, ShapeInv
<1>10. QED
  BY <1>1, <1>4, <1>7, <1>8, <1>9 DEF AInv

\* The manifest is published within its limit, or used as it is.
LEMMA ManifestPublished ==
  ASSUME AInv, PublishManifest
  PROVE  AInv' /\ ledger' = ledger /\ kept' = kept
<1>1. UNCHANGED <<ledger, former, reports, issued, kept>> /\ command.phase = "archived"
  BY DEF PublishManifest
<1>2. /\ command.of = Content /\ Content \in reports /\ RoomForManifest(command.of)
      /\ command.of \in Contents /\ command \in Commands
  BY <1>1, Fields DEF AInv, PhaseInv, ShapeInv
<1>3. "prepared" \in Phases
  BY DEF Phases
<1>4. EvidenceInv'
  <2>1. CASE UNCHANGED <<evidence, durable>>
    BY <2>1, EvidenceKept
  <2>2. CASE ~UNCHANGED <<evidence, durable>>
    <3>1. DEFINE a == [kind |-> "manifest", of |-> command.of, context |-> command.context]
    <3>2. a \in Artifact /\ a.kind = "manifest"
      BY <1>2 DEF Artifact, Commands
    <3>3. /\ evidence' = Append(evidence, a) /\ durable' \in {durable, Len(evidence')}
          /\ ManifestsOf(command.of) = {}
      BY <2>2 DEF PublishManifest, Publish, Reuse
    <3> HIDE DEF a
    <3>4. Cardinality(Manifests) < MaxManifests /\ Cardinality(Manifests) \in Nat
      BY <1>2, <3>3, FS_CardinalityType DEF RoomForManifest, AInv, EvidenceInv
    <3>5. /\ evidence' \in Seq(Artifact) /\ durable' \in 0..Len(evidence')
          /\ IsFiniteSet(Manifests') /\ Cardinality(Manifests') <= Cardinality(Manifests) + 1
      BY <3>2, <3>3, Publishes
    <3>6. Cardinality(Manifests') <= MaxManifests
      BY <3>4, <3>5, FS_CardinalityType, ApprovalsAssumption
    <3>7. QED
      BY <3>5, <3>6 DEF EvidenceInv
  <2>3. QED
    BY <2>1, <2>2
<1>5. command' \in Commands
      /\ (command' = Idle \/ (command'.phase = "prepared" /\ command'.of = command.of))
  BY <1>3, Entered, Fields DEF PublishManifest, Publish, Reuse
<1>6. Content' = Content
  BY <1>1 DEF Content
<1>7. PhaseInv'
  <2>1. CASE command' = Idle
    BY <2>1, Fields, NotRecovering DEF Recovering
  <2>2. CASE command'.phase = "prepared" /\ command'.of = command.of
    BY <1>1, <1>2, <1>6, <2>2 DEF PhaseInv
  <2>3. QED
    BY <1>5, <2>1, <2>2
<1>8. RecordsInv' /\ FormerInv'
  BY <1>1, Fields, RecordsKept
<1>9. ShapeInv'
  BY <1>1, <1>5 DEF AInv, ShapeInv
<1>10. QED
  BY <1>1, <1>4, <1>7, <1>8, <1>9 DEF AInv

\* The evidence is complete and synced.
LEMMA EvidenceChecked ==
  ASSUME AInv, CheckEvidence
  PROVE  AInv' /\ ledger' = ledger /\ kept' = kept
<1>1. /\ UNCHANGED <<ledger, former, reports, evidence, issued, kept>>
      /\ command.phase = "prepared" /\ command.of = Content
      /\ Archived(Content) /\ ManifestsOf(Content) # {} /\ durable' = Len(evidence)
  BY DEF CheckEvidence, EvidenceSynced
<1>2. command' \in Commands /\ command'.phase = "checked" /\ command'.of = command.of
  BY Entered DEF CheckEvidence, Phases
<1>3. /\ Content' = Content /\ Archived(Content)' /\ ManifestsOf(Content)' # {}
      /\ Manifests' = Manifests
  BY <1>1 DEF Content, Archived, ManifestsOf, Manifests, Published
<1>4. Content \in reports /\ evidence \in Seq(Artifact)
  BY <1>1 DEF AInv, PhaseInv, EvidenceInv
<1>5. EvidenceInv'
  BY <1>1, <1>3, <1>4 DEF AInv, EvidenceInv
<1>6. PhaseInv'
  BY <1>1, <1>2, <1>3, <1>4 DEF PhaseInv
<1>7. RecordsInv' /\ FormerInv'
  BY <1>1, Fields, RecordsKept
<1>8. ShapeInv'
  BY <1>1, <1>2 DEF AInv, ShapeInv
<1>9. QED
  BY <1>1, <1>5, <1>6, <1>7, <1>8 DEF AInv

\* The fragment is cut off; until it is synced a crash may bring it back.
LEMMA TailCut ==
  ASSUME AInv, Truncate
  PROVE  AInv' /\ ledger'.records = ledger.records /\ kept' = kept
<1>1. ledger' = [records |-> ledger.records, tail |-> 0, synced |-> ledger.synced]
  BY Fields DEF Truncate
<1>2. ledger'.records = ledger.records /\ ledger'.synced = ledger.synced
  BY <1>1
<1>3. UNCHANGED <<reports, evidence, durable, issued, kept>> /\ former' = former \cup {Content}
  BY DEF Truncate
<1>4. command' \in Commands /\ command'.phase = "truncated"
  BY Entered DEF Truncate, Phases
<1>5. ShapeInv'
  <2>1. ledger' \in Ledgers
    BY <1>1, Fields, ApprovalsAssumption DEF Ledgers
  <2>2. QED
    BY <1>2, <1>3, <1>4, <2>1, Fields DEF AInv, ShapeInv
<1>6. RecordsInv' /\ FormerInv'
  BY <1>2, <1>3, Fields, RecordsKept
<1>7. EvidenceInv' /\ PhaseInv'
  BY <1>3, <1>4, EvidenceKept, NotRecovering DEF Recovering
<1>8. QED
  BY <1>2, <1>3, <1>5, <1>6, <1>7 DEF AInv

-----------------------------------------------------------------------------
\* What a host crash leaves: a beginning of the ledger with what was synced,
\* and the artifacts that reached the disk.
LEMMA HostCrashed ==
  ASSUME AInv, HostCrash
  PROVE  /\ AInv'
         /\ \E k \in kept..Len(ledger.records) :
              ledger'.records = SubSeq(ledger.records, 1, k)
         /\ kept' = kept
<1> DEFINE s == ledger.records
<1>image. PICK image \in {Content} \cup former :
        \E k \in ledger.synced..Len(image.records) : \E tail \in {0, Partial(image, k)} :
          ledger' = [records |-> SubSeq(image.records, 1, k), tail |-> tail, synced |-> k]
  BY DEF HostCrash
<1>length. PICK k \in ledger.synced..Len(image.records) : \E tail \in {0, Partial(image, k)} :
         ledger' = [records |-> SubSeq(image.records, 1, k), tail |-> tail, synced |-> k]
  BY <1>image
<1>1. PICK tail \in {0, Partial(image, k)} :
        ledger' = [records |-> SubSeq(image.records, 1, k), tail |-> tail, synced |-> k]
  BY <1>length
<1>2. /\ image \in Contents /\ image.records \in Seq(Record)
      /\ Len(image.records) \in Nat /\ Len(image.records) <= Len(s)
      /\ SubSeq(s, 1, Len(image.records)) = image.records
  <2>1. image \in Contents
    BY Fields DEF AInv, ShapeInv
  <2>2. Begins(image.records, s)
    <3>1. CASE image = Content
      BY <3>1, Fields DEF Begins
    <3>2. CASE image \in former
      BY <3>2 DEF AInv, FormerInv
    <3>3. QED
      BY <3>1, <3>2
  <2>3. QED
    BY <2>1, <2>2 DEF Begins, Contents
<1>3. /\ k \in Nat /\ k <= Len(image.records) /\ k <= Len(s) /\ k \in 0..Len(s)
      /\ kept <= k /\ kept \in Nat
  BY <1>2, Fields
<1> DEFINE t == SubSeq(s, 1, k)
<1>4. SubSeq(image.records, 1, k) = t
  <2>1. SubSeq(SubSeq(s, 1, Len(image.records)), 1, k) = SubSeq(s, 1, k)
    BY <1>2, <1>3, Fields
  <2>2. QED
    BY <1>2, <2>1
<1>5. /\ t \in Seq(Record) /\ Len(t) = k /\ DOMAIN t = 1..k
      /\ \A i \in 1..k : t[i] = s[i]
      /\ Replays(t)
  BY <1>3, Fields, ReplaysPrefix DEF AInv, RecordsInv
<1>6. tail \in 0..MaxIds
  <2>1. CASE k = Len(image.records)
    BY <1>2, <2>1, ApprovalsAssumption DEF Partial, Contents
  <2>2. CASE k # Len(image.records)
    <3>1. k + 1 \in 1..Len(image.records) /\ k + 1 \in DOMAIN s
      BY <1>2, <1>3, <2>2, Fields
    <3>2. image.records[k + 1] = s[k + 1]
      BY <1>2, <3>1, Fields
    <3>3. s[k + 1].id \in 1..issued /\ issued \in 0..MaxIds
      BY <3>1 DEF AInv, RecordsInv, ShapeInv
    <3>4. QED
      BY <2>2, <3>2, <3>3, ApprovalsAssumption DEF Partial
  <2>3. QED
    BY <2>1, <2>2
<1> HIDE DEF t
<1>7. ledger' = [records |-> t, tail |-> tail, synced |-> k]
  BY <1>1, <1>4
<1>8. ledger'.records = t /\ ledger'.synced = k /\ ledger' \in Ledgers
  BY <1>3, <1>5, <1>6, <1>7 DEF Ledgers
<1>9. former' = {} /\ command' = Idle /\ UNCHANGED <<reports, issued, kept>>
  BY DEF HostCrash
<1>10. ShapeInv'
  BY <1>3, <1>5, <1>8, <1>9, Fields DEF AInv, ShapeInv
<1>11. RecordsInv' /\ FormerInv'
  <2>1. \A i \in DOMAIN t : t[i].id \in 1..issued'
    <3>1. \A i \in 1..k : i \in DOMAIN s
      BY <1>3, Fields
    <3>2. QED
      BY <1>5, <1>9, <3>1 DEF AInv, RecordsInv
  <2>2. QED
    BY <1>5, <1>8, <1>9, <2>1 DEF RecordsInv, FormerInv
<1>12. EvidenceInv'
  <2>1. PICK m \in durable..Len(evidence) : evidence' = SubSeq(evidence, 1, m) /\ durable' = m
    BY DEF HostCrash
  <2>2. /\ evidence \in Seq(Artifact) /\ durable \in 0..Len(evidence)
        /\ IsFiniteSet(Manifests) /\ Cardinality(Manifests) <= MaxManifests
    BY DEF AInv, EvidenceInv
  <2>3. /\ m \in 0..Len(evidence) /\ evidence' \in Seq(Artifact) /\ Len(evidence') = m
        /\ DOMAIN evidence' = 1..m /\ DOMAIN evidence = 1..Len(evidence)
        /\ \A i \in 1..m : evidence'[i] = evidence[i] /\ i \in 1..Len(evidence)
    BY <2>1, <2>2
  <2>4. Manifests' \in SUBSET Manifests
    BY <2>3 DEF Manifests, Published
  <2>5. IsFiniteSet(Manifests') /\ Cardinality(Manifests') <= Cardinality(Manifests)
    BY <2>2, <2>4, FS_Subset
  <2>6. Cardinality(Manifests) \in Nat /\ Cardinality(Manifests') \in Nat
    BY <2>2, <2>5, FS_CardinalityType
  <2>7. Cardinality(Manifests') <= MaxManifests
    BY <2>2, <2>5, <2>6, ApprovalsAssumption
  <2>8. durable' \in 0..Len(evidence')
    BY <2>1, <2>3
  <2>9. QED
    BY <2>3, <2>5, <2>7, <2>8 DEF EvidenceInv
<1>13. PhaseInv'
  BY <1>9, Fields, NotRecovering DEF Recovering
<1>14. k \in kept..Len(s)
  BY <1>3, Fields
<1>15. QED
  BY <1>8, <1>9, <1>10, <1>11, <1>12, <1>13, <1>14 DEF t, AInv

LEMMA ApprovalsStart == ApprovalsInit => AInv
<1> SUFFICES ASSUME ApprovalsInit PROVE AInv
  OBVIOUS
<1> USE ApprovalsAssumption
<1>1. /\ ledger = [records |-> <<>>, tail |-> 0, synced |-> 0]
      /\ former = {} /\ command = Idle /\ reports = {}
      /\ evidence = <<>> /\ durable = 0 /\ issued = 0 /\ kept = 0
  BY DEF ApprovalsInit
<1>2. /\ ledger.records = <<>> /\ ledger.synced = 0 /\ Len(ledger.records) = 0
      /\ ledger \in Ledgers /\ DOMAIN ledger.records = {}
  BY <1>1 DEF Ledgers
<1>3. Idle \in Commands /\ Idle.phase = "idle"
  BY DEF Idle, Commands, Phases
<1>4. ShapeInv
  BY <1>1, <1>2, <1>3 DEF ShapeInv
<1>5. RecordsInv /\ FormerInv
  BY <1>1, <1>2, LedgerAssumption DEF RecordsInv, FormerInv, Replays, Chained, Consistent
<1>6. EvidenceInv
  <2>1. Manifests = {}
    BY <1>1 DEF Manifests, Published
  <2>2. QED
    BY <1>1, <2>1, FS_EmptySet DEF EvidenceInv
<1>7. PhaseInv
  BY <1>1, <1>3 DEF PhaseInv
<1>8. QED
  BY <1>4, <1>5, <1>6, <1>7 DEF AInv

LEMMA ApprovalsStep == AInv /\ [ApprovalsNext]_approvalVars => AInv'
<1> SUFFICES ASSUME AInv, [ApprovalsNext]_approvalVars PROVE AInv'
  OBVIOUS
<1>1. CASE WriteRecord \/ WriteTorn \/ SyncRecord \/ SyncTruncation
  BY <1>1, RecordWritten, RecordTorn, FileSynced
<1>2. CASE Abandon \/ Inspect \/ ConfirmRecovery \/ ReportApproved
  BY <1>2, NothingWritten, AlreadyReported
<1>3. CASE PublishArchive \/ PublishManifest \/ CheckEvidence \/ Truncate
  BY <1>3, ArchivePublished, ManifestPublished, EvidenceChecked, TailCut
<1>4. CASE HostCrash
  BY <1>4, HostCrashed
<1>5. CASE UNCHANGED approvalVars
  BY <1>5 DEF approvalVars, AInv, ShapeInv, RecordsInv, FormerInv, EvidenceInv, PhaseInv,
              Content, Manifests, ManifestsOf, Archived, Published, RoomForManifest
<1>6. QED
  BY <1>1, <1>2, <1>3, <1>4, <1>5 DEF ApprovalsNext

\* The inductive invariant holds in every reachable state.
THEOREM ApprovalsInvariant == ApprovalsSpec => []AInv
BY ApprovalsStart, ApprovalsStep, PTL DEF ApprovalsSpec

\* Well typed, with the records and the manifests within their limits.
THEOREM ApprovalsTypeCorrect == ApprovalsSpec => []ApprovalsTypeOK
<1>1. AInv => ApprovalsTypeOK
  BY Fields DEF AInv, ShapeInv, EvidenceInv, ApprovalsTypeOK
<1>2. QED
  BY <1>1, ApprovalsInvariant, PTL

(***************************************************************************)
(* Whatever is torn, lost or brought back, the complete lines replay: no   *)
(* path has two active approvals and every revocation ends one.            *)
(***************************************************************************)
THEOREM LedgerAlwaysReplays == ApprovalsSpec => []LedgerReplays
<1>1. AInv => LedgerReplays
  BY DEF AInv, RecordsInv, LedgerReplays
<1>2. QED
  BY <1>1, ApprovalsInvariant, PTL

\* Every step of the ledger is a step of the append-only log, or none.
LEMMA LogStep ==
  AInv /\ [ApprovalsNext]_approvalVars => [Log!LogNext]_<<ledger.records, kept>>
<1> SUFFICES ASSUME AInv, [ApprovalsNext]_approvalVars
             PROVE  Log!LogNext \/ (UNCHANGED ledger.records /\ UNCHANGED kept)
  OBVIOUS
<1> DEFINE s == ledger.records
<1>1. Len(s) \in Nat /\ kept \in Nat /\ kept <= Len(s)
  BY Fields DEF AInv, ShapeInv
<1>2. CASE WriteRecord
  <2>1. /\ Len(ledger'.records) = Len(s) + 1
        /\ SubSeq(ledger'.records, 1, Len(s)) = s
        /\ ledger'.records[Len(ledger'.records)] \in Record
        /\ kept' = kept
    BY <1>2, RecordWritten
  <2>2. kept' \in kept..Len(ledger'.records)
    BY <1>1, <2>1
  <2>3. QED
    BY <2>1, <2>2 DEF Log!LogNext, Log!Extend, Log!Promise
<1>3. CASE SyncRecord \/ SyncTruncation
  <2>1. ledger'.records = s /\ kept' \in {kept, Len(s)}
    BY <1>3, FileSynced
  <2>2. kept' \in kept..Len(ledger'.records)
    BY <1>1, <2>1
  <2>3. QED
    BY <2>1, <2>2 DEF Log!LogNext, Log!Promise
<1>4. CASE HostCrash
  BY <1>4, HostCrashed DEF Log!LogNext, Log!Lose
<1>5. CASE WriteTorn \/ Abandon \/ Inspect \/ ConfirmRecovery \/ PublishArchive
             \/ PublishManifest \/ CheckEvidence \/ Truncate
  BY <1>5, RecordTorn, NothingWritten, ArchivePublished, ManifestPublished,
     EvidenceChecked, TailCut
<1>6. CASE ReportApproved
  <2>1. ledger' = ledger /\ kept' \in kept..ledger.synced
    BY <1>6, AlreadyReported
  <2>2. ledger.synced \in Nat /\ ledger.synced <= Len(s)
    BY Fields DEF AInv, ShapeInv
  <2>3. kept' \in kept..Len(ledger'.records)
    BY <1>1, <2>1, <2>2
  <2>4. QED
    BY <2>1, <2>3 DEF Log!LogNext, Log!Promise
<1>7. CASE UNCHANGED approvalVars
  BY <1>7 DEF approvalVars
<1>8. QED
  BY <1>2, <1>3, <1>4, <1>5, <1>6, <1>7 DEF ApprovalsNext

(***************************************************************************)
(* The ledger implements AppendOnlyLog: only a host crash removes complete *)
(* records, and never one whose append was reported, nor one reported as   *)
(* already approved once it is on disk; recovery removes none.  A report   *)
(* of an approval whose record was never synced is no such promise.        *)
(***************************************************************************)
THEOREM LedgerImplementsLog == ApprovalsSpec => ApprovalsPersist
<1>1. ApprovalsInit => Log!LogInit
  BY DEF ApprovalsInit, Log!LogInit
<1>2. QED
  BY <1>1, LogStep, ApprovalsInvariant, PTL DEF ApprovalsSpec, ApprovalsPersist, Log!LogSpec

(***************************************************************************)
(* A command that discards a fragment has its inspection, and its archive  *)
(* and manifest are on disk: the phases of a recovery establish this and   *)
(* nothing else happens to the file while it holds the lock.               *)
(***************************************************************************)
THEOREM TailGoesWithEvidence == ApprovalsSpec => TailDiscardedWithEvidence
<1> DEFINE Evidenced ==
      Discards =>
        /\ Content \in reports
        /\ \E a, m \in OnDisk : /\ a.kind = "archive" /\ a.of = Content
                                /\ m.kind = "manifest" /\ m.of = Content
<1>1. AInv /\ [ApprovalsNext]_approvalVars => [Evidenced]_approvalVars
  <2> SUFFICES ASSUME AInv, [ApprovalsNext]_approvalVars, Discards
               PROVE  /\ Content \in reports
                      /\ \E a, m \in OnDisk : /\ a.kind = "archive" /\ a.of = Content
                                              /\ m.kind = "manifest" /\ m.of = Content
    OBVIOUS
  <2>1. ledger' # ledger /\ command'.phase = "truncated"
    BY DEF Discards
  <2>2. Truncate
    <3>1. ~(WriteTorn \/ SyncRecord \/ SyncTruncation \/ HostCrash)
      BY <2>1, Fields DEF WriteTorn, SyncRecord, SyncTruncation, HostCrash
    <3>2. ~WriteRecord
      BY <2>1, Entered DEF WriteRecord, Phases
    <3>3. QED
      BY <2>1, <3>1, <3>2, NothingWritten, AlreadyReported, ArchivePublished,
         ManifestPublished, EvidenceChecked DEF ApprovalsNext, approvalVars
  <2>3. /\ Content \in reports /\ durable = Len(evidence)
        /\ Archived(Content) /\ ManifestsOf(Content) # {}
        /\ evidence \in Seq(Artifact)
    BY <2>2 DEF Truncate, AInv, PhaseInv, EvidenceInv
  <2>4. OnDisk = Published
    BY <2>3 DEF OnDisk, Published
  <2>5. QED
    BY <2>3, <2>4 DEF Archived, ManifestsOf, Manifests
<1>2. QED
  BY <1>1, ApprovalsInvariant, PTL
     DEF ApprovalsSpec, TailDiscardedWithEvidence, Evidenced

-----------------------------------------------------------------------------
\* Archives come before their manifests, and a recovery publishes its
\* manifest only after its archive.
ArchivedFirst(artifacts) ==
  \A i \in DOMAIN artifacts : artifacts[i].kind = "manifest" =>
    \E j \in 1..(i - 1) : artifacts[j].kind = "archive" /\ artifacts[j].of = artifacts[i].of

OrderInv ==
  /\ command.phase = "archived" => Archived(command.of)
  /\ ArchivedFirst(evidence)

\* What a step makes of the sequence of artifacts.
LEMMA EvidenceMoves ==
  ASSUME AInv, [ApprovalsNext]_approvalVars
  PROVE  \/ evidence' = evidence
         \/ PublishArchive
            /\ \E a \in Artifact : a.kind = "archive" /\ a.of = command.of
                                   /\ evidence' = Append(evidence, a)
         \/ PublishManifest
            /\ \E a \in Artifact : a.kind = "manifest" /\ a.of = command.of
                                   /\ evidence' = Append(evidence, a)
         \/ HostCrash /\ \E m \in 0..Len(evidence) : evidence' = SubSeq(evidence, 1, m)
<1>1. CASE PublishArchive
  <2>1. command.of \in Contents
    BY <1>1, Fields DEF PublishArchive, AInv, PhaseInv
  <2>2. DEFINE a == [kind |-> "archive", of |-> command.of, context |-> None]
  <2>3. a \in Artifact /\ a.kind = "archive" /\ a.of = command.of
    BY <2>1 DEF Artifact
  <2>4. evidence' = evidence \/ evidence' = Append(evidence, a)
    BY <1>1 DEF PublishArchive, Publish, Reuse
  <2>5. QED
    BY <1>1, <2>3, <2>4
<1>2. CASE PublishManifest
  <2>1. command.of \in Contents /\ command \in Commands
    BY <1>2, Fields DEF PublishManifest, AInv, PhaseInv, ShapeInv
  <2>2. DEFINE a == [kind |-> "manifest", of |-> command.of, context |-> command.context]
  <2>3. a \in Artifact /\ a.kind = "manifest" /\ a.of = command.of
    BY <2>1 DEF Artifact, Commands
  <2>4. evidence' = evidence \/ evidence' = Append(evidence, a)
    BY <1>2 DEF PublishManifest, Publish, Reuse
  <2>5. QED
    BY <1>2, <2>3, <2>4
<1>3. CASE HostCrash
  <2>1. PICK m \in durable..Len(evidence) : evidence' = SubSeq(evidence, 1, m) /\ durable' = m
    BY <1>3 DEF HostCrash
  <2>2. m \in 0..Len(evidence)
    BY DEF AInv, EvidenceInv
  <2>3. QED
    BY <1>3, <2>1, <2>2
<1>4. CASE \/ WriteRecord \/ WriteTorn \/ SyncRecord \/ ReportApproved \/ Abandon
           \/ Inspect \/ ConfirmRecovery \/ CheckEvidence \/ Truncate
           \/ SyncTruncation \/ UNCHANGED approvalVars
  BY <1>4 DEF WriteRecord, WriteTorn, SyncRecord, ReportApproved, Abandon, Inspect, ConfirmRecovery,
              CheckEvidence, Truncate, SyncTruncation, approvalVars
<1>5. QED
  BY <1>1, <1>2, <1>3, <1>4 DEF ApprovalsNext

\* The order of archives and manifests does not depend on their names.
LEMMA OrderKept == AInv /\ OrderInv /\ [ApprovalsNext]_approvalVars => OrderInv'
<1> SUFFICES ASSUME AInv, OrderInv, [ApprovalsNext]_approvalVars PROVE OrderInv'
  OBVIOUS
<1>1. /\ evidence \in Seq(Artifact) /\ Len(evidence) \in Nat
      /\ DOMAIN evidence = 1..Len(evidence)
  BY DEF AInv, EvidenceInv
<1>2. command'.phase = "archived" => Archived(command.of)'
  <2> SUFFICES ASSUME command'.phase = "archived" PROVE Archived(command.of)'
    OBVIOUS
  <2>1. CASE PublishArchive
    <3>1. command'.of = command.of
      <4>1. command' # Idle
        BY DEF Idle
      <4>2. Enter("archived")
        BY <2>1, <4>1 DEF PublishArchive, Publish, Reuse
      <4>3. QED
        BY <4>2, Entered DEF Phases
    <3>2. \/ Archived(command.of) /\ UNCHANGED evidence
          \/ evidence' = Append(evidence, [kind |-> "archive", of |-> command.of, context |-> None])
      BY <2>1 DEF PublishArchive, Publish, Reuse
    <3>3. CASE Archived(command.of) /\ UNCHANGED evidence
      BY <3>1, <3>3 DEF Archived, Published
    <3>4. CASE evidence' = Append(evidence, [kind |-> "archive", of |-> command.of, context |-> None])
      <4>1. /\ Len(evidence) + 1 \in DOMAIN evidence'
            /\ evidence'[Len(evidence) + 1]
                 = [kind |-> "archive", of |-> command.of, context |-> None]
        BY <1>1, <3>4
      <4>2. QED
        BY <3>1, <4>1 DEF Archived, Published
    <3>5. QED
      BY <3>2, <3>3, <3>4
  <2>2. CASE UNCHANGED approvalVars
    BY <2>2 DEF approvalVars, OrderInv, Archived, Published
  <2>3. CASE Inspect \/ WriteTorn \/ ReportApproved
    <3>1. UNCHANGED <<command, evidence>>
      BY <2>3 DEF Inspect, WriteTorn, ReportApproved
    <3>2. QED
      BY <3>1 DEF OrderInv, Archived, Published
  <2>4. CASE SyncRecord \/ Abandon \/ SyncTruncation \/ HostCrash \/ ConfirmRecovery
    BY <2>4 DEF SyncRecord, Abandon, SyncTruncation, HostCrash, ConfirmRecovery, Idle
  <2>5. CASE WriteRecord \/ PublishManifest \/ CheckEvidence \/ Truncate
    BY <2>5, Entered DEF WriteRecord, PublishManifest, Publish, Reuse, CheckEvidence,
       Truncate, Phases, Idle
  <2>6. QED
    BY <2>1, <2>2, <2>3, <2>4, <2>5 DEF ApprovalsNext
<1>3. ArchivedFirst(evidence)'
  <2>1. ASSUME NEW a \in Artifact, evidence' = Append(evidence, a),
               a.kind = "manifest" => Archived(a.of)
        PROVE  ArchivedFirst(evidence)'
    <3>1. /\ DOMAIN evidence' = 1..(Len(evidence) + 1)
          /\ evidence'[Len(evidence) + 1] = a
          /\ \A i \in 1..Len(evidence) : evidence'[i] = evidence[i]
      BY <1>1, <2>1
    <3> SUFFICES ASSUME NEW i \in DOMAIN evidence', evidence'[i].kind = "manifest"
                 PROVE  \E j \in 1..(i - 1) : evidence'[j].kind = "archive"
                                              /\ evidence'[j].of = evidence'[i].of
      BY DEF ArchivedFirst
    <3>2. CASE i \in 1..Len(evidence)
      <4>1. PICK j \in 1..(i - 1) : evidence[j].kind = "archive" /\ evidence[j].of = evidence[i].of
        BY <1>1, <3>1, <3>2 DEF OrderInv, ArchivedFirst
      <4>2. QED
        BY <1>1, <3>1, <3>2, <4>1
    <3>3. CASE i = Len(evidence) + 1
      <4>1. PICK j \in DOMAIN evidence : evidence[j].kind = "archive" /\ evidence[j].of = a.of
        BY <2>1, <3>1, <3>3 DEF Archived, Published
      <4>2. QED
        BY <1>1, <3>1, <3>3, <4>1
    <3>4. QED
      BY <1>1, <3>1, <3>2, <3>3
  <2>2. ASSUME NEW m \in 0..Len(evidence), evidence' = SubSeq(evidence, 1, m)
        PROVE  ArchivedFirst(evidence)'
    <3>1. DOMAIN evidence' = 1..m /\ \A i \in 1..m : evidence'[i] = evidence[i]
      BY <1>1, <2>2
    <3>2. QED
      BY <1>1, <3>1 DEF OrderInv, ArchivedFirst
  <2>3. CASE evidence' = evidence
    BY <2>3 DEF OrderInv, ArchivedFirst
  <2>4. QED
    BY <2>1, <2>2, <2>3, EvidenceMoves DEF PublishManifest, OrderInv
<1>4. QED
  BY <1>2, <1>3 DEF OrderInv

LEMMA OrderStart == ApprovalsInit => OrderInv
BY DEF ApprovalsInit, OrderInv, ArchivedFirst, Idle

(***************************************************************************)
(* Half of what reconciling evidence means holds without a condition: a    *)
(* manifest of a recovery is never found without the archive of the        *)
(* damaged bytes, whatever a crash keeps of the evidence.                  *)
(* (recover_partial_tail publishes the archive first, and uses an existing *)
(* one only after having found it.)                                        *)
(***************************************************************************)
THEOREM ManifestsHaveArchives == ApprovalsSpec => [](\A e \in Manifests : Archived(e.of))
<1>1. AInv /\ OrderInv => \A e \in Manifests : Archived(e.of)
  <2> SUFFICES ASSUME AInv, OrderInv, NEW e \in Manifests PROVE Archived(e.of)
    OBVIOUS
  <2>1. PICK i \in DOMAIN evidence : e = evidence[i] /\ evidence[i].kind = "manifest"
    BY DEF Manifests, Published
  <2>2. DOMAIN evidence = 1..Len(evidence) /\ Len(evidence) \in Nat
    BY DEF AInv, EvidenceInv
  <2>3. PICK j \in 1..(i - 1) : evidence[j].kind = "archive" /\ evidence[j].of = evidence[i].of
    BY <2>1 DEF OrderInv, ArchivedFirst
  <2>4. j \in DOMAIN evidence
    BY <2>2, <2>3
  <2>5. QED
    BY <2>1, <2>3, <2>4 DEF Archived, Published
<1>2. QED
  BY <1>1, OrderStart, OrderKept, ApprovalsInvariant, PTL DEF ApprovalsSpec

-----------------------------------------------------------------------------
(***************************************************************************)
(* The other half, that the records a manifest speaks of are still in the  *)
(* ledger, needs them to be on disk before the evidence is: the command    *)
(* that confirms a recovery would have to sync the file.  It does not.     *)
(***************************************************************************)
ConfirmsWhatIsOnDisk == ConfirmRecovery => ledger.synced = Len(ledger.records)

SyncedInv ==
  /\ command.phase \in {"confirmed", "archived"} => ledger.synced = Len(ledger.records)
  /\ \A e \in Manifests :
       Len(e.of.records) <= ledger.synced /\ Begins(e.of.records, ledger.records)

\* What is on disk of the ledger stays there, at the same place.
LEMMA SyncedKept ==
  ASSUME AInv, [ApprovalsNext]_approvalVars,
         NEW s \in Seq(Record), Len(s) <= ledger.synced, Begins(s, ledger.records)
  PROVE  Len(s) <= ledger'.synced /\ Begins(s, ledger.records)'
<1>1. /\ ledger.records \in Seq(Record) /\ Len(ledger.records) \in Nat /\ Len(s) \in Nat
      /\ ledger.synced \in Nat /\ ledger.synced <= Len(ledger.records)
  BY Fields DEF AInv, ShapeInv
<1>2. CASE WriteRecord
  <2>1. AInv' /\ Len(ledger'.records) = Len(ledger.records) + 1
        /\ SubSeq(ledger'.records, 1, Len(ledger.records)) = ledger.records
    BY <1>2, RecordWritten
  <2>2. ledger'.records \in Seq(Record)
    BY <2>1 DEF AInv, ShapeInv, Ledgers
  <2>3. SubSeq(ledger'.records, 1, Len(s))
          = SubSeq(SubSeq(ledger'.records, 1, Len(ledger.records)), 1, Len(s))
    BY <1>1, <2>1, <2>2
  <2>4. ledger'.synced = ledger.synced
    BY <1>2, Fields DEF WriteRecord
  <2>5. QED
    BY <1>1, <2>1, <2>3, <2>4 DEF Begins
<1>3. CASE HostCrash
  <2>1. PICK k \in kept..Len(ledger.records) : ledger'.records = SubSeq(ledger.records, 1, k)
    BY <1>3, HostCrashed
  <2>2. /\ AInv' /\ ledger'.synced = Len(ledger'.records) /\ ledger.synced <= ledger'.synced
    <3>1. PICK image \in {Content} \cup former :
            \E n \in ledger.synced..Len(image.records) : \E tail \in {0, Partial(image, n)} :
              ledger' = [records |-> SubSeq(image.records, 1, n), tail |-> tail, synced |-> n]
      BY <1>3 DEF HostCrash
    <3>2. PICK n \in ledger.synced..Len(image.records) : \E tail \in {0, Partial(image, n)} :
            ledger' = [records |-> SubSeq(image.records, 1, n), tail |-> tail, synced |-> n]
      BY <3>1
    <3>3. image.records \in Seq(Record)
      BY Fields DEF AInv, ShapeInv, Contents
    <3>4. ledger'.records = SubSeq(image.records, 1, n) /\ ledger'.synced = n
      BY <3>2
    <3>5. QED
      BY <1>1, <1>3, <3>3, <3>4, HostCrashed
  <2>3. Len(ledger'.records) = k /\ k \in Nat
    BY <1>1, <2>1, Fields DEF AInv, ShapeInv
  <2>4. SubSeq(SubSeq(ledger.records, 1, k), 1, Len(s)) = SubSeq(ledger.records, 1, Len(s))
    BY <1>1, <2>2, <2>3
  <2>5. QED
    BY <1>1, <2>1, <2>2, <2>3, <2>4 DEF Begins
<1>4. CASE WriteTorn \/ SyncRecord \/ SyncTruncation \/ Truncate
  <2>1. ledger'.records = ledger.records
    BY <1>4, RecordTorn, FileSynced, TailCut
  <2>2. ledger.synced <= ledger'.synced
    BY <1>1, <1>4, Fields DEF WriteTorn, SyncRecord, SyncTruncation, Truncate, Synced
  <2>3. ledger'.synced \in Nat
    BY <1>4, RecordTorn, FileSynced, TailCut DEF AInv, ShapeInv, Ledgers
  <2>4. QED
    BY <1>1, <2>1, <2>2, <2>3 DEF Begins
<1>5. CASE \/ Abandon \/ Inspect \/ ConfirmRecovery \/ ReportApproved \/ PublishArchive
           \/ PublishManifest \/ CheckEvidence \/ UNCHANGED approvalVars
  <2>1. ledger' = ledger
    BY <1>5, NothingWritten, AlreadyReported, ArchivePublished, ManifestPublished, EvidenceChecked DEF approvalVars
  <2>2. QED
    BY <2>1 DEF Begins
<1>6. QED
  BY <1>2, <1>3, <1>4, <1>5 DEF ApprovalsNext

LEMMA SyncedStep ==
  AInv /\ SyncedInv /\ [ApprovalsNext]_approvalVars /\ [ConfirmsWhatIsOnDisk]_approvalVars
    => SyncedInv'
<1> SUFFICES ASSUME AInv, SyncedInv, [ApprovalsNext]_approvalVars,
                    [ConfirmsWhatIsOnDisk]_approvalVars
             PROVE  SyncedInv'
  OBVIOUS
<1>1. command'.phase \in {"confirmed", "archived"} => ledger'.synced = Len(ledger'.records)
  <2>1. CASE ConfirmRecovery
    <3>1. ledger' = ledger /\ command' # command
      BY <2>1, Fields DEF ConfirmRecovery
    <3>2. QED
      BY <2>1, <3>1 DEF ConfirmsWhatIsOnDisk, approvalVars
  <2>2. CASE PublishArchive
    BY <2>2 DEF PublishArchive, SyncedInv
  <2>3. CASE SyncRecord \/ Abandon \/ SyncTruncation \/ HostCrash
    BY <2>3 DEF SyncRecord, Abandon, SyncTruncation, HostCrash, Idle
  <2>4. CASE WriteRecord \/ PublishManifest \/ CheckEvidence \/ Truncate
    BY <2>4, Entered DEF WriteRecord, PublishManifest, Publish, Reuse, CheckEvidence,
       Truncate, Phases, Idle
  <2>5. CASE WriteTorn \/ Inspect \/ ReportApproved
    BY <2>5 DEF WriteTorn, Inspect, ReportApproved, Idle
  <2>6. CASE UNCHANGED approvalVars
    BY <2>6 DEF approvalVars, SyncedInv
  <2>7. QED
    BY <2>1, <2>2, <2>3, <2>4, <2>5, <2>6 DEF ApprovalsNext
<1>2. ASSUME NEW e \in Manifests'
      PROVE  Len(e.of.records) <= ledger'.synced /\ Begins(e.of.records, ledger.records)'
  <2>1. /\ evidence \in Seq(Artifact) /\ Len(evidence) \in Nat
        /\ DOMAIN evidence = 1..Len(evidence)
    BY DEF AInv, EvidenceInv
  <2>2. \/ e \in Manifests
        \/ /\ PublishManifest /\ e.of = command.of
    <3>1. PICK i \in DOMAIN evidence' : e = evidence'[i] /\ evidence'[i].kind = "manifest"
      BY DEF Manifests, Published
    <3>2. CASE evidence' = evidence
      BY <3>1, <3>2 DEF Manifests, Published
    <3>3. CASE \E a \in Artifact : a.kind = "archive" /\ evidence' = Append(evidence, a)
      BY <2>1, <3>1, <3>3 DEF Manifests, Published
    <3>4. CASE /\ PublishManifest
               /\ \E a \in Artifact : a.of = command.of /\ evidence' = Append(evidence, a)
      <4>1. PICK a \in Artifact : a.of = command.of /\ evidence' = Append(evidence, a)
        BY <3>4
      <4>2. CASE i = Len(evidence) + 1
        BY <2>1, <3>1, <3>4, <4>1, <4>2
      <4>3. CASE i # Len(evidence) + 1
        <5>1. i \in DOMAIN evidence /\ evidence'[i] = evidence[i]
          BY <2>1, <3>1, <4>1, <4>3
        <5>2. QED
          BY <3>1, <5>1 DEF Manifests, Published
      <4>4. QED
        BY <4>2, <4>3
    <3>5. CASE \E m \in 0..Len(evidence) : evidence' = SubSeq(evidence, 1, m)
      <4>1. PICK m \in 0..Len(evidence) : evidence' = SubSeq(evidence, 1, m)
        BY <3>5
      <4>2. i \in DOMAIN evidence /\ evidence'[i] = evidence[i]
        BY <2>1, <3>1, <4>1
      <4>3. QED
        BY <3>1, <4>2 DEF Manifests, Published
    <3>6. QED
      BY <3>2, <3>3, <3>4, <3>5, EvidenceMoves
  <2>3. CASE e \in Manifests
    <3>1. e.of.records \in Seq(Record)
      <4>1. e \in Artifact
        BY <2>1, <2>3 DEF Manifests, Published
      <4>2. e.of \in Contents
        BY <4>1 DEF Artifact
      <4>3. QED
        BY <4>2 DEF Contents
    <3>2. QED
      BY <2>3, <3>1, SyncedKept DEF SyncedInv
  <2>4. CASE PublishManifest /\ e.of = command.of
    <3>1. command.of = Content /\ ledger.synced = Len(ledger.records)
      BY <2>4 DEF PublishManifest, AInv, PhaseInv, SyncedInv
    <3>2. ledger' = ledger
      BY <2>4 DEF PublishManifest
    <3>3. QED
      BY <2>4, <3>1, <3>2, Fields DEF Begins
  <2>5. QED
    BY <2>2, <2>3, <2>4
<1>3. QED
  BY <1>1, <1>2 DEF SyncedInv

(***************************************************************************)
(* The evidence of recoveries reconciles with every complete ledger if     *)
(* each recovery is confirmed only of records that are on disk: the sync   *)
(* that recover_partial_tail leaves out before it publishes evidence is    *)
(* all that EvidenceReconciles lacks, whatever else is torn, lost, left    *)
(* unfinished or tried again.                                              *)
(***************************************************************************)
THEOREM SyncWouldReconcile ==
  ApprovalsSpec /\ [][ConfirmsWhatIsOnDisk]_approvalVars => []EvidenceReconciles
<1>1. ApprovalsInit => SyncedInv
  <2> SUFFICES ASSUME ApprovalsInit PROVE SyncedInv
    OBVIOUS
  <2>1. Manifests = {} /\ command.phase = "idle"
    BY DEF ApprovalsInit, Manifests, Published, Idle
  <2>2. QED
    BY <2>1 DEF SyncedInv
<1>2. SyncedInv /\ (\A e \in Manifests : Archived(e.of)) => EvidenceReconciles
  BY DEF SyncedInv, EvidenceReconciles, Reconciles
<1>3. QED
  BY <1>1, <1>2, SyncedStep, ManifestsHaveArchives, ApprovalsInvariant, PTL DEF ApprovalsSpec
=============================================================================
