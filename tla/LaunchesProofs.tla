---------------------------- MODULE LaunchesProofs ----------------------------
(***************************************************************************)
(* Theorems about ProductLaunches: whatever operators and updaters do, a   *)
(* check clears only what is approved as it is, an operation keeps to one  *)
(* approval, and a launcher selected by an installation never falls back   *)
(* on a strict approval, for any paths, fingerprints and limits.           *)
(***************************************************************************)
EXTENDS ProductLaunches, FiniteSetTheorems, TLAPS

Phase == {"idle", "resolve", "history", "observe", "strict", "cleared", "checked"}

Launches == [policy : {"installation", "strict"}, path : Paths \cup {None}, record : Record]

Operation ==
  [phase : Phase, stage : Stages, bin : Paths \cup {None}, roster : Paths \cup {None},
   path : Paths \cup {None}, strict : StrictCache \cup {None},
   installation : InstallationCache \cup {None}, record : Record \cup {None},
   began : Nat, launched : SUBSET Launches]

Card ==
  [locked : {TRUE, FALSE}, root : 0..MaxChanges, target : Paths, file : 0..MaxChanges]

\* The ledgers and the world around them.
WorldInv ==
  /\ strict \in Seq(Record) /\ installed \in Seq(Record)
  /\ files \in [Paths -> 0..MaxChanges]
  /\ link \in Paths \cup {None}
  /\ root \in 0..MaxChanges /\ changes \in 0..MaxChanges
  /\ installer # None => installer \in Card

OpInv ==
  /\ op \in Operation
  /\ op.began <= Len(installed)
  /\ op.phase # "idle" => op.bin \in Paths

(***************************************************************************)
(* The kept strict approval was active when the ledger was last seen; the  *)
(* kept installation approval is one of the launcher, for a file inside.   *)
(***************************************************************************)
ActiveThen(records, n, r) ==
  \E i \in DOMAIN records : records[i] = r /\ ActiveAt(records, n, i)

CacheInv ==
  /\ op.strict # None =>
       op.strict.seen <= Len(strict) /\ ActiveThen(strict, op.strict.seen, op.strict.record)
  /\ op.installation # None =>
       op.installation.record.path = Launcher /\ op.installation.target \in Inside

\* The record a resolution goes by was active at some time since it began.
ActiveSince(n, r) ==
  \E m \in n..Len(installed) : ActiveThen(installed, m, r)

PhaseInv ==
  /\ op.phase \in {"history", "observe"} =>
       /\ op.record \in Record /\ op.record.path = Launcher
       /\ ActiveSince(op.began, op.record)
       /\ CachedInstallation # None => op.record = CachedInstallation.record
       /\ CachedInstallation = None => op.bin = Launcher /\ Full
  /\ op.phase = "strict" =>
       /\ op.path \in Paths
       /\ CachedInstallation = None
       /\ op.bin = Launcher => op.began = 0
  /\ op.phase = "cleared" => op.record \in Record /\ op.path \in Paths

(***************************************************************************)
(* Once an executable is kept, every launch of the operation goes by the   *)
(* installation approval that leads to it, or else by the strict one.      *)
(***************************************************************************)
Keeping == op.phase = "checked" \/ (op.phase # "idle" /\ op.stage = "launch")

Kept ==
  IF CachedInstallation # None
  THEN [policy |-> "installation", path |-> op.bin, record |-> op.installation.record]
  ELSE [policy |-> "strict", path |-> op.bin, record |-> op.strict.record]

LaunchInv ==
  /\ Keeping => op.launched \subseteq {Kept}
  /\ ~Keeping => op.launched = {}
  /\ op.phase = "cleared" /\ op.stage = "launch" =>
       [policy |-> Policy, path |-> op.bin, record |-> op.record] = Kept

LInv == WorldInv /\ OpInv /\ CacheInv /\ PhaseInv /\ LaunchInv

-----------------------------------------------------------------------------
\* What was active after n records was so whatever follows them.
LEMMA ActiveLocal ==
  ASSUME NEW s \in Seq(Record), NEW t \in Seq(Record), NEW n \in 0..Len(s),
         NEW r, n <= Len(t), \A i \in 1..n : s[i] = t[i], ActiveThen(s, n, r)
  PROVE  ActiveThen(t, n, r)
<1>1. PICK i \in DOMAIN s : s[i] = r /\ ActiveAt(s, n, i)
  BY DEF ActiveThen
<1>2. i \in 1..n /\ i \in DOMAIN t /\ t[i] = r
  BY <1>1 DEF ActiveAt
<1>3. ActiveAt(t, n, i)
  BY <1>1, <1>2 DEF ActiveAt
<1>4. QED
  BY <1>2, <1>3 DEF ActiveThen

LEMMA ActiveExtended ==
  ASSUME NEW s \in Seq(Record), NEW x \in Record, NEW n \in 0..Len(s), NEW r,
         ActiveThen(s, n, r)
  PROVE  ActiveThen(Append(s, x), n, r)
<1>1. /\ Append(s, x) \in Seq(Record) /\ Len(Append(s, x)) = Len(s) + 1
      /\ \A i \in 1..n : s[i] = Append(s, x)[i]
  OBVIOUS
<1> DEFINE t == Append(s, x)
<1> HIDE DEF t
<1>2. t \in Seq(Record) /\ n <= Len(t) /\ \A i \in 1..n : s[i] = t[i]
  BY <1>1 DEF t
<1>3. ActiveThen(t, n, r)
  BY <1>2, ActiveLocal
<1>4. QED
  BY <1>3 DEF t

\* The active approvals of a path, and those of a beginning of a ledger.
LEMMA ActiveNow ==
  ASSUME NEW s \in Seq(Record), NEW path, NEW r
  PROVE  r \in ActiveOf(s, path) <=> r.path = path /\ ActiveThen(s, Len(s), r)
BY DEF ActiveOf, Active, ActiveThen

LEMMA ActiveInBeginning ==
  ASSUME NEW s \in Seq(Record), NEW n \in 0..Len(s), NEW r, ActiveThen(s, n, r)
  PROVE  r \in ActiveOf(SubSeq(s, 1, n), r.path)
<1> DEFINE t == SubSeq(s, 1, n)
<1>1. t \in Seq(Record) /\ Len(t) = n /\ \A i \in 1..n : s[i] = t[i]
  OBVIOUS
<1> HIDE DEF t
<1>2. ActiveThen(t, n, r)
  BY <1>1, ActiveLocal
<1>3. r \in ActiveOf(t, r.path)
  BY <1>1, <1>2, ActiveNow
<1>4. QED
  BY <1>3 DEF t

-----------------------------------------------------------------------------
(***************************************************************************)
(* Steps of updaters and operators leave the operation alone.              *)
(***************************************************************************)
LEMMA WorldChanged ==
  ASSUME LInv, WorldInv', op' = op,
         \/ UNCHANGED <<strict, installed>>
         \/ UNCHANGED installed /\ \E x \in Record : strict' = Append(strict, x)
         \/ UNCHANGED strict /\ \E x \in Record : installed' = Append(installed, x)
  PROVE  LInv'
<1>1. op \in Operation
  BY DEF LInv, OpInv
<1>2. Len(installed) \in Nat /\ Len(installed)' \in Nat
  BY DEF LInv, WorldInv
<1>3. Len(strict) <= Len(strict)' /\ Len(installed) <= Len(installed)'
  BY DEF LInv, WorldInv
<1>4. ASSUME NEW n \in 0..Len(strict), NEW r, ActiveThen(strict, n, r)
      PROVE  ActiveThen(strict', n, r)
  BY <1>4, ActiveExtended DEF LInv, WorldInv
<1>5. ASSUME NEW n \in 0..Len(installed), NEW r, ActiveThen(installed, n, r)
      PROVE  ActiveThen(installed', n, r)
  BY <1>5, ActiveExtended DEF LInv, WorldInv
<1>6. OpInv'
  <2>1. op.began \in Nat /\ Len(installed) \in Nat /\ Len(installed)' \in Nat
    BY <1>1, <1>2 DEF Operation
  <2>2. QED
    BY <1>3, <2>1 DEF LInv, OpInv
<1>7. CacheInv'
  <2>1. ASSUME op.strict # None
        PROVE  /\ op.strict.seen <= Len(strict)'
               /\ ActiveThen(strict', op.strict.seen, op.strict.record)
    <3>1. op.strict \in StrictCache
      BY <2>1 DEF LInv, OpInv, Operation
    <3>2. op.strict.seen \in Nat
      BY <3>1 DEF StrictCache
    <3>3. /\ op.strict.seen <= Len(strict)
          /\ ActiveThen(strict, op.strict.seen, op.strict.record)
      BY <2>1 DEF LInv, CacheInv
    <3>4. Len(strict) \in Nat /\ Len(strict)' \in Nat
      BY DEF LInv, WorldInv
    <3>5. QED
      BY <3>2, <3>3, <3>4, <1>3, <1>4
  <2>2. QED
    BY <2>1 DEF LInv, CacheInv
<1>8. PhaseInv'
  <2>1. ASSUME op.phase \in {"history", "observe"}
        PROVE  ActiveSince(op.began, op.record)'
    <3>1. PICK m \in op.began..Len(installed) : ActiveThen(installed, m, op.record)
      BY <2>1 DEF LInv, PhaseInv, ActiveSince
    <3>2. op.began \in Nat /\ Len(installed) \in Nat /\ Len(installed)' \in Nat
      BY <1>1, <1>2 DEF Operation
    <3>3. m \in 0..Len(installed) /\ m \in op.began..Len(installed)'
      BY <3>2, <1>3
    <3>4. ActiveThen(installed', m, op.record)
      BY <3>1, <3>3, <1>5
    <3>5. QED
      BY <3>3, <3>4 DEF ActiveSince
  <2>2. CachedInstallation' = CachedInstallation /\ Full' = Full
    BY DEF CachedInstallation, Full
  <2>3. QED
    BY <2>1, <2>2 DEF LInv, PhaseInv
<1>9. LaunchInv'
  BY DEF LInv, LaunchInv, Keeping, Kept, CachedInstallation, Policy
<1>10. QED
  BY <1>6, <1>7, <1>8, <1>9 DEF LInv

LEMMA WorldStep ==
  ASSUME LInv,
         \/ WriteFile \/ MoveLink \/ ReplaceRoot
         \/ ReviewCard \/ BeginInstallation \/ GiveUpInstallation
  PROVE  LInv'
<1>1. WorldInv
  BY DEF LInv
<1>2. op' = op /\ UNCHANGED <<strict, installed>>
  BY DEF WriteFile, MoveLink, ReplaceRoot, ReviewCard, BeginInstallation, GiveUpInstallation
<1>3. MaxChanges \in Nat /\ None \notin Paths
  BY LaunchesAssumption
<1>4. ASSUME Change PROVE Fresh \in 0..MaxChanges /\ changes' = Fresh
  BY <1>1, <1>3, <1>4 DEF Change, Fresh, WorldInv
<1>5. CASE WriteFile
  <2>1. PICK p \in Paths : files' = [files EXCEPT ![p] = Fresh]
    BY <1>5 DEF WriteFile
  <2>2. Change /\ UNCHANGED <<link, root, installer>>
    BY <1>5 DEF WriteFile
  <2>3. WorldInv'
    BY <1>1, <1>2, <1>4, <2>1, <2>2 DEF WorldInv
  <2>4. QED
    BY <1>2, <2>3, WorldChanged
<1>6. CASE MoveLink
  <2>1. Change /\ UNCHANGED <<files, root, installer>> /\ link' \in Paths \cup {None}
    BY <1>6 DEF MoveLink
  <2>2. WorldInv'
    BY <1>1, <1>2, <1>4, <2>1 DEF WorldInv
  <2>3. QED
    BY <1>2, <2>2, WorldChanged
<1>7. CASE ReplaceRoot
  <2>1. /\ Change /\ UNCHANGED <<link, installer>>
        /\ root' \in 0..Fresh
        /\ files' = [p \in Paths |-> IF p \in Inside THEN Fresh ELSE files[p]]
    BY <1>7 DEF ReplaceRoot
  <2>2. root' \in 0..MaxChanges
    BY <1>3, <1>4, <2>1
  <2>3. files' \in [Paths -> 0..MaxChanges]
    BY <1>1, <1>4, <2>1 DEF WorldInv
  <2>4. WorldInv'
    BY <1>1, <1>2, <1>4, <2>1, <2>2, <2>3 DEF WorldInv
  <2>5. QED
    BY <1>2, <2>4, WorldChanged
<1>8. CASE ReviewCard
  <2>1. /\ installer' = [locked |-> FALSE, root |-> root, target |-> link, file |-> files[link]]
        /\ UNCHANGED <<files, link, root, changes>>
    BY <1>8 DEF ReviewCard
  <2>2. link \in Paths /\ files[link] \in 0..MaxChanges
    BY <1>1, <1>8, LaunchesAssumption DEF WorldInv, ReviewCard, TargetAllowed
  <2>3. installer' \in Card
    BY <1>1, <2>1, <2>2 DEF Card, WorldInv
  <2>4. WorldInv'
    BY <1>1, <1>2, <2>1, <2>3 DEF WorldInv
  <2>5. QED
    BY <1>2, <2>4, WorldChanged
<1>9. CASE BeginInstallation \/ GiveUpInstallation
  <2>1. UNCHANGED <<files, link, root, changes>>
    BY <1>9 DEF BeginInstallation, GiveUpInstallation
  <2>2. CASE installer' = None
    <3>1. WorldInv'
      BY <1>1, <1>2, <2>1, <2>2 DEF WorldInv
    <3>2. QED
      BY <1>2, <3>1, WorldChanged
  <2>3. CASE BeginInstallation
    <3>1. installer \in Card /\ installer' = [installer EXCEPT !.locked = TRUE]
      BY <1>1, <2>3 DEF WorldInv, BeginInstallation
    <3>2. installer' \in Card
      BY <3>1 DEF Card
    <3>3. WorldInv'
      BY <1>1, <1>2, <2>1, <3>2 DEF WorldInv
    <3>4. QED
      BY <1>2, <3>3, WorldChanged
  <2>4. QED
    BY <1>9, <2>2, <2>3 DEF GiveUpInstallation
<1>10. QED
  BY <1>5, <1>6, <1>7, <1>8, <1>9

LEMMA RecordsMade ==
  ASSUME NEW s \in Seq(Record), NEW p \in Paths, NEW f \in Fingerprints
  PROVE  /\ Approval(s, NextId(s), p, f) \in Record
         /\ \A i \in Active(s) : Revocation(s, NextId(s), i) \in Record
<1>1. IdAt(s, Len(s)) \in Nat /\ NextId(s) \in Nat
  <2>1. Len(s) # 0 => s[Len(s)] \in Record
    OBVIOUS
  <2>2. QED
    BY <2>1 DEF IdAt, NextId, Record
<1>2. ASSUME NEW i \in Active(s) PROVE s[i] \in Record
  BY DEF Active
<1>3. QED
  BY <1>1, <1>2 DEF Approval, Revocation, Record

LEMMA LedgerStep ==
  ASSUME LInv,
         ApproveStrict \/ RevokeStrict \/ ApproveInstallation \/ RevokeInstallation
  PROVE  LInv'
<1>1. WorldInv /\ strict \in Seq(Record) /\ installed \in Seq(Record)
  BY DEF LInv, WorldInv
<1>2. 0..MaxChanges \subseteq Fingerprints /\ Launcher \in Paths
  BY LaunchesAssumption
<1>3. op' = op /\ UNCHANGED <<files, link, root, changes>>
  BY DEF ApproveStrict, RevokeStrict, ApproveInstallation, RevokeInstallation
<1>4. CASE ApproveStrict
  <2>1. PICK p \in Paths : strict' = Append(strict, Approval(strict, NextId(strict), p, files[p]))
    BY <1>4 DEF ApproveStrict
  <2>2. files[p] \in Fingerprints
    BY <1>1, <1>2 DEF WorldInv
  <2>3. PICK x \in Record : strict' = Append(strict, x)
    BY <1>1, <2>1, <2>2, RecordsMade
  <2>4. UNCHANGED <<installed, installer>>
    BY <1>4 DEF ApproveStrict
  <2>5. WorldInv'
    BY <1>1, <1>3, <2>3, <2>4 DEF WorldInv
  <2>6. QED
    BY <1>3, <2>3, <2>4, <2>5, WorldChanged
<1>5. CASE RevokeStrict
  <2>1. PICK i \in Active(strict) : strict' = Append(strict, Revocation(strict, NextId(strict), i))
    BY <1>5 DEF RevokeStrict
  <2>2. files[Launcher] \in Fingerprints
    BY <1>1, <1>2 DEF WorldInv
  <2>3. PICK x \in Record : strict' = Append(strict, x)
    BY <1>1, <1>2, <2>1, <2>2, RecordsMade
  <2>4. UNCHANGED <<installed, installer>>
    BY <1>5 DEF RevokeStrict
  <2>5. WorldInv'
    BY <1>1, <1>3, <2>3, <2>4 DEF WorldInv
  <2>6. QED
    BY <1>3, <2>3, <2>4, <2>5, WorldChanged
<1>6. CASE ApproveInstallation
  <2>1. /\ installer # None /\ installer' = None /\ UNCHANGED strict
        /\ installed' = Append(installed,
             Approval(installed, NextId(installed), Launcher, installer.root))
    BY <1>6 DEF ApproveInstallation
  <2>2. installer.root \in Fingerprints
    BY <1>1, <1>2, <2>1 DEF WorldInv, Card
  <2>3. PICK x \in Record : installed' = Append(installed, x)
    BY <1>1, <1>2, <2>1, <2>2, RecordsMade
  <2>4. WorldInv'
    BY <1>1, <1>3, <2>1, <2>3 DEF WorldInv
  <2>5. QED
    BY <1>3, <2>1, <2>3, <2>4, WorldChanged
<1>7. CASE RevokeInstallation
  <2>1. PICK i \in Active(installed) :
          installed' = Append(installed, Revocation(installed, NextId(installed), i))
    BY <1>7 DEF RevokeInstallation
  <2>2. files[Launcher] \in Fingerprints
    BY <1>1, <1>2 DEF WorldInv
  <2>3. PICK x \in Record : installed' = Append(installed, x)
    BY <1>1, <1>2, <2>1, <2>2, RecordsMade
  <2>4. UNCHANGED <<strict, installer>>
    BY <1>7 DEF RevokeInstallation
  <2>5. WorldInv'
    BY <1>1, <1>3, <2>3, <2>4 DEF WorldInv
  <2>6. QED
    BY <1>3, <2>3, <2>4, <2>5, WorldChanged
<1>8. QED
  BY <1>4, <1>5, <1>6, <1>7

-----------------------------------------------------------------------------
(***************************************************************************)
(* Steps of the operation leave the world alone.                           *)
(***************************************************************************)
LEMMA OperateStep ==
  ASSUME LInv, NEW next, Operate(next),
         OpInv', CacheInv', PhaseInv', LaunchInv'
  PROVE  LInv'
<1>1. WorldInv'
  BY DEF LInv, WorldInv, Operate
<1>2. QED
  BY <1>1 DEF LInv

\* Ending an operation forgets all of it.
LEMMA Ended ==
  ASSUME LInv, Operate(Nothing)
  PROVE  LInv'
<1>1. op' = Nothing /\ UNCHANGED installed
  BY DEF Operate
<1>2. /\ op'.phase = "idle" /\ op'.stage = "first" /\ op'.launched = {}
      /\ op'.strict = None /\ op'.installation = None /\ op'.began = 0
  BY <1>1 DEF Nothing
<1>3. Nothing \in Operation
  BY DEF Nothing, Operation, Phase, Stages
<1>4. OpInv'
  <2>1. Len(installed) \in Nat
    BY DEF LInv, WorldInv
  <2>2. QED
    BY <1>1, <1>2, <1>3, <2>1 DEF OpInv
<1>5. CacheInv'
  BY <1>2 DEF CacheInv
<1>6. PhaseInv'
  BY <1>2 DEF PhaseInv
<1>7. LaunchInv'
  BY <1>2 DEF LaunchInv, Keeping
<1>8. QED
  BY <1>4, <1>5, <1>6, <1>7, OperateStep

(***************************************************************************)
(* A check that starts keeps what was verified and what was launched.      *)
(***************************************************************************)
LEMMA CheckStarts ==
  ASSUME LInv, NEW bin \in Paths \cup {None}, NEW stage \in Stages
  PROVE  LET next == StartCheck(bin, stage) IN
           /\ next \in Operation /\ next.phase = "resolve" /\ next.stage = stage
           /\ next.bin = bin /\ next.began = Len(installed)
           /\ next.strict = op.strict /\ next.installation = op.installation
           /\ next.launched = op.launched
<1>1. op \in Operation /\ Len(installed) \in Nat
  BY DEF LInv, OpInv, WorldInv
<1>2. QED
  BY <1>1 DEF StartCheck, Operation, Phase

LEMMA Begun ==
  ASSUME LInv, BeginOperation
  PROVE  LInv'
<1>1. PICK bin \in Paths, roster \in Paths \cup {None} :
        op.phase = "idle" /\ Operate([StartCheck(bin, "first") EXCEPT !.roster = roster])
  BY DEF BeginOperation
<1> DEFINE next == StartCheck(bin, "first")
<1>2. /\ next \in Operation /\ next.phase = "resolve" /\ next.stage = "first"
      /\ next.bin \in Paths
      /\ next.began = Len(installed) /\ next.launched = op.launched
      /\ next.strict = op.strict /\ next.installation = op.installation
  BY CheckStarts DEF Stages
<1>3. op' = [next EXCEPT !.roster = roster] /\ UNCHANGED <<strict, installed>>
  BY <1>1 DEF Operate
<1> HIDE DEF next
<1>4. /\ op' \in Operation /\ op'.phase = "resolve" /\ op'.stage = "first"
      /\ op'.bin \in Paths
      /\ op'.began = Len(installed) /\ op'.launched = op.launched
      /\ op'.strict = op.strict /\ op'.installation = op.installation
  BY <1>2, <1>3 DEF Operation
<1>5. OpInv'
  <2>1. Len(installed) \in Nat
    BY DEF LInv, WorldInv
  <2>2. QED
    BY <1>3, <1>4, <2>1 DEF OpInv
<1>6. CacheInv'
  BY <1>3, <1>4 DEF LInv, CacheInv
<1>7. PhaseInv'
  BY <1>4 DEF PhaseInv
<1>8. LaunchInv'
  <2>1. op.launched = {}
    BY <1>1 DEF LInv, LaunchInv, Keeping
  <2>2. QED
    BY <1>4, <2>1 DEF LaunchInv, Keeping
<1>9. QED
  BY <1>1, <1>5, <1>6, <1>7, <1>8, OperateStep

LEMMA RosterChecked ==
  ASSUME LInv, CheckRoster
  PROVE  LInv'
<1>1. op.phase = "cleared" /\ op.stage = "first"
  BY DEF CheckRoster
<1>2. CASE Operate(Nothing)
  BY <1>2, Ended
<1>3. CASE Operate(StartCheck(op.path, "second"))
  <2>1. op.path \in Paths
    BY <1>1 DEF LInv, PhaseInv
  <2>2. op' = StartCheck(op.path, "second") /\ UNCHANGED <<strict, installed>>
    BY <1>3 DEF Operate
  <2>3. /\ op' \in Operation /\ op'.phase = "resolve" /\ op'.stage = "second"
        /\ op'.bin \in Paths
        /\ op'.began = Len(installed) /\ op'.launched = op.launched
        /\ op'.strict = op.strict /\ op'.installation = op.installation
    BY <2>1, <2>2, CheckStarts DEF Stages
  <2>4. OpInv'
    <3>1. Len(installed) \in Nat
      BY DEF LInv, WorldInv
    <3>2. QED
      BY <2>2, <2>3, <3>1 DEF OpInv
  <2>5. CacheInv'
    BY <2>2, <2>3 DEF LInv, CacheInv
  <2>6. PhaseInv'
    BY <2>3 DEF PhaseInv
  <2>7. LaunchInv'
    <3>1. op.launched = {}
      BY <1>1 DEF LInv, LaunchInv, Keeping
    <3>2. QED
      BY <2>3, <3>1 DEF LaunchInv, Keeping
  <2>8. QED
    BY <1>3, <2>4, <2>5, <2>6, <2>7, OperateStep
<1>4. QED
  BY <1>2, <1>3 DEF CheckRoster, Refuse

LEMMA Rechecked ==
  ASSUME LInv, Recheck
  PROVE  LInv'
<1>1. op.phase = "checked" /\ Operate(StartCheck(op.bin, "launch"))
  BY DEF Recheck
<1>2. op.bin \in Paths
  BY <1>1 DEF LInv, OpInv
<1>3. op' = StartCheck(op.bin, "launch") /\ UNCHANGED <<strict, installed>>
  BY <1>1 DEF Operate
<1>4. /\ op' \in Operation /\ op'.phase = "resolve" /\ op'.stage = "launch"
      /\ op'.bin = op.bin /\ op'.began = Len(installed) /\ op'.launched = op.launched
      /\ op'.strict = op.strict /\ op'.installation = op.installation
  BY <1>2, <1>3, CheckStarts DEF Stages
<1>5. OpInv'
  <2>1. Len(installed) \in Nat
    BY DEF LInv, WorldInv
  <2>2. QED
    BY <1>2, <1>3, <1>4, <2>1 DEF OpInv
<1>6. CacheInv'
  BY <1>3, <1>4 DEF LInv, CacheInv
<1>7. PhaseInv'
  BY <1>4 DEF PhaseInv
<1>8. LaunchInv'
  <2>1. op.launched \subseteq {Kept}
    BY <1>1 DEF LInv, LaunchInv, Keeping
  <2>2. Kept' = Kept
    BY <1>4 DEF Kept, CachedInstallation
  <2>3. QED
    BY <1>4, <2>1, <2>2 DEF LaunchInv, Keeping
<1>9. QED
  BY <1>1, <1>5, <1>6, <1>7, <1>8, OperateStep

-----------------------------------------------------------------------------
(***************************************************************************)
(* While a check resolves what it was given, the caches, the executable    *)
(* and what was launched stay.                                             *)
(***************************************************************************)
Resolving(s) ==
  /\ op'.phase \in {"history", "observe", "strict"}
  /\ op'.stage = op.stage /\ op'.bin = op.bin /\ op'.began = op.began
  /\ op'.strict = op.strict /\ op'.installation = op.installation
  /\ op'.launched = op.launched

LEMMA Resolved ==
  ASSUME LInv, NEW next, Operate(next), next \in Operation, Resolving(next),
         op.phase \in {"resolve", "history"}, PhaseInv'
  PROVE  LInv'
<1>1. op' = next /\ UNCHANGED <<strict, installed>>
  BY DEF Operate
<1>2. OpInv'
  BY <1>1 DEF LInv, OpInv, Resolving
<1>3. CacheInv'
  BY <1>1 DEF LInv, CacheInv, Resolving
<1>4. LaunchInv'
  <2>1. Kept' = Kept
    BY DEF Resolving, Kept, CachedInstallation
  <2>2. Keeping' = Keeping
    BY DEF Resolving, Keeping
  <2>3. QED
    BY <2>1, <2>2 DEF LInv, LaunchInv, Resolving
<1>5. QED
  BY <1>2, <1>3, <1>4, OperateStep

LEMMA InstallationsRead ==
  ASSUME LInv, ReadInstallations
  PROVE  LInv'
<1> DEFINE records == ActiveOf(installed, Launcher)
           cached == [op EXCEPT !.phase = "history", !.record = CachedInstallation.record]
           strictly == [op EXCEPT !.phase = "strict", !.path = Canonical(op.bin)]
           selected(r) == [op EXCEPT !.phase = "history", !.record = r]
<1>1. op \in Operation /\ op.phase = "resolve" /\ installed \in Seq(Record)
  BY DEF LInv, OpInv, WorldInv, ReadInstallations
<1>2. op.began \in 0..Len(installed)
  BY <1>1 DEF LInv, OpInv, Operation
<1>3. ASSUME NEW r \in records
      PROVE  r \in Record /\ r.path = Launcher /\ ActiveSince(op.began, r)
  <2>1. r.path = Launcher /\ ActiveThen(installed, Len(installed), r)
    BY <1>1, <1>3, ActiveNow
  <2>2. Len(installed) \in op.began..Len(installed)
    BY <1>1, <1>2
  <2>3. r \in Record
    BY <1>1, <2>1 DEF ActiveThen
  <2>4. QED
    BY <2>1, <2>2, <2>3 DEF ActiveSince
<1>4. CASE Operate(Nothing)
  BY <1>4, Ended
<1>5. ASSUME NEW r \in records, Operate(selected(r)),
             CachedInstallation # None => r = CachedInstallation.record,
             CachedInstallation = None => op.bin = Launcher /\ Full
      PROVE  LInv'
  <2>1. op' = selected(r) /\ UNCHANGED installed
    BY <1>5 DEF Operate
  <2>2. /\ selected(r) \in Operation /\ selected(r).phase = "history"
        /\ selected(r).record = r /\ selected(r).stage = op.stage
        /\ selected(r).bin = op.bin /\ selected(r).began = op.began
        /\ selected(r).strict = op.strict /\ selected(r).installation = op.installation
        /\ selected(r).launched = op.launched
    BY <1>1, <1>3 DEF Operation, Phase
  <2>3. Resolving(selected(r))
    BY <2>1, <2>2 DEF Resolving
  <2>4. CachedInstallation' = CachedInstallation /\ Full' = Full
    BY <2>1, <2>2 DEF CachedInstallation, Full
  <2>5. ActiveSince(op.began, r)'
    BY <1>3, <2>1 DEF ActiveSince
  <2>6. PhaseInv'
    BY <1>3, <1>5, <2>1, <2>2, <2>4, <2>5 DEF PhaseInv, ActiveSince
  <2>7. QED
    BY <1>1, <1>5, <2>2, <2>3, <2>6, Resolved
<1>6. CASE CachedInstallation # None /\ SameInstallation(records) /\ Operate(cached)
  <2>1. CachedInstallation.record \in records
    BY <1>6 DEF SameInstallation
  <2>2. Operate(selected(CachedInstallation.record))
    BY <1>6
  <2>3. QED
    BY <1>5, <1>6, <2>1, <2>2
<1>7. CASE /\ CachedInstallation = None /\ op.bin = Launcher /\ Full
           /\ \E r \in records : Operate(selected(r))
  BY <1>5, <1>7
<1>8. CASE /\ CachedInstallation = None
           /\ op.bin # Launcher \/ (records = {} /\ ~Revoked)
           /\ Operate(strictly)
  <2>1. op' = strictly /\ UNCHANGED installed
    BY <1>8 DEF Operate
  <2>2. Canonical(op.bin) \in Paths
    BY <1>1 DEF LInv, WorldInv, OpInv, Canonical
  <2>3. /\ strictly \in Operation /\ strictly.phase = "strict"
        /\ strictly.path = Canonical(op.bin) /\ strictly.stage = op.stage
        /\ strictly.bin = op.bin /\ strictly.began = op.began
        /\ strictly.strict = op.strict /\ strictly.installation = op.installation
        /\ strictly.launched = op.launched
    BY <1>1, <2>2 DEF Operation, Phase
  <2>4. Resolving(strictly)
    BY <2>1, <2>3 DEF Resolving
  <2>5. CachedInstallation' = None
    BY <1>8, <2>1, <2>3 DEF CachedInstallation
  <2>6. op.bin = Launcher => op.began = 0
    <3>1. op.bin = Launcher => installed = <<>>
      BY <1>8 DEF Revoked
    <3>2. QED
      BY <1>2, <3>1
  <2>7. PhaseInv'
    BY <2>1, <2>2, <2>3, <2>5, <2>6 DEF PhaseInv
  <2>8. QED
    BY <1>1, <1>8, <2>3, <2>4, <2>7, Resolved
<1>9. QED
  BY <1>4, <1>6, <1>7, <1>8 DEF ReadInstallations, Refuse

LEMMA HistoryRead ==
  ASSUME LInv, ReadHistory
  PROVE  LInv'
<1>1. op \in Operation /\ op.phase = "history"
  BY DEF LInv, OpInv, ReadHistory
<1>2. CASE Operate(Nothing)
  BY <1>2, Ended
<1>3. CASE Operate([op EXCEPT !.phase = "observe"])
  <2> DEFINE next == [op EXCEPT !.phase = "observe"]
  <2>1. op' = next /\ UNCHANGED installed
    BY <1>3 DEF Operate
  <2>2. /\ next \in Operation /\ next.phase = "observe" /\ next.record = op.record
        /\ next.stage = op.stage /\ next.bin = op.bin /\ next.began = op.began
        /\ next.strict = op.strict /\ next.installation = op.installation
        /\ next.launched = op.launched
    BY <1>1 DEF Operation, Phase
  <2>3. Resolving(next)
    BY <2>1, <2>2 DEF Resolving
  <2>4. CachedInstallation' = CachedInstallation /\ Full' = Full
    BY <2>1, <2>2 DEF CachedInstallation, Full
  <2>5. PhaseInv'
    BY <1>1, <2>1, <2>2, <2>4 DEF LInv, PhaseInv, ActiveSince
  <2>6. QED
    BY <1>1, <1>3, <2>2, <2>3, <2>5, Resolved
<1>4. QED
  BY <1>2, <1>3 DEF ReadHistory, Refuse

(***************************************************************************)
(* An installation that is checked from the cache is the kept one.         *)
(***************************************************************************)
LEMMA InstallationObserved ==
  ASSUME LInv, ObserveInstallation
  PROVE  LInv'
<1> DEFINE verified == [record |-> op.record, target |-> link, file |-> files[link]]
           next == [op EXCEPT !.phase = "cleared", !.path = link, !.installation = verified]
<1>1. op \in Operation /\ op.phase = "observe"
  BY DEF LInv, OpInv, ObserveInstallation
<1>2. CASE Operate(Nothing)
  BY <1>2, Ended
<1>3. CASE /\ Operate(next) /\ TargetAllowed(op.record.fingerprint)
           /\ CachedInstallation # None =>
                CachedInstallation.target = link /\ CachedInstallation.file = files[link]
  <2>1. op' = next /\ UNCHANGED <<strict, installed>>
    BY <1>3 DEF Operate
  <2>2. link \in Inside /\ link \in Paths /\ link # Launcher
    BY <1>3, LaunchesAssumption DEF TargetAllowed
  <2>3. files[link] \in Fingerprints
    BY <2>2, LaunchesAssumption DEF LInv, WorldInv
  <2>4. /\ op.record \in Record /\ op.record.path = Launcher
        /\ CachedInstallation # None => op.record = CachedInstallation.record
        /\ CachedInstallation = None => op.bin = Launcher /\ Full
    BY <1>1 DEF LInv, PhaseInv
  <2>5. /\ verified \in InstallationCache /\ verified.record = op.record
        /\ verified.target = link
    BY <2>2, <2>3, <2>4 DEF InstallationCache
  <2> HIDE DEF verified
  <2>6. /\ next \in Operation /\ next.phase = "cleared" /\ next.path = link
        /\ next.installation = verified /\ next.record = op.record
        /\ next.stage = op.stage /\ next.bin = op.bin /\ next.began = op.began
        /\ next.strict = op.strict /\ next.launched = op.launched
    BY <1>1, <2>2, <2>5 DEF Operation, Phase
  <2> HIDE DEF next
  <2>7. OpInv'
    BY <1>1, <2>1, <2>6 DEF LInv, OpInv
  <2>8. CacheInv'
    BY <2>1, <2>2, <2>4, <2>5, <2>6 DEF LInv, CacheInv
  <2>9. PhaseInv'
    BY <2>1, <2>2, <2>4, <2>6 DEF PhaseInv
  <2>10. LaunchInv'
    <3>1. CASE op.stage # "launch"
      <4>1. op.launched = {}
        BY <1>1, <3>1 DEF LInv, LaunchInv, Keeping
      <4>2. QED
        BY <2>1, <2>6, <3>1, <4>1 DEF LaunchInv, Keeping
    <3>2. CASE op.stage = "launch"
      <4>1. CachedInstallation # None /\ CachedInstallation = op.installation
        BY <2>4, <3>2 DEF Full, CachedInstallation
      <4>2. op.installation \in InstallationCache
        BY <1>1, <4>1 DEF Operation
      <4>3. /\ op.installation.record = op.record /\ op.installation.target = link
            /\ op.installation.file = files[link]
        BY <1>3, <2>4, <4>1
      <4>4. verified = op.installation
        BY <4>2, <4>3 DEF InstallationCache, verified
      <4>5. Kept' = Kept /\ CachedInstallation' = CachedInstallation
        BY <2>1, <2>6, <4>4 DEF Kept, CachedInstallation
      <4>6. Kept = [policy |-> "installation", path |-> op.bin, record |-> op.record]
        BY <4>1, <4>3 DEF Kept
      <4>7. Policy' = "installation"
        BY <2>1, <2>2, <2>4, <2>6 DEF Policy
      <4>8. op.launched \subseteq {Kept}
        BY <1>1, <3>2 DEF LInv, LaunchInv, Keeping
      <4>9. QED
        BY <2>1, <2>6, <3>2, <4>5, <4>6, <4>7, <4>8 DEF LaunchInv, Keeping
    <3>3. QED
      BY <3>1, <3>2
  <2>11. QED
    BY <1>3, <2>7, <2>8, <2>9, <2>10, OperateStep
<1>4. QED
  BY <1>2, <1>3 DEF ObserveInstallation, Refuse

(***************************************************************************)
(* What the strict policy allows is active now; the kept approval is so if *)
(* the ledger has not changed since it was last seen.                      *)
(***************************************************************************)
LEMMA AllowedIsActive ==
  ASSUME LInv, op.phase = "strict",
         NEW r \in {strict[i] : i \in DOMAIN strict}, StrictAllowed(r)
  PROVE  /\ r \in Record /\ r \in ActiveOf(strict, op.path)
         /\ r.fingerprint = files[op.path]
         /\ ~Full => op.strict # None /\ r = op.strict.record
<1>1. strict \in Seq(Record) /\ r \in Record
  BY DEF LInv, WorldInv
<1>2. r.fingerprint = files[op.path]
  BY DEF StrictAllowed
<1>3. CASE ~CachedStrict
  BY <1>1, <1>2, <1>3 DEF StrictAllowed
<1>4. CASE CachedStrict
  <2>1. op.strict # None /\ r = op.strict.record /\ r.path = op.path
    BY <1>4 DEF CachedStrict, StrictAllowed, SameApproval
  <2>2. CASE LedgerUnchanged
    <3>1. ActiveThen(strict, Len(strict), r)
      BY <2>1, <2>2 DEF LInv, CacheInv, LedgerUnchanged
    <3>2. QED
      BY <1>1, <1>2, <2>1, <3>1, ActiveNow
  <2>3. CASE ~LedgerUnchanged
    BY <1>1, <1>2, <1>4, <2>1, <2>3 DEF StrictAllowed
  <2>4. QED
    BY <2>2, <2>3
<1>5. QED
  BY <1>3, <1>4

LEMMA StrictChecked ==
  ASSUME LInv, CheckStrict
  PROVE  LInv'
<1>1. op \in Operation /\ op.phase = "strict" /\ strict \in Seq(Record)
  BY DEF LInv, OpInv, WorldInv, CheckStrict
<1>2. CASE Operate(Nothing)
  BY <1>2, Ended
<1>3. ASSUME NEW r \in {strict[i] : i \in DOMAIN strict}, StrictAllowed(r),
             Operate([op EXCEPT !.phase = "cleared", !.record = r,
                        !.strict = [record |-> r, seen |-> Len(strict)]])
      PROVE  LInv'
  <2> DEFINE seen == [record |-> r, seen |-> Len(strict)]
             next == [op EXCEPT !.phase = "cleared", !.record = r, !.strict = seen]
  <2>1. op' = next /\ UNCHANGED <<strict, installed>> /\ Operate(next)
    BY <1>3 DEF Operate
  <2>2. /\ r \in Record /\ r \in ActiveOf(strict, op.path)
        /\ ~Full => op.strict # None /\ r = op.strict.record
    BY <1>1, <1>3, AllowedIsActive
  <2>3. r.path = op.path /\ ActiveThen(strict, Len(strict), r)
    BY <1>1, <2>2, ActiveNow
  <2>4. /\ seen \in StrictCache /\ seen.record = r /\ seen.seen = Len(strict)
        /\ Len(strict) \in Nat
    BY <1>1, <2>2 DEF StrictCache
  <2> HIDE DEF seen
  <2>5. /\ next \in Operation /\ next.phase = "cleared" /\ next.path = op.path
        /\ next.strict = seen /\ next.record = r
        /\ next.stage = op.stage /\ next.bin = op.bin /\ next.began = op.began
        /\ next.installation = op.installation /\ next.launched = op.launched
    BY <1>1, <2>2, <2>4 DEF Operation, Phase
  <2> HIDE DEF next
  <2>6. OpInv'
    BY <1>1, <2>1, <2>5 DEF LInv, OpInv
  <2>7. CacheInv'
    BY <2>1, <2>3, <2>4, <2>5 DEF LInv, CacheInv
  <2>8. op.path \in Paths /\ CachedInstallation = None
    BY <1>1 DEF LInv, PhaseInv
  <2>9. PhaseInv'
    BY <2>1, <2>2, <2>5, <2>8 DEF PhaseInv
  <2>10. LaunchInv'
    <3>1. CASE op.stage # "launch"
      <4>1. op.launched = {}
        BY <1>1, <3>1 DEF LInv, LaunchInv, Keeping
      <4>2. QED
        BY <2>1, <2>5, <3>1, <4>1 DEF LaunchInv, Keeping
    <3>2. CASE op.stage = "launch"
      <4>1. r = op.strict.record
        BY <2>2, <3>2 DEF Full
      <4>2. CachedInstallation' = None
        BY <2>1, <2>5, <2>8 DEF CachedInstallation
      <4>3. /\ Kept = [policy |-> "strict", path |-> op.bin, record |-> r]
            /\ Kept' = [policy |-> "strict", path |-> op.bin, record |-> r]
        BY <2>1, <2>4, <2>5, <2>8, <4>1, <4>2 DEF Kept
      <4>4. Policy' = "strict"
        BY <2>1, <2>3, <2>5 DEF Policy
      <4>5. op.launched \subseteq {Kept}
        BY <1>1, <3>2 DEF LInv, LaunchInv, Keeping
      <4>6. QED
        BY <2>1, <2>5, <3>2, <4>3, <4>4, <4>5 DEF LaunchInv, Keeping
    <3>3. QED
      BY <3>1, <3>2
  <2>11. QED
    BY <2>1, <2>6, <2>7, <2>9, <2>10, OperateStep
<1>4. QED
  BY <1>2, <1>3 DEF CheckStrict, Refuse

-----------------------------------------------------------------------------
(***************************************************************************)
(* Between checks the operation keeps the executable it found.             *)
(***************************************************************************)
LEMMA KeptForLaunch ==
  ASSUME NEW next \in Operation
  PROVE  /\ Checked(next) \in Operation /\ Checked(next).phase = "checked"
         /\ Checked(next).bin = next.path /\ Checked(next).began = 0
         /\ Checked(next).stage = "first"
         /\ Checked(next).strict = next.strict
         /\ Checked(next).installation = next.installation
         /\ Checked(next).launched = next.launched
BY DEF Checked, Operation, Phase, Stages

LEMMA ExecutableKept ==
  ASSUME LInv, KeepExecutable
  PROVE  LInv'
<1>1. /\ op \in Operation /\ op.phase = "cleared" /\ op.stage = "second"
      /\ Operate(Checked(op))
  BY DEF LInv, OpInv, KeepExecutable
<1>2. op' = Checked(op) /\ UNCHANGED <<strict, installed>>
  BY <1>1 DEF Operate
<1>3. /\ op' \in Operation /\ op'.phase = "checked" /\ op'.bin = op.path
      /\ op'.began = 0 /\ op'.strict = op.strict /\ op'.installation = op.installation
      /\ op'.launched = op.launched
  BY <1>1, <1>2, KeptForLaunch
<1>4. op.path \in Paths
  BY <1>1 DEF LInv, PhaseInv
<1>5. OpInv'
  <2>1. Len(installed) \in Nat
    BY DEF LInv, WorldInv
  <2>2. QED
    BY <1>2, <1>3, <1>4, <2>1 DEF OpInv
<1>6. CacheInv'
  BY <1>2, <1>3 DEF LInv, CacheInv
<1>7. PhaseInv'
  BY <1>3 DEF PhaseInv
<1>8. LaunchInv'
  <2>1. op.launched = {}
    BY <1>1 DEF LInv, LaunchInv, Keeping
  <2>2. QED
    BY <1>3, <2>1 DEF LaunchInv, Keeping
<1>9. QED
  BY <1>1, <1>5, <1>6, <1>7, <1>8, OperateStep

LEMMA Launched ==
  ASSUME LInv, Launch
  PROVE  LInv'
<1> DEFINE launch == [policy |-> Policy, path |-> op.bin, record |-> op.record]
           kept == Checked(op)
           next == [kept EXCEPT !.bin = op.bin, !.launched = @ \cup {launch}]
<1>1. op \in Operation /\ op.phase = "cleared" /\ op.stage = "launch"
  BY DEF LInv, OpInv, Launch
<1>2. Operate(next)
  BY DEF Launch
<1>3. op' = next /\ UNCHANGED <<strict, installed>>
  BY <1>2 DEF Operate
<1>4. launch = Kept /\ op.launched \subseteq {Kept}
  BY <1>1 DEF LInv, LaunchInv, Keeping
<1>5. launch \in Launches
  BY <1>1 DEF LInv, OpInv, PhaseInv, Launches, Policy
<1>6. /\ kept \in Operation /\ kept.phase = "checked" /\ kept.began = 0
      /\ kept.stage = "first" /\ kept.strict = op.strict
      /\ kept.installation = op.installation /\ kept.launched = op.launched
  BY <1>1, KeptForLaunch
<1>7. op.bin \in Paths
  BY <1>1 DEF LInv, OpInv
<1> HIDE DEF kept, launch
<1>8. /\ next \in Operation /\ next.phase = "checked" /\ next.began = 0
      /\ next.bin = op.bin /\ next.strict = op.strict
      /\ next.installation = op.installation
      /\ next.launched = op.launched \cup {launch}
  BY <1>5, <1>6, <1>7 DEF Operation
<1> HIDE DEF next
<1>9. OpInv'
  <2>1. Len(installed) \in Nat
    BY DEF LInv, WorldInv
  <2>2. QED
    BY <1>3, <1>7, <1>8, <2>1 DEF OpInv
<1>10. CacheInv'
  BY <1>3, <1>8 DEF LInv, CacheInv
<1>11. PhaseInv'
  BY <1>3, <1>8 DEF PhaseInv
<1>12. LaunchInv'
  <2>1. Kept' = Kept
    BY <1>3, <1>8 DEF Kept, CachedInstallation
  <2>2. QED
    BY <1>3, <1>4, <1>8, <2>1 DEF LaunchInv, Keeping
<1>13. QED
  BY <1>2, <1>9, <1>10, <1>11, <1>12, OperateStep

-----------------------------------------------------------------------------
LEMMA LaunchesStart == LaunchesInit => LInv
<1> SUFFICES ASSUME LaunchesInit PROVE LInv
  OBVIOUS
<1>1. MaxChanges \in Nat /\ Inside \subseteq Paths
  BY LaunchesAssumption
<1>2. WorldInv
  BY <1>1 DEF LaunchesInit, WorldInv
<1>3. /\ op.phase = "idle" /\ op.stage = "first" /\ op.launched = {} /\ op.strict = None
      /\ op.installation = None /\ op.began = 0 /\ op \in Operation
  BY DEF LaunchesInit, Nothing, Operation, Phase, Stages
<1>4. installed = <<>>
  BY DEF LaunchesInit
<1>5. OpInv /\ CacheInv /\ PhaseInv /\ LaunchInv
  BY <1>3, <1>4 DEF OpInv, CacheInv, PhaseInv, LaunchInv, Keeping
<1>6. QED
  BY <1>2, <1>5 DEF LInv

LEMMA LaunchesStep == LInv /\ [LaunchesNext]_launchVars => LInv'
<1> SUFFICES ASSUME LInv, [LaunchesNext]_launchVars PROVE LInv'
  OBVIOUS
<1>1. CASE UNCHANGED launchVars
  <2>1. WorldInv' /\ op' = op /\ UNCHANGED <<strict, installed>>
    BY <1>1 DEF LInv, WorldInv, launchVars
  <2>2. QED
    BY <2>1, WorldChanged
<1>2. CASE WriteFile \/ MoveLink \/ ReplaceRoot \/ ReviewCard \/ BeginInstallation
             \/ GiveUpInstallation
  BY <1>2, WorldStep
<1>3. CASE ApproveStrict \/ RevokeStrict \/ ApproveInstallation \/ RevokeInstallation
  BY <1>3, LedgerStep
<1>4. CASE BeginOperation
  BY <1>4, Begun
<1>5. CASE ReadInstallations
  BY <1>5, InstallationsRead
<1>6. CASE ReadHistory
  BY <1>6, HistoryRead
<1>7. CASE ObserveInstallation
  BY <1>7, InstallationObserved
<1>8. CASE CheckStrict
  BY <1>8, StrictChecked
<1>9. CASE CheckRoster
  BY <1>9, RosterChecked
<1>10. CASE KeepExecutable
  BY <1>10, ExecutableKept
<1>11. CASE Recheck
  BY <1>11, Rechecked
<1>12. CASE Launch
  BY <1>12, Launched
<1>13. CASE EndOperation
  BY <1>13, Ended DEF EndOperation
<1>14. QED
  BY <1>1, <1>2, <1>3, <1>4, <1>5, <1>6, <1>7, <1>8, <1>9, <1>10, <1>11, <1>12, <1>13
  DEF LaunchesNext

(***************************************************************************)
(* The invariant holds in every reachable state.                           *)
(***************************************************************************)
THEOREM LaunchesInvariant == LaunchesSpec => []LInv
BY LaunchesStart, LaunchesStep, PTL DEF LaunchesSpec

(***************************************************************************)
(* An operation launches one executable under one approval, whatever       *)
(* operators approve and updaters move meanwhile.  (require_approved_      *)
(* executable, require_approved_metadata, _require_product_metadata.)      *)
(***************************************************************************)
THEOREM OneApprovalEver == LaunchesSpec => []OneApprovalPerOperation
<1>1. LInv => OneApprovalPerOperation
  <2> SUFFICES ASSUME LInv PROVE Cardinality(op.launched) <= 1
    BY DEF OneApprovalPerOperation
  <2>1. op.launched \subseteq {Kept}
    BY DEF LInv, LaunchInv
  <2>2. IsFiniteSet({Kept}) /\ Cardinality({Kept}) = 1
    BY FS_Singleton
  <2>3. Cardinality(op.launched) <= Cardinality({Kept})
    BY <2>1, <2>2, FS_Subset
  <2>4. QED
    BY <2>2, <2>3
<1>2. QED
  BY <1>1, LaunchesInvariant, PTL

LEMMA ClearsApproved ==
  ASSUME LInv, [LaunchesNext]_launchVars, Clears
  PROVE  ApprovedStrictly(op'.record, op'.path) \/ ApprovedByInstallation(op'.record, op'.path)
<1>1. op \in Operation /\ op'.phase = "cleared" /\ op.phase # "cleared"
  BY DEF LInv, OpInv, Clears
<1>2. Nothing.phase = "idle"
  BY DEF Nothing
<1>3. CASE CheckStrict
  <2>1. op.phase = "strict"
    BY <1>3 DEF CheckStrict
  <2>2. PICK r \in {strict[i] : i \in DOMAIN strict} :
          /\ StrictAllowed(r)
          /\ op' = [op EXCEPT !.phase = "cleared", !.record = r,
                      !.strict = [record |-> r, seen |-> Len(strict)]]
    BY <1>1, <1>2, <1>3 DEF CheckStrict, Refuse, Operate
  <2>3. op'.record = r /\ op'.path = op.path
    BY <1>1, <2>2 DEF Operation
  <2>4. r \in ActiveOf(strict, op.path) /\ r.fingerprint = files[op.path]
    BY <2>1, <2>2, AllowedIsActive
  <2>5. QED
    BY <2>3, <2>4 DEF ApprovedStrictly
<1>4. CASE ObserveInstallation
  <2>1. /\ op.phase = "observe" /\ TargetAllowed(op.record.fingerprint)
        /\ CachedInstallation # None => CachedInstallation.file = files[link]
        /\ op' = [op EXCEPT !.phase = "cleared", !.path = link,
                    !.installation =
                      [record |-> op.record, target |-> link, file |-> files[link]]]
    BY <1>1, <1>2, <1>4 DEF ObserveInstallation, Refuse, Operate
  <2>2. op'.record = op.record /\ op'.path = link
    BY <1>1, <2>1 DEF Operation
  <2>3. link \in Inside /\ root = op.record.fingerprint
    BY <2>1 DEF TargetAllowed
  <2>4. /\ op.record.path = Launcher
        /\ CachedInstallation = None => op.bin = Launcher
    BY <2>1 DEF LInv, PhaseInv
  <2>5. PICK n \in op.began..Len(installed) : ActiveThen(installed, n, op.record)
    BY <2>1 DEF LInv, PhaseInv, ActiveSince
  <2>6. op.began \in Nat /\ installed \in Seq(Record) /\ n \in 0..Len(installed)
    BY <1>1, <2>5 DEF LInv, WorldInv, Operation
  <2>7. op.record \in ActiveOf(SubSeq(installed, 1, n), Launcher)
    BY <2>4, <2>5, <2>6, ActiveInBeginning
  <2>8. op.installation # None => op.installation.file = files[link]
    BY <2>1, <2>4 DEF CachedInstallation
  <2>9. QED
    BY <2>2, <2>3, <2>5, <2>7, <2>8 DEF ApprovedByInstallation
<1>5. CASE op' = op
  BY <1>1, <1>5
<1>6. CASE \E bin \in Paths \cup {None}, stage \in Stages : op' = StartCheck(bin, stage)
  <2>1. op'.phase = "resolve"
    BY <1>6, CheckStarts
  <2>2. QED
    BY <1>1, <2>1
<1>7. CASE BeginOperation
  <2>1. PICK bin \in Paths, roster \in Paths \cup {None} :
          op' = [StartCheck(bin, "first") EXCEPT !.roster = roster]
    BY <1>7 DEF BeginOperation, Operate
  <2>2. StartCheck(bin, "first") \in Operation /\ StartCheck(bin, "first").phase = "resolve"
    BY CheckStarts DEF Stages
  <2>3. op'.phase = "resolve"
    BY <2>1, <2>2 DEF Operation
  <2>4. QED
    BY <1>1, <2>3
<1>8. CASE op' = Nothing
  BY <1>1, <1>2, <1>8
<1>9. CASE ReadInstallations \/ ReadHistory
  <2>1. op'.phase \in {"history", "strict", "observe", "idle"}
    <3>1. CASE ReadInstallations
      BY <1>1, <1>2, <3>1 DEF ReadInstallations, Refuse, Operate, Operation
    <3>2. CASE ReadHistory
      BY <1>1, <1>2, <3>2 DEF ReadHistory, Refuse, Operate, Operation
    <3>3. QED
      BY <1>9, <3>1, <3>2
  <2>2. QED
    BY <1>1, <2>1
<1>10. CASE Launch \/ KeepExecutable \/ CheckRoster
  BY <1>1, <1>10 DEF Launch, KeepExecutable, CheckRoster
<1>11. CASE Recheck
  <2>1. op.bin \in Paths /\ op' = StartCheck(op.bin, "launch")
    BY <1>11 DEF LInv, OpInv, Recheck, Operate
  <2>2. QED
    BY <1>6, <2>1 DEF Stages
<1>12. CASE EndOperation
  BY <1>8, <1>12 DEF EndOperation, Operate
<1>13. CASE \/ WriteFile \/ MoveLink \/ ReplaceRoot \/ ApproveStrict \/ RevokeStrict
            \/ ReviewCard \/ BeginInstallation \/ ApproveInstallation
            \/ GiveUpInstallation \/ RevokeInstallation
  BY <1>5, <1>13 DEF WriteFile, MoveLink, ReplaceRoot, ApproveStrict, RevokeStrict,
       ReviewCard, BeginInstallation, ApproveInstallation, GiveUpInstallation,
       RevokeInstallation
<1>14. QED
  BY <1>3, <1>4, <1>5, <1>7, <1>9, <1>10, <1>11, <1>12, <1>13 DEF LaunchesNext, launchVars

(***************************************************************************)
(* What a check clears is approved as it is: strictly and actively now, or *)
(* by an installation not revoked when the check began, whose launcher     *)
(* leads to that very file.  (require_approved_metadata, resolve.)         *)
(***************************************************************************)
THEOREM ClearedIsApproved == LaunchesSpec => LaunchesApproved
<1>1. LInv /\ [LaunchesNext]_launchVars =>
        [Clears => \/ ApprovedStrictly(op'.record, op'.path)
                   \/ ApprovedByInstallation(op'.record, op'.path)]_launchVars
  BY ClearsApproved
<1>2. QED
  BY <1>1, LaunchesInvariant, PTL DEF LaunchesSpec, LaunchesApproved

(***************************************************************************)
(* An operation asked for a launcher that ever had an installation         *)
(* approval is never cleared by a strict one.  (resolve.)                  *)
(***************************************************************************)
THEOREM NeverFallsBack == LaunchesSpec => NoStrictFallback
<1> DEFINE Fallback == Clears /\ op.bin = Launcher /\ link # None /\ op.phase = "strict"
           Approved == \E i \in 1..op.began : installed[i].event = "approved"
<1>1. LInv /\ [LaunchesNext]_launchVars => [Fallback => ~Approved]_launchVars
  BY DEF LInv, PhaseInv
<1>2. QED
  BY <1>1, LaunchesInvariant, PTL DEF LaunchesSpec, NoStrictFallback
===============================================================================
