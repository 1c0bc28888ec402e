--------------------------- MODULE ProductLaunches ---------------------------
(***************************************************************************)
(* What stands between a transport command and the product executable it   *)
(* launches.  An executable is approved either strictly, by the complete   *)
(* fingerprint of one canonical path, or through an installation: a stable *)
(* launcher, a link whose target may change inside an approved directory.  *)
(*                                                                         *)
(* An operation verifies the executable it was given in full, compares it  *)
(* with the roster's selection, and resolves the result once more where it *)
(* launches it.  What was verified is kept in a cache of the process, and  *)
(* before each launch only the ledger records and the file's metadata are  *)
(* checked again.  Meanwhile operators approve and revoke, and updaters    *)
(* write files and move the link.                                          *)
(*                                                                         *)
(* The two ledgers have a file lock each.  Here a mutation of a ledger is  *)
(* one step; ProductApprovals has its failures.                            *)
(***************************************************************************)
EXTENDS ApprovalLedger

CONSTANTS
  Launcher,    \* the path of the stable launcher, outside the installation
  Inside,      \* paths inside the installation's root
  MaxChanges,  \* bound of the model: changes of files, link and root
  None

ASSUME LaunchesAssumption ==
  /\ Launcher \in Paths /\ Inside \subseteq Paths /\ Launcher \notin Inside
  /\ MaxChanges \in Nat /\ 0..MaxChanges \subseteq Fingerprints /\ None \notin Paths

VARIABLES
  strict,     \* records of the strict approval ledger
  installed,  \* records of the installation ledger; all of the launcher
  files,      \* the complete fingerprint of what is at each path
  link,       \* the target of the launcher, or None: a file of its own
  root,       \* the identity of the installation's root directory
  changes,    \* changes so far
  installer,  \* the command that approves the installation
  op          \* the operation that launches the product

launchVars == <<strict, installed, files, link, root, changes, installer, op>>

(***************************************************************************)
(* ExecutableFingerprint covers content, inode and change time: whatever   *)
(* is written or put in place has a fingerprint that nothing had before,   *)
(* and metadata and complete fingerprint differ together.  A fingerprint   *)
(* is the number of the change that made it; a root's identity likewise.   *)
(***************************************************************************)
Fresh == changes + 1

(***************************************************************************)
(* _VerifiedApproval and _VerifiedInstallation, one entry of each: an      *)
(* operation that resolves to another path ends.  "seen" identifies the    *)
(* ledger file, which only grows, by its length.                           *)
(***************************************************************************)
StrictCache == [record : Record, seen : Nat]
InstallationCache == [record : Record, target : Paths, file : Fingerprints]

\* The first resolution, the second, and the check before a launch.
Stages == {"first", "second", "launch"}

Nothing ==
  [phase |-> "idle", stage |-> "first", bin |-> None, roster |-> None, path |-> None,
   strict |-> None, installation |-> None, record |-> None, began |-> 0,
   launched |-> {}]

Change == changes < MaxChanges /\ changes' = Fresh

ActiveOf(records, path) ==
  {records[i] : i \in {j \in Active(records) : records[j].path = path}}

\* _resolved_candidate_path: links are followed.
Canonical(path) == IF path = Launcher /\ link # None THEN link ELSE path

-----------------------------------------------------------------------------
\* Updaters write any file and move the link at any time.
WriteFile ==
  /\ Change
  /\ \E p \in Paths : files' = [files EXCEPT ![p] = Fresh]
  /\ UNCHANGED <<strict, installed, link, root, installer, op>>

MoveLink ==
  /\ Change
  /\ link' \in (Paths \ {Launcher}) \cup {None} /\ link' # link
  /\ UNCHANGED <<strict, installed, files, root, installer, op>>

\* Another directory takes its place, with everything in it.
ReplaceRoot ==
  /\ Change
  /\ root' \in 0..Fresh \ {root}
  /\ files' = [p \in Paths |-> IF p \in Inside THEN Fresh ELSE files[p]]
  /\ UNCHANGED <<strict, installed, link, installer, op>>

\* Ids are positions: they are only compared within one ledger.
NextId(records) == Len(records) + 1

\* approve_candidate: the reviewed card is checked again under the lock.
ApproveStrict ==
  /\ Len(strict) < MaxRecords
  /\ \E p \in Paths :
       /\ Canonical(p) = p /\ NoneActive(strict, p)
       /\ strict' = Append(strict, Approval(strict, NextId(strict), p, files[p]))
  /\ UNCHANGED <<installed, files, link, root, changes, installer, op>>

RevokeStrict ==
  /\ Len(strict) < MaxRecords
  /\ \E i \in Active(strict) :
       strict' = Append(strict, Revocation(strict, NextId(strict), i))
  /\ UNCHANGED <<installed, files, link, root, changes, installer, op>>

-----------------------------------------------------------------------------
\* has_approval_history: approvals count even when revoked.
StrictHistory(records, path) ==
  \E i \in DOMAIN records : records[i].event = "approved" /\ records[i].path = path

NoStrictHistory == ~StrictHistory(strict, Launcher)

\* _inspect, after its history check: the root is the selected one, and the
\* launcher's target is inside.
TargetAllowed(selection) == root = selection /\ link \in Inside

\* discover: the card that the operator reviewed, of root, target and
\* fingerprint; approve begins by making it again.
ReviewCard ==
  /\ installer = None
  /\ NoStrictHistory /\ TargetAllowed(root)
  /\ installer' = [locked |-> FALSE, root |-> root, target |-> link, file |-> files[link]]
  /\ UNCHANGED <<strict, installed, files, link, root, changes, op>>

\* approve, under the lock of the installation ledger; the strict ledger is
\* read under its own lock, and released before the append.
BeginInstallation ==
  /\ installer # None /\ ~installer.locked
  /\ NoneActive(installed, Launcher) /\ Len(installed) < MaxRecords
  /\ NoStrictHistory
  /\ installer' = [installer EXCEPT !.locked = TRUE]
  /\ UNCHANGED <<strict, installed, files, link, root, changes, op>>

ApproveInstallation ==
  /\ installer # None /\ installer.locked
  /\ TargetAllowed(installer.root)
  /\ installer.target = link /\ installer.file = files[link]
  /\ installed' = Append(installed,
                    Approval(installed, NextId(installed), Launcher, installer.root))
  /\ installer' = None
  /\ UNCHANGED <<strict, files, link, root, changes, op>>

GiveUpInstallation ==
  /\ installer # None /\ installer' = None
  /\ UNCHANGED <<strict, installed, files, link, root, changes, op>>

InstallationFree == installer # None => ~installer.locked

RevokeInstallation ==
  /\ InstallationFree /\ Len(installed) < MaxRecords
  /\ \E i \in Active(installed) :
       installed' = Append(installed, Revocation(installed, NextId(installed), i))
  /\ UNCHANGED <<strict, files, link, root, changes, installer, op>>

-----------------------------------------------------------------------------
Operate(next) ==
  /\ op' = next
  /\ UNCHANGED <<strict, installed, files, link, root, changes, installer>>

\* A check starts: require_approved_executable or require_approved_metadata.
StartCheck(bin, stage) ==
  [op EXCEPT !.phase = "resolve", !.stage = stage, !.bin = bin, !.path = None,
             !.record = None, !.began = Len(installed)]

Full == op.stage # "launch"

\* begin_operation, then the full check of the executable supplied, for a
\* participant with a rostered selection or for none.
BeginOperation ==
  \E bin \in Paths, roster \in Paths \cup {None} :
    /\ op.phase = "idle"
    /\ Operate([StartCheck(bin, "first") EXCEPT !.roster = roster])

Refuse == Operate(Nothing)

\* The operation's verified installation, if it is asked for again.
CachedInstallation ==
  IF op.installation # None /\ op.bin \in {Launcher, op.installation.target}
  THEN op.installation ELSE None

SameInstallation(records) == records = {CachedInstallation.record}

RevokedFault == FALSE

\* status: the launcher had an approval, and has none now.
Revoked == installed # <<>> /\ ActiveOf(installed, Launcher) = {}

(***************************************************************************)
(* resolve, with status under the shared lock of the installation ledger.  *)
(* A selected launcher never falls back on a strict approval.              *)
(***************************************************************************)
ReadInstallations ==
  /\ op.phase = "resolve" /\ InstallationFree
  /\ LET records == ActiveOf(installed, Launcher) IN
       IF CachedInstallation # None
       THEN IF SameInstallation(records)
            THEN Operate([op EXCEPT !.phase = "history",
                                    !.record = CachedInstallation.record])
            ELSE Refuse
       ELSE IF op.bin # Launcher \/ (records = {} /\ ~Revoked)
       THEN Operate([op EXCEPT !.phase = "strict", !.path = Canonical(op.bin)])
       ELSE IF records # {} /\ Full
       THEN \E r \in records : Operate([op EXCEPT !.phase = "history", !.record = r])
       ELSE Refuse

ReadHistory ==
  /\ op.phase = "history"
  /\ IF NoStrictHistory THEN Operate([op EXCEPT !.phase = "observe"]) ELSE Refuse

\* _inspect: in full the first time; then target and metadata must be those
\* that were verified.
ObserveInstallation ==
  /\ op.phase = "observe"
  /\ IF /\ TargetAllowed(op.record.fingerprint)
        /\ CachedInstallation # None =>
             CachedInstallation.target = link /\ CachedInstallation.file = files[link]
     THEN Operate([op EXCEPT !.phase = "cleared", !.path = link,
                     !.installation =
                        [record |-> op.record, target |-> link, file |-> files[link]]])
     ELSE Refuse

LedgerUnchangedFault == TRUE
LedgerUnchanged == op.strict.seen = Len(strict)

SameApprovalFault(r) == r.path = op.path

\* The active record is the one that was verified.
SameApproval(r) == r = op.strict.record

CachedStrict == op.strict # None /\ op.strict.record.path = op.path

(***************************************************************************)
(* The strict policy, under the shared lock of its ledger: in full the     *)
(* first time; then the record must still be active if the ledger changed, *)
(* and the metadata those that were verified.                              *)
(***************************************************************************)
StrictAllowed(r) ==
  /\ r.fingerprint = files[op.path]
  /\ IF CachedStrict
     THEN SameApproval(r) /\ (LedgerUnchanged \/ r \in ActiveOf(strict, op.path))
     ELSE Full /\ r \in ActiveOf(strict, op.path)

CheckStrict ==
  /\ op.phase = "strict"
  /\ LET allowed == {r \in {strict[i] : i \in DOMAIN strict} : StrictAllowed(r)} IN
       IF allowed = {} THEN Refuse
       ELSE \E r \in allowed :
              Operate([op EXCEPT !.phase = "cleared", !.record = r,
                         !.strict = [record |-> r, seen |-> Len(strict)]])

-----------------------------------------------------------------------------
Policy == IF op.record.path = Launcher /\ op.path # Launcher THEN "installation" ELSE "strict"

\* selected_path: an installation verified in this operation stands for its
\* target.
SelectedPath ==
  IF op.installation # None /\ op.installation.target = op.path THEN Launcher ELSE op.path

\* _require_approved_product_executable: only what the roster selects.
CheckRoster ==
  /\ op.phase = "cleared" /\ op.stage = "first"
  /\ IF op.roster \in {None, SelectedPath}
     THEN Operate(StartCheck(op.path, "second"))
     ELSE Refuse

Checked(next) ==
  [next EXCEPT !.phase = "checked", !.stage = "first", !.bin = next.path,
               !.path = None, !.record = None, !.began = 0]

\* What the second resolution found is what the operation launches.
KeepExecutable ==
  /\ op.phase = "cleared" /\ op.stage = "second"
  /\ Operate(Checked(op))

\* _require_product_metadata
Recheck ==
  /\ op.phase = "checked"
  /\ Operate(StartCheck(op.bin, "launch"))

\* What is launched is the path that was kept.
Launch ==
  /\ op.phase = "cleared" /\ op.stage = "launch"
  /\ LET launch == [policy |-> Policy, path |-> op.bin, record |-> op.record] IN
       Operate([Checked(op) EXCEPT !.bin = op.bin, !.launched = @ \cup {launch}])

EndOperation == op.phase = "checked" /\ Operate(Nothing)

LaunchesInit ==
  /\ strict = <<>> /\ installed = <<>>
  /\ files = [p \in Paths |-> 0]
  /\ link \in Inside \cup {None} /\ root = 0
  /\ changes = 0 /\ installer = None /\ op = Nothing

LaunchesNext ==
  \/ WriteFile \/ MoveLink \/ ReplaceRoot
  \/ ApproveStrict \/ RevokeStrict
  \/ ReviewCard \/ BeginInstallation \/ ApproveInstallation \/ GiveUpInstallation
  \/ RevokeInstallation
  \/ BeginOperation \/ ReadInstallations \/ ReadHistory \/ ObserveInstallation
  \/ CheckStrict \/ CheckRoster \/ KeepExecutable \/ Recheck \/ Launch \/ EndOperation

LaunchesSpec == LaunchesInit /\ [][LaunchesNext]_launchVars

-----------------------------------------------------------------------------
Clears == op.phase # "cleared" /\ op'.phase = "cleared"

(***************************************************************************)
(* What a check clears, in full or from the cache, is approved as it is:   *)
(* by a strict approval that is active now and has the complete            *)
(* fingerprint of the file there now; or by an installation that was not   *)
(* yet revoked when the check began, whose launcher now leads to that file *)
(* inside it, unchanged since the operation fingerprinted it.              *)
(* (require_approved_executable, require_approved_metadata, resolve.)      *)
(***************************************************************************)
ApprovedStrictly(r, path) ==
  r \in ActiveOf(strict, path) /\ r.fingerprint = files[path]

ApprovedByInstallation(r, path) ==
  /\ link = path /\ path \in Inside /\ root = r.fingerprint
  /\ \E n \in op.began..Len(installed) :
       r \in ActiveOf(SubSeq(installed, 1, n), Launcher)
  /\ op.installation # None => op.installation.file = files[path]

LaunchesApproved ==
  [][Clears => \/ ApprovedStrictly(op'.record, op'.path)
               \/ ApprovedByInstallation(op'.record, op'.path)]_launchVars

(***************************************************************************)
(* An operation launches one executable under one approval: it never goes  *)
(* over from one policy to the other, to another path or to another        *)
(* record, whatever operators approve and updaters move meanwhile.         *)
(***************************************************************************)
OneApprovalPerOperation == Cardinality(op.launched) <= 1

(***************************************************************************)
(* A launcher whose installation approval is revoked is not launched under *)
(* a strict approval of what it leads to: an operation asked for it after  *)
(* the revocation ends.  (resolve, "no strict fallback was attempted".)    *)
(***************************************************************************)
NoStrictFallback ==
  [][Clears /\ op.bin = Launcher /\ link # None /\ op.phase = "strict"
       => ~\E i \in 1..op.began : installed[i].event = "approved"]_launchVars
=============================================================================
