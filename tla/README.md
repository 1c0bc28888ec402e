# Formal verification of CAM/1 (cross-agent messaging)

CAM/1 lets a Codex session and a Claude Code session on one host exchange
envelopes about one project. There is no daemon. Every command is a short
process that takes the project lock, replays an append-only journal, decides,
appends records and exits. The state of the system is the journal; everything
else (lifecycles, roster, causal contexts, gates) is recomputed from it.

That design makes each command easy to test and their combination hard to: what
matters happens when several processes, two products, an operator and the host
take their steps in an order nobody wrote down. These modules explore those
orders, and prove the most important consequences for every instance.

1. [Inventory of the system](#inventory-of-the-system)
2. [The modules](#the-modules)
3. [Module by module](#module-by-module)
4. [Runs, bounds and what they show](#runs-bounds-and-what-they-show)
5. [Theorems](#theorems)
6. [What is not modelled](#what-is-not-modelled)
7. [Plan](#plan)

Paths are relative to `src/tools` unless they say otherwise.

## Inventory of the system

### Project journal (`cam1lib/journal.py`, `journal_recovery.py`, `project.py`)

- **State**: a file of chained, digested records, one per line, at most
  `MAX_JOURNAL_RECORDS`; a lock file; archives of damaged journals; per process a
  verified view of the file, valid inside one transaction.
- **Operations**: acquire and release the transaction lock, verify, append (write,
  then fsync), inspect a partial tail, recover it (archive, replace by rename,
  sync the directory).
- **Hard**: a write that stops half-way, a process that dies anywhere, a host
  crash that loses what was not synced or brings a renamed file back, an operator
  who confirms a recovery of a file that has changed since it was inspected.
- **Correct when**: complete lines always form one verified chain; what was
  reported as appended stays; a partial line goes only with a confirmation of
  exactly that file, and into an archive.

### Request lifecycle (`cam1lib/lifecycle.py`, `state_projection.py`)

- **State**: a projection with one entry per root envelope (hello, challenge,
  request, cancel): state, replies, renewal and cancel links, nonce use.
- **Operations**: register a root (new, renewal or cancel), apply a reply, mark a
  root expired. Every reader applies the same events.
- **Hard**: events arrive in any order and carry times observed by different
  processes; a reply is committed under an observation made before its dispatch;
  renewal, cancel, reply and expiry of one request race each other.
- **Correct when**: an operation is confirmed at most once however often it is
  renewed, outcomes are final, cancels and their targets agree, and nothing is
  confirmed after its expiry.

### Outbound transport (`cam1_transport.py`, `cam1_transport_native.py`, `cam1_transport_retry.py`, `cam1lib/transport_audit.py`)

- **State**: intents and outcomes in the journal; per process the attempt
  (`_SendAttempt`); outside the program, what the product took.
- **Operations**: journal an intent (and register a root) under the lock; hand the
  envelope to the product without it; read a receipt; journal the outcome and
  commit the reply under the lock again; retry after a named attempt.
- **Hard**: the world moves while the lock is free; the product may take an
  envelope after the sender gave up; the process may die between any two steps.
- **Correct when**: recorded outcomes are true for ever, no envelope is handed over
  twice, replies to one root take turns, every send ends.

### Participants, enrollment and routing (`cam1lib/participants.py`, `enrollment.py`, `routing.py`, `cam1_project.py`)

- **State**: participants with name, vendor, status, session, binding generation,
  route and versioned metadata; enrollment proposals; per sender what it read before discovery.
- **Operations**: add, rename, describe, bind, confirm a route, invalidate, remove;
  propose and confirm an enrollment; capture, discover, use a route.
- **Hard**: two operators describe a participant from the same reading; a sender reads the roster, releases the lock while it asks the product
  where the session lives, and uses the answer in a second transaction.
- **Correct when**: no session or address serves two participants, no selector
  means two, a confirmation is never carried to another binding, no intent is
  recorded for a binding that is no longer current, no update is overwritten.

### Causal ordering and intake (`cam1lib/causal.py`, `inbound.py`)

- **State**: the contexts recorded with intents, the assessments of received
  messages, the position of the feature's gate.
- **Operations**: build a context, retry with the same context, assess an
  instruction, validate or hold a message, recognise a duplicate.
- **Hard**: an instruction written before its sender read an answer arrives after
  the receiver acted on it; messages are retried, lost, repeated, carried by hand;
  the intake dies between its two records.
- **Correct when**: an instruction is accepted only if its sender knew whatever its
  receiver may have told it, no legal sequence of commands leaves a journal that
  the causal reader refuses, and the gate closes no conversation.

### Compatibility gates (`cam1lib/compatibility.py`, `compatibility_cli.py`)

- **State**: plans with a frozen roster, readiness records, activated gates.
- **Operations**: plan, ready, activate, and the check of every replay.
- **Hard**: commands run from different checkouts with clocks read before the lock;
  the roster changes between the stages; a record that replay refuses closes the
  project for ever.
- **Correct when**: everything appended can be replayed, gates only rise, everybody
  was ready for the binding that holds at activation and can read on.

### Product approval ledger (`cam1lib/product_approvals.py`, `product_approval_recovery*.py`)

- **State**: a per-account ledger of approvals and revocations with a file lock of
  its own; a directory of archives and manifests of recoveries.
- **Operations**: approve a reviewed fingerprint, revoke, replay, inspect a partial
  tail, recover it: archive, manifest, check, truncate in place.
- **Hard**: unlike the project journal, the file is repaired in place, so what a
  crash brings back is the same file in an earlier state; the evidence and the
  ledger reach the disk separately.
- **Correct when**: complete lines always replay with at most one active approval of
  a path, records whose append was reported stay, no fragment goes before its
  evidence is on disk.

### Installations and the check before a launch (`cam1lib/product_installations.py`, `product_approvals.py`, `product_executables.py`, `cam1_transport_products.py`, `cam1_transport_native.py`)

- **State**: a second ledger, of installations; per operation a cache of what it
  verified in full; the files, links and directories of the products.
- **Operations**: review and approve an installation, revoke it, resolve an
  executable under one of two policies, compare it with the roster, check records
  and metadata again before each launch.
- **Hard**: updaters move the launcher's link and replace files, operators approve
  and revoke, all between the full verification and the launch, and the two
  ledgers are read under two locks one after the other.
- **Correct when**: what a check clears is approved as it is, an operation launches
  one executable under one approval, and a launcher whose installation was revoked
  does not fall back on a weaker approval.

### Smaller parts

| Part | State and operations | Treatment |
|---|---|---|
| Project initialisation and binding (`project.py`, `project_git.py`, `cam1_project.py`) | identity, empty journal, lock and binding, created once; Git status is read | lock in `Journal`; creation not modelled |
| Self-inspection (`onboarding.py`, `onboarding_cli.py`) | none; reads environment and products, ends in a proposal | proposals in `Roster` |
| Outstanding view (`outstanding.py`) | none; a report over one snapshot | not modelled |
| Conversation grouping (`conversation.py`) | audit links; never wire or action state | not modelled |
| Builders, protocol, validation, profile, `cam1.py`, `cli.py` | none; wire syntax, digests, schemas | correlation rules in `Lifecycle` |
| Source capture and launch (`_cam1_*.py`) | captured sources of one process | not modelled |
| File system primitives (`secure_fs.py`, `native_fs.py`, `darwin_acl.py`) | none | their guarantees in `Journal` and `ProductApprovals` |

How they interact: every command is a transaction of the **journal**. The
**transport** asks the **roster** for a route, the **causal** layer for a context,
the **lifecycle** whether the envelope applies, the **gates** whether this reader
may go on, and the **approvals** whether the product may be started. Nothing calls
back; all communication between processes is through the journal and, for
envelopes, through the products.

## The modules

| Module | Models | Kind |
|---|---|---|
| `Lifecycle` | `lifecycle.py`, the lifecycle events of `state_projection.py`, the correlation rules of `validation.py` | component |
| `Outbound` | `cam1_transport.py` with its native, retry and audit parts; extends `Lifecycle` | composition: senders, product, lifecycle |
| `Operations` | what the lifecycle promises of each operation, over all its roots | abstract specification of `Lifecycle` |
| `Delivery` | what a journal-audited sender promises of each envelope | abstract specification of `Outbound` |
| `Journal` | `journal.py`, `journal_recovery.py`, the lock of `project.py` | component |
| `AppendOnlyLog` | what a ledger promises its users | abstract specification of `Journal` and of `ProductApprovals` |
| `Roster` | `participants.py`, `enrollment.py`, `routing.py` and the senders' use of them | component |
| `Causal` | `causal.py`, the intake of `inbound.py` | component |
| `Compatibility` | `compatibility.py`, `compatibility_cli.py` | component |
| `ApprovalLedger` | the records of an approval ledger and what they mean | operators shared by the next two |
| `ProductApprovals` | `product_approvals.py` as a file, `product_approval_recovery.py`, `product_approval_recovery_evidence.py` | component |
| `ProductLaunches` | `product_installations.py`, the checks of `product_approvals.py`, `cam1_transport_products.py` and `cam1_transport_native.py` before a launch | composition: operators, updaters, both ledgers, one operation |
| `MC*` | instances for TLC, with one `.cfg` per run | model checking |
| `LifecycleProofs`, `OutboundProofs`, `JournalProofs`, `RosterProofs`, `CausalProofs`, `CompatibilityProofs`, `ApprovalsProofs`, `LaunchesProofs` | theorems | proofs |

Conventions. Every committed journal record, or every stretch of code that runs
under one lock without a step of others in between, is one action. A refused
command leaves no trace: the code applies events to a private copy of the
projection and appends only when that succeeds, so a refusal is a disabled
action. Operators whose names end in `Fault` are seeded faults used by no
specification: each is one plausible mistake in the operator defined right after
it (a dropped guard, a wrong comparison, a forgotten reset), and each breaks a
property of a run, which shows that the property tells the code from a broken one.

## Module by module

### Lifecycle

One variable, `entries`, the projection by root id. `RegisterRoot` is
`register_root` with `_resolve_renewal` and `_cancel_target`; `ApplyReply` is
`apply_reply` with the nonce, chronology and expiry rules and the closing of a
cancelled request; `MarkExpiredUnconfirmed` is the explicit expiry event. The
other indexes of the code (processed messages, nonce owners and echoes, terminal
flags) are functions of `entries` and are operators here. The table of `next_state`
is the set `Transitions`.

There is no clock. Events carry an observation that is any member of `Times`:
several processes write, replies are committed under an older observation and the
host's clock may be set back. This allows more than a well-behaved clock would.
The meaning of an envelope is its `semantics`, which fixes type, key and target,
as the digest does in the code. A message processed before is returned unchanged:
a stuttering step. Registering the first root of an operation lapses nothing; a
renewal lapses the unanswered cancels of the operation it renews (`Lapsed`).

`Operations` is the view of a user who knows an operation by its idempotency key and
nothing of roots: it waits, lapses, waits again when renewed, is confirmed, and is
concluded once (succeeded, refused, failed or cancelled). The refinement mapping
`OperationStatus` gives an operation the status of its one root that has not
lapsed, and `OperationOnce` states that `Lifecycle` implements `Operations`.

### Outbound and Delivery

Each element of `Sends` is one invocation of a send command: a process with a
phase. `JournalIntent` is `_prepare_and_journal_intent` under the lock: lifecycle
preview, reply slot, retry safety, intent, registration of a root.
`IntentWithoutDispatch` is every way to fail right after the intent. Dispatch,
receipt, timeout and refusal by the operating system are steps without the lock.
`TakeEnvelope` is the product, external and unreliable: it may take the envelope
at any time after the call began. `FinalizeAccepted` commits a reply under its
prepared observation or records the acceptance as incomplete; `JournalFailure`
records `not_attempted` or `unknown`; `LeaveUnjournaled` and `Crash` leave an
orphan intent. `OtherWriter` lets any lifecycle event happen in between.

`Delivery` says what this is for: an envelope is unsent, reserved, delivered or
settled; it is released only if it was not delivered; and a reply is reserved only
when every competing reply is settled or was released. The refinement mapping
`DeliveryStatus` reads these states off the journal and the wire, and `AtMostOnce`
states that `Outbound` implements `Delivery`. There is no delivery guarantee in
it, because the code makes none.

**Fairness**: a process goes on with its next step (`StartDispatch`,
`FinalizeAccepted`, `JournalFailure`), and the wait for the product is bounded by
the command's timeout (`MissReceipt`). Nothing is assumed of the product, of other
writers, or about crashes.

### Journal and AppendOnlyLog

`journal` is the file: complete records, possibly a partial tail (named by the id
of the record that was being written), and how much of it is synced. A record is
its id, its sequence number and its predecessor's id in place of digests; a
record appended behind a partial line is `Garbled`. `Verify` fills the process's
view, and `WriteRecord` and `WriteTorn` append where the view matches the file.
`Inspect`, `ArchiveDamage`, `ReplaceJournal`, `SyncDirectory` are the recovery, in
its order, each able to fail or die. `HostCrash` keeps what was synced, perhaps
more, and until the directory has been synced may bring back any replaced file.

The assumption about the host: synced content survives, a rename survives only
once its directory is synced. Accordingly `kept`, the records whose append was
reported as done, does not grow while the durability of an installed recovery is
unconfirmed: the code reports that state as uncertain and later appends do not
sync the directory again. `AppendOnlyLog` is the promise: records are added one by
one at the end, and only records beyond `kept` may be lost.

### Roster

`roster` and `proposals` are the projection; `live` is the product, which moves
sessions as it likes; `senders` holds what each invocation read in its first
transaction. Operators' commands and enrollment are one action each, except the
binding of a Codex thread, whose three records may stop after any of them.
`UpdateMetadata` is the update under the lock with the revision the operator
expects; the command fills the fields that are not given from its own reading, so
a version remembers which fields were given.
`UseClaudeRoute` re-reads the binding, records the route, preserves a confirmation
only if nothing observed changed, and journals the intent. `intents` and
`confirmed` are histories for the properties.

### Causal

`intents` lists the outbound intents with their contexts and the state of their
sends, `assessments` the validated records, `gate` the place of the feature's
activation. `Frontier` is the walk of `_frontier`: a recursive function whose k-th
value is the state of the walk after the k-th last intent (`Visit`);
`RequiredFrontier` and `RecipientFrontier` are its two uses;
`JournalReadable` is `_validate_intent_contexts`, which every send and every
assessment runs over the whole journal. Sends, retries, dispatch, hand-over,
delivery by hand, holding, validating and the death of an intake between its two
records are actions. Whether lifecycle, roster and reply slots admit an envelope
is not asked: refusals are steps not taken, so what holds here holds whatever they
refuse. The limit on references is applied to a finished frontier; the code stops
the walk when it is passed, which refuses the same commands.

With the gate open a message takes its conversation from its anchors: what it
replies to or cancels, and what its intent records as renewed. The intent records
the renewal of the lifecycle entry the message was planned with (`RenewalOf`); for a
reply that entry is the root it answers (`lifecycle.py:804`), so the reply to a renewal
is anchored in the root before it as well. `MayAnchor` is `_anchor_context`: an anchor was
sent, between the same two, and a recorded renewal is of the sender's own message.
`AnchorsRefused` are the errors of the builder that come from the anchors,
`ContextRefused` all of its errors, `RetryRefused` those of a retry. `Predecessor` and
`Grandfathered` are the backward walk that exempts what was begun before the gate: an
ancestry of intents without contexts that ends before it.

`CausalAssumption` holds two facts that are established elsewhere: a renewal has the
author of what it renews (the operation's digest covers both endpoints,
`lifecycle.py:595`), and the author of a reply is the recipient of its root
(`validation.py:525-541`). One more restriction: a cancel is not a renewal. `build_cancel` draws a
new idempotency key (`builders.py:903`), and only an envelope with an earlier key
renews. A hand-made cancel that renewed a cancel from before the gate, and whose
target already has a context, would be written and then refused by the reader;
`ContextsConsistent` says nothing about it.

### Compatibility

A version stands for a clean validation profile: digest, reader epoch and
capabilities of a checkout. Each command is one step that stamps its record with
any past time, because it reads the clock before it waits (up to
`PROJECT_LOCK_TIMEOUT_SECONDS`) for the lock. `MakePlan` and `DeclareReady` apply
the command line's own checks and then record in `readable` whether the kernel's
replay checks (`ObservePlan`, `ObserveReadiness`) accept what was appended;
`Activate` is validated by the kernel before it is appended. Every action requires
`Replays`, the reader check. Only recorded times are compared with a plan's
expiry: an activation that waited for the lock past the expiry is appended, as in
the code.

### ApprovalLedger and ProductApprovals

`ledger` is the file: complete records, perhaps a partial one (named by the id of
the record being written), and how many records are known to be on disk. The
exclusive lock is the single `command`: at most one mutation is under way.
`WriteRecord`, `WriteTorn`, `SyncRecord` are `_append_locked`, which rolls nothing
back; `Abandon` is any error or death. `Inspect`, `ConfirmRecovery`,
`PublishArchive`, `PublishManifest`, `CheckEvidence`, `Truncate`, `SyncTruncation` are
the recovery in its order; a publication may fail after the rename and before the
directory is synced. `former` are the contents before truncations that are not yet
on disk; `HostCrash` keeps at least what was synced of the ledger as it is or as it
was, with or without a part of the next record, and a prefix of the artifacts.

`kept` counts the records promised to stay: those whose own append was reported as
done (`SyncRecord`), and those that a later approval of the same reported as approved
already (`ReportApproved`, `product_approvals.py:773-788`) when they were on disk. That
second path does not sync: it may report a record whose writer died before its
fsync, and a host crash may then lose an approval that a command reported as
given. No document promises that it stays, so this is no finding;
`ApprovalsPersist` does not cover it. The installation ledger has the same path
(`product_installations.py:345`).

Abstractions: the guards of an inspected report (digest, sizes, inode, times) stand
and fall with the content, and a shorter remainder of the same torn record counts
as the same content; artifacts reach the disk in the order they were published;
temporary files of an unfinished publication are not modelled; the grandfathered
basis is left out, because no command offers it.

### ProductLaunches

`strict` and `installed` are the two ledgers; `files`, `link` and `root` the file
system; `installer` the command that approves an installation; `op` one operation
of the transport. A fingerprint covers inode and change time, so whatever is
written has one that nothing had before; only a root directory can be moved back,
and what is in it then counts as new. A mutation of a ledger is one step, and its failures are in
`ProductApprovals`, with two exceptions the code makes visible: the review card and
the two locks of an installation approval, and the two locks of a resolution, are
separate steps.

An operation resolves its executable twice in full (`first`, `second`) and once more
before each launch (`launch`). `ReadInstallations`, `ReadHistory`,
`ObserveInstallation` are `resolve`; `CheckStrict` is the strict policy with its
cache; `CheckRoster` compares with the selection; `KeepExecutable` and `Launch` use
the result. Every failed check ends the operation (`Refuse`). One cache entry of
each kind is enough: an operation that resolves to another path ends. The roster's
check is made again under the project lock, where it can only refuse.

## Runs, bounds and what they show

State counts are TLC's distinct states, symmetry included. Every passing run
explores its instance completely.

| Run | Instance | States | What it shows |
|---|---|---|---|
| `lifecycle` | three exchanges, one of which is played: a request with two competing renewals and a cancel; a request with a renewal and two cancels; a handshake with a challenge, renewals and nonces; times 1..3 | 111,352 | one confirmation per operation, one unbranched chain, cancels agree with targets, closed roots stay closed, nothing after expiry, outcomes are final, refinement of `Operations` |
| `outbound` | two sends of a request, its renewal, two replies; times 1..2 | 64,759 | true outcomes, registration before dispatch, one chain of retries, replies take turns, every send ends, refinement of `Delivery` (no envelope twice) |
| `journal` | two processes, at most three records, five ids | 204,673 | only tail damage, confirmed recovery, refinement of `AppendOnlyLog` |
| `roster_enrollment` | three identifiers, one of them also a name; two Codex threads, two proposals; up to three metadata versions | 374,169 | unambiguous selectors, exact enrollment, no lost update |
| `roster_routes` | two Claude participants, two sessions, two addresses, two senders, two generations | 657,901 | one participant per session, earned correlation, intents only for the current binding |
| `causal` | a request with two answers and its cancel, or with an answer, its renewal and the answer to that; four sends; one reference; the renewal may be carried by hand | 556,380 | readable contexts, honest frontiers, one verdict, no stale instruction, no conversation closed by the gate but for the second finding, the reference limit is kept |
| `causal_latest` | the same exchange; four sends; two references | violation | the first finding below |
| `causal_replies` | the same exchange; two sends; two references | violation | the second finding below |
| `compatibility` | two checkouts of different epochs, two participants, two plans, kernel and one feature | 415,994 | replay accepts everything, gates rise, everyone was ready |
| `approvals` | two paths, two fingerprints, three records, two manifests, five ids | 819,119 | the ledger replays, refinement of `AppendOnlyLog`, fragments go with their evidence |
| `approvals_evidence` | the same | violation | the third finding below |
| `launches` | a launcher, a target inside the installation, one outside; two changes, four records in all | 3,212,550 | what is cleared is approved as it is, one approval per operation, no fallback |

Why the bounds are enough. The hazards are races of two writers over one object,
so two of each actor and one object they compete for are present in every run,
and a third where the second has to be overtaken (three identifiers in
`roster_enrollment`). Two sends are enough for one reply to overtake another;
`RepliesTakenInTurn` proves that replies take turns for any number. Times matter only in
relation to two expiries, so three instants give before, between and after. The
journal needs one record before, one being written and one written by a recovery,
so a limit of three also meets the limit. The same holds of the approval ledger, where
two manifests meet their limit and leave one recovery refused. In `launches` one
change separates a verification from a launch and a second restores or disturbs
again. The three exchanges of `lifecycle` claim one idempotency key, so a journal
holds one of them and every reuse of the key by another is tried. Two generations give a binding and a
rebinding. In `compatibility` the second checkout's epoch is unknown to the first,
and two plans give every order of kernel and feature. `MaxGeneration`, `MaxIds`,
`MaxIntents`, `MaxTime`, `MaxReadiness`, `MaxRevision` and `MaxChanges` are the bounds
of the models that the code does not have, or has far larger.

Three instances have a constraint: `Alternatives` (beside the first answer, a request
has a second one and a cancel, or a renewal and the answer to that: the lifecycle
lets a request be renewed or cancelled, not both, unless the cancel failed),
`UpdatedAlone` (metadata is updated only while its participant is the only one; an
update touches nothing else) and `FewRecords` (four records in both ledgers of `launches`). They cut
only the combination of independent parts.

When answers are carried by hand, a hold may be spurious: an answer that its sender
recorded as not attempted may be validated, and then stands in the sender's frontier
for the answers it covers, while the assessment skips it and requires those. It is never unsafe:
`NoStaleInstruction` is proved whatever is carried by hand.

Deadlock is checked in `journal`, `approvals` and `launches`, where some process, or
the host, can always act. Elsewhere the
instances are finite (all envelopes used, all sends ended), so the system may
stop.

### Finding: the frontier walk (`causal_latest`)

`cam1lib/causal.py:448` describes `_frontier` as returning maximal candidates.
The walk takes journal order for causal order, and a retried message is listed
again at its retry. When the first attempt of a request was not attempted, the
request is cancelled and then retried, the walk meets the request before the
cancel that depends on it and returns both, although the request is an ancestor of
the cancel. It is harmless for safety (more is required, never less), but the
extra head is recorded in contexts and counts towards the 64 references. Retries
are the whole cause: `WalkFindsAllLatest` proves that the walk never misses a
latest message and that a head too many was told again after the last telling of a
message that depends on it, and `OnlyRetriesAddHeads` that `FrontierIsMaximal` holds
as long as no message was sent a second time.

### Finding: replies to a renewed root (`causal_replies`)

`docs/CAUSAL_ORDERING.md:62` says: "Replies, cancels, and renewals inherit the existing
conversation." and line 47 that conversations begun before activation stay
grandfathered, "including later replies". Once the gate is open, no reply to a root
that renews another can be sent. A reply is planned with the lifecycle entry of the
root it answers (`lifecycle.py:804`), `transport_audit.py:324` passes that entry's
`renewal_of` to `build_outbound_context`, and `_anchor_context` (`causal.py:530`) refuses
it with `causal.supersedes_sender`, because the renewed root is not the replier's own
message. The run shows it with two sends; `RepliesToRenewalsRefused` proves that the
refusal spares no such reply, and `ConversationsAlwaysContinue` that it is the only
one of its kind: a cancel, a renewal, a reply to a root that renews no other, and a
retry always find a context or the ancestry that exempts them.

### Finding: a crash that recovery evidence does not survive (`approvals_evidence`)

`docs/IMPLEMENTATION_NOTES.md:566` says of the order of writes in a recovery: "This
ordering deliberately exposes only reconcilable crash states." The recovery
publishes and syncs an archive and a manifest that name the verified prefix of the
ledger, but it does not sync the ledger before it truncates it. If the last
complete record of that prefix was written by a command that died before its
fsync, and the host crashes once the manifest is durable, that record may be lost.
The ledger then no longer extends the prefix that the manifest names, and every
later status or recovery stops with `recovery_evidence_mismatch`. No record
whose append was reported is lost: `ApprovalsPersist` holds in the same instance. The missing sync is
the whole cause: `SyncWouldReconcile` proves `EvidenceReconciles` for every behaviour
in which a recovery is confirmed only of records that are on disk.

## Theorems

The runs check small instances; these results hold for every value of the
constants that satisfies the named assumptions (`RootAssumption`,
`ReplyAssumption`, `SemanticsAssumption`, `TimesAssumption`; `SendsAssumption`;
`JournalAssumption`; `RosterAssumption`, `NoneAssumption`; `CausalAssumption`;
`CompatibilityAssumption`; `LedgerAssumption`, `ApprovalsAssumption`,
`LaunchesAssumption`), which TLC evaluates on the instances. Each proof has the same
plan: an inductive invariant, one lemma or step per action and in it one step per
conjunct the action can disturb, and the properties as consequences.

**`LifecycleProofs`**: `TypeCorrect`, `OneConfirmation`, `UnbranchedRenewals`,
`SupersededClosed`, `CancelsAgree`, `NoLateConfirmation`, `OutcomesAreFinal`. None of
the safety invariants is inductive alone: that a superseded root is never
confirmed needs that its cancels are settled, that needs that cancels agree with
their targets, and one confirmation per operation needs the renewal chain. The
inductive invariant `IInv` is their conjunction, with `TypeOK`,
`NeverConfirmedWhileOpen` (an unconfirmed state has only unconfirming replies) and
`ActiveWasConfirmed` (an active one has a confirming one), and `CancelTargets` (a
cancel targets a registered request). Each action has a lemma
with one step per conjunct it can disturb. `LifecycleImplementsOperations` is the
refinement of `Operations`, and `ConclusionsLast` what follows from it. An operation has
at most one root that has not lapsed (`SoleOpen`: the renewal chain does not
branch and renewed roots are closed); that root decides the status
(`OpenRootDecides`), and each action changes it as one action of `Operations` does, or
not at all. `KeysMeanOneThing` is needed besides: roots with one key have one meaning,
so a cancel and its target are two operations and the event that settles both
is one `Cancel`.

**`JournalProofs`**: `JournalTypeCorrect`, `ChainSurvives`, `RecoveryIsConfirmed` and
`ImplementsLog`, the refinement of `AppendOnlyLog`. The invariant `JInv` has three
parts: the shape of the state, what each phase of a process implies (`PhaseInv`:
who has written has a view and a record; who has archived has the report in the
archives), and `FileInv` for *every* file that a host crash may bring back, not only
the one at the path: its records are chained, its ids were drawn, it is a prefix of the
journal and contains all that was promised.

**`OutboundProofs`**: `OutboundTypeCorrect`, `OutcomesTruthful`,
`AlwaysRegisteredFirst`, `RetriesFormChains`, `RepliesTakenInTurn`, and two
refinements: `SendingImplementsDelivery`, and `SendingImplementsLifecycle`, by which
everything proved of `Lifecycle` holds while messages are sent. `OInv` conjoins the
lifecycle's `IInv`, what each phase of a send implies for the wire and the recorded
outcome (`AttemptsInv`), that everything on its way can be placed (`PlacedInv`), that a
committed outcome stays part of the projection (`CommittedInv`: the lifecycle forgets
nothing), and that the earlier of two replies to one root was settled when the
later was intended (`SlotsInv`). `RepliesInTurn` is preserved only with the last: it is a
statement about the wire, where an envelope may arrive long after its send ended.
`SendingKeepsOperations` composes the refinements: what `Operations` promises holds of the
whole sending system. Two action properties complete the picture.
`SendsOnlyAdvance`: a step of an invocation lowers its `Distance` from the end and no
step of others changes it, the safety half of `SendsEnd`, which leaves to fairness only
that a step comes at all. `RecordsStand`: no step withdraws an intent, an outcome, a
hand-over or a processed envelope.

**`RosterProofs`**: `SelectorsAlwaysUnambiguous`, `SessionsExclusive`,
`CorrelationAlwaysEarned`, `EnrollmentAlwaysExact`, `UpdatesNeverLost`,
`IntentsForCurrentBinding`. `RInv` adds to the properties that a sender which captured a
binding knows its session (`SenderInv`) and that even a candidate route belongs to
the current binding: what is only found now may be confirmed later.
`BindingsNumbered` says what becomes of a participant in any step (`Succeeds`): it is
never forgotten, renamed or revived, its metadata is only extended, and its
generation is raised by one exactly when it is bound. From it follows
`GenerationsTellBindingsApart`: over all bindings that senders hold and intents were
journaled with, a generation names one session and none is ahead of its
participant. This is why a sender may compare generations in place of histories: equal
numbers mean that nothing was bound in between, even if a session was bound again.

**`CausalProofs`**: `CausalTypeCorrect`, `ContextsAlwaysConsistent`, `FrontiersHonest`,
`OneVerdictEver`, and the reason the component exists, `NoStaleInstructionEver`. The
invariant `CInv` is nearly the conjunction of the properties: that the reader accepts
the journal makes every context name only messages journaled before it, of the
same pair and conversation, and that is what the builder needs to write the next
one. The walk and the ancestry are recursive functions. What is needed of
them is proved by induction, from the fact that every set of numbers has a least
one (`LeastNumber`, from the well-foundedness of inclusion of finite sets):
`AncestryOf` (the ancestry lies in every closed set) and `FrontierOf` (whatever was told
lies in the ancestry of a head). Then an instruction that is not held names every
head, hence has all that was told in its past. `ConversationsAlwaysContinue` needs an
invariant of its own, `LineageInv`: an intent without a context was journaled before
the gate, or retries one without a context, or is anchored in one; hence every such
intent has the ancestry that the walk looks for, and every anchor that is not
exempted has a context. Two anchors of one message never disagree, because only a
reply could have two (`OneAnchor`), and a reply to a renewal is refused
(`RepliesToRenewalsRefused`, the second finding for all constants). `CausalOrderIsStrict` and `CausalPastIsFixed` say
that the contexts are a causal order at all: strict, transitive, agreeing with the
journal's, with the ancestry as its past, and with the past of a journaled message
unchanged by whatever is sent, retried or assessed later. `WalkFindsAllLatest`
characterises the walk against that order, and `OnlyRetriesAddHeads` gives the condition
under which the first finding cannot occur.

**`ApprovalsProofs`**: `ApprovalsTypeCorrect`, `LedgerAlwaysReplays`,
`LedgerImplementsLog` (the refinement of `AppendOnlyLog`, for the records counted by
`kept` as said above) and `TailGoesWithEvidence`.
`AInv` has five parts: the shape of the state; that the records replay and their ids
were drawn, so that no id is drawn twice; that a crash can bring back only contents
the ledger still begins with (`FormerInv`); the evidence and its limit; and what a
recovery has established in each of its phases (`PhaseInv`), in particular that
the ledger is still what was confirmed when it is truncated. `ManifestsHaveArchives`
is the half of `EvidenceReconciles` that holds without a condition (`OrderInv`: an archive
stands before its manifest in the order of publication, and a crash keeps a
prefix), and `SyncWouldReconcile` the other half under the condition that the code
does not establish.

**`LaunchesProofs`**: `OneApprovalEver`, `ClearedIsApproved`, `NeverFallsBack`. `LInv` says of
the cache that a kept strict approval was active when the ledger was last seen, of a
resolution that its record was active at some time since it began, and of an
operation that every launch so far equals what it kept (`LaunchInv`).

**`CompatibilityProofs`**: `CompatTypeCorrect`, `JournalStaysReadable`,
`EveryoneReady`, `GatesOnlyRise`, `ReadyReadersKeepReading`. The activation
compares a new gate only with the active gate of its feature, so `GatesAdvance`
is not inductive: `GatesIInv` adds that the active gate stands for all earlier
gates of its feature (`ActiveGateStands`).

Only model-checked: the liveness property `SendsEnd` (liveness under fairness and
ENABLED are out of the reach of the proof system; its safety half is
`SendsOnlyAdvance`), and that the properties of the three findings are violated.
Those of the first and the third are theorems under the conditions stated with
them, and the refusal behind the second is a theorem itself. Only proved: the type
correctness of `Outbound`, the order and the walk of `Causal`, and the action
properties of `Outbound` and `Roster` named above.

## What is not modelled

- Bytes: canonical JSON, digests, schemas, framing. Identities stand for digests;
  collisions are not considered.
- Refusals that leave no trace: well-formedness of fields, file modes and owners,
  access lists, Git status, formats and eligibility of executables.
- The creation of a project. It runs once, under a lock of its own, writes identity,
  journal, lock and binding, and last the pointer that makes them visible; a death
  before that leaves a directory that is refused afterwards and never repaired, so
  there is no later step for it to go wrong with.
- Read-only reports: status views, the outstanding view (`outstanding.py`, one
  snapshot rendered), diagnostics.
- Conversation grouping (`conversation.py`): a pure function of one replayed journal,
  recorded for audit; nothing in it waits, fails or interleaves.
- Source capture and launch (`_cam1_*.py`): sequential, within one process.
- Operator references, labels, feature configuration.
- In `Causal`, the expiry of an answer before its recipient reads it, which can
  leave instructions held for good; it is listed as a hazard without a property.

## Plan

Done, in the order of importance: `Lifecycle` with `Operations`, `Outbound` with `Delivery`,
`Journal` with `AppendOnlyLog`, `Roster`, `Causal`, `Compatibility`, `ProductApprovals`,
`ProductLaunches`, and the proofs of all eight.

Open:

1. The expiry of an answer as part of `Causal`, with an invariant that says which
   instructions it can hold for good.
2. The creation of a project, should it come to be repaired after a death.
