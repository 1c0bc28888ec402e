------------------------------- MODULE Outbound -------------------------------
(***************************************************************************)
(* Sending an envelope: every invocation of send_project_claude or         *)
(* send_project_codex is one element of Sends and runs as a process of its *)
(* own, beside the other invocations and the other writers of the project  *)
(* journal.                                                                *)
(*                                                                         *)
(* An invocation holds the project lock twice: to prepare and journal its  *)
(* intent (before_send), and to journal the outcome.  In between, without  *)
(* the lock, the product is asked to take the envelope, and anything may   *)
(* happen to the journal.  The checks of the recipient's binding and route *)
(* before the intent only refuse; a refused invocation leaves no trace and *)
(* is no step here.                                                        *)
(*                                                                         *)
(* The product is external: it may take the envelope at any time after the *)
(* call began, even after the sender gave up waiting.                      *)
(***************************************************************************)
EXTENDS Lifecycle

CONSTANT Sends   \* invocations of the send command

VARIABLES
  intents,    \* message.outbound.intent records, in journal order
  outcomes,   \* the transport outcome recorded for each invocation's intent
  sends,      \* the invocations' own state (_SendAttempt)
  wire        \* the invocations whose envelope the product took, in order

journal == <<entries, intents, outcomes>>
outboundVars == <<entries, intents, outcomes, sends, wire>>

Messages == RootMessages \cup ReplyMessages

(***************************************************************************)
(* "committed" and "incomplete" are transport.accepted records with        *)
(* lifecycle_state_committed true and false; "not_attempted" and "unknown" *)
(* are the delivery states of transport.not_accepted records.              *)
(***************************************************************************)
Outcomes == {"none", "committed", "incomplete", "not_attempted", "unknown"}

Phases == {"idle", "intended", "dispatching", "accepted", "failed", "closed", "crashed"}

OutboundIntent == [send : Sends, msg : Messages, retry_after : Sends \cup {None}]

\* observed is the plan's observation; dispatch is dispatch_started and, once
\* known, that the operating system refused the call.
SendAttempt ==
  [phase : Phases, observed : Times \cup {None},
   dispatch : {"not_started", "started", "too_large"}]

ASSUME SendsAssumption == None \notin Sends

\* Replies are built with their own id as idempotency key, roots never with
\* the id of a reply.
OperationKey(m) == IF m.type \in ReplyTypes THEN m.id ELSE m.key

Sent(a) == {intents[i].msg : i \in {i \in DOMAIN intents : intents[i].send = a}}

-----------------------------------------------------------------------------
(***************************************************************************)
(* prepare_lifecycle: would the envelope be applied to the projection now? *)
(* A message processed before is judged again, a root by its times, a      *)
(* reply against the preserved prior entry.                                *)
(***************************************************************************)
RootSendable(m, observed, renewal) ==
  /\ observed < m.expires
  /\ \/ RootAllowed(AfterLapse(renewal, observed), m, observed, renewal)
     \/ /\ m.id \in Registered /\ entries[m.id].root = m
        /\ entries[m.id].state = "pending"
        /\ observed >= m.sent
        /\ renewal \in {None, entries[m.id].renewal_of}

PriorEntry(e, i) ==
  [e EXCEPT !.state = e.replies[i].before, !.replies = SubSeq(@, 1, i - 1)]

ReplyRepeated(m, observed) ==
  /\ m.root \in Registered
  /\ observed < m.expires
  /\ \E i \in DOMAIN entries[m.root].replies :
       LET e == PriorEntry(entries[m.root], i) IN
         /\ entries[m.root].replies[i].msg = m
         /\ ReplyInOrder(e, m, observed)
         /\ m.nonce = ExpectedNonce(e, m, observed)
         /\ \E s \in States : Advances(e, m, observed, s)

ReplySendable(m, observed) ==
  \/ ReplyCorrelated(m, observed) /\ \E s \in States : ReplyLeadsTo(m, observed, s)
  \/ ReplyRepeated(m, observed)

PreviewRenewal(m, renewal) ==
  IF m.id \in Registered THEN entries[m.id].renewal_of ELSE renewal

-----------------------------------------------------------------------------
(***************************************************************************)
(* _require_reply_slot_available: an earlier reply to the same root must   *)
(* be conclusively settled or conclusively not attempted.                  *)
(***************************************************************************)
ReplySlotAvailableFault(m) ==
  m.type \in ReplyTypes =>
    \A i \in DOMAIN intents :
      LET prior == intents[i].msg IN
        prior.type \in ReplyTypes /\ prior.root = m.root =>
          outcomes[intents[i].send] \in {"committed", "incomplete", "not_attempted"}

ReplySlotAvailable(m) ==
  m.type \in ReplyTypes =>
    \A i \in DOMAIN intents :
      LET prior == intents[i].msg IN
        prior.type \in ReplyTypes /\ prior.root = m.root =>
          outcomes[intents[i].send] \in {"committed", "not_attempted"}

\* The roots of m's semantic chain, which a renewal may leave behind.
KnownRenewalRoots(m, renewal) ==
  IF PreviewRenewal(m, renewal) = None THEN {}
  ELSE {r \in PriorOperations(m) : entries[r].root.semantics = m.semantics}

MatchingIntents(m, known) ==
  {i \in DOMAIN intents :
     /\ OperationKey(intents[i].msg) = OperationKey(m)
     /\ ~(intents[i].msg.id # m.id /\ intents[i].msg.id \in known)}

ConclusiveFault(i) == outcomes[intents[i].send] \in {"not_attempted", "unknown"}

\* _conclusive_retry_intent_id
Conclusive(i) == outcomes[intents[i].send] = "not_attempted"

\* require_safe_retry; retry_after is --retry-after-intent.
RetrySafe(m, known, retry_after) ==
  LET matching == MatchingIntents(m, known) IN
    /\ \A i \in matching : intents[i].msg = m /\ Conclusive(i)
    /\ \/ matching = {} /\ retry_after = None
       \/ \E k \in matching : /\ \A i \in matching : i <= k
                             /\ retry_after = intents[k].send

-----------------------------------------------------------------------------
Working(a, phase) == sends[a].phase = phase

Enter(a, phase) == sends' = [sends EXCEPT ![a].phase = phase]

(***************************************************************************)
(* _prepare_and_journal_intent.  A root is registered in the same          *)
(* transaction as its intent, before any dispatch; a reply is only         *)
(* prepared, at the observation "planned" made just before the dispatch.   *)
(***************************************************************************)
IntentAllowed(m, observed, renewal, retry_after) ==
  /\ m.type \in RootTypes => RootSendable(m, observed, renewal)
  /\ m.type \in ReplyTypes => renewal = None /\ ReplySendable(m, observed)
  /\ ReplySlotAvailable(m)
  /\ RetrySafe(m, KnownRenewalRoots(m, renewal), retry_after)

AppendIntent(a, m, retry_after) ==
  /\ intents' = Append(intents, [send |-> a, msg |-> m, retry_after |-> retry_after])
  /\ UNCHANGED <<outcomes, wire>>

CommitRootFault(m, observed, renewal) == UNCHANGED entries

CommitRoot(m, observed, renewal) ==
  IF m.type \in RootTypes /\ m.id \notin Registered
  THEN RegisterRoot(m, observed, renewal) ELSE UNCHANGED entries

\* The second preparation finds the plan still fresh.
StillSendable(m, planned) ==
  /\ m.sent <= planned /\ planned < m.expires
  /\ m.type \in ReplyTypes => ReplySendable(m, planned)

JournalIntent(a, m, observed, renewal, retry_after, planned) ==
  /\ Working(a, "idle")
  /\ IntentAllowed(m, observed, renewal, retry_after)
  /\ StillSendable(m, planned)
  /\ AppendIntent(a, m, retry_after)
  /\ CommitRoot(m, observed, renewal)
  /\ sends' = [sends EXCEPT ![a].phase = "intended", ![a].observed = planned]

(***************************************************************************)
(* The intent is in the journal, and then the registration of the root is  *)
(* refused by the file system, the process dies, or the deadline passes:   *)
(* the root may or may not be registered.                                  *)
(***************************************************************************)
IntentWithoutDispatch(a, m, observed, renewal, retry_after) ==
  /\ Working(a, "idle")
  /\ IntentAllowed(m, observed, renewal, retry_after)
  /\ AppendIntent(a, m, retry_after)
  /\ CommitRoot(m, observed, renewal) \/ UNCHANGED entries
  /\ Enter(a, "failed")

-----------------------------------------------------------------------------
\* before_dispatch, then the call of the product begins.
StartDispatch(a) ==
  /\ Working(a, "intended")
  /\ sends' = [sends EXCEPT ![a].phase = "dispatching", ![a].dispatch = "started"]
  /\ UNCHANGED <<journal, wire>>

\* The product's executable is no longer the approved one.
RefuseProduct(a) ==
  /\ Working(a, "intended")
  /\ Enter(a, "failed")
  /\ UNCHANGED <<journal, wire>>

Taken == {wire[i] : i \in DOMAIN wire}

\* The product takes the envelope, perhaps long after the sender gave up.
TakeEnvelope(a) ==
  /\ sends[a].dispatch = "started"
  /\ a \notin Taken
  /\ wire' = Append(wire, a)
  /\ UNCHANGED <<journal, sends>>

\* The sender reads a valid positive receipt.
ReadReceipt(a) ==
  /\ Working(a, "dispatching")
  /\ a \in Taken
  /\ Enter(a, "accepted")
  /\ UNCHANGED <<journal, wire>>

\* E2BIG: the operating system refused to start the product.
RefuseSize(a) ==
  /\ Working(a, "dispatching")
  /\ a \notin Taken
  /\ sends' = [sends EXCEPT ![a].phase = "failed", ![a].dispatch = "too_large"]
  /\ UNCHANGED <<journal, wire>>

MissReceiptFault(a) ==
  /\ Working(a, "dispatching") /\ a \in Taken
  /\ Enter(a, "failed")
  /\ UNCHANGED <<journal, wire>>

\* A timeout, a nonzero exit, an invalid or a negative receipt.
MissReceipt(a) ==
  /\ Working(a, "dispatching")
  /\ Enter(a, "failed")
  /\ UNCHANGED <<journal, wire>>

-----------------------------------------------------------------------------
RecordOutcome(a, outcome) ==
  /\ outcomes' = [outcomes EXCEPT ![a] = outcome]
  /\ Enter(a, "closed")
  /\ UNCHANGED <<intents, wire>>

\* _settle_accepted_lifecycle of a root, or of a reply already committed.
AlreadySettled(m) == m.id \in Processed

(***************************************************************************)
(* _finalize_accepted_attempt.  A reply is committed under its prepared    *)
(* observation; when the projection moved on, or the state cannot be read  *)
(* or written, the acceptance is journaled as incomplete.                  *)
(***************************************************************************)
FinalizeAccepted(a) ==
  /\ Working(a, "accepted")
  /\ \E m \in Sent(a) :
       \/ /\ AlreadySettled(m)
          /\ UNCHANGED entries
          /\ RecordOutcome(a, "committed")
       \/ /\ m \in ReplyMessages
          /\ ApplyReply(m, sends[a].observed)
          /\ RecordOutcome(a, "committed")
       \/ /\ UNCHANGED entries
          /\ RecordOutcome(a, "incomplete")

DeliveryStateFault(a) == IF sends[a].phase = "failed" THEN "not_attempted" ELSE "unknown"

\* _delivery_state
DeliveryState(a) ==
  IF sends[a].dispatch \in {"not_started", "too_large"} THEN "not_attempted" ELSE "unknown"

\* _journal_failed_attempt
JournalFailure(a) ==
  /\ Working(a, "failed")
  /\ RecordOutcome(a, DeliveryState(a))
  /\ UNCHANGED entries

\* The lock or the append of the outcome fails; nobody will record it later.
LeaveUnjournaled(a) ==
  /\ \/ /\ Working(a, "accepted") \/ Working(a, "failed")
        /\ UNCHANGED entries
     \/ /\ Working(a, "accepted")
        /\ \E m \in Sent(a) \cap ReplyMessages : ApplyReply(m, sends[a].observed)
  /\ Enter(a, "closed")
  /\ UNCHANGED <<intents, outcomes, wire>>

\* The process is killed or interrupted without a known acceptance.
Crash(a) ==
  /\ sends[a].phase \in {"intended", "dispatching", "accepted", "failed"}
  /\ Enter(a, "crashed")
  /\ UNCHANGED <<journal, wire>>

\* Other writers of the journal: intake of messages, expiry of roots.
OtherWriter ==
  /\ Next
  /\ UNCHANGED <<intents, outcomes, sends, wire>>

-----------------------------------------------------------------------------
OutboundInit ==
  /\ Init
  /\ intents = <<>>
  /\ outcomes = [a \in Sends |-> "none"]
  /\ sends = [a \in Sends |->
                [phase |-> "idle", observed |-> None, dispatch |-> "not_started"]]
  /\ wire = <<>>

BeginSend(a) ==
  \E m \in Messages, observed \in Times, renewal \in RootIds \cup {None},
     retry_after \in Sends \cup {None} :
    \/ \E planned \in Times : JournalIntent(a, m, observed, renewal, retry_after, planned)
    \/ IntentWithoutDispatch(a, m, observed, renewal, retry_after)

Continue(a) ==
  \/ StartDispatch(a) \/ RefuseProduct(a)
  \/ ReadReceipt(a) \/ RefuseSize(a) \/ MissReceipt(a)
  \/ FinalizeAccepted(a) \/ JournalFailure(a) \/ LeaveUnjournaled(a)

OutboundNext ==
  \/ \E a \in Sends : BeginSend(a) \/ Continue(a) \/ TakeEnvelope(a) \/ Crash(a)
  \/ OtherWriter

OutboundSpec == OutboundInit /\ [][OutboundNext]_outboundVars
(***************************************************************************)
(* The scheduling that liveness needs: a running process goes on, and the  *)
(* wait for the product is bounded by its timeout.  Nothing is assumed of  *)
(* the product, of the other writers or of crashes.                        *)
(***************************************************************************)
FairSends ==
  \A a \in Sends :
    /\ WF_outboundVars(StartDispatch(a))
    /\ WF_outboundVars(MissReceipt(a))
    /\ WF_outboundVars(FinalizeAccepted(a))
    /\ WF_outboundVars(JournalFailure(a))

FairOutboundSpec == OutboundSpec /\ FairSends
-----------------------------------------------------------------------------
\* Shape of the state; each process journals at most one intent.
OutboundTypeOK ==
  /\ TypeOK
  /\ intents \in Seq(OutboundIntent)
  /\ outcomes \in [Sends -> Outcomes]
  /\ sends \in [Sends -> SendAttempt]
  /\ wire \in Seq(Sends)
  /\ \A i, j \in DOMAIN intents : intents[i].send = intents[j].send => i = j
  /\ \A a \in Sends : sends[a].phase # "idle" <=> Sent(a) # {}

(***************************************************************************)
(* What the journal says of a delivery is true, for ever: an envelope      *)
(* recorded as not attempted is never taken by the product, an accepted    *)
(* one was taken, and when the record says that the lifecycle state was    *)
(* committed the projection has processed the envelope.  Retries and reply *)
(* slots are decided from these records alone.                             *)
(***************************************************************************)
TruthfulOutcomes ==
  \A a \in Sends :
    /\ outcomes[a] = "not_attempted" => a \notin Taken /\ sends[a].dispatch # "started"
    /\ outcomes[a] \in {"committed", "incomplete"} => a \in Taken
    /\ outcomes[a] = "committed" => \A m \in Sent(a) : m.id \in Processed

(***************************************************************************)
(* The recipient can always place what it gets: the product never takes a  *)
(* root before the shared projection has registered it, nor a reply whose  *)
(* root is missing, even when the sender died at the worst moment.         *)
(***************************************************************************)
RegisteredBeforeDispatch ==
  \A a \in Taken : \A m \in Sent(a) :
    IF m.type \in RootTypes THEN m.id \in Registered ELSE m.root \in Registered

(***************************************************************************)
(* No blind repeat, and replies reach the recipient one at a time: of two  *)
(* envelopes taken by the product, both are never the same envelope, and   *)
(* if both answer the same root the later one was taken when the earlier   *)
(* one was already part of the lifecycle.                                  *)
(***************************************************************************)
RepliesInTurn ==
  \A i, j \in DOMAIN wire : i < j =>
    \A m \in Sent(wire[i]), n \in Sent(wire[j]) :
      /\ m # n
      /\ m.type \in ReplyTypes /\ n.type \in ReplyTypes /\ m.root = n.root =>
           m.id \in Processed

(***************************************************************************)
(* A retry names the attempt it follows, and that attempt is the latest of *)
(* the same envelope and conclusively never reached the product: the       *)
(* retries of an envelope form one chain, however the senders interleave.  *)
(***************************************************************************)
RetryChain ==
  \A j \in DOMAIN intents :
    LET earlier == {i \in 1..(j - 1) : intents[i].msg = intents[j].msg} IN
      /\ \A i \in earlier : outcomes[intents[i].send] = "not_attempted"
      /\ intents[j].retry_after = None <=> earlier = {}
      /\ earlier # {} => \E k \in earlier :
           /\ \A i \in earlier : i <= k
           /\ intents[j].retry_after = intents[k].send

(***************************************************************************)
(* The promise of Delivery, seen from the journal and the wire: an         *)
(* envelope is reserved by an intent until the intent is conclusively not  *)
(* attempted, delivered once the product took it, and settled once an      *)
(* acceptance with committed lifecycle state is journaled.                 *)
(***************************************************************************)
AttemptsOf(m) == {a \in Sends : m \in Sent(a)}

DeliveryStatus ==
  [m \in Messages |->
     IF \E a \in AttemptsOf(m) : outcomes[a] = "committed" THEN "settled"
     ELSE IF \E a \in AttemptsOf(m) : a \in Taken THEN "delivered"
     ELSE IF \E a \in AttemptsOf(m) : outcomes[a] # "not_attempted" THEN "reserved"
     ELSE "unsent"]

Promise == INSTANCE Delivery WITH Replies <- ReplyMessages, status <- DeliveryStatus

\* Sending implements Delivery: at most one hand-over of an envelope, one
\* unsettled reply per root, release only of what was never attempted.
AtMostOnce == Promise!DeliverySpec

(***************************************************************************)
(* No send hangs: the process that journaled an intent ends, by recording  *)
(* an outcome, by failing to, or by dying, whatever the product does.      *)
(***************************************************************************)
SendsEnd ==
  \A a \in Sends :
    sends[a].phase # "idle" ~> sends[a].phase \in {"closed", "crashed"}
=============================================================================
