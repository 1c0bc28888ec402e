---------------------------- MODULE OutboundProofs ----------------------------
(***************************************************************************)
(* Theorems about Outbound, for any messages, any senders and any times:   *)
(* what the journal says of a delivery is true, retries form chains, and   *)
(* sending implements both the lifecycle and the promise of Delivery.      *)
(***************************************************************************)
EXTENDS Outbound, LifecycleProofs

\* What is known of invocation a, in state x, with its outcome so far.
AttemptOK(a, x, outcome, taken) ==
  /\ x.phase \in {"intended", "dispatching", "accepted"} => x.observed \in Times
  /\ x.phase \in {"idle", "intended"} => x.dispatch = "not_started"
  /\ x.phase \in {"dispatching", "accepted"} => x.dispatch = "started"
  /\ x.phase = "accepted" => a \in taken
  /\ outcome # "none" => x.phase = "closed"
  /\ a \in taken => x.dispatch = "started"
  /\ outcome = "not_attempted" => x.dispatch # "started"
  /\ outcome \in {"committed", "incomplete"} => a \in taken

AttemptsInv == \A a \in Sends : AttemptOK(a, sends[a], outcomes[a], Taken)

\* The recipient can place m.
Placed(m) == IF m.type \in RootTypes THEN m.id \in Registered ELSE m.root \in Registered

PlacedInv ==
  \A a \in Sends : sends[a].phase = "intended" \/ sends[a].dispatch # "not_started" =>
    \A m \in Sent(a) : Placed(m)

CommittedInv ==
  \A a \in Sends : outcomes[a] = "committed" => \A m \in Sent(a) : m.id \in Processed

\* Of two replies to one root, the one intended first was settled or never
\* attempted when the other was intended, and stays so.
SlotsInv ==
  \A k, l \in DOMAIN intents :
    k < l /\ intents[k].msg.type \in ReplyTypes /\ intents[l].msg.type \in ReplyTypes
          /\ intents[k].msg.root = intents[l].msg.root =>
      outcomes[intents[k].send] \in {"committed", "not_attempted"}

OInv ==
  /\ IInv
  /\ OutboundTypeOK
  /\ AttemptsInv
  /\ PlacedInv
  /\ CommittedInv
  /\ SlotsInv
  /\ RetryChain
  /\ RepliesInTurn

-----------------------------------------------------------------------------
\* A step of the lifecycle forgets nothing that the recipient may rely on.
LEMMA NothingForgotten ==
  ASSUME IInv, [Next]_vars
  PROVE  /\ IInv'
         /\ Registered \subseteq Registered'
         /\ Processed \subseteq Processed'
<1>1. IInv'
  BY IInvStep
<1>2. OutcomeKept \/ UNCHANGED entries
  BY OutcomeStep DEF vars
<1>3. CASE UNCHANGED entries
  BY <1>1, <1>3 DEF Registered, Processed, ProcessedReplies
<1>4. CASE OutcomeKept
  <2>1. Registered \subseteq Registered'
    BY <1>4 DEF OutcomeKept
  <2>2. ASSUME NEW x \in ProcessedReplies
        PROVE  x \in ProcessedReplies'
    <3>1. PICK r \in Registered : \E i \in DOMAIN entries[r].replies :
            x = entries[r].replies[i].msg.id
      BY DEF ProcessedReplies
    <3>2. PICK i \in DOMAIN entries[r].replies : x = entries[r].replies[i].msg.id
      BY <3>1
    <3>3. /\ r \in Registered' /\ i \in DOMAIN entries'[r].replies
          /\ x = entries'[r].replies[i].msg.id
      BY <1>4, <3>2 DEF OutcomeKept
    <3> DEFINE ids == {entries'[r].replies[j].msg.id : j \in DOMAIN entries'[r].replies}
    <3>4. x \in ids
      BY <3>3
    <3>5. ids \in {{entries'[q].replies[j].msg.id : j \in DOMAIN entries'[q].replies} :
                     q \in Registered'}
      BY <3>3
    <3> HIDE DEF ids
    <3>6. QED
      BY <3>4, <3>5 DEF ProcessedReplies
  <2>3. QED
    BY <1>1, <2>1, <2>2 DEF Processed
<1>5. QED
  BY <1>2, <1>3, <1>4

LEMMA ReplyTypesApart ==
  /\ RootTypes \cap ReplyTypes = {}
  /\ \A m \in RootMessages : m.type \in RootTypes /\ m.id \in RootIds
  /\ \A m \in ReplyMessages : m.type \in ReplyTypes
BY RootAssumption, ReplyAssumption DEF RootTypes, ReplyTypes, RootIds

\* The registration of a root with its intent is a step of the lifecycle.
LEMMA CommitRootStep ==
  ASSUME NEW m \in Messages, NEW observed \in Times, NEW renewal \in RootIds \cup {None},
         CommitRoot(m, observed, renewal)
  PROVE  [Next]_vars
<1>1. CASE m.type \in RootTypes /\ RegisterRoot(m, observed, renewal)
  <2>1. m \in RootMessages
    BY <1>1, ReplyTypesApart DEF Messages
  <2>2. renewal \in Registered \cup {None}
    BY <1>1 DEF RegisterRoot, RootAllowed, RenewalAllowed, PriorOperations
  <2>3. QED
    BY <1>1, <2>1, <2>2 DEF Next
<1>2. CASE UNCHANGED entries
  BY <1>2 DEF vars
<1>3. QED
  BY <1>1, <1>2 DEF CommitRoot

\* A reply that is applied is processed.
LEMMA AppliedIsProcessed ==
  ASSUME TypeOK, NEW m \in ReplyMessages, NEW observed \in Times, ApplyReply(m, observed)
  PROVE  m.id \in Processed'
<1>1. PICK s \in States :
        /\ m.root \in Registered
        /\ entries'[m.root] = ReplyApplied(entries[m.root], m, observed, s)
        /\ DOMAIN entries' = Registered
  BY ApplyReplyFields
<1>2. entries[m.root] \in LifecycleEntry
  BY <1>1 DEF TypeOK
<1>3. \E i \in DOMAIN entries'[m.root].replies : entries'[m.root].replies[i].msg = m
  BY <1>1, <1>2, ReplyAppliedFields
<1>4. m.root \in Registered'
  BY <1>1 DEF Registered
<1>5. m.id \in ProcessedReplies'
  BY <1>3, <1>4 DEF ProcessedReplies
<1>6. QED
  BY <1>5 DEF Processed

-----------------------------------------------------------------------------
\* Who sent what.
LEMMA IntentFields ==
  ASSUME OutboundTypeOK, NEW i \in DOMAIN intents
  PROVE  /\ intents[i].send \in Sends /\ intents[i].msg \in Messages
         /\ intents[i].retry_after \in Sends \cup {None}
         /\ intents[i].msg \in Sent(intents[i].send)
<1>1. intents[i] \in OutboundIntent
  BY DEF OutboundTypeOK
<1>2. QED
  BY <1>1 DEF OutboundIntent, Sent

LEMMA SentOnce ==
  ASSUME OutboundTypeOK, NEW a, NEW m \in Sent(a)
  PROVE  \E i \in DOMAIN intents :
           /\ intents[i].send = a /\ intents[i].msg = m
           /\ \A j \in DOMAIN intents : intents[j].send = a => j = i
           /\ \A n \in Sent(a) : n = m
           /\ m \in Messages
<1>1. PICK i \in DOMAIN intents : intents[i].send = a /\ intents[i].msg = m
  BY DEF Sent
<1>2. \A j \in DOMAIN intents : intents[j].send = a => j = i
  BY <1>1 DEF OutboundTypeOK
<1>3. \A n \in Sent(a) : n = m
  BY <1>1, <1>2 DEF Sent
<1>4. QED
  BY <1>1, <1>2, <1>3, IntentFields

LEMMA IntentIndices ==
  ASSUME OutboundTypeOK
  PROVE  DOMAIN intents = 1..Len(intents) /\ Len(intents) \in Nat
BY DEF OutboundTypeOK

LEMMA SendFields ==
  ASSUME OutboundTypeOK, NEW a \in Sends
  PROVE  /\ sends[a] \in SendAttempt
         /\ sends[a].phase \in Phases /\ sends[a].observed \in Times \cup {None}
         /\ sends[a].dispatch \in {"not_started", "started", "too_large"}
         /\ outcomes[a] \in Outcomes
<1>1. sends[a] \in SendAttempt /\ outcomes[a] \in Outcomes
  BY DEF OutboundTypeOK
<1>2. QED
  BY <1>1 DEF SendAttempt

(***************************************************************************)
(* An invocation goes from one state to another while the journal may be   *)
(* extended by others: nothing new is intended, taken or reported.         *)
(***************************************************************************)
LEMMA AttemptStep ==
  ASSUME OInv, [Next]_vars, UNCHANGED <<intents, outcomes, wire>>,
         NEW a \in Sends, NEW x \in SendAttempt,
         sends' = [sends EXCEPT ![a] = x],
         sends[a].phase # "idle", x.phase # "idle",
         AttemptOK(a, x, outcomes[a], Taken),
         \/ x.phase # "intended" /\ x.dispatch = "not_started"
         \/ \A m \in Sent(a) : Placed(m)
  PROVE  OInv'
<1>1. /\ IInv' /\ Registered \subseteq Registered' /\ Processed \subseteq Processed'
  BY NothingForgotten DEF OInv
<1>2. /\ sends' \in [Sends -> SendAttempt] /\ sends'[a] = x
      /\ \A b \in Sends \ {a} : sends'[b] = sends[b]
  BY DEF OInv, OutboundTypeOK
<1>3. Taken' = Taken /\ \A b : Sent(b)' = Sent(b)
  BY DEF Taken, Sent
<1>4. OutboundTypeOK'
  <2>1. TypeOK'
    BY <1>1 DEF IInv
  <2>2. \A b \in Sends : sends'[b].phase # "idle" <=> Sent(b)' # {}
    BY <1>2, <1>3 DEF OInv, OutboundTypeOK
  <2>3. QED
    BY <1>2, <2>1, <2>2 DEF OInv, OutboundTypeOK
<1>5. AttemptsInv'
  BY <1>2, <1>3 DEF OInv, AttemptsInv
<1>6. PlacedInv'
  <2>1. \A m : Placed(m) => Placed(m)'
    BY <1>1 DEF Placed
  <2>2. ASSUME NEW b \in Sends,
               sends'[b].phase = "intended" \/ sends'[b].dispatch # "not_started"
        PROVE  \A m \in Sent(b) : Placed(m)
    BY <1>2, <2>2 DEF OInv, PlacedInv
  <2>3. QED
    BY <1>3, <2>1, <2>2 DEF PlacedInv
<1>7. CommittedInv'
  BY <1>1, <1>3 DEF OInv, CommittedInv
<1>8. SlotsInv' /\ RetryChain'
  BY DEF OInv, SlotsInv, RetryChain
<1>9. RepliesInTurn'
  BY <1>1, <1>3 DEF OInv, RepliesInTurn
<1>10. QED
  BY <1>1, <1>4, <1>5, <1>6, <1>7, <1>8, <1>9 DEF OInv

\* An invocation that has journaled its intent enters another phase.
LEMMA PhaseStep ==
  ASSUME OInv, [Next]_vars, UNCHANGED <<intents, outcomes, wire>>,
         NEW a \in Sends, NEW x \in SendAttempt,
         sends' = [sends EXCEPT ![a] = x],
         sends[a].phase \in {"intended", "dispatching", "accepted", "failed"},
         x.phase \in {"dispatching", "accepted", "failed", "closed", "crashed"},
         x.observed = sends[a].observed,
         \/ x.dispatch = sends[a].dispatch
         \/ x.dispatch = "started" /\ sends[a].phase = "intended"
         \/ x.dispatch = "too_large" /\ sends[a].phase = "dispatching" /\ a \notin Taken,
         x.phase \in {"dispatching", "accepted"} =>
           sends[a].phase \in {"intended", "dispatching"} /\ x.dispatch = "started",
         x.phase = "accepted" => a \in Taken
  PROVE  OInv'
<1>1. AttemptOK(a, sends[a], outcomes[a], Taken) /\ PlacedInv
  BY DEF OInv, AttemptsInv
<1>2. outcomes[a] = "none"
  BY <1>1 DEF AttemptOK
<1>3. AttemptOK(a, x, outcomes[a], Taken)
  BY <1>1, <1>2 DEF AttemptOK
<1>4. \/ x.phase # "intended" /\ x.dispatch = "not_started"
      \/ \A m \in Sent(a) : Placed(m)
  <2>1. CASE sends[a].phase = "intended" \/ sends[a].dispatch # "not_started"
    BY <1>1, <2>1 DEF PlacedInv
  <2>2. CASE sends[a].phase # "intended" /\ sends[a].dispatch = "not_started"
    BY <1>1, <2>2 DEF AttemptOK
  <2>3. QED
    BY <2>1, <2>2
<1>5. sends[a].phase # "idle" /\ x.phase # "idle"
  OBVIOUS
<1>6. QED
  BY <1>3, <1>4, <1>5, AttemptStep

\* An invocation with another phase.
LEMMA PhaseFields ==
  ASSUME OutboundTypeOK, NEW a \in Sends, NEW phase \in Phases
  PROVE  LET x == [sends[a] EXCEPT !.phase = phase] IN
           /\ x \in SendAttempt /\ x.phase = phase
           /\ x.dispatch = sends[a].dispatch /\ x.observed = sends[a].observed
           /\ [sends EXCEPT ![a].phase = phase] = [sends EXCEPT ![a] = x]
<1>1. sends[a] \in SendAttempt /\ sends \in [Sends -> SendAttempt]
  BY DEF OutboundTypeOK
<1>2. [sends EXCEPT ![a].phase = phase] = [sends EXCEPT ![a] = [sends[a] EXCEPT !.phase = phase]]
  BY <1>1
<1>3. QED
  BY <1>1, <1>2 DEF SendAttempt

LEMMA DispatchSteps ==
  ASSUME OInv, NEW a \in Sends,
         \/ StartDispatch(a) \/ RefuseProduct(a) \/ ReadReceipt(a)
         \/ RefuseSize(a) \/ MissReceipt(a) \/ Crash(a)
  PROVE  OInv'
<1> DEFINE x(phase) == [sends[a] EXCEPT !.phase = phase]
<1>1. OutboundTypeOK /\ AttemptOK(a, sends[a], outcomes[a], Taken)
  BY DEF OInv, AttemptsInv
<1>2. [Next]_vars /\ UNCHANGED <<intents, outcomes, wire>>
  BY DEF StartDispatch, RefuseProduct, ReadReceipt, RefuseSize, MissReceipt, Crash,
    journal, vars
<1>3. \A phase \in Phases :
        /\ x(phase) \in SendAttempt /\ x(phase).phase = phase
        /\ x(phase).dispatch = sends[a].dispatch
        /\ x(phase).observed = sends[a].observed
        /\ [sends EXCEPT ![a].phase = phase] = [sends EXCEPT ![a] = x(phase)]
  BY <1>1, PhaseFields
<1> HIDE DEF x
<1>4. {"dispatching", "accepted", "failed", "closed", "crashed"} \subseteq Phases
  BY DEF Phases
<1>6. CASE StartDispatch(a)
  <2>1. /\ sends[a].phase = "intended"
        /\ sends' = [sends EXCEPT ![a].phase = "dispatching", ![a].dispatch = "started"]
    BY <1>6 DEF StartDispatch, Working
  <2> DEFINE y == [sends[a] EXCEPT !.phase = "dispatching", !.dispatch = "started"]
  <2>2. sends' = [sends EXCEPT ![a] = y]
    BY <1>1, <2>1 DEF OutboundTypeOK
  <2>3. /\ y \in SendAttempt /\ y.phase = "dispatching" /\ y.dispatch = "started"
        /\ y.observed = sends[a].observed
    BY <1>1, SendFields DEF SendAttempt, Phases
  <2> HIDE DEF y
  <2>4. QED
    BY <1>2, <2>1, <2>2, <2>3, PhaseStep
<1>7. CASE RefuseProduct(a)
  <2>1. sends[a].phase = "intended" /\ sends' = [sends EXCEPT ![a] = x("failed")]
    BY <1>3, <1>4, <1>7 DEF RefuseProduct, Working, Enter
  <2>2. QED
    BY <1>2, <1>3, <1>4, <2>1, PhaseStep
<1>8. CASE ReadReceipt(a)
  <2>1. /\ sends[a].phase = "dispatching" /\ a \in Taken
        /\ sends' = [sends EXCEPT ![a] = x("accepted")]
    BY <1>3, <1>4, <1>8 DEF ReadReceipt, Working, Enter
  <2>2. sends[a].dispatch = "started"
    BY <1>1, <2>1 DEF AttemptOK
  <2>3. QED
    BY <1>2, <1>3, <1>4, <2>1, <2>2, PhaseStep
<1>9. CASE RefuseSize(a)
  <2>1. /\ sends[a].phase = "dispatching" /\ a \notin Taken
        /\ sends' = [sends EXCEPT ![a].phase = "failed", ![a].dispatch = "too_large"]
    BY <1>9 DEF RefuseSize, Working
  <2> DEFINE y == [sends[a] EXCEPT !.phase = "failed", !.dispatch = "too_large"]
  <2>2. sends' = [sends EXCEPT ![a] = y]
    BY <1>1, <2>1 DEF OutboundTypeOK
  <2>3. /\ y \in SendAttempt /\ y.phase = "failed" /\ y.dispatch = "too_large"
        /\ y.observed = sends[a].observed
    BY <1>1, SendFields DEF SendAttempt, Phases
  <2> HIDE DEF y
  <2>4. QED
    BY <1>2, <2>1, <2>2, <2>3, PhaseStep
<1>10. CASE MissReceipt(a)
  <2>1. sends[a].phase = "dispatching" /\ sends' = [sends EXCEPT ![a] = x("failed")]
    BY <1>3, <1>4, <1>10 DEF MissReceipt, Working, Enter
  <2>2. QED
    BY <1>2, <1>3, <1>4, <2>1, PhaseStep
<1>11. CASE Crash(a)
  <2>1. /\ sends[a].phase \in {"intended", "dispatching", "accepted", "failed"}
        /\ sends' = [sends EXCEPT ![a] = x("crashed")]
    BY <1>3, <1>4, <1>11 DEF Crash, Enter
  <2>2. QED
    BY <1>2, <1>3, <1>4, <2>1, PhaseStep
<1>12. QED
  BY <1>6, <1>7, <1>8, <1>9, <1>10, <1>11

LEMMA LeaveUnjournaledStep ==
  ASSUME OInv, NEW a \in Sends, LeaveUnjournaled(a)
  PROVE  OInv'
<1> DEFINE x == [sends[a] EXCEPT !.phase = "closed"]
<1>1. OutboundTypeOK /\ AttemptOK(a, sends[a], outcomes[a], Taken)
  BY DEF OInv, AttemptsInv
<1>2. /\ sends[a].phase \in {"accepted", "failed"} /\ UNCHANGED <<intents, outcomes, wire>>
      /\ sends' = [sends EXCEPT ![a].phase = "closed"]
      /\ \/ UNCHANGED entries
         \/ /\ sends[a].phase = "accepted"
            /\ \E m \in Sent(a) \cap ReplyMessages : ApplyReply(m, sends[a].observed)
  BY DEF LeaveUnjournaled, Working, Enter
<1>3. [Next]_vars
  <2>1. sends[a].phase = "accepted" => sends[a].observed \in Times
    BY <1>1 DEF AttemptOK
  <2>2. QED
    BY <1>2, <2>1 DEF Next, vars
<1>4. "closed" \in Phases
  BY DEF Phases
<1>5. /\ x \in SendAttempt /\ x.phase = "closed"
      /\ x.dispatch = sends[a].dispatch /\ x.observed = sends[a].observed
      /\ sends' = [sends EXCEPT ![a] = x]
  BY <1>1, <1>2, <1>4, PhaseFields
<1> HIDE DEF x
<1>6. QED
  BY <1>2, <1>3, <1>5, PhaseStep

\* Nothing changes but the lifecycle, or nothing at all.
LEMMA OthersStep ==
  ASSUME OInv, [Next]_vars, UNCHANGED <<intents, outcomes, sends, wire>>
  PROVE  OInv'
<1>1. /\ IInv' /\ Registered \subseteq Registered' /\ Processed \subseteq Processed'
  BY NothingForgotten DEF OInv
<1>2. Taken' = Taken /\ \A b : Sent(b)' = Sent(b)
  BY DEF Taken, Sent
<1>3. OutboundTypeOK'
  <2>1. TypeOK'
    BY <1>1 DEF IInv
  <2>2. QED
    BY <1>2, <2>1 DEF OInv, OutboundTypeOK
<1>4. AttemptsInv'
  BY <1>2 DEF OInv, AttemptsInv
<1>5. PlacedInv'
  <2>1. \A m : Placed(m) => Placed(m)'
    BY <1>1 DEF Placed
  <2>2. QED
    BY <1>2, <2>1 DEF OInv, PlacedInv
<1>6. CommittedInv'
  BY <1>1, <1>2 DEF OInv, CommittedInv
<1>7. SlotsInv' /\ RetryChain'
  BY DEF OInv, SlotsInv, RetryChain
<1>8. RepliesInTurn'
  BY <1>1, <1>2 DEF OInv, RepliesInTurn
<1>9. QED
  BY <1>1, <1>3, <1>4, <1>5, <1>6, <1>7, <1>8 DEF OInv

-----------------------------------------------------------------------------
(***************************************************************************)
(* The product takes the envelope of a.  Of any other envelope taken       *)
(* before, the intent came earlier, or it came later and then what a sent  *)
(* was already settled or had been given up unattempted.                   *)
(***************************************************************************)
LEMMA TakeStep ==
  ASSUME OInv, NEW a \in Sends, TakeEnvelope(a)
  PROVE  OInv'
<1>1. /\ sends[a].dispatch = "started" /\ a \notin Taken
      /\ wire' = Append(wire, a) /\ UNCHANGED <<entries, intents, outcomes, sends>>
  BY DEF TakeEnvelope, journal
<1>2. /\ OutboundTypeOK /\ wire \in Seq(Sends) /\ Len(wire) \in Nat
      /\ \A b \in Sends : AttemptOK(b, sends[b], outcomes[b], Taken)
  BY DEF OInv, OutboundTypeOK, AttemptsInv
<1>3. /\ wire' \in Seq(Sends) /\ Len(wire') = Len(wire) + 1
      /\ DOMAIN wire' = 1..(Len(wire) + 1) /\ DOMAIN wire = 1..Len(wire)
      /\ wire'[Len(wire) + 1] = a
      /\ \A i \in DOMAIN wire : wire'[i] = wire[i] /\ wire[i] \in Sends
  BY <1>1, <1>2
<1>4. Taken' = Taken \cup {a}
  BY <1>3 DEF Taken
<1>5. \A b : Sent(b)' = Sent(b)
  BY <1>1 DEF Sent
<1>6. IInv' /\ Registered' = Registered /\ Processed' = Processed
  <2>1. UNCHANGED vars
    BY <1>1 DEF vars
  <2>2. IInv'
    BY <2>1, IInvStep DEF OInv
  <2>3. QED
    BY <1>1, <2>2 DEF Registered, Processed, ProcessedReplies
<1>7. OutboundTypeOK'
  <2>1. TypeOK'
    BY <1>6 DEF IInv
  <2>2. QED
    BY <1>1, <1>2, <1>3, <1>5, <2>1 DEF OutboundTypeOK
<1>8. AttemptsInv'
  <2>1. AttemptOK(a, sends[a], outcomes[a], Taken \cup {a})
    BY <1>1, <1>2 DEF AttemptOK
  <2>2. \A b \in Sends \ {a} : AttemptOK(b, sends[b], outcomes[b], Taken \cup {a})
    BY <1>2 DEF AttemptOK
  <2>3. QED
    BY <1>1, <1>4, <2>1, <2>2 DEF AttemptsInv
<1>9. PlacedInv' /\ CommittedInv' /\ SlotsInv' /\ RetryChain'
  <2>1. PlacedInv'
    BY <1>1, <1>5, <1>6 DEF OInv, PlacedInv, Placed
  <2>2. CommittedInv'
    BY <1>1, <1>5, <1>6 DEF OInv, CommittedInv
  <2>3. SlotsInv' /\ RetryChain'
    BY <1>1 DEF OInv, SlotsInv, RetryChain
  <2>4. QED
    BY <2>1, <2>2, <2>3
<1>10. ASSUME NEW b \in Taken, NEW m \in Sent(b), NEW n \in Sent(a)
       PROVE  /\ m # n
              /\ m.type \in ReplyTypes /\ n.type \in ReplyTypes /\ m.root = n.root =>
                   m.id \in Processed
  <2>1. b \in Sends /\ b # a
    BY <1>1, <1>3 DEF Taken
  <2>2. PICK k \in DOMAIN intents : intents[k].send = b /\ intents[k].msg = m
    BY DEF Sent
  <2>3. PICK l \in DOMAIN intents : intents[l].send = a /\ intents[l].msg = n
    BY DEF Sent
  <2>4. k # l /\ k \in Nat /\ l \in Nat /\ k >= 1 /\ l >= 1
    BY <1>2, <2>1, <2>2, <2>3, IntentIndices
  <2>5. outcomes[b] # "not_attempted" /\ outcomes[a] \notin {"committed", "not_attempted"}
    BY <1>1, <1>2, <2>1 DEF AttemptOK
  <2>6. m # n
    <3>1. ASSUME m = n, k < l PROVE FALSE
      BY <2>2, <2>3, <2>4, <2>5, <3>1 DEF OInv, RetryChain
    <3>2. ASSUME m = n, l < k PROVE FALSE
      BY <2>2, <2>3, <2>4, <2>5, <3>2 DEF OInv, RetryChain
    <3>3. QED
      BY <2>4, <3>1, <3>2
  <2>7. ASSUME m.type \in ReplyTypes, n.type \in ReplyTypes, m.root = n.root
        PROVE  m.id \in Processed
    <3>1. ~(l < k)
      BY <2>2, <2>3, <2>5, <2>7 DEF OInv, SlotsInv
    <3>2. outcomes[b] = "committed"
      BY <2>2, <2>3, <2>4, <2>5, <2>7, <3>1 DEF OInv, SlotsInv
    <3>3. QED
      BY <2>1, <3>2 DEF OInv, CommittedInv
  <2>8. QED
    BY <2>6, <2>7
<1>11. RepliesInTurn'
  <2>1. ASSUME NEW i \in DOMAIN wire', NEW j \in DOMAIN wire', i < j,
               NEW m \in Sent(wire'[i]), NEW n \in Sent(wire'[j])
        PROVE  /\ m # n
               /\ m.type \in ReplyTypes /\ n.type \in ReplyTypes /\ m.root = n.root =>
                    m.id \in Processed
    <3>1. i \in DOMAIN wire /\ wire'[i] = wire[i] /\ wire[i] \in Taken
      BY <1>2, <1>3, <2>1 DEF Taken
    <3>2. CASE j = Len(wire) + 1
      BY <1>3, <1>10, <2>1, <3>1, <3>2
    <3>3. CASE j \in DOMAIN wire
      BY <1>3, <2>1, <3>1, <3>3 DEF OInv, RepliesInTurn
    <3>4. QED
      BY <1>2, <1>3, <3>2, <3>3
  <2>2. QED
    BY <1>5, <1>6, <2>1 DEF RepliesInTurn
<1>12. QED
  BY <1>6, <1>7, <1>8, <1>9, <1>11 DEF OInv

-----------------------------------------------------------------------------
\* An invocation reports its outcome, the only one there will be.
LEMMA OutcomeRecorded ==
  ASSUME OInv, [Next]_vars, NEW a \in Sends,
         NEW o \in {"committed", "incomplete", "not_attempted", "unknown"},
         sends[a].phase \in {"accepted", "failed"}, RecordOutcome(a, o),
         o \in {"committed", "incomplete"} => sends[a].phase = "accepted",
         o = "not_attempted" => sends[a].dispatch # "started",
         o = "committed" => \A m \in Sent(a) : m.id \in Processed'
  PROVE  OInv'
<1> DEFINE x == [sends[a] EXCEPT !.phase = "closed"]
<1>1. /\ IInv' /\ Registered \subseteq Registered' /\ Processed \subseteq Processed'
  BY NothingForgotten DEF OInv
<1>2. OutboundTypeOK /\ \A b \in Sends : AttemptOK(b, sends[b], outcomes[b], Taken)
  BY DEF OInv, AttemptsInv
<1>3. "closed" \in Phases
  BY DEF Phases
<1>4. /\ x \in SendAttempt /\ x.phase = "closed"
      /\ x.dispatch = sends[a].dispatch /\ x.observed = sends[a].observed
      /\ sends' = [sends EXCEPT ![a] = x]
  BY <1>2, <1>3, PhaseFields DEF RecordOutcome, Enter
<1> HIDE DEF x
<1>5. /\ sends' \in [Sends -> SendAttempt] /\ sends'[a] = x
      /\ \A b \in Sends \ {a} : sends'[b] = sends[b]
  BY <1>2, <1>4 DEF OutboundTypeOK
<1>6. /\ outcomes' \in [Sends -> Outcomes] /\ outcomes'[a] = o
      /\ \A b \in Sends \ {a} : outcomes'[b] = outcomes[b]
      /\ intents' = intents /\ wire' = wire
  BY <1>2 DEF OutboundTypeOK, RecordOutcome, Outcomes
<1>7. Taken' = Taken /\ \A b : Sent(b)' = Sent(b)
  BY <1>6 DEF Taken, Sent
<1>8. OutboundTypeOK'
  <2>1. TypeOK'
    BY <1>1 DEF IInv
  <2>2. \A b \in Sends : sends'[b].phase # "idle" <=> Sent(b)' # {}
    BY <1>2, <1>4, <1>5, <1>7 DEF OutboundTypeOK
  <2>3. QED
    BY <1>2, <1>5, <1>6, <2>1, <2>2 DEF OutboundTypeOK
<1>9. AttemptsInv'
  <2>1. AttemptOK(a, x, o, Taken)
    BY <1>2, <1>4 DEF AttemptOK
  <2>2. QED
    BY <1>2, <1>5, <1>6, <1>7, <2>1 DEF AttemptsInv
<1>10. PlacedInv'
  <2>1. \A m : Placed(m) => Placed(m)'
    BY <1>1 DEF Placed
  <2>2. ASSUME NEW b \in Sends,
               sends'[b].phase = "intended" \/ sends'[b].dispatch # "not_started"
        PROVE  \A m \in Sent(b) : Placed(m)
    BY <1>4, <1>5, <2>2 DEF OInv, PlacedInv
  <2>3. QED
    BY <1>7, <2>1, <2>2 DEF PlacedInv
<1>11. CommittedInv'
  BY <1>1, <1>6, <1>7 DEF OInv, CommittedInv
<1>12. outcomes[a] = "none"
  BY <1>2 DEF AttemptOK
<1>13. SlotsInv'
  <2>1. \A k \in DOMAIN intents : intents[k].send \in Sends
    BY <1>2, IntentFields
  <2>2. \A b \in Sends : outcomes[b] \in {"committed", "not_attempted"} =>
          outcomes'[b] = outcomes[b]
    BY <1>6, <1>12
  <2>3. QED
    BY <1>6, <2>1, <2>2 DEF OInv, SlotsInv
<1>14. RetryChain'
  <2>1. \A k \in DOMAIN intents : intents[k].send \in Sends
    BY <1>2, IntentFields
  <2>2. \A b \in Sends : outcomes[b] = "not_attempted" => outcomes'[b] = "not_attempted"
    BY <1>6, <1>12
  <2>3. DOMAIN intents = 1..Len(intents) /\ Len(intents) \in Nat
    BY <1>2, IntentIndices
  <2>4. QED
    BY <1>6, <2>1, <2>2, <2>3 DEF OInv, RetryChain
<1>15. RepliesInTurn'
  BY <1>1, <1>6, <1>7 DEF OInv, RepliesInTurn
<1>16. QED
  BY <1>1, <1>8, <1>9, <1>10, <1>11, <1>13, <1>14, <1>15 DEF OInv

LEMMA FinalizeStep ==
  ASSUME OInv, NEW a \in Sends, FinalizeAccepted(a)
  PROVE  OInv'
<1>1. OutboundTypeOK /\ TypeOK /\ AttemptOK(a, sends[a], outcomes[a], Taken)
  BY DEF OInv, OutboundTypeOK, AttemptsInv
<1>2. sends[a].phase = "accepted" /\ sends[a].observed \in Times
  BY <1>1 DEF FinalizeAccepted, Working, AttemptOK
<1>3. PICK m \in Sent(a) :
        \/ AlreadySettled(m) /\ UNCHANGED entries /\ RecordOutcome(a, "committed")
        \/ /\ m \in ReplyMessages /\ ApplyReply(m, sends[a].observed)
           /\ RecordOutcome(a, "committed")
        \/ UNCHANGED entries /\ RecordOutcome(a, "incomplete")
  BY DEF FinalizeAccepted
<1>4. [Next]_vars
  BY <1>2, <1>3 DEF Next, vars
<1>5. \A n \in Sent(a) : n = m
  BY <1>1, SentOnce
<1>6. CASE RecordOutcome(a, "incomplete")
  BY <1>2, <1>4, <1>6, OutcomeRecorded
<1>7. CASE AlreadySettled(m) /\ UNCHANGED entries /\ RecordOutcome(a, "committed")
  <2>1. m.id \in Processed'
    BY <1>7 DEF AlreadySettled, Processed, ProcessedReplies, Registered
  <2>2. QED
    BY <1>2, <1>4, <1>5, <1>7, <2>1, OutcomeRecorded
<1>8. CASE /\ m \in ReplyMessages /\ ApplyReply(m, sends[a].observed)
           /\ RecordOutcome(a, "committed")
  <2>1. m.id \in Processed'
    BY <1>1, <1>2, <1>8, AppliedIsProcessed
  <2>2. QED
    BY <1>2, <1>4, <1>5, <1>8, <2>1, OutcomeRecorded
<1>9. QED
  BY <1>3, <1>6, <1>7, <1>8

LEMMA FailureStep ==
  ASSUME OInv, NEW a \in Sends, JournalFailure(a)
  PROVE  OInv'
<1>1. /\ sends[a].phase = "failed" /\ RecordOutcome(a, DeliveryState(a))
      /\ UNCHANGED entries
  BY DEF JournalFailure, Working
<1>2. /\ DeliveryState(a) \in {"not_attempted", "unknown"}
      /\ DeliveryState(a) = "not_attempted" => sends[a].dispatch # "started"
  BY DEF DeliveryState
<1>3. [Next]_vars
  BY <1>1 DEF vars
<1>4. QED
  BY <1>1, <1>2, <1>3, OutcomeRecorded

-----------------------------------------------------------------------------
\* What the checks before an intent establish.
LEMMA IntentChecked ==
  ASSUME OInv, NEW m \in Messages, NEW observed, NEW renewal, NEW retry_after,
         IntentAllowed(m, observed, renewal, retry_after)
  PROVE  LET earlier == {i \in DOMAIN intents : intents[i].msg = m} IN
           /\ \A i \in earlier : outcomes[intents[i].send] = "not_attempted"
           /\ retry_after = None <=> earlier = {}
           /\ earlier # {} => \E k \in earlier :
                /\ \A i \in earlier : i <= k
                /\ retry_after = intents[k].send
           /\ m.type \in ReplyTypes => m.root \in Registered
<1> DEFINE earlier == {i \in DOMAIN intents : intents[i].msg = m}
           matching == MatchingIntents(m, KnownRenewalRoots(m, renewal))
<1>1. RetrySafe(m, KnownRenewalRoots(m, renewal), retry_after)
  BY DEF IntentAllowed
<1>2. /\ \A i \in matching : intents[i].msg = m /\ Conclusive(i)
      /\ \/ matching = {} /\ retry_after = None
         \/ \E k \in matching : (\A i \in matching : i <= k) /\ retry_after = intents[k].send
  BY <1>1 DEF RetrySafe
<1>3. matching = earlier
  <2>1. earlier \subseteq matching
    BY DEF MatchingIntents
  <2>2. matching \subseteq earlier
    BY <1>2 DEF MatchingIntents
  <2>3. QED
    BY <2>1, <2>2
<1>4. \A i \in earlier : intents[i].send # None
  BY IntentFields, SendsAssumption DEF OInv
<1>5. m.type \in ReplyTypes => m.root \in Registered
  BY DEF IntentAllowed, ReplySendable, ReplyCorrelated, ReplyRepeated
<1> HIDE DEF matching
<1>6. QED
  BY <1>2, <1>3, <1>4, <1>5 DEF Conclusive

(***************************************************************************)
(* An invocation journals its intent and goes on (intended) or not.        *)
(***************************************************************************)
LEMMA IntentStep ==
  ASSUME OInv, NEW a \in Sends, NEW m \in Messages, NEW observed,
         NEW renewal, NEW retry_after \in Sends \cup {None},
         NEW x \in SendAttempt,
         sends[a].phase = "idle", IntentAllowed(m, observed, renewal, retry_after),
         AppendIntent(a, m, retry_after), [Next]_vars,
         sends' = [sends EXCEPT ![a] = x],
         x.phase \in {"intended", "failed"}, x.dispatch = sends[a].dispatch,
         x.phase = "intended" => x.observed \in Times,
         x.phase = "intended" /\ m.type \in RootTypes => m.id \in Registered'
  PROVE  OInv'
<1> DEFINE n == Len(intents) + 1
           intent == [send |-> a, msg |-> m, retry_after |-> retry_after]
<1>1. /\ IInv' /\ Registered \subseteq Registered' /\ Processed \subseteq Processed'
  BY NothingForgotten DEF OInv
<1>2. OutboundTypeOK /\ \A b \in Sends : AttemptOK(b, sends[b], outcomes[b], Taken)
  BY DEF OInv, AttemptsInv
<1>3. /\ a \notin Taken /\ outcomes[a] = "none" /\ sends[a].dispatch = "not_started"
  BY <1>2 DEF AttemptOK
<1>4. intents' = Append(intents, intent) /\ outcomes' = outcomes /\ wire' = wire
  BY DEF AppendIntent
<1>5. DOMAIN intents = 1..Len(intents) /\ Len(intents) \in Nat
  BY <1>2, IntentIndices
<1>6. intent \in OutboundIntent
  BY DEF OutboundIntent
<1>7. /\ intents' \in Seq(OutboundIntent) /\ DOMAIN intents' = 1..n
      /\ intents'[n] = intent
      /\ \A i \in DOMAIN intents : intents'[i] = intents[i]
  BY <1>2, <1>4, <1>6 DEF OutboundTypeOK
<1>8. intent.send = a /\ intent.msg = m /\ intent.retry_after = retry_after
  OBVIOUS
<1> HIDE DEF intent
<1>9. \A i \in DOMAIN intents : intents[i].send # a
  <2>1. Sent(a) = {}
    BY <1>2 DEF OutboundTypeOK
  <2>2. QED
    BY <2>1 DEF Sent
<1>10. Sent(a)' = {m} /\ \A b : b # a => Sent(b)' = Sent(b)
  <2>1. \A b : \A y : y \in Sent(b)' <=> \E i \in 1..n : intents'[i].send = b /\ intents'[i].msg = y
    BY <1>7 DEF Sent
  <2>2. \A b : \A y : y \in Sent(b) <=> \E i \in DOMAIN intents : intents[i].send = b /\ intents[i].msg = y
    BY DEF Sent
  <2>3. n \in 1..n /\ 1..n = DOMAIN intents \cup {n}
    BY <1>5
  <2>4. ASSUME NEW y PROVE y \in Sent(a)' <=> y = m
    BY <1>7, <1>8, <1>9, <2>1, <2>3
  <2>5. ASSUME NEW b, b # a, NEW y PROVE y \in Sent(b)' <=> y \in Sent(b)
    BY <1>7, <1>8, <2>1, <2>2, <2>3, <2>5
  <2>6. Sent(a)' = {m}
    BY <2>4
  <2>7. ASSUME NEW b, b # a PROVE Sent(b)' = Sent(b)
    <3>1. \A y : y \in Sent(b)' <=> y \in Sent(b)
      BY <2>5, <2>7
    <3>2. QED
      BY <3>1 DEF Sent
  <2>8. QED
    BY <2>6, <2>7
<1>11. Taken' = Taken
  BY <1>4 DEF Taken
<1>12. /\ sends' \in [Sends -> SendAttempt] /\ sends'[a] = x
       /\ \A b \in Sends \ {a} : sends'[b] = sends[b]
  BY <1>2 DEF OutboundTypeOK
<1>13. OutboundTypeOK'
  <2>1. TypeOK'
    BY <1>1 DEF IInv
  <2>2. ASSUME NEW b \in Sends PROVE sends'[b].phase # "idle" <=> Sent(b)' # {}
    <3>1. CASE b = a
      <4>1. sends'[b].phase # "idle" /\ m \in Sent(b)'
        BY <1>10, <1>12, <3>1
      <4>2. QED
        BY <4>1
    <3>2. CASE b # a
      <4>1. sends'[b] = sends[b] /\ Sent(b)' = Sent(b)
        BY <1>10, <1>12, <3>2
      <4>2. sends[b].phase # "idle" <=> Sent(b) # {}
        BY <1>2 DEF OutboundTypeOK
      <4>3. QED
        BY <4>1, <4>2
    <3>3. QED
      BY <3>1, <3>2
  <2>3. ASSUME NEW i \in 1..n, NEW j \in 1..n, intents'[i].send = intents'[j].send
        PROVE  i = j
    <3>1. i \in DOMAIN intents \/ i = n
      BY <1>5
    <3>2. j \in DOMAIN intents \/ j = n
      BY <1>5
    <3>3. CASE i \in DOMAIN intents /\ j \in DOMAIN intents
      <4>1. intents'[i] = intents[i] /\ intents'[j] = intents[j]
        BY <1>7, <3>3
      <4>2. QED
        BY <1>2, <2>3, <3>3, <4>1 DEF OutboundTypeOK
    <3>4. CASE i \in DOMAIN intents /\ j = n
      BY <1>7, <1>8, <1>9, <2>3, <3>4
    <3>5. CASE i = n /\ j \in DOMAIN intents
      BY <1>7, <1>8, <1>9, <2>3, <3>5
    <3>6. QED
      BY <3>1, <3>2, <3>3, <3>4, <3>5
  <2>4. QED
    BY <1>2, <1>4, <1>7, <1>12, <2>1, <2>2, <2>3 DEF OutboundTypeOK
<1>14. AttemptsInv'
  <2>1. AttemptOK(a, x, outcomes[a], Taken)
    BY <1>3 DEF AttemptOK
  <2>2. QED
    BY <1>2, <1>4, <1>11, <1>12, <2>1 DEF AttemptsInv
<1>15. PlacedInv'
  <2>1. \A y : Placed(y) => Placed(y)'
    BY <1>1 DEF Placed
  <2>2. x.phase = "intended" => Placed(m)'
    <3>1. m.type \in RootTypes \/ m.type \in ReplyTypes
      BY ReplyTypesApart DEF Messages
    <3>2. m.type \in ReplyTypes => m.root \in Registered
      BY IntentChecked
    <3>3. m.type \in ReplyTypes => m.type \notin RootTypes
      BY ReplyTypesApart
    <3>4. QED
      BY <1>1, <3>1, <3>2, <3>3 DEF Placed
  <2>3. ASSUME NEW b \in Sends,
               sends'[b].phase = "intended" \/ sends'[b].dispatch # "not_started"
        PROVE  \A y \in Sent(b)' : Placed(y)'
    <3>1. CASE b = a
      BY <1>3, <1>10, <1>12, <2>2, <2>3, <3>1
    <3>2. CASE b # a
      BY <1>10, <1>12, <2>1, <2>3, <3>2 DEF OInv, PlacedInv
    <3>3. QED
      BY <3>1, <3>2
  <2>4. QED
    BY <2>3 DEF PlacedInv
<1>16. CommittedInv'
  <2>1. ASSUME NEW b \in Sends, outcomes[b] = "committed"
        PROVE  \A y \in Sent(b)' : y.id \in Processed'
    BY <1>1, <1>3, <1>10, <2>1 DEF OInv, CommittedInv
  <2>2. QED
    BY <1>4, <2>1 DEF CommittedInv
<1>17. SlotsInv'
  <2>1. ASSUME NEW k \in 1..n, NEW l \in 1..n, k < l,
               intents'[k].msg.type \in ReplyTypes, intents'[l].msg.type \in ReplyTypes,
               intents'[k].msg.root = intents'[l].msg.root
        PROVE  outcomes[intents'[k].send] \in {"committed", "not_attempted"}
    <3>1. k \in DOMAIN intents /\ intents'[k] = intents[k]
      BY <1>5, <1>7, <2>1
    <3>2. CASE l = n
      <4>1. ReplySlotAvailable(m)
        BY DEF IntentAllowed
      <4>2. QED
        BY <1>7, <1>8, <2>1, <3>1, <3>2, <4>1 DEF ReplySlotAvailable
    <3>3. CASE l \in DOMAIN intents
      BY <1>7, <2>1, <3>1, <3>3 DEF OInv, SlotsInv
    <3>4. QED
      BY <1>5, <3>2, <3>3
  <2>2. QED
    BY <1>4, <1>7, <2>1 DEF SlotsInv
<1>18. RetryChain'
  <2> DEFINE before(j) == {i \in 1..(j - 1) : intents[i].msg = intents[j].msg}
             before2(j) == {i \in 1..(j - 1) : intents'[i].msg = intents'[j].msg}
             Follows(earlier, retry, sent) ==
               /\ \A i \in earlier : outcomes[sent[i].send] = "not_attempted"
               /\ retry = None <=> earlier = {}
               /\ earlier # {} => \E k \in earlier :
                    (\A i \in earlier : i <= k) /\ retry = sent[k].send
  <2>1. ASSUME NEW j \in DOMAIN intents
        PROVE  Follows(before2(j), intents'[j].retry_after, intents')
    <3>1. \A i \in 1..j : i \in DOMAIN intents /\ intents'[i] = intents[i]
      BY <1>5, <1>7
    <3>2. j \in 1..j /\ 1..(j - 1) \subseteq 1..j
      BY <1>5
    <3>3. before2(j) = before(j)
      BY <3>1, <3>2
    <3>4. Follows(before(j), intents[j].retry_after, intents)
      BY DEF OInv, RetryChain
    <3>5. \A i \in before(j) : intents'[i] = intents[i]
      BY <3>1, <3>2
    <3> HIDE DEF before, before2
    <3>6. QED
      BY <3>1, <3>2, <3>3, <3>4, <3>5
  <2>2. Follows(before2(n), intents'[n].retry_after, intents')
    <3> DEFINE earlier == {i \in DOMAIN intents : intents[i].msg = m}
    <3>1. before2(n) = earlier
      <4>1. 1..(n - 1) = DOMAIN intents
        BY <1>5
      <4>2. QED
        BY <1>7, <1>8, <4>1
    <3>2. Follows(earlier, retry_after, intents)
      BY IntentChecked
    <3>3. \A i \in earlier : intents'[i] = intents[i]
      BY <1>7
    <3> HIDE DEF earlier, before2
    <3>4. QED
      BY <1>7, <1>8, <3>1, <3>2, <3>3
  <2>3. ASSUME NEW j \in 1..n
        PROVE  Follows(before2(j), intents'[j].retry_after, intents')
    <3>1. j \in DOMAIN intents \/ j = n
      BY <1>5
    <3> HIDE DEF Follows, before2
    <3>2. QED
      BY <2>1, <2>2, <3>1
  <2>4. QED
    BY <1>4, <1>7, <2>3 DEF RetryChain
<1>19. RepliesInTurn'
  <2>1. \A i \in DOMAIN wire : wire[i] # a
    BY <1>3 DEF Taken
  <2>2. \A i \in DOMAIN wire : Sent(wire[i])' = Sent(wire'[i])
    BY <1>4, <1>10, <2>1
  <2>3. ASSUME NEW i \in DOMAIN wire, NEW j \in DOMAIN wire, i < j,
               NEW y \in Sent(wire[i]), NEW z \in Sent(wire[j])
        PROVE  /\ y # z
               /\ y.type \in ReplyTypes /\ z.type \in ReplyTypes /\ y.root = z.root =>
                    y.id \in Processed'
    BY <1>1, <2>3 DEF OInv, RepliesInTurn
  <2>4. QED
    BY <1>4, <1>10, <2>1, <2>3 DEF RepliesInTurn
<1>20. QED
  BY <1>1, <1>13, <1>14, <1>15, <1>16, <1>17, <1>18, <1>19 DEF OInv

LEMMA BeginStep ==
  ASSUME OInv, NEW a \in Sends, BeginSend(a)
  PROVE  OInv'
<1>1. OutboundTypeOK /\ sends[a] \in SendAttempt
  BY DEF OInv, OutboundTypeOK
<1>2. PICK m \in Messages, observed \in Times, renewal \in RootIds \cup {None},
           retry_after \in Sends \cup {None} :
        \/ \E planned \in Times : JournalIntent(a, m, observed, renewal, retry_after, planned)
        \/ IntentWithoutDispatch(a, m, observed, renewal, retry_after)
  BY DEF BeginSend
<1>3. ASSUME NEW planned \in Times, JournalIntent(a, m, observed, renewal, retry_after, planned)
      PROVE  OInv'
  <2> DEFINE x == [sends[a] EXCEPT !.phase = "intended", !.observed = planned]
  <2>1. /\ sends[a].phase = "idle" /\ IntentAllowed(m, observed, renewal, retry_after)
        /\ AppendIntent(a, m, retry_after) /\ CommitRoot(m, observed, renewal)
    BY <1>3 DEF JournalIntent, Working
  <2>2. x \in SendAttempt /\ x.phase = "intended" /\ x.dispatch = sends[a].dispatch
        /\ x.observed = planned
    BY <1>1 DEF SendAttempt, Phases
  <2>3. sends' = [sends EXCEPT ![a] = x]
    BY <1>1, <1>3 DEF JournalIntent, OutboundTypeOK
  <2> HIDE DEF x
  <2>4. [Next]_vars
    BY <2>1, CommitRootStep
  <2>5. m.type \in RootTypes => m.id \in Registered'
    <3>1. CASE m.id \notin Registered
      BY <2>1, <3>1 DEF CommitRoot, RegisterRoot, Registered
    <3>2. CASE m.id \in Registered
      BY <2>4, <3>2, NothingForgotten DEF OInv
    <3>3. QED
      BY <3>1, <3>2
  <2>6. QED
    BY <2>1, <2>2, <2>3, <2>4, <2>5, IntentStep
<1>4. ASSUME IntentWithoutDispatch(a, m, observed, renewal, retry_after)
      PROVE  OInv'
  <2> DEFINE x == [sends[a] EXCEPT !.phase = "failed"]
  <2>1. /\ sends[a].phase = "idle" /\ IntentAllowed(m, observed, renewal, retry_after)
        /\ AppendIntent(a, m, retry_after)
        /\ CommitRoot(m, observed, renewal) \/ UNCHANGED entries
        /\ sends' = [sends EXCEPT ![a].phase = "failed"]
    BY <1>4 DEF IntentWithoutDispatch, Working, Enter
  <2>2. "failed" \in Phases
    BY DEF Phases
  <2>3. x \in SendAttempt /\ x.phase = "failed" /\ x.dispatch = sends[a].dispatch
        /\ sends' = [sends EXCEPT ![a] = x]
    BY <1>1, <2>1, <2>2, PhaseFields
  <2> HIDE DEF x
  <2>4. [Next]_vars
    <3>1. CASE CommitRoot(m, observed, renewal)
      BY <3>1, CommitRootStep
    <3>2. CASE UNCHANGED entries
      BY <3>2 DEF vars
    <3>3. QED
      BY <2>1, <3>1, <3>2
  <2>5. QED
    BY <2>1, <2>3, <2>4, IntentStep
<1>5. QED
  BY <1>2, <1>3, <1>4

-----------------------------------------------------------------------------
LEMMA OutboundStart ==
  OutboundInit => OInv
<1> SUFFICES ASSUME OutboundInit PROVE OInv
  OBVIOUS
<1>1. IInv
  BY IInvInit DEF OutboundInit
<1>2. /\ intents = <<>> /\ wire = <<>> /\ DOMAIN intents = {} /\ DOMAIN wire = {}
      /\ Taken = {} /\ \A a : Sent(a) = {}
  BY DEF OutboundInit, Taken, Sent
<1>3. \A a \in Sends : /\ sends[a].phase = "idle" /\ sends[a].dispatch = "not_started"
                       /\ outcomes[a] = "none"
  BY DEF OutboundInit
<1>4. OutboundTypeOK
  <2>1. sends \in [Sends -> SendAttempt]
    BY DEF OutboundInit, SendAttempt, Phases
  <2>2. outcomes \in [Sends -> Outcomes]
    BY DEF OutboundInit, Outcomes
  <2>3. intents \in Seq(OutboundIntent) /\ wire \in Seq(Sends)
    BY <1>2
  <2>4. QED
    BY <1>1, <1>2, <1>3, <2>1, <2>2, <2>3 DEF OutboundTypeOK, IInv
<1>5. AttemptsInv
  BY <1>2, <1>3 DEF AttemptsInv, AttemptOK
<1>6. PlacedInv /\ CommittedInv
  BY <1>3 DEF PlacedInv, CommittedInv
<1>7. SlotsInv /\ RetryChain /\ RepliesInTurn
  BY <1>2 DEF SlotsInv, RetryChain, RepliesInTurn
<1>8. QED
  BY <1>1, <1>4, <1>5, <1>6, <1>7 DEF OInv

LEMMA OutboundStep ==
  OInv /\ [OutboundNext]_outboundVars => OInv'
<1> SUFFICES ASSUME OInv, [OutboundNext]_outboundVars PROVE OInv'
  OBVIOUS
<1>1. ASSUME NEW a \in Sends, BeginSend(a) \/ Continue(a) \/ TakeEnvelope(a) \/ Crash(a)
      PROVE  OInv'
  <2>1. CASE BeginSend(a)
    BY <2>1, BeginStep
  <2>2. CASE Continue(a)
    BY <2>2, DispatchSteps, FinalizeStep, FailureStep, LeaveUnjournaledStep DEF Continue
  <2>3. CASE TakeEnvelope(a)
    BY <2>3, TakeStep
  <2>4. CASE Crash(a)
    BY <2>4, DispatchSteps
  <2>5. QED
    BY <1>1, <2>1, <2>2, <2>3, <2>4
<1>2. CASE OtherWriter
  BY <1>2, OthersStep DEF OtherWriter
<1>3. CASE UNCHANGED outboundVars
  BY <1>3, OthersStep DEF outboundVars, vars
<1>4. QED
  BY <1>1, <1>2, <1>3 DEF OutboundNext

\* Every step of sending is a step of the lifecycle, or leaves it alone.
LEMMA LifecycleStepOfSending ==
  OInv /\ [OutboundNext]_outboundVars => [Next]_vars
<1> SUFFICES ASSUME OInv, [OutboundNext]_outboundVars PROVE [Next]_vars
  OBVIOUS
<1>1. ASSUME NEW a \in Sends, BeginSend(a)
      PROVE  [Next]_vars
  <2>1. PICK m \in Messages, observed \in Times, renewal \in RootIds \cup {None} :
          CommitRoot(m, observed, renewal) \/ UNCHANGED entries
    BY <1>1 DEF BeginSend, JournalIntent, IntentWithoutDispatch
  <2>2. QED
    BY <2>1, CommitRootStep DEF vars
<1>2. ASSUME NEW a \in Sends, Continue(a) \/ TakeEnvelope(a) \/ Crash(a)
      PROVE  [Next]_vars
  <2>1. AttemptOK(a, sends[a], outcomes[a], Taken)
    BY DEF OInv, AttemptsInv
  <2>2. \/ UNCHANGED entries
        \/ /\ sends[a].phase = "accepted"
           /\ \E m \in ReplyMessages : ApplyReply(m, sends[a].observed)
    <3>1. CASE Continue(a)
      BY <3>1 DEF Continue, StartDispatch, RefuseProduct, ReadReceipt, RefuseSize,
        MissReceipt, FinalizeAccepted, JournalFailure, LeaveUnjournaled, Working, journal
    <3>2. CASE TakeEnvelope(a) \/ Crash(a)
      BY <3>2 DEF TakeEnvelope, Crash, journal
    <3>3. QED
      BY <1>2, <3>1, <3>2
  <2>3. sends[a].phase = "accepted" => sends[a].observed \in Times
    BY <2>1 DEF AttemptOK
  <2>4. QED
    BY <2>2, <2>3 DEF Next, vars
<1>3. CASE OtherWriter \/ UNCHANGED outboundVars
  BY <1>3 DEF OtherWriter, outboundVars, vars
<1>4. QED
  BY <1>1, <1>2, <1>3 DEF OutboundNext

(***************************************************************************)
(* The invariant of sending.                                               *)
(***************************************************************************)
THEOREM OutboundInvariant ==
  OutboundSpec => []OInv
BY OutboundStart, OutboundStep, PTL DEF OutboundSpec

(***************************************************************************)
(* The state is well formed and an invocation journals one intent.         *)
(***************************************************************************)
THEOREM OutboundTypeCorrect ==
  OutboundSpec => []OutboundTypeOK
<1>1. OInv => OutboundTypeOK
  BY DEF OInv
<1>2. QED
  BY <1>1, OutboundInvariant, PTL

(***************************************************************************)
(* Sending, with its intents, crashes and late outcomes, implements the    *)
(* lifecycle: what is proved of the projection holds whoever sends.        *)
(***************************************************************************)
THEOREM SendingImplementsLifecycle ==
  OutboundSpec => Spec
<1>1. OutboundInit => Init
  BY DEF OutboundInit
<1>2. QED
  BY <1>1, LifecycleStepOfSending, OutboundInvariant, PTL DEF OutboundSpec, Spec

(***************************************************************************)
(* What the journal says of a delivery is true for ever.                   *)
(***************************************************************************)
THEOREM OutcomesTruthful ==
  OutboundSpec => []TruthfulOutcomes
<1>1. OInv => TruthfulOutcomes
  BY DEF OInv, AttemptsInv, AttemptOK, CommittedInv, TruthfulOutcomes
<1>2. QED
  BY <1>1, OutboundInvariant, PTL

(***************************************************************************)
(* The product never takes what its recipient could not place.             *)
(***************************************************************************)
THEOREM AlwaysRegisteredFirst ==
  OutboundSpec => []RegisteredBeforeDispatch
<1>1. ASSUME OInv PROVE RegisteredBeforeDispatch
  <2>1. ASSUME NEW a \in Taken PROVE \A m \in Sent(a) : Placed(m)
    <3>1. a \in Sends
      BY <1>1 DEF OInv, OutboundTypeOK, Taken
    <3>2. sends[a].dispatch = "started"
      BY <1>1, <3>1 DEF OInv, AttemptsInv, AttemptOK
    <3>3. QED
      BY <1>1, <3>1, <3>2 DEF OInv, PlacedInv
  <2>2. QED
    BY <2>1 DEF RegisteredBeforeDispatch, Placed
<1>2. QED
  BY <1>1, OutboundInvariant, PTL

(***************************************************************************)
(* Retries of an envelope form one chain of attempts never made.           *)
(***************************************************************************)
THEOREM RetriesFormChains ==
  OutboundSpec => []RetryChain
<1>1. OInv => RetryChain
  BY DEF OInv
<1>2. QED
  BY <1>1, OutboundInvariant, PTL

(***************************************************************************)
(* No envelope is taken twice, and replies to one root are taken in turn.  *)
(***************************************************************************)
THEOREM RepliesTakenInTurn ==
  OutboundSpec => []RepliesInTurn
<1>1. OInv => RepliesInTurn
  BY DEF OInv
<1>2. QED
  BY <1>1, OutboundInvariant, PTL

-----------------------------------------------------------------------------
\* The state of an envelope in the promise, from its attempts.
LEMMA StatusOf ==
  ASSUME NEW m \in Messages
  PROVE  DeliveryStatus[m] =
           IF \E a \in AttemptsOf(m) : outcomes[a] = "committed" THEN "settled"
           ELSE IF \E a \in AttemptsOf(m) : a \in Taken THEN "delivered"
           ELSE IF \E a \in AttemptsOf(m) : outcomes[a] # "not_attempted" THEN "reserved"
           ELSE "unsent"
BY DEF DeliveryStatus

\* At most one attempt of an envelope counts.
LEMMA OneAttemptCounts ==
  ASSUME OInv, NEW m, NEW a \in AttemptsOf(m), outcomes[a] # "not_attempted",
         NEW b \in AttemptsOf(m), b # a
  PROVE  /\ outcomes[b] = "not_attempted" /\ b \notin Taken
<1>1. a \in Sends /\ b \in Sends /\ m \in Sent(a) /\ m \in Sent(b)
  BY DEF AttemptsOf
<1>2. PICK k \in DOMAIN intents : intents[k].send = a /\ intents[k].msg = m
  BY <1>1 DEF Sent
<1>3. PICK l \in DOMAIN intents : intents[l].send = b /\ intents[l].msg = m
  BY <1>1 DEF Sent
<1>4. DOMAIN intents = 1..Len(intents) /\ Len(intents) \in Nat
  BY IntentIndices DEF OInv
<1>5. k # l
  BY <1>2, <1>3
<1>6. ~(k < l)
  BY <1>2, <1>3, <1>4 DEF OInv, RetryChain
<1>7. l < k
  BY <1>4, <1>5, <1>6
<1>8. outcomes[b] = "not_attempted"
  BY <1>2, <1>3, <1>4, <1>7 DEF OInv, RetryChain
<1>9. QED
  BY <1>1, <1>8 DEF OInv, AttemptsInv, AttemptOK

\* An invocation that journaled its intent attempts one envelope.
LEMMA TheEnvelope ==
  ASSUME OInv, NEW a \in Sends, sends[a].phase # "idle"
  PROVE  \E m \in Messages : a \in AttemptsOf(m) /\ \A n \in Messages : a \in AttemptsOf(n) => n = m
<1>1. PICK m : m \in Sent(a)
  BY DEF OInv, OutboundTypeOK
<1>2. m \in Messages /\ \A n \in Sent(a) : n = m
  BY <1>1, SentOnce DEF OInv
<1>3. QED
  BY <1>1, <1>2 DEF AttemptsOf

\* Nothing that the promise speaks of changes.
LEMMA StatusKept ==
  ASSUME UNCHANGED <<intents, outcomes, wire>>
  PROVE  DeliveryStatus' = DeliveryStatus
<1>1. Taken' = Taken /\ \A m : AttemptsOf(m)' = AttemptsOf(m)
  BY DEF Taken, AttemptsOf, Sent
<1>2. QED
  BY <1>1 DEF DeliveryStatus

\* The status of one envelope changes.
LEMMA StatusChanges ==
  ASSUME NEW m \in Messages, NEW v, DeliveryStatus'[m] = v,
         \A n \in Messages \ {m} : DeliveryStatus'[n] = DeliveryStatus[n]
  PROVE  DeliveryStatus' = [DeliveryStatus EXCEPT ![m] = v]
<1>1. DeliveryStatus = [n \in Messages |-> DeliveryStatus[n]]
  BY DEF DeliveryStatus
<1>2. DeliveryStatus' = [n \in Messages |-> DeliveryStatus'[n]]
  BY DEF DeliveryStatus
<1>3. QED
  BY <1>1, <1>2

LEMMA StatusUnchanged ==
  ASSUME \A n \in Messages : DeliveryStatus'[n] = DeliveryStatus[n]
  PROVE  DeliveryStatus' = DeliveryStatus
<1>1. DeliveryStatus = [n \in Messages |-> DeliveryStatus[n]]
  BY DEF DeliveryStatus
<1>2. DeliveryStatus' = [n \in Messages |-> DeliveryStatus'[n]]
  BY DEF DeliveryStatus
<1>3. QED
  BY <1>1, <1>2

LEMMA BeginReserves ==
  ASSUME OInv, NEW a \in Sends, BeginSend(a)
  PROVE  \E m \in Messages : Promise!Reserve(m)
<1>1. PICK m \in Messages, observed \in Times, renewal \in RootIds \cup {None},
           retry_after \in Sends \cup {None} :
        /\ sends[a].phase = "idle" /\ IntentAllowed(m, observed, renewal, retry_after)
        /\ AppendIntent(a, m, retry_after)
  BY DEF BeginSend, JournalIntent, IntentWithoutDispatch, Working
<1>2. OutboundTypeOK /\ AttemptOK(a, sends[a], outcomes[a], Taken)
  BY DEF OInv, AttemptsInv
<1>3. /\ outcomes[a] = "none" /\ a \notin Taken /\ Sent(a) = {}
      /\ outcomes' = outcomes /\ Taken' = Taken
  BY <1>1, <1>2 DEF AttemptOK, OutboundTypeOK, AppendIntent, Taken
<1>4. AttemptsOf(m)' = AttemptsOf(m) \cup {a} /\ \A n : n # m => AttemptsOf(n)' = AttemptsOf(n)
  <2> DEFINE intent == [send |-> a, msg |-> m, retry_after |-> retry_after]
             n1 == Len(intents) + 1
  <2>1. intents \in Seq(OutboundIntent) /\ intent \in OutboundIntent
    BY <1>2 DEF OutboundTypeOK, OutboundIntent
  <2>2. intents' = Append(intents, intent) /\ intent.send = a /\ intent.msg = m
    BY <1>1 DEF AppendIntent
  <2> HIDE DEF intent
  <2>3. /\ DOMAIN intents' = DOMAIN intents \cup {n1} /\ intents'[n1] = intent
        /\ \A i \in DOMAIN intents : intents'[i] = intents[i]
    BY <2>1, <2>2
  <2>4. \A b, n : n \in Sent(b)' <=> n \in Sent(b) \/ (b = a /\ n = m)
    <3>1. \A b, n : n \in Sent(b)' <=>
            \E i \in DOMAIN intents' : intents'[i].send = b /\ intents'[i].msg = n
      BY DEF Sent
    <3>2. \A b, n : n \in Sent(b) <=>
            \E i \in DOMAIN intents : intents[i].send = b /\ intents[i].msg = n
      BY DEF Sent
    <3>3. QED
      BY <2>2, <2>3, <3>1, <3>2
  <2>5. QED
    BY <2>4 DEF AttemptsOf
<1>5. \A b \in AttemptsOf(m) : outcomes[b] = "not_attempted" /\ b \notin Taken
  <2>1. ASSUME NEW b \in AttemptsOf(m)
        PROVE  outcomes[b] = "not_attempted"
    <3>1. PICK i \in DOMAIN intents : intents[i].send = b /\ intents[i].msg = m
      BY DEF AttemptsOf, Sent
    <3>2. QED
      BY <1>1, <3>1, IntentChecked
  <2>2. QED
    BY <2>1 DEF OInv, AttemptsInv, AttemptOK, AttemptsOf
<1>6. DeliveryStatus[m] = "unsent"
  BY <1>5, StatusOf
<1>7. \A n \in Promise!Competing(m) : DeliveryStatus[n] \in {"unsent", "settled"}
  <2>1. ASSUME NEW n \in ReplyMessages \ {m}, m \in ReplyMessages, n.root = m.root
        PROVE  DeliveryStatus[n] \in {"unsent", "settled"}
    <3>1. m.type \in ReplyTypes /\ n.type \in ReplyTypes /\ n \in Messages
      BY <2>1, ReplyTypesApart DEF Messages
    <3>2. \A b \in AttemptsOf(n) : outcomes[b] \in {"committed", "not_attempted"}
      <4>1. ASSUME NEW b \in AttemptsOf(n)
            PROVE  outcomes[b] \in {"committed", "not_attempted"}
        <5>1. PICK i \in DOMAIN intents : intents[i].send = b /\ intents[i].msg = n
          BY DEF AttemptsOf, Sent
        <5>2. QED
          BY <1>1, <2>1, <3>1, <5>1 DEF IntentAllowed, ReplySlotAvailable
      <4>2. QED
        BY <4>1
    <3>3. \A b \in AttemptsOf(n) : outcomes[b] = "not_attempted" => b \notin Taken
      BY DEF OInv, AttemptsInv, AttemptOK, AttemptsOf
    <3>4. QED
      BY <3>1, <3>2, <3>3, StatusOf
  <2>2. QED
    BY <2>1 DEF Promise!Competing
<1>8. DeliveryStatus' = [DeliveryStatus EXCEPT ![m] = "reserved"]
  <2>1. DeliveryStatus'[m] = "reserved"
    BY <1>3, <1>4, <1>5 DEF DeliveryStatus
  <2>2. \A n \in Messages \ {m} : DeliveryStatus'[n] = DeliveryStatus[n]
    BY <1>3, <1>4 DEF DeliveryStatus
  <2>3. QED
    BY <2>1, <2>2, StatusChanges
<1>9. QED
  BY <1>6, <1>7, <1>8 DEF Promise!Reserve

LEMMA TakeDelivers ==
  ASSUME OInv, NEW a \in Sends, TakeEnvelope(a)
  PROVE  \E m \in Messages : Promise!Deliver(m)
<1>1. /\ sends[a].dispatch = "started" /\ a \notin Taken /\ wire' = Append(wire, a)
      /\ UNCHANGED <<intents, outcomes, sends>>
  BY DEF TakeEnvelope, journal
<1>2. AttemptOK(a, sends[a], outcomes[a], Taken) /\ OutboundTypeOK
  BY DEF OInv, AttemptsInv
<1>3. PICK m \in Messages : a \in AttemptsOf(m) /\ \A n \in Messages : a \in AttemptsOf(n) => n = m
  BY <1>1, <1>2, TheEnvelope DEF AttemptOK
<1>4. outcomes[a] \notin {"committed", "not_attempted"}
  BY <1>1, <1>2 DEF AttemptOK
<1>5. Taken' = Taken \cup {a}
  <2>1. wire \in Seq(Sends)
    BY <1>2 DEF OutboundTypeOK
  <2>2. QED
    BY <1>1, <2>1 DEF Taken
<1>6. \A n : AttemptsOf(n)' = AttemptsOf(n)
  BY <1>1 DEF AttemptsOf, Sent
<1>7. \A b \in AttemptsOf(m) : b # a => outcomes[b] = "not_attempted" /\ b \notin Taken
  BY <1>3, <1>4, OneAttemptCounts
<1>8. DeliveryStatus[m] = "reserved"
  BY <1>1, <1>3, <1>4, <1>7, StatusOf
<1>9. DeliveryStatus' = [DeliveryStatus EXCEPT ![m] = "delivered"]
  <2>1. DeliveryStatus'[m] = "delivered"
    BY <1>1, <1>3, <1>4, <1>5, <1>6, <1>7 DEF DeliveryStatus
  <2>2. ASSUME NEW n \in Messages \ {m} PROVE DeliveryStatus'[n] = DeliveryStatus[n]
    <3>1. a \notin AttemptsOf(n)
      BY <1>3
    <3>2. QED
      BY <1>1, <1>5, <1>6, <3>1 DEF DeliveryStatus
  <2>3. QED
    BY <2>1, <2>2, StatusChanges
<1>10. QED
  BY <1>8, <1>9 DEF Promise!Deliver

\* An outcome settles a delivery, releases a reservation, or says nothing new.
LEMMA OutcomeConcludes ==
  ASSUME OInv, NEW a \in Sends, NEW o \in Outcomes \ {"none"}, RecordOutcome(a, o),
         sends[a].phase \in {"accepted", "failed"},
         o \in {"committed", "incomplete"} => sends[a].phase = "accepted",
         o = "not_attempted" => sends[a].dispatch # "started"
  PROVE  \/ \E m \in Messages : Promise!Release(m) \/ Promise!Conclude(m)
         \/ DeliveryStatus' = DeliveryStatus
<1>1. AttemptOK(a, sends[a], outcomes[a], Taken) /\ OutboundTypeOK
  BY DEF OInv, AttemptsInv
<1>2. PICK m \in Messages : a \in AttemptsOf(m) /\ \A n \in Messages : a \in AttemptsOf(n) => n = m
  BY TheEnvelope
<1>3. /\ outcomes[a] = "none"
      /\ o \in {"committed", "incomplete"} => a \in Taken
      /\ o = "not_attempted" => a \notin Taken
  BY <1>1 DEF AttemptOK
<1>4. /\ outcomes'[a] = o /\ \A b \in Sends \ {a} : outcomes'[b] = outcomes[b]
      /\ intents' = intents /\ wire' = wire
  BY <1>1 DEF RecordOutcome, OutboundTypeOK
<1>5. Taken' = Taken /\ \A n : AttemptsOf(n)' = AttemptsOf(n) /\ AttemptsOf(n) \subseteq Sends
  BY <1>4 DEF Taken, AttemptsOf, Sent
<1>6. \A b \in AttemptsOf(m) : b # a =>
        outcomes[b] = "not_attempted" /\ b \notin Taken /\ outcomes'[b] = "not_attempted"
  BY <1>2, <1>3, <1>4, <1>5, OneAttemptCounts
<1>7. DeliveryStatus[m] = IF a \in Taken THEN "delivered" ELSE "reserved"
  BY <1>2, <1>3, <1>6, StatusOf
<1>8. DeliveryStatus'[m] = IF o = "committed" THEN "settled"
                           ELSE IF a \in Taken THEN "delivered"
                           ELSE IF o = "not_attempted" THEN "unsent" ELSE "reserved"
  BY <1>2, <1>4, <1>5, <1>6 DEF DeliveryStatus
<1>9. ASSUME NEW n \in Messages \ {m} PROVE DeliveryStatus'[n] = DeliveryStatus[n]
  <2>1. \A b \in AttemptsOf(n) : outcomes'[b] = outcomes[b]
    BY <1>2, <1>4, <1>5, <1>9
  <2>2. QED
    BY <1>5, <2>1 DEF DeliveryStatus
<1>10. CASE o = "committed"
  <2>1. DeliveryStatus[m] = "delivered" /\ DeliveryStatus'[m] = "settled"
    BY <1>3, <1>7, <1>8, <1>10
  <2>2. DeliveryStatus' = [DeliveryStatus EXCEPT ![m] = "settled"]
    BY <1>9, <2>1, StatusChanges
  <2>3. QED
    BY <2>1, <2>2 DEF Promise!Conclude
<1>11. CASE o = "not_attempted"
  <2>1. DeliveryStatus[m] = "reserved" /\ DeliveryStatus'[m] = "unsent"
    BY <1>3, <1>7, <1>8, <1>11
  <2>2. DeliveryStatus' = [DeliveryStatus EXCEPT ![m] = "unsent"]
    BY <1>9, <2>1, StatusChanges
  <2>3. QED
    BY <2>1, <2>2 DEF Promise!Release
<1>12. CASE o \in {"incomplete", "unknown"}
  <2>1. DeliveryStatus'[m] = DeliveryStatus[m]
    BY <1>3, <1>7, <1>8, <1>12
  <2>2. QED
    BY <1>9, <2>1, StatusUnchanged
<1>13. QED
  BY <1>10, <1>11, <1>12 DEF Outcomes

LEMMA SendingKeepsPromise ==
  OInv /\ [OutboundNext]_outboundVars => [Promise!DeliveryNext]_DeliveryStatus
<1> SUFFICES ASSUME OInv, [OutboundNext]_outboundVars
             PROVE  [Promise!DeliveryNext]_DeliveryStatus
  OBVIOUS
<1>1. ASSUME NEW a \in Sends, BeginSend(a)
      PROVE  Promise!DeliveryNext
  BY <1>1, BeginReserves DEF Promise!DeliveryNext
<1>2. ASSUME NEW a \in Sends, TakeEnvelope(a)
      PROVE  Promise!DeliveryNext
  BY <1>2, TakeDelivers DEF Promise!DeliveryNext
<1>3. ASSUME NEW a \in Sends, FinalizeAccepted(a) \/ JournalFailure(a)
      PROVE  [Promise!DeliveryNext]_DeliveryStatus
  <2>1. ASSUME FinalizeAccepted(a)
        PROVE  /\ sends[a].phase = "accepted"
               /\ RecordOutcome(a, "committed") \/ RecordOutcome(a, "incomplete")
    BY <2>1 DEF FinalizeAccepted, Working
  <2>2. ASSUME JournalFailure(a)
        PROVE  /\ sends[a].phase = "failed" /\ RecordOutcome(a, DeliveryState(a))
               /\ DeliveryState(a) \in {"not_attempted", "unknown"}
               /\ DeliveryState(a) = "not_attempted" => sends[a].dispatch # "started"
    BY <2>2 DEF JournalFailure, Working, DeliveryState
  <2>3. {"committed", "incomplete", "not_attempted", "unknown"} \subseteq Outcomes \ {"none"}
    BY DEF Outcomes
  <2>4. \/ \E m \in Messages : Promise!Release(m) \/ Promise!Conclude(m)
        \/ DeliveryStatus' = DeliveryStatus
    <3>1. CASE FinalizeAccepted(a)
      BY <2>1, <2>3, <3>1, OutcomeConcludes
    <3>2. CASE JournalFailure(a)
      BY <2>2, <2>3, <3>2, OutcomeConcludes
    <3>3. QED
      BY <1>3, <3>1, <3>2
  <2>5. QED
    BY <2>4 DEF Promise!DeliveryNext
<1>4. ASSUME NEW a \in Sends, Crash(a) \/ LeaveUnjournaled(a) \/ StartDispatch(a)
             \/ RefuseProduct(a) \/ ReadReceipt(a) \/ RefuseSize(a) \/ MissReceipt(a)
      PROVE  DeliveryStatus' = DeliveryStatus
  <2>1. UNCHANGED <<intents, outcomes, wire>>
    BY <1>4 DEF Crash, LeaveUnjournaled, StartDispatch, RefuseProduct, ReadReceipt,
      RefuseSize, MissReceipt, journal
  <2>2. QED
    BY <2>1, StatusKept
<1>5. CASE OtherWriter \/ UNCHANGED outboundVars
  <2>1. UNCHANGED <<intents, outcomes, wire>>
    BY <1>5 DEF OtherWriter, outboundVars
  <2>2. QED
    BY <2>1, StatusKept
<1>6. QED
  BY <1>1, <1>2, <1>3, <1>4, <1>5 DEF OutboundNext, Continue

(***************************************************************************)
(* Sending implements the promise of Delivery: an envelope is handed over  *)
(* at most once, is released only when it never was, and replies to one    *)
(* root are reserved one at a time.                                        *)
(***************************************************************************)
THEOREM SendingImplementsDelivery ==
  OutboundSpec => AtMostOnce
<1>1. OutboundInit => Promise!DeliveryInit
  <2> SUFFICES ASSUME OutboundInit
               PROVE  DeliveryStatus = [m \in Messages |-> "unsent"]
    BY DEF Promise!DeliveryInit
  <2>1. \A m : AttemptsOf(m) = {}
    BY DEF OutboundInit, AttemptsOf, Sent
  <2>2. QED
    BY <2>1 DEF DeliveryStatus
<1>2. QED
  BY <1>1, SendingKeepsPromise, OutboundInvariant, PTL
    DEF OutboundSpec, AtMostOnce, Promise!DeliverySpec
-----------------------------------------------------------------------------
(***************************************************************************)
(* Whoever sends, retries, dies or reports late: each operation is taken   *)
(* on at most once and concluded at most once, and what concluded it is    *)
(* never rewritten.  (What Lifecycle proves of the projection holds of the *)
(* whole sending system, because sending implements Lifecycle.)            *)
(***************************************************************************)
THEOREM SendingKeepsOperations ==
  OutboundSpec => /\ OperationOnce
                  /\ OutcomeFinal
                  /\ []OneConfirmationPerOperation
                  /\ []CancelAgreement
<1>1. OutboundSpec => Spec
  BY SendingImplementsLifecycle
<1>2. Spec => OperationOnce /\ OutcomeFinal
  BY LifecycleImplementsOperations, OutcomesAreFinal
<1>3. Spec => []OneConfirmationPerOperation /\ []CancelAgreement
  BY OneConfirmation, CancelsAgree
<1>4. QED
  BY <1>1, <1>2, <1>3

(***************************************************************************)
(* How far an invocation still has to go.                                  *)
(***************************************************************************)
Distance(phase) ==
  CASE phase = "idle"                  -> 4
    [] phase = "intended"              -> 3
    [] phase = "dispatching"           -> 2
    [] phase \in {"accepted", "failed"} -> 1
    [] OTHER                           -> 0

(***************************************************************************)
(* An invocation only goes forward: in every step it takes, of its own, it *)
(* comes nearer to its end, and the step of another leaves it as it is.  A *)
(* sender that recorded its outcome or died never acts again.  With the    *)
(* fairness of FairSends this is why every send ends.                      *)
(***************************************************************************)
OnlyForward ==
  \A a \in Sends : \/ sends'[a] = sends[a]
                   \/ Distance(sends'[a].phase) < Distance(sends[a].phase)

(***************************************************************************)
(* What is on record stands: no later step withdraws an intent, changes an *)
(* outcome, takes back a hand-over or lets the projection forget an        *)
(* envelope.  A retry or a reply slot granted from the records stays       *)
(* granted for the right reason.                                           *)
(***************************************************************************)
RecordsKept ==
  /\ \A i \in DOMAIN intents : i \in DOMAIN intents' /\ intents'[i] = intents[i]
  /\ \A a \in Sends : outcomes[a] # "none" => outcomes'[a] = outcomes[a]
  /\ \A i \in DOMAIN wire : i \in DOMAIN wire' /\ wire'[i] = wire[i]
  /\ Processed \subseteq Processed'

LEMMA EnterFields ==
  ASSUME OutboundTypeOK, NEW a \in Sends, NEW phase, Enter(a, phase)
  PROVE  sends'[a].phase = phase /\ \A b \in Sends \ {a} : sends'[b] = sends[b]
<1>1. sends \in [Sends -> SendAttempt]
  BY DEF OutboundTypeOK
<1>2. QED
  BY <1>1 DEF Enter, SendAttempt

LEMMA SendAdvances ==
  ASSUME OInv, NEW a \in Sends, BeginSend(a) \/ Continue(a) \/ Crash(a)
  PROVE  /\ Distance(sends'[a].phase) < Distance(sends[a].phase)
         /\ \A b \in Sends \ {a} : sends'[b] = sends[b]
<1>1. OutboundTypeOK /\ sends \in [Sends -> SendAttempt]
  BY DEF OInv, OutboundTypeOK
<1>2. CASE BeginSend(a)
  <2>1. /\ sends[a].phase = "idle"
        /\ \/ Enter(a, "failed")
           \/ \E planned \in Times :
                sends' = [sends EXCEPT ![a].phase = "intended", ![a].observed = planned]
    BY <1>2 DEF BeginSend, JournalIntent, IntentWithoutDispatch, Working
  <2>2. /\ sends'[a].phase \in {"intended", "failed"}
        /\ \A b \in Sends \ {a} : sends'[b] = sends[b]
    BY <1>1, <2>1, EnterFields DEF SendAttempt
  <2>3. QED
    BY <2>1, <2>2 DEF Distance
<1>3. CASE StartDispatch(a) \/ RefuseSize(a)
  <2>1. \/ /\ sends[a].phase = "intended"
           /\ sends' = [sends EXCEPT ![a].phase = "dispatching", ![a].dispatch = "started"]
        \/ /\ sends[a].phase = "dispatching"
           /\ sends' = [sends EXCEPT ![a].phase = "failed", ![a].dispatch = "too_large"]
    BY <1>3 DEF StartDispatch, RefuseSize, Working
  <2>2. /\ \/ sends[a].phase = "intended" /\ sends'[a].phase = "dispatching"
           \/ sends[a].phase = "dispatching" /\ sends'[a].phase = "failed"
        /\ \A b \in Sends \ {a} : sends'[b] = sends[b]
    BY <1>1, <2>1 DEF SendAttempt
  <2>3. QED
    BY <2>2 DEF Distance
<1>4. CASE RefuseProduct(a) \/ ReadReceipt(a) \/ MissReceipt(a)
  <2>1. /\ sends[a].phase \in {"intended", "dispatching"}
        /\ Enter(a, "failed") \/ Enter(a, "accepted")
    BY <1>4 DEF RefuseProduct, ReadReceipt, MissReceipt, Working
  <2>2. QED
    BY <1>1, <2>1, EnterFields DEF Distance
<1>5. CASE FinalizeAccepted(a) \/ JournalFailure(a) \/ LeaveUnjournaled(a)
  <2>1. sends[a].phase \in {"accepted", "failed"} /\ Enter(a, "closed")
    BY <1>5 DEF FinalizeAccepted, JournalFailure, LeaveUnjournaled, RecordOutcome, Working
  <2>2. QED
    BY <1>1, <2>1, EnterFields DEF Distance
<1>6. CASE Crash(a)
  <2>1. sends[a].phase \in {"intended", "dispatching", "accepted", "failed"} /\ Enter(a, "crashed")
    BY <1>6 DEF Crash
  <2>2. QED
    BY <1>1, <2>1, EnterFields DEF Distance
<1>7. QED
  BY <1>2, <1>3, <1>4, <1>5, <1>6 DEF Continue

\* Every step of an invocation brings it nearer to its end; no step of others
\* touches it.
THEOREM SendsOnlyAdvance == OutboundSpec => [][OnlyForward]_outboundVars
<1>1. OInv /\ [OutboundNext]_outboundVars => [OnlyForward]_outboundVars
  <2> SUFFICES ASSUME OInv, OutboundNext PROVE OnlyForward
    OBVIOUS
  <2>1. ASSUME NEW a \in Sends, BeginSend(a) \/ Continue(a) \/ Crash(a)
        PROVE  OnlyForward
    BY <2>1, SendAdvances DEF OnlyForward
  <2>2. ASSUME NEW a \in Sends, TakeEnvelope(a) PROVE OnlyForward
    BY <2>2 DEF OnlyForward, TakeEnvelope
  <2>3. CASE OtherWriter
    BY <2>3 DEF OnlyForward, OtherWriter
  <2>4. QED
    BY <2>1, <2>2, <2>3 DEF OutboundNext
<1>2. QED
  BY <1>1, OutboundInvariant, PTL DEF OutboundSpec

\* Only the outcome of a running invocation is written.
LEMMA OutcomeWritten ==
  ASSUME OInv, NEW a \in Sends, FinalizeAccepted(a) \/ JournalFailure(a)
  PROVE  /\ \A b \in Sends : outcomes[b] # "none" => outcomes'[b] = outcomes[b]
         /\ UNCHANGED <<intents, wire>>
<1>1. /\ sends[a].phase \in {"accepted", "failed"} /\ UNCHANGED <<intents, wire>>
      /\ \E o : outcomes' = [outcomes EXCEPT ![a] = o]
  BY DEF FinalizeAccepted, JournalFailure, RecordOutcome, Working
<1>2. outcomes[a] = "none"
  BY <1>1 DEF OInv, AttemptsInv, AttemptOK
<1>3. QED
  BY <1>1, <1>2 DEF OInv, OutboundTypeOK

\* No step withdraws an intent, an outcome, a hand-over or a processed message.
THEOREM RecordsStand == OutboundSpec => [][RecordsKept]_outboundVars
<1>1. OInv /\ [OutboundNext]_outboundVars => [RecordsKept]_outboundVars
  <2> SUFFICES ASSUME OInv, OutboundNext PROVE RecordsKept
    OBVIOUS
  <2>1. Processed \subseteq Processed'
    BY LifecycleStepOfSending, NothingForgotten DEF OInv
  <2>2. intents \in Seq(OutboundIntent) /\ wire \in Seq(Sends)
    BY DEF OInv, OutboundTypeOK
  <2>3. ASSUME NEW a \in Sends, BeginSend(a) PROVE RecordsKept
    <3>1. /\ \E x \in OutboundIntent : intents' = Append(intents, x)
          /\ UNCHANGED <<outcomes, wire>>
      BY <2>3 DEF BeginSend, JournalIntent, IntentWithoutDispatch, AppendIntent, OutboundIntent
    <3>2. \A i \in DOMAIN intents : i \in DOMAIN intents' /\ intents'[i] = intents[i]
      BY <2>2, <3>1
    <3>3. QED
      BY <2>1, <3>1, <3>2 DEF RecordsKept
  <2>4. ASSUME NEW a \in Sends, TakeEnvelope(a) PROVE RecordsKept
    <3>1. /\ wire' = Append(wire, a) /\ UNCHANGED <<intents, outcomes>>
      BY <2>4 DEF TakeEnvelope, journal
    <3>2. \A i \in DOMAIN wire : i \in DOMAIN wire' /\ wire'[i] = wire[i]
      BY <2>2, <3>1
    <3>3. QED
      BY <2>1, <3>1, <3>2 DEF RecordsKept
  <2>5. ASSUME NEW a \in Sends, FinalizeAccepted(a) \/ JournalFailure(a) PROVE RecordsKept
    BY <2>1, <2>5, OutcomeWritten DEF RecordsKept
  <2>6. ASSUME NEW a \in Sends,
               \/ StartDispatch(a) \/ RefuseProduct(a) \/ ReadReceipt(a) \/ RefuseSize(a)
               \/ MissReceipt(a) \/ LeaveUnjournaled(a) \/ Crash(a)
        PROVE  RecordsKept
    <3>1. UNCHANGED <<intents, outcomes, wire>>
      BY <2>6 DEF StartDispatch, RefuseProduct, ReadReceipt, RefuseSize, MissReceipt,
         LeaveUnjournaled, Crash, journal
    <3>2. QED
      BY <2>1, <3>1 DEF RecordsKept
  <2>7. CASE OtherWriter
    BY <2>1, <2>7 DEF RecordsKept, OtherWriter
  <2>8. QED
    BY <2>3, <2>4, <2>5, <2>6, <2>7 DEF OutboundNext, Continue
<1>2. QED
  BY <1>1, OutboundInvariant, PTL DEF OutboundSpec
=============================================================================
