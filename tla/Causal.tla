-------------------------------- MODULE Causal --------------------------------
(***************************************************************************)
(* Causal ordering: what an instruction's sender knew when it spoke, and   *)
(* the intake that holds an instruction whose sender did not yet know what *)
(* its receiver had possibly said.                                         *)
(*                                                                         *)
(* Both participants share one project journal.  Sending and intake are    *)
(* transactions under the project lock and so are single steps; the        *)
(* product takes an envelope between them, without the lock, or somebody   *)
(* brings the file to the recipient by hand.  Whether the lifecycle, the   *)
(* roster and the reply slots admit an envelope is the subject of other    *)
(* modules: a refused command leaves no causal trace and is no step here,  *)
(* so what holds here holds whatever they refuse.                          *)
(***************************************************************************)
EXTENDS Naturals, Sequences, FiniteSets

CONSTANTS
  None,
  Ids,            \* message identifiers; each stands for one exact envelope
  Type,           \* the kind of each message
  From, To,       \* the participants of each message
  InReplyTo,      \* the root a reply or a cancel names, or None
  Renews,         \* the root a renewal succeeds, or None
  ByHand,         \* the messages a file of which may be carried to its recipient
  MaxReferences,  \* MAX_CAUSAL_REFERENCES
  MaxIntents      \* bound on the sends explored

VARIABLES
  gate,        \* the number of intents journaled before the feature gate, or None
  intents,     \* message.outbound.intent records, with the state of their sends
  registered,  \* roots whose exact bytes the lifecycle preserves
  received,    \* messages that reached their recipient
  assessments  \* message.inbound.validated records, in journal order

causalVars == <<gate, intents, registered, received, assessments>>

Roots == {m \in Ids : Type[m] # "reply"}
Types == {"hello", "request", "cancel", "reply"}
Instructions == {"request", "cancel"}

\* An attempt is dispatched once the product was asked, whatever outcome is
\* recorded afterwards, if any.
SendStates == {"intended", "dispatched", "not_attempted"}

CausalContext ==
  [conversation : Ids, depends_on : SUBSET Ids, supersedes : SUBSET Ids,
   recipient_frontier : SUBSET Ids]

\* retry_after is the position of the intent this one retries, 0 if it is no retry.
Intent ==
  [msg : Ids, context : CausalContext \cup {None}, retry_after : Nat,
   state : SendStates]

Assessment == [msg : Ids, held : BOOLEAN]

ASSUME CausalAssumption ==
  /\ None \notin Ids /\ None \notin CausalContext
  /\ IsFiniteSet(Ids)
  /\ Type \in [Ids -> Types]
  /\ \A m \in Ids : From[m] # To[m]
  /\ InReplyTo \in [Ids -> Ids \cup {None}]
  /\ \A m \in Ids : InReplyTo[m] # None <=> Type[m] \in {"reply", "cancel"}
  /\ Renews \in [Ids -> Ids \cup {None}]
  /\ \A m \in Ids : Renews[m] # None =>
       Type[m] \in {"hello", "request"} /\ From[Renews[m]] = From[m]
  /\ \A m \in Ids : Type[m] = "reply" => From[m] = To[InReplyTo[m]]
  /\ ByHand \subseteq Ids
  /\ MaxReferences \in Nat /\ MaxIntents \in Nat

IntentsOf(m) == {i \in DOMAIN intents : intents[i].msg = m}
First(S) == CHOOSE i \in S : \A j \in S : i <= j
Latest(S) == CHOOSE i \in S : \A j \in S : j <= i

\* The context of a message is that of its intents, which all agree.
ContextOf(m) ==
  IF IntentsOf(m) = {} THEN None ELSE intents[First(IntentsOf(m))].context

Validated(m) == \E i \in DOMAIN assessments : assessments[i].msg = m

SamePair(m, n) == {From[m], To[m]} = {From[n], To[n]}

-----------------------------------------------------------------------------
(***************************************************************************)
(* The frontier: walking back through the journal, every candidate not yet *)
(* covered is a head, and covers all it refers to, directly or not.        *)
(***************************************************************************)
References(m) ==
  LET c == ContextOf(m) IN
    IF c = None THEN {} ELSE c.depends_on \cup c.supersedes \cup c.recipient_frontier

Ancestry(m) ==
  LET reach[n \in 0..Cardinality(Ids)] ==
        IF n = 0
          THEN {m}
          ELSE LET near == reach[n-1]
               IN  near \cup UNION {References(a) : a \in near}
  IN  reach[Cardinality(Ids)]

Visit(said, i, walk) ==
  LET m == intents[i].msg IN
    IF i \notin said \/ m \in walk.covered
      THEN walk
      ELSE [heads |-> walk.heads \cup {m}, covered |-> walk.covered \cup Ancestry(m)]

\* The candidates are intents; the k-th visit is to the k-th last of all.
Frontier(said) ==
  LET walk[k \in 0..Len(intents)] ==
        IF k = 0
          THEN [heads |-> {}, covered |-> {}]
          ELSE Visit(said, Len(intents) + 1 - k, walk[k-1])
  IN  walk[Len(intents)].heads

\* The intents by which one participant told another the messages of S in one
\* conversation; a retried message is told by every attempt.
Said(author, reader, conversation, S) ==
  {i \in DOMAIN intents :
     LET m == intents[i].msg IN
       /\ m \in S /\ From[m] = author /\ To[m] = reader
       /\ intents[i].context # None
       /\ intents[i].context.conversation = conversation}

UnvalidatedFault(m, conversation) ==
  Frontier(Said(To[m], From[m], conversation, Ids))

\* What the sender of m has validated of the recipient's messages.
RecipientFrontier(m, conversation) ==
  Frontier(Said(To[m], From[m], conversation, {n \in Ids : Validated(n)}))

PossiblyDispatchedFault ==
  {m \in Ids : \E i \in IntentsOf(m) : intents[i].state = "dispatched"}

\* What may have been told: all but the conclusively unsent.
PossiblyDispatched ==
  {m \in Ids : \E i \in IntentsOf(m) : intents[i].state # "not_attempted"}

\* What the receiver of m may have told its sender.
RequiredFrontier(m, conversation) ==
  Frontier(Said(To[m], From[m], conversation, PossiblyDispatched))

-----------------------------------------------------------------------------
(***************************************************************************)
(* Conversations begun before the gate stay outside it, with everything    *)
(* that retries, renews or answers their messages.                         *)
(***************************************************************************)
\* An intent records the renewal of the lifecycle entry it was planned with:
\* of a root its own, of a reply that of the root it answers.
RenewalOf(m) == IF Type[m] = "reply" THEN Renews[InReplyTo[m]] ELSE Renews[m]

Anchors(m) == {InReplyTo[m], RenewalOf(m)} \ {None}

\* What is recorded as renewed must be the sender's own.
MayAnchor(a, m) ==
  /\ IntentsOf(a) # {}
  /\ SamePair(a, m)
  /\ a = RenewalOf(m) => From[a] = From[m]

Predecessor(i) ==
  LET m == intents[i].msg
      named == IF RenewalOf(m) # None THEN RenewalOf(m) ELSE InReplyTo[m]
  IN  IF intents[i].retry_after # 0 THEN intents[i].retry_after
      ELSE IF named = None \/ ~MayAnchor(named, m) THEN 0
      ELSE First(IntentsOf(named))

\* An ancestry of the intent, without contexts, that ends before the gate.
GrandfatheredFault(i) == intents[i].context = None /\ i <= gate
Grandfathered(i) ==
  \E S \in SUBSET {j \in DOMAIN intents : intents[j].context = None} :
    /\ i \in S
    /\ \A j \in S : j <= gate \/ (Predecessor(j) < j /\ Predecessor(j) \in S)

(***************************************************************************)
(* _validate_intent_contexts: the whole journal is examined before every   *)
(* send and every assessment, and one bad record fails them all.           *)
(***************************************************************************)
GoodReference(i, m) ==
  /\ IntentsOf(m) # {} /\ First(IntentsOf(m)) < i
  /\ SamePair(m, intents[i].msg)
  /\ ContextOf(m) # None
  /\ ContextOf(m).conversation = intents[i].context.conversation

GoodContext(i) ==
  LET m == intents[i].msg
      c == intents[i].context
  IN  /\ c.depends_on = {InReplyTo[m]} \ {None}
      /\ c.supersedes = {RenewalOf(m)} \ {None}
      /\ Anchors(m) = {} => c.conversation = m
      /\ \A n \in c.depends_on \cup c.supersedes \cup c.recipient_frontier :
           GoodReference(i, n)
      /\ \A n \in c.supersedes : From[n] = From[m]
      /\ \A n \in c.recipient_frontier : From[n] = To[m]

JournalReadable ==
  \A i \in DOMAIN intents :
    /\ \A j \in IntentsOf(intents[i].msg) : intents[j].context = intents[i].context
    /\ intents[i].context # None => GoodContext(i)

-----------------------------------------------------------------------------
(***************************************************************************)
(* build_outbound_context.  A first send takes its conversation from its   *)
(* anchor and its frontier from what its sender has validated; a retry     *)
(* says again what the first attempt said.                                 *)
(***************************************************************************)
NewContext(m) ==
  LET known == {ContextOf(a) : a \in Anchors(m)} \ {None}
      conversation ==
        IF known = {} THEN m ELSE (CHOOSE c \in known : TRUE).conversation
  IN  IF Anchors(m) # {} /\ known = {} THEN None
      ELSE [conversation |-> conversation,
            depends_on |-> {InReplyTo[m]} \ {None},
            supersedes |-> {RenewalOf(m)} \ {None},
            recipient_frontier |-> RecipientFrontier(m, conversation)]

TooManyFault(heads) == Cardinality(heads) > MaxReferences + 1
TooMany(heads) == Cardinality(heads) > MaxReferences

\* The cases in which the builder raises an error instead: the anchors are not
\* fit to give a context, or the context names too much.
AnchorsRefused(m) ==
  \/ \E a \in Anchors(m) :
       \/ ~MayAnchor(a, m)
       \/ ContextOf(a) = None /\ ~Grandfathered(First(IntentsOf(a)))
  \/ \E a, b \in Anchors(m) :
       /\ ContextOf(a) # None /\ ContextOf(b) # None
       /\ ContextOf(a).conversation # ContextOf(b).conversation

ContextRefused(m) ==
  \/ ~JournalReadable
  \/ AnchorsRefused(m)
  \/ LET c == NewContext(m) IN c # None /\ TooMany(c.recipient_frontier)

RetryRefused(i) ==
  \/ ~JournalReadable
  \/ intents[i].context = None /\ ~Grandfathered(i)

RetriedContextFault(m, i) == IF gate = None THEN None ELSE NewContext(m)
RetriedContext(m, i) == IF gate = None THEN None ELSE intents[i].context

\* A record of the intent; roots are registered in the same transaction, which
\* may die between the two.
SendIntent(m, context, retry_after) ==
  /\ intents' = Append(intents, [msg |-> m, context |-> context,
                                 retry_after |-> retry_after, state |-> "intended"])
  /\ \/ registered' = registered \cup ({m} \cap Roots)
     \/ UNCHANGED registered
  /\ UNCHANGED <<gate, received, assessments>>

TargetRegistered(m) == InReplyTo[m] # None => InReplyTo[m] \in registered

Send(m) ==
  /\ Len(intents) < MaxIntents
  /\ TargetRegistered(m) /\ (Renews[m] # None => Renews[m] \in registered)
  /\ IntentsOf(m) = {}
  /\ gate # None => ~ContextRefused(m)
  /\ SendIntent(m, IF gate = None THEN None ELSE NewContext(m), 0)

\* Only an envelope none of whose attempts started may be sent again.
Retry(m) ==
  LET prior == IntentsOf(m) IN
    /\ Len(intents) < MaxIntents
    /\ prior # {} /\ \A i \in prior : intents[i].state = "not_attempted"
    /\ TargetRegistered(m)
    /\ gate # None => ~RetryRefused(Latest(prior))
    /\ SendIntent(m, RetriedContext(m, Latest(prior)), Latest(prior))

-----------------------------------------------------------------------------
(***************************************************************************)
(* What becomes of an attempt.  Roots are dispatched only once registered; *)
(* from then on the product may take the envelope, even after the sender   *)
(* gave up waiting.  NotAttempted is the one outcome that frees it.        *)
(***************************************************************************)
Progress(i, to) ==
  /\ intents[i].state = "intended"
  /\ intents' = [intents EXCEPT ![i].state = to]

Dispatch(i) ==
  /\ Progress(i, "dispatched")
  /\ intents[i].msg \in Roots => intents[i].msg \in registered
  /\ UNCHANGED <<gate, registered, received, assessments>>

NotAttempted(i) ==
  /\ Progress(i, "not_attempted")
  /\ UNCHANGED <<gate, registered, received, assessments>>

Take(i) ==
  /\ intents[i].state = "dispatched" /\ intents[i].msg \notin received
  /\ received' = received \cup {intents[i].msg}
  /\ UNCHANGED <<gate, intents, registered, assessments>>

CarryByHand(m) ==
  /\ m \in ByHand \ received
  /\ received' = received \cup {m}
  /\ UNCHANGED <<gate, intents, registered, assessments>>

-----------------------------------------------------------------------------
(***************************************************************************)
(* assess_inbound_order: the instructions held for clarification.          *)
(***************************************************************************)
OmitsWhatWasSaid(m) ==
  LET c == ContextOf(m)
      required == RequiredFrontier(m, c.conversation)
  IN  TooMany(required) \/ ~(required \subseteq c.recipient_frontier)

Enforced(m) ==
  /\ gate # None /\ Type[m] \in Instructions
  /\ IntentsOf(m) # {} => First(IntentsOf(m)) > gate

Held(m) ==
  /\ Enforced(m)
  /\ \/ ~JournalReadable
     \/ IntentsOf(m) = {}
     \/ /\ IntentsOf(m) # {}
        /\ IF ContextOf(m) = None
             THEN ~Grandfathered(Latest(IntentsOf(m)))
             ELSE OmitsWhatWasSaid(m)

\* An exact retransmission of an assessed message is reported as a duplicate.
NotYetAssessedFault(m) ==
  \A i \in DOMAIN assessments : assessments[i].msg = m => assessments[i].held
NotYetAssessed(m) == ~Validated(m)

Intake(m) == m \in received /\ TargetRegistered(m) /\ NotYetAssessed(m)

IntakeHeld(m) ==
  /\ Intake(m) /\ Held(m)
  /\ assessments' = Append(assessments, [msg |-> m, held |-> TRUE])
  /\ UNCHANGED <<gate, intents, registered, received>>

IntakeValidated(m) ==
  /\ Intake(m) /\ ~Held(m)
  /\ registered' = registered \cup ({m} \cap Roots)
  /\ assessments' = Append(assessments, [msg |-> m, held |-> FALSE])
  /\ UNCHANGED <<gate, intents, received>>

\* The command dies between the lifecycle commit and its own record.
IntakeDies(m) ==
  /\ Intake(m) /\ ~Held(m) /\ m \in Roots \ registered
  /\ registered' = registered \cup {m}
  /\ UNCHANGED <<gate, intents, received, assessments>>

ActivateGate ==
  /\ gate = None
  /\ gate' = Len(intents)
  /\ UNCHANGED <<intents, registered, received, assessments>>

-----------------------------------------------------------------------------
CausalInit ==
  /\ gate = None
  /\ intents = <<>> /\ assessments = <<>>
  /\ registered = {} /\ received = {}

CausalNext ==
  \/ ActivateGate
  \/ \E m \in Ids :
       \/ Send(m) \/ Retry(m) \/ CarryByHand(m)
       \/ IntakeHeld(m) \/ IntakeValidated(m) \/ IntakeDies(m)
  \/ \E i \in DOMAIN intents :
       Dispatch(i) \/ NotAttempted(i) \/ Take(i)

CausalSpec == CausalInit /\ [][CausalNext]_causalVars

-----------------------------------------------------------------------------
\* The causal journal holds intents and assessments of known messages, and no
\* context names more references than its schema admits.
CausalTypeOK ==
  /\ gate \in Nat \cup {None}
  /\ intents \in Seq(Intent)
  /\ \A i \in DOMAIN intents :
       intents[i].context # None =>
         Cardinality(intents[i].context.recipient_frontier) <= MaxReferences
  /\ registered \subseteq Ids /\ received \subseteq Ids
  /\ assessments \in Seq(Assessment)

(***************************************************************************)
(* No legal sequence of sends, retries and intakes leaves a journal that   *)
(* the causal reader refuses: a refusal would stop every later send and    *)
(* hold every later instruction of the project.  (_validate_intent_contexts*)
(* against what build_outbound_context writes.)                            *)
(***************************************************************************)
ContextsConsistent == JournalReadable

(***************************************************************************)
(* a precedes m: a lies in every set of messages that holds what m refers  *)
(* to and is closed under reference.  (The reference definition beside the *)
(* walk of _frontier.)                                                     *)
(***************************************************************************)
Precedes(a, m) ==
  \A S \in SUBSET Ids :
    References(m) \subseteq S /\ (\A b \in S : References(b) \subseteq S) => a \in S

Conversation(m) == IF ContextOf(m) = None THEN None ELSE ContextOf(m).conversation

(***************************************************************************)
(* No stale instruction: when a request or cancel of an enforced           *)
(* conversation is validated rather than held, everything its receiver may *)
(* already have told its sender in that conversation lies in the causal    *)
(* past of the instruction.  (The purpose of assess_inbound_order.)        *)
(***************************************************************************)
NoStaleInstruction ==
  [][\A m \in Ids :
       /\ ~Validated(m) /\ Validated(m)' /\ Enforced(m)
       /\ ~assessments'[Len(assessments')].held
       /\ Conversation(m) # None
       => \A i \in DOMAIN intents :
            LET n == intents[i].msg IN
              /\ intents[i].state # "not_attempted"
              /\ From[n] = To[m] /\ To[n] = From[m]
              /\ Conversation(n) = Conversation(m)
              => Precedes(n, m)]_causalVars

(***************************************************************************)
(* Honest frontier: a context claims knowledge only of messages its sender *)
(* has validated, whatever was retried, carried by hand or lost.           *)
(* (_validated_inbound_ids, and the copy of the context by a retry.)       *)
(***************************************************************************)
FrontierHonest ==
  \A i \in DOMAIN intents :
    intents[i].context # None =>
      \A n \in intents[i].context.recipient_frontier : Validated(n)

(***************************************************************************)
(* One verdict: every message is assessed at most once, so that what was   *)
(* held stays held however often the same bytes arrive.                    *)
(* (_early_exact_duplicate before the assessment.)                         *)
(***************************************************************************)
OneVerdict ==
  \A i, j \in DOMAIN assessments : assessments[i].msg = assessments[j].msg => i = j

(***************************************************************************)
(* The walk finds the latest messages: its heads are exactly the           *)
(* candidates that precede no other candidate.  (_frontier, both where it  *)
(* is built and where it is required.)                                     *)
(***************************************************************************)
Maximal(S) == {m \in S : ~\E n \in S : n # m /\ Precedes(m, n)}

FrontierIsMaximal ==
  \A m \in Ids : Conversation(m) # None =>
    LET Answers(n) ==
          From[n] = To[m] /\ To[n] = From[m] /\ Conversation(n) = Conversation(m)
        Finds(S) ==
          Frontier(Said(To[m], From[m], Conversation(m), S)) =
            Maximal({n \in S : Answers(n)})
    IN  Finds({n \in Ids : Validated(n)}) /\ Finds(PossiblyDispatched)

\* The first send of a message about registered roots that were journaled.
Continues(m) ==
  /\ IntentsOf(m) = {}
  /\ \A a \in {InReplyTo[m], Renews[m]} \ {None} :
       a \in registered /\ IntentsOf(a) # {} /\ SamePair(a, m)

(***************************************************************************)
(* The gate closes no conversation: once it is open, whatever was sent,    *)
(* retried, renewed or answered before and since, a cancel, a renewal, an  *)
(* answer to a root that renews no other, and a retry always find a        *)
(* context, or the ancestry that exempts them.  (build_outbound_context;   *)
(* CAUSAL_ORDERING.md on conversations begun before activation.)           *)
(***************************************************************************)
ConversationsContinue ==
  gate # None =>
    /\ \A m \in Ids :
         RenewalOf(m) = Renews[m] /\ Continues(m) => ~AnchorsRefused(m)
    /\ \A i \in DOMAIN intents : intents[i].context = None => Grandfathered(i)

(***************************************************************************)
(* Replies inherit the conversation of the root they answer, be it a       *)
(* renewal or not, inside the gate and outside.  (CAUSAL_ORDERING.md.)     *)
(***************************************************************************)
RepliesInherit ==
  gate # None => \A m \in Ids : Type[m] = "reply" /\ Continues(m) => ~AnchorsRefused(m)
=============================================================================
