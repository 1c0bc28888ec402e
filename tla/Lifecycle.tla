------------------------------ MODULE Lifecycle ------------------------------
(***************************************************************************)
(* The CAM/1 request lifecycle: the projection that every reader of the    *)
(* project journal rebuilds by replaying lifecycle events in order.  A     *)
(* root envelope (hello, challenge, request, cancel) opens a lifecycle,    *)
(* replies advance it, a renewal supersedes a lifecycle that expired       *)
(* unconfirmed, and an accepted cancel closes the request it targets.      *)
(*                                                                         *)
(* Every action is one committed journal event: the projection is mutated  *)
(* on a private copy, so a refused event leaves no trace and is no step    *)
(* here.  The re-delivery of a processed message returns the current entry *)
(* and changes nothing, so it is a stuttering step.                        *)
(*                                                                         *)
(* There is no clock.  Each event carries the time at which its writer     *)
(* observed it; several processes write, a reply may be committed under    *)
(* the observation made before its dispatch, and the host's clock may be   *)
(* set back.  The observation is therefore any member of Times.            *)
(***************************************************************************)
EXTENDS Integers, Sequences

CONSTANTS
  RootMessages,    \* root envelopes that may be presented to the projection
  ReplyMessages,   \* reply envelopes that may be presented
  Times,           \* instants at which an event can be observed
  None             \* Python's None

RootIds    == {m.id : m \in RootMessages}
RootTypes  == {"hello", "challenge", "request", "cancel"}
ReplyTypes == {"ack", "status", "result", "error", "verify"}
Statuses   == {"none", "received", "needs_human_confirmation", "accepted",
               "rejected", "started", "completed", "failed"}

TerminalStates == {"handled", "correlated", "completed", "rejected", "failed",
                   "cancelled", "late_rejected"}
Unconfirmed    == {"pending", "held", "expired_unconfirmed"}
CancelActive   == {"pending", "received"}
States         == Unconfirmed \cup {"received", "accepted", "started"}
                    \cup TerminalStates

(***************************************************************************)
(* What the wire validator guarantees of an envelope alone.  "semantics"   *)
(* is the digest of everything but the refreshable wire metadata, so it    *)
(* fixes the type, the idempotency key and the cancelled request.          *)
(***************************************************************************)
ASSUME TimesAssumption == Times \subseteq Nat

ASSUME RootAssumption ==
  /\ None \notin RootIds
  /\ \A m \in RootMessages :
       /\ m.type \in RootTypes
       /\ m.sent \in Nat /\ m.expires \in Nat /\ m.sent < m.expires
       /\ m.type = "challenge" => m.nonce # None
       /\ m.type # "cancel" => m.target = None

ASSUME SemanticsAssumption ==
  \A m, n \in RootMessages : m.semantics = n.semantics =>
    m.type = n.type /\ m.key = n.key /\ m.target = n.target

ASSUME ReplyAssumption ==
  \A m \in ReplyMessages :
    /\ m.type \in ReplyTypes /\ m.status \in Statuses
    /\ m.sent \in Nat /\ m.expires \in Nat /\ m.sent < m.expires
    /\ m.type = "verify" => m.nonce # None
    /\ m.type \in {"status", "result", "error"} => m.nonce = None

(***************************************************************************)
(* Transitions of next_state: root type, state, reply type, receipt        *)
(* status, next state.                                                     *)
(***************************************************************************)
RequestTransitions ==
  {<<"request", "pending", "ack", "received", "received">>,
   <<"request", "pending", "ack", "needs_human_confirmation", "held">>,
   <<"request", "received", "status", "accepted", "accepted">>,
   <<"request", "accepted", "status", "started", "started">>}
  \cup {<<"request", s, "ack", "accepted", "accepted">> : s \in {"pending", "held"}}
  \cup {<<"request", s, "ack", "rejected", "rejected">> : s \in {"pending", "held"}}
  \cup {<<"request", s, "result", "completed", "completed">> : s \in {"accepted", "started"}}
  \cup {<<"request", s, "error", "failed", "failed">> :
          s \in {"pending", "received", "held", "accepted", "started"}}

HelloTransitions ==
  {<<"hello", "pending", "ack", "needs_human_confirmation", "held">>}
  \cup {<<"hello", s, "ack", "received", "handled">> : s \in {"pending", "held"}}
  \cup {<<"hello", s, "ack", "rejected", "rejected">> : s \in {"pending", "held"}}

ChallengeTransitions ==
  {<<"challenge", "pending", "ack", "needs_human_confirmation", "held">>}
  \cup {<<"challenge", s, "verify", "none", "correlated">> : s \in {"pending", "held"}}
  \cup {<<"challenge", s, "ack", "rejected", "rejected">> : s \in {"pending", "held"}}

CancelTransitions ==
  {<<"cancel", "pending", "ack", "received", "received">>,
   <<"cancel", "pending", "ack", "accepted", "cancelled">>,
   <<"cancel", "pending", "ack", "rejected", "rejected">>,
   <<"cancel", "received", "status", "accepted", "cancelled">>}
  \cup {<<"cancel", s, "error", "failed", "failed">> : s \in {"pending", "received"}}

Transitions == RequestTransitions \cup HelloTransitions
                 \cup ChallengeTransitions \cup CancelTransitions

-----------------------------------------------------------------------------
(***************************************************************************)
(* entries maps the id of each registered root to its LifecycleEntry.      *)
(* "replies" holds the applied replies in order, each with the state it    *)
(* was evaluated against (the preserved prior entry); the code's last      *)
(* reply id and times are those of its last element.  The stored terminal  *)
(* flag is recomputed from the state by every write of the state, and the  *)
(* projection's other indexes (processed messages, nonce owners, nonce     *)
(* echoes) are functions of entries: all are written as operators.         *)
(***************************************************************************)
VARIABLE entries

vars == <<entries>>

AppliedReply == [msg : ReplyMessages, observed : Times, before : States]

LifecycleEntry ==
  [root : RootMessages, observed : Times, state : States,
   replies : Seq(AppliedReply), renewal_of : RootIds \cup {None},
   cancelled_by : RootIds \cup {None}]

Terminal(e) == e.state \in TerminalStates

Registered == DOMAIN entries

TypeOK ==
  /\ Registered \subseteq RootIds
  /\ entries \in [Registered -> LifecycleEntry]
  /\ \A r \in Registered : /\ entries[r].root.id = r
                           /\ entries[r].cancelled_by # None => entries[r].state = "cancelled"

ProcessedReplies ==
  UNION {{entries[r].replies[i].msg.id : i \in DOMAIN entries[r].replies} : r \in Registered}

Processed == Registered \cup ProcessedReplies

\* Roots already registered for the semantic operation of m.
PriorOperations(m) == {r \in Registered : entries[r].root.key = m.key}

Cancels(r) == {c \in Registered : entries[c].root.target = r}

NonceUnowned(m) ==
  m.nonce # None => \A r \in Registered : entries[r].root.nonce # m.nonce

-----------------------------------------------------------------------------
\* mark_expired_unconfirmed on one entry.
Expire(e, observed) ==
  [e EXCEPT !.state = "expired_unconfirmed", !.observed = observed]

(***************************************************************************)
(* Registering a renewal of p first marks, at the renewal's observation,   *)
(* the still pending cancels of p and p itself when their time is over.    *)
(* The first root of an operation (p is None) marks nothing.               *)
(***************************************************************************)
Lapsed(p, observed) ==
  {r \in Registered :
     /\ p # None
     /\ \/ r \in Cancels(p) /\ entries[r].state = "pending"
        \/ r = p /\ entries[r].state \in {"pending", "held"}
     /\ observed >= entries[r].root.expires}

AfterLapse(p, observed) ==
  [r \in Registered |-> IF r \in Lapsed(p, observed)
                        THEN Expire(entries[r], observed) ELSE entries[r]]

(***************************************************************************)
(* The conditions of _resolve_renewal and _cancel_target.  E is the        *)
(* projection after the lapses above.  Operators whose name ends in Fault  *)
(* are seeded faults: single plausible mistakes, used by no specification, *)
(* that show each property tells the code from a broken one.               *)
(***************************************************************************)
CancelsSettledFault(E, p) == TRUE
CancelsSettled(E, p) == \A c \in Cancels(p) : E[c].state \notin CancelActive

NotSupersededFault(E, m, p) == TRUE
NotSuperseded(E, m, p) == \A r \in PriorOperations(m) : E[r].renewal_of # p

RenewableStatesFault == {"expired_unconfirmed", "late_rejected", "received"}
RenewableStates == {"expired_unconfirmed", "late_rejected"}

RenewalInTime(e, m, observed) ==
  /\ m.sent >= e.root.expires
  /\ observed >= e.root.expires
  /\ observed >= e.observed
  /\ e.replies # <<>> => observed >= e.replies[Len(e.replies)].observed

RenewalAllowed(E, m, p, observed) ==
  /\ p \in PriorOperations(m)
  /\ CancelsSettled(E, p)
  /\ NotSuperseded(E, m, p)
  /\ E[p].state \in RenewableStates
  /\ E[p].root.semantics = m.semantics
  /\ RenewalInTime(E[p], m, observed)

NoActiveCancelFault(E, t) == \A c \in Cancels(t) : E[c].state # "received"
NoActiveCancel(E, t) == \A c \in Cancels(t) : E[c].state \notin CancelActive

\* _cancel_target, with the chronology check against the preserved request.
CancelAllowed(E, m, observed) ==
  m.type = "cancel" =>
    /\ m.target \in Registered
    /\ E[m.target].root.type = "request"
    /\ m.sent >= E[m.target].root.sent
    /\ ~Terminal(E[m.target])
    /\ E[m.target].state # "expired_unconfirmed"
    /\ E[m.target].state \in {"pending", "held"} => observed < E[m.target].root.expires
    /\ NoActiveCancel(E, m.target)

NewEntry(m, observed, renewal) ==
  [root |-> m, observed |-> observed,
   state |-> IF observed >= m.expires THEN "expired_unconfirmed" ELSE "pending",
   replies |-> <<>>, renewal_of |-> renewal, cancelled_by |-> None]

\* E is the projection after the lapses that a renewal of "renewal" brings.
RootAllowed(E, m, observed, renewal) ==
  /\ observed >= m.sent
  /\ IF PriorOperations(m) = {} THEN renewal = None
                                ELSE RenewalAllowed(E, m, renewal, observed)
  /\ CancelAllowed(E, m, observed)
  /\ NonceUnowned(m)
  /\ m.id \notin Processed

\* A root envelope is registered, as a new operation or as a renewal.
RegisterRoot(m, observed, renewal) ==
  LET E == AfterLapse(renewal, observed) IN
  /\ RootAllowed(E, m, observed, renewal)
  /\ entries' = [r \in Registered \cup {m.id} |->
                   IF r = m.id THEN NewEntry(m, observed, renewal) ELSE E[r]]

-----------------------------------------------------------------------------
RootExpired(e, observed) == observed >= e.root.expires

LateRejection(e, m, observed) ==
  m.type = "ack" /\ m.status = "rejected" /\ RootExpired(e, observed)

\* _reply_transition: neither the claimed nor the observed times go back.
ReplyInOrder(e, m, observed) ==
  /\ m.sent >= e.root.sent
  /\ observed >= m.sent
  /\ e.replies # <<>> => /\ m.sent >= e.replies[Len(e.replies)].msg.sent
                         /\ observed >= e.replies[Len(e.replies)].observed

\* The nonce a correlated reply must carry (_correlation_outcome).
ExpectedNonce(e, m, observed) ==
  IF \/ LateRejection(e, m, observed)
     \/ m.type = "ack" /\ m.status = "needs_human_confirmation"
     \/ e.root.type = "challenge" /\ m.type = "ack"
     \/ m.type \notin {"ack", "verify"}
  THEN None ELSE e.root.nonce

NonceEchoed(e) == \E i \in DOMAIN e.replies : e.replies[i].msg.nonce # None

NonceAllowed(e, m, observed) ==
  /\ m.nonce = ExpectedNonce(e, m, observed)
  /\ m.nonce # None => ~NonceEchoed(e)

AdvancesFault(e, m, observed, s) ==
  IF e.state \in {"pending", "expired_unconfirmed"} /\ RootExpired(e, observed)
  THEN LateRejection(e, m, observed) /\ s = "late_rejected"
  ELSE <<e.root.type, e.state, m.type, m.status, s>> \in Transitions

\* _stateful_reply_state: s is the state the reply leads to.
Advances(e, m, observed, s) ==
  IF e.state \in Unconfirmed /\ RootExpired(e, observed)
  THEN LateRejection(e, m, observed) /\ s = "late_rejected"
  ELSE <<e.root.type, e.state, m.type, m.status, s>> \in Transitions

\* The request an accepted cancel closes, in the same event.
CancelledBy(e, s) ==
  {t \in Registered : e.root.type = "cancel" /\ s = "cancelled" /\ t = e.root.target}

ReplyApplied(e, m, observed, s) ==
  [e EXCEPT !.state = s, !.replies = 
              Append(@, [msg |-> m, observed |-> observed, before |-> e.state])]

\* _cancelled_target
CancelledTarget(e, c) == [e EXCEPT !.state = "cancelled", !.cancelled_by = c]

TargetsOpenFault(e, s) == TRUE
TargetsOpen(e, s) == \A t \in CancelledBy(e, s) : ~Terminal(entries[t])

\* The reply is well-formed evidence about its root, now.
ReplyCorrelated(m, observed) ==
  /\ m.root \in Registered
  /\ observed < m.expires
  /\ ReplyInOrder(entries[m.root], m, observed)
  /\ NonceAllowed(entries[m.root], m, observed)
  /\ m.id \notin Processed

\* It leads its root to state s.
ReplyLeadsTo(m, observed, s) ==
  /\ Advances(entries[m.root], m, observed, s)
  /\ TargetsOpen(entries[m.root], s)

ApplyReply(m, observed) ==
  /\ ReplyCorrelated(m, observed)
  /\ \E s \in States :
       /\ ReplyLeadsTo(m, observed, s)
       /\ entries' = [r \in Registered |->
            IF r = m.root THEN ReplyApplied(entries[r], m, observed, s)
            ELSE IF r \in CancelledBy(entries[m.root], s)
                 THEN CancelledTarget(entries[r], m.root)
                 ELSE entries[r]]

\* The explicit expiry event.
MarkExpiredUnconfirmed(r, observed) ==
  /\ r \in Registered
  /\ entries[r].state \in Unconfirmed
  /\ observed >= entries[r].root.expires
  /\ entries' = [entries EXCEPT ![r] = Expire(@, observed)]

-----------------------------------------------------------------------------
Init == entries = [r \in {} |-> None]

Next ==
  \E observed \in Times :
    \/ \E m \in RootMessages, renewal \in Registered \cup {None} :
         RegisterRoot(m, observed, renewal)
    \/ \E m \in ReplyMessages : ApplyReply(m, observed)
    \/ \E r \in RootIds : MarkExpiredUnconfirmed(r, observed)

Spec == Init /\ [][Next]_vars
-----------------------------------------------------------------------------
Live == {"pending", "held", "received", "accepted", "started"}

Superseded(r) == \E n \in Registered : entries[n].renewal_of = r

\* The recipient has confirmed the root by its i-th reply.
ConfirmsAt(r, i) ==
  LET a == entries[r].replies[i] IN
    \/ a.msg.type = "ack" /\ a.msg.status \in {"received", "accepted"}
    \/ a.msg.type \in {"status", "result", "verify"}

EverConfirmed(r) == \E i \in DOMAIN entries[r].replies : ConfirmsAt(r, i)

(***************************************************************************)
(* An idempotency key names one operation: however often the operation is  *)
(* renewed, at most one of its roots is ever confirmed by the recipient    *)
(* (received, accepted, started, answered), and at most one is still live. *)
(* This is what _resolve_renewal and next_state must achieve together      *)
(* under late, reordered and back-dated observations.                      *)
(***************************************************************************)
OneConfirmationPerOperation ==
  \A r, s \in Registered :
    r # s /\ entries[r].root.key = entries[s].root.key =>
      /\ ~(EverConfirmed(r) /\ EverConfirmed(s))
      /\ ~(entries[r].state \in Live /\ entries[s].state \in Live)

(***************************************************************************)
(* The roots of one operation form a single unbranched chain of renewals:  *)
(* exactly one of them, the tip, has no renewal, and each renewal repeats  *)
(* its predecessor's meaning and was sent after its predecessor's expiry.  *)
(***************************************************************************)
RenewalChain ==
  /\ \A r, s \in Registered :
       r # s /\ entries[r].root.key = entries[s].root.key =>
         Superseded(r) \/ Superseded(s)
  /\ \A r \in Registered : entries[r].renewal_of # None =>
       LET p == entries[r].renewal_of IN
         /\ p \in Registered
         /\ entries[p].root.semantics = entries[r].root.semantics
         /\ entries[p].root.expires <= entries[r].root.sent
         /\ \A s \in Registered \ {r} : entries[s].renewal_of # p

(***************************************************************************)
(* A superseded root stays closed: it is never confirmed or cancelled any  *)
(* more and no cancel of it can still be accepted.  Without the block on   *)
(* renewals whose predecessor has an unresolved cancel, a request could be *)
(* both cancelled and renewed, and the renewal would carry on the work the *)
(* operator stopped.                                                       *)
(***************************************************************************)
SupersededStaysClosed ==
  \A r \in Registered : Superseded(r) =>
    /\ entries[r].state \in {"expired_unconfirmed", "late_rejected"}
    /\ \A c \in Cancels(r) : entries[c].state \notin CancelActive

(***************************************************************************)
(* A request is cancelled exactly when one accepted cancel of it says so:  *)
(* the two lifecycles change in the same event and agree ever after, and   *)
(* at most one cancel of a request is waiting for its answer.              *)
(***************************************************************************)
CancelAgreement ==
  \A r \in Registered :
    /\ entries[r].root.type = "cancel" /\ entries[r].state = "cancelled" =>
         LET t == entries[r].root.target IN
           /\ t \in Registered
           /\ entries[t].state = "cancelled" /\ entries[t].cancelled_by = r
    /\ entries[r].root.type # "cancel" /\ entries[r].state = "cancelled" =>
         /\ entries[r].cancelled_by \in Cancels(r)
         /\ entries[entries[r].cancelled_by].state = "cancelled"
    /\ \A c, d \in Cancels(r) :
         entries[c].state \in CancelActive /\ entries[d].state \in CancelActive => c = d

(***************************************************************************)
(* Work is never confirmed after the root expired: the first reply that    *)
(* confirms a root was observed before its expiry, whatever was observed   *)
(* in between (a hold, an expiry mark), and a reply that carries the       *)
(* root's nonce proves the same.                                           *)
(***************************************************************************)
ConfirmedBeforeExpiry ==
  \A r \in Registered : \A i \in DOMAIN entries[r].replies :
    \/ ConfirmsAt(r, i) /\ \A j \in 1..(i - 1) : ~ConfirmsAt(r, j)
    \/ entries[r].replies[i].msg.nonce # None
    => entries[r].replies[i].observed < entries[r].root.expires

(***************************************************************************)
(* A terminal outcome is final and nothing is forgotten: no later reply,   *)
(* cancel, renewal or expiry mark rewrites a terminal entry, and no step   *)
(* drops a root or one of its replies.                                     *)
(***************************************************************************)
OutcomeKept ==
  \A r \in Registered :
    /\ r \in Registered'
    /\ Terminal(entries[r]) => entries'[r] = entries[r]
    /\ \A i \in DOMAIN entries[r].replies :
         /\ i \in DOMAIN entries'[r].replies
         /\ entries'[r].replies[i] = entries[r].replies[i]

OutcomeFinal == [][OutcomeKept]_vars

-----------------------------------------------------------------------------
(***************************************************************************)
(* The operation behind the roots.  A superseded root has lapsed, so the   *)
(* status of an operation is that of its only root which has not, when     *)
(* there is one.  A cancel whose acceptance is its answer has succeeded.   *)
(***************************************************************************)
Keys == {m.key : m \in RootMessages}

RootStatus(e) ==
  CASE e.state \in {"pending", "held"}                                -> "waiting"
    [] e.state \in {"expired_unconfirmed", "late_rejected"}           -> "lapsed"
    [] e.state \in {"received", "accepted", "started"}                -> "confirmed"
    [] e.state = "rejected"                                           -> "refused"
    [] e.state = "cancelled" /\ e.root.type # "cancel"                -> "cancelled"
    [] e.state = "failed"                                             -> "failed"
    [] OTHER                                                          -> "succeeded"

RootStatuses(E, k) == {RootStatus(E[r]) : r \in {r \in DOMAIN E : E[r].root.key = k}}

StatusFrom(S) ==
  IF S = {} THEN "unused"
  ELSE IF S = {"lapsed"} THEN "lapsed" ELSE CHOOSE s \in S : s # "lapsed"

OperationStatus == [k \in Keys |-> StatusFrom(RootStatuses(entries, k))]

(***************************************************************************)
(* The lifecycle implements Operations: whatever is renewed, lapses, comes *)
(* late or is cancelled, an operation is taken on at most once, only while *)
(* it waits, and ends at most once; it ends cancelled only in the event    *)
(* in which a cancel of it succeeds.                                       *)
(***************************************************************************)
Operation == INSTANCE Operations WITH status <- OperationStatus

OperationOnce == Operation!OperationsSpec
=============================================================================
