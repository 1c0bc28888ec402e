--------------------------- MODULE LifecycleProofs ---------------------------
(***************************************************************************)
(* Machine-checked proofs about Lifecycle, for every set of envelopes and  *)
(* observation times.                                                      *)
(***************************************************************************)
EXTENDS Lifecycle, TLAPS

\* What mark_expired_unconfirmed does to an entry, field by field.
LEMMA ExpireFields ==
  ASSUME NEW e \in LifecycleEntry, NEW observed \in Times
  PROVE  LET x == Expire(e, observed) IN
           /\ x \in LifecycleEntry
           /\ x.root = e.root /\ x.observed = observed
           /\ x.state = "expired_unconfirmed"
           /\ x.replies = e.replies /\ x.renewal_of = e.renewal_of
           /\ x.cancelled_by = e.cancelled_by
  BY DEF Expire, LifecycleEntry, States, Unconfirmed

\* A newly registered root, field by field.
LEMMA NewEntryFields ==
  ASSUME NEW m \in RootMessages, NEW observed \in Times, NEW p \in RootIds \cup {None}
  PROVE  LET x == NewEntry(m, observed, p) IN
           /\ x \in LifecycleEntry
           /\ x.root = m /\ x.observed = observed
           /\ x.state \in {"pending", "expired_unconfirmed"}
           /\ x.replies = <<>> /\ x.renewal_of = p /\ x.cancelled_by = None
<1>1. <<>> \in Seq(AppliedReply)
  OBVIOUS
<1>2. QED
  BY <1>1 DEF NewEntry, LifecycleEntry, States, Unconfirmed

\* What apply_reply does to the root's entry, field by field.
LEMMA ReplyAppliedFields ==
  ASSUME NEW e \in LifecycleEntry, NEW m \in ReplyMessages, NEW observed \in Times,
         NEW s \in States
  PROVE  LET x == ReplyApplied(e, m, observed, s)
             n == Len(e.replies) + 1
         IN
           /\ x \in LifecycleEntry
           /\ x.root = e.root /\ x.observed = e.observed
           /\ x.state = s
           /\ x.renewal_of = e.renewal_of /\ x.cancelled_by = e.cancelled_by
           /\ DOMAIN x.replies = DOMAIN e.replies \cup {n}
           /\ \A i \in DOMAIN e.replies : x.replies[i] = e.replies[i]
           /\ x.replies[n].msg = m /\ x.replies[n].observed = observed
<1> DEFINE a == [msg |-> m, observed |-> observed, before |-> e.state]
           q == Append(e.replies, a)
<1>1. a \in AppliedReply
  BY DEF AppliedReply, LifecycleEntry
<1>2. a.msg = m /\ a.observed = observed
  OBVIOUS
<1>3. e.replies \in Seq(AppliedReply)
  BY DEF LifecycleEntry
<1>5. ReplyApplied(e, m, observed, s)
        = [e EXCEPT !.state = s, !.replies = q]
  BY DEF ReplyApplied
<1> HIDE DEF a
<1>6. /\ q \in Seq(AppliedReply)
      /\ DOMAIN q = DOMAIN e.replies \cup {Len(e.replies) + 1}
      /\ \A i \in DOMAIN e.replies : q[i] = e.replies[i]
      /\ q[Len(e.replies) + 1] = a
  BY <1>1, <1>3
<1> HIDE DEF q
<1>7. LET x == [e EXCEPT !.state = s, !.replies = q] IN
        /\ x \in LifecycleEntry
        /\ x.root = e.root /\ x.observed = e.observed
        /\ x.state = s /\ x.replies = q
        /\ x.renewal_of = e.renewal_of /\ x.cancelled_by = e.cancelled_by
  BY <1>6 DEF LifecycleEntry
<1>9. QED
  BY <1>2, <1>5, <1>6, <1>7

\* What an accepted cancel does to the request it targets, field by field.
LEMMA CancelledTargetFields ==
  ASSUME NEW e \in LifecycleEntry, NEW c \in RootIds
  PROVE  LET x == CancelledTarget(e, c) IN
           /\ x \in LifecycleEntry
           /\ x.root = e.root /\ x.observed = e.observed
           /\ x.state = "cancelled"
           /\ x.replies = e.replies /\ x.renewal_of = e.renewal_of
           /\ x.cancelled_by = c
  BY DEF CancelledTarget, LifecycleEntry, States, TerminalStates

\* Marking the lapsed lifecycles, field by field.
LEMMA AfterLapseFields ==
  ASSUME TypeOK, NEW observed \in Times, NEW p
  PROVE  LET E == AfterLapse(p, observed) IN
           /\ E \in [Registered -> LifecycleEntry]
           /\ \A r \in Registered :
                /\ E[r].root = entries[r].root /\ E[r].replies = entries[r].replies
                /\ E[r].renewal_of = entries[r].renewal_of
                /\ E[r].cancelled_by = entries[r].cancelled_by
                /\ \/ E[r] = entries[r] /\ r \notin Lapsed(p, observed)
                   \/ /\ entries[r].state \in {"pending", "held"}
                      /\ E[r].state = "expired_unconfirmed"
                      /\ r \in Lapsed(p, observed)
<1>1. ASSUME NEW r \in Registered
      PROVE  LET x == Expire(entries[r], observed) IN
               /\ x \in LifecycleEntry
               /\ x.root = entries[r].root /\ x.replies = entries[r].replies
               /\ x.renewal_of = entries[r].renewal_of
               /\ x.cancelled_by = entries[r].cancelled_by
               /\ x.state = "expired_unconfirmed"
  BY ExpireFields DEF TypeOK
<1>2. \A r \in Registered : r \in Lapsed(p, observed) => entries[r].state \in {"pending", "held"}
  BY DEF Lapsed, Cancels
<1>3. QED
  BY <1>1, <1>2 DEF AfterLapse, TypeOK

(***************************************************************************)
(* Type correctness: the projection is a well-formed map of entries, and   *)
(* only a cancelled entry names a cancel, as register_root, apply_reply    *)
(* and mark_expired_unconfirmed keep it.                                   *)
(***************************************************************************)
LEMMA TypeOKInit == Init => TypeOK
  BY DEF Init, TypeOK, Registered

LEMMA TypeOKRegister ==
  ASSUME TypeOK, NEW observed \in Times, NEW m \in RootMessages,
         NEW p \in RootIds \cup {None}, RegisterRoot(m, observed, p)
  PROVE  TypeOK'
<1> DEFINE E == AfterLapse(p, observed)
           n == NewEntry(m, observed, p)
<1>1. /\ entries' = [r \in Registered \cup {m.id} |-> IF r = m.id THEN n ELSE E[r]]
      /\ m.id \notin Registered
  BY DEF RegisterRoot, RootAllowed, Processed
<1>2. /\ E \in [Registered -> LifecycleEntry]
      /\ \A r \in Registered :
           /\ E[r].root.id = r
           /\ E[r].cancelled_by # None => E[r].state = "cancelled"
  BY AfterLapseFields DEF TypeOK
<1>3. n \in LifecycleEntry /\ n.root = m /\ n.cancelled_by = None
  BY NewEntryFields
<1>4. m.id \in RootIds
  BY DEF RootIds
<1> HIDE DEF E, n
<1>5. QED
  BY <1>1, <1>2, <1>3, <1>4 DEF TypeOK, Registered

\* What the transition table and the expiry rule say of an accepted reply.
LEMMA AdvanceCases ==
  ASSUME NEW e, NEW m, NEW observed, NEW s, Advances(e, m, observed, s),
         e.state \in States
  PROVE  /\ ~Terminal(e)
         /\ s \notin {"pending", "expired_unconfirmed"}
         /\ e.state = "expired_unconfirmed" => s = "late_rejected"
         /\ s = "held" => /\ e.state = "pending"
                          /\ m.type = "ack" /\ m.status = "needs_human_confirmation"
         /\ s = "late_rejected" => /\ e.state \in Unconfirmed
                                   /\ m.type = "ack" /\ m.status = "rejected"
         /\ s \in {"received", "accepted", "started"} =>
              \/ e.state \in {"received", "accepted", "started"}
              \/ m.type = "ack" /\ m.status \in {"received", "accepted"}
         /\ s = "cancelled" => e.root.type = "cancel" /\ e.state \in CancelActive
         /\ e.root.type = "cancel" /\ s \in CancelActive => e.state \in CancelActive
         /\ e.state \in {"received", "accepted", "started"} => m.type \notin {"ack", "verify"}
         /\ e.state \in Unconfirmed /\ RootExpired(e, observed) =>
              LateRejection(e, m, observed)
<1>1. CASE e.state \in Unconfirmed /\ RootExpired(e, observed)
  BY <1>1 DEF Advances, LateRejection, Unconfirmed, Terminal, TerminalStates, CancelActive
<1>2. CASE ~(e.state \in Unconfirmed /\ RootExpired(e, observed))
  <2>1. <<e.root.type, e.state, m.type, m.status, s>> \in Transitions
    BY <1>2 DEF Advances
  <2>2. CASE <<e.root.type, e.state, m.type, m.status, s>> \in RequestTransitions
    BY <1>2, <2>2 DEF RequestTransitions, Terminal, TerminalStates, Unconfirmed, CancelActive
  <2>3. CASE <<e.root.type, e.state, m.type, m.status, s>> \in HelloTransitions
    BY <1>2, <2>3 DEF HelloTransitions, Terminal, TerminalStates, Unconfirmed, CancelActive
  <2>4. CASE <<e.root.type, e.state, m.type, m.status, s>> \in ChallengeTransitions
    BY <1>2, <2>4 DEF ChallengeTransitions, Terminal, TerminalStates, Unconfirmed, CancelActive
  <2>5. CASE <<e.root.type, e.state, m.type, m.status, s>> \in CancelTransitions
    BY <1>2, <2>5 DEF CancelTransitions, Terminal, TerminalStates, Unconfirmed, CancelActive
  <2>6. QED
    BY <2>1, <2>2, <2>3, <2>4, <2>5 DEF Transitions
<1>3. QED
  BY <1>1, <1>2

\* What ApplyReply does, entry by entry.
LEMMA ApplyReplyFields ==
  ASSUME TypeOK, NEW observed \in Times, NEW m \in ReplyMessages, ApplyReply(m, observed)
  PROVE  \E s \in States :
           /\ m.root \in Registered
           /\ Advances(entries[m.root], m, observed, s)
           /\ NonceAllowed(entries[m.root], m, observed)
           /\ TargetsOpen(entries[m.root], s)
           /\ entries'[m.root] = ReplyApplied(entries[m.root], m, observed, s)
           /\ DOMAIN entries' = Registered
           /\ \A r \in Registered \ {m.root} :
                \/ /\ r \in CancelledBy(entries[m.root], s)
                   /\ entries'[r] = CancelledTarget(entries[r], m.root)
                \/ /\ r \notin CancelledBy(entries[m.root], s)
                   /\ entries'[r] = entries[r]
<1>1. PICK s \in States :
        /\ Advances(entries[m.root], m, observed, s)
        /\ TargetsOpen(entries[m.root], s)
        /\ entries' = [r \in Registered |->
             IF r = m.root THEN ReplyApplied(entries[r], m, observed, s)
             ELSE IF r \in CancelledBy(entries[m.root], s)
                  THEN CancelledTarget(entries[r], m.root) ELSE entries[r]]
  BY DEF ApplyReply, ReplyCorrelated, ReplyLeadsTo
<1>2. m.root \in Registered /\ NonceAllowed(entries[m.root], m, observed)
  BY DEF ApplyReply, ReplyCorrelated, ReplyLeadsTo
<1>3. QED
  BY <1>1, <1>2

LEMMA TypeOKReply ==
  ASSUME TypeOK, NEW observed \in Times, NEW m \in ReplyMessages, ApplyReply(m, observed)
  PROVE  TypeOK'
<1>1. PICK s \in States :
        /\ m.root \in Registered
        /\ Advances(entries[m.root], m, observed, s)
        /\ entries'[m.root] = ReplyApplied(entries[m.root], m, observed, s)
        /\ DOMAIN entries' = Registered
        /\ \A r \in Registered \ {m.root} :
             \/ entries'[r] = CancelledTarget(entries[r], m.root)
             \/ entries'[r] = entries[r]
  BY ApplyReplyFields
<1>2. /\ entries'[m.root] \in LifecycleEntry
      /\ entries'[m.root].root.id = m.root
      /\ entries'[m.root].cancelled_by = entries[m.root].cancelled_by
  BY <1>1, ReplyAppliedFields DEF TypeOK
<1>3. entries[m.root].cancelled_by = None
  BY <1>1, AdvanceCases DEF TypeOK, LifecycleEntry, Terminal, TerminalStates
<1>4. m.root \in RootIds
  BY <1>1 DEF TypeOK
<1>5. ASSUME NEW r \in Registered \ {m.root}
      PROVE  /\ entries'[r] \in LifecycleEntry
             /\ entries'[r].root.id = r
             /\ entries'[r].cancelled_by # None => entries'[r].state = "cancelled"
  <2>1. /\ entries[r] \in LifecycleEntry /\ entries[r].root.id = r
        /\ entries[r].cancelled_by # None => entries[r].state = "cancelled"
    BY DEF TypeOK
  <2>2. LET x == CancelledTarget(entries[r], m.root) IN
          x \in LifecycleEntry /\ x.root = entries[r].root /\ x.state = "cancelled"
    BY <1>4, <2>1, CancelledTargetFields
  <2>3. QED
    BY <1>1, <2>1, <2>2
<1>6. entries' = [r \in Registered |-> entries'[r]]
  BY DEF ApplyReply, ReplyCorrelated, ReplyLeadsTo
<1>7. QED
  BY <1>1, <1>2, <1>3, <1>5, <1>6 DEF TypeOK, Registered

LEMMA TypeOKMark ==
  ASSUME TypeOK, NEW observed \in Times, NEW r \in RootIds,
         MarkExpiredUnconfirmed(r, observed)
  PROVE  TypeOK'
<1>1. /\ r \in Registered /\ entries[r].state \in Unconfirmed
      /\ entries' = [entries EXCEPT ![r] = Expire(entries[r], observed)]
  BY DEF MarkExpiredUnconfirmed
<1>2. LET x == Expire(entries[r], observed) IN
        x \in LifecycleEntry /\ x.root = entries[r].root
          /\ x.cancelled_by = entries[r].cancelled_by
  BY <1>1, ExpireFields DEF TypeOK
<1>3. entries[r].cancelled_by = None
  BY <1>1 DEF TypeOK, Unconfirmed
<1>4. QED
  BY <1>1, <1>2, <1>3 DEF TypeOK, Registered

THEOREM TypeCorrect == Spec => []TypeOK
<1>1. TypeOK /\ [Next]_vars => TypeOK'
  <2>1. ASSUME TypeOK, Next PROVE TypeOK'
    <3>1. Registered \subseteq RootIds
      BY <2>1 DEF TypeOK
    <3>2. QED
      BY <2>1, <3>1, TypeOKRegister, TypeOKReply, TypeOKMark DEF Next
  <2>2. ASSUME TypeOK, UNCHANGED vars PROVE TypeOK'
    BY <2>2 DEF vars, TypeOK, Registered
  <2>3. QED
    BY <2>1, <2>2
<1>2. QED
  BY TypeOKInit, <1>1, PTL DEF Spec
-----------------------------------------------------------------------------
(***************************************************************************)
(* The inductive invariant.  The safety properties need three facts that   *)
(* no property states: an unconfirmed or late-rejected entry was never     *)
(* confirmed, an active confirmed one was, and a registered cancel targets *)
(* a registered request.                                                   *)
(***************************************************************************)
NeverConfirmedWhileOpen ==
  \A r \in Registered : entries[r].state \in Unconfirmed \cup {"late_rejected"} =>
    ~EverConfirmed(r)

ActiveWasConfirmed ==
  \A r \in Registered : entries[r].state \in {"received", "accepted", "started"} =>
    EverConfirmed(r)

CancelTargets ==
  \A r \in Registered : entries[r].root.type = "cancel" =>
    /\ entries[r].root.target \in Registered
    /\ entries[entries[r].root.target].root.type = "request"

IInv ==
  /\ TypeOK
  /\ NeverConfirmedWhileOpen
  /\ ActiveWasConfirmed
  /\ CancelTargets
  /\ RenewalChain
  /\ SupersededStaysClosed
  /\ CancelAgreement
  /\ ConfirmedBeforeExpiry

LEMMA IInvInit == Init => IInv
  BY TypeOKInit DEF Init, IInv, Registered, NeverConfirmedWhileOpen, ActiveWasConfirmed,
     CancelTargets, RenewalChain, SupersededStaysClosed, CancelAgreement, ConfirmedBeforeExpiry

(***************************************************************************)
(* Registering a root: the new entry has no reply, it supersedes its       *)
(* predecessor only when that one is closed and its cancels are settled,   *)
(* and the lapsed entries only become more closed.                         *)
(***************************************************************************)
LEMMA RegisterFields ==
  ASSUME TypeOK, NEW observed \in Times, NEW m \in RootMessages,
         NEW p \in RootIds \cup {None}, RegisterRoot(m, observed, p)
  PROVE  LET E == AfterLapse(p, observed) IN
           /\ m.id \notin Registered
           /\ Registered' = Registered \cup {m.id}
           /\ entries'[m.id] = NewEntry(m, observed, p)
           /\ \A r \in Registered :
                /\ entries'[r] = E[r]
                /\ entries'[r].root = entries[r].root
                /\ entries'[r].replies = entries[r].replies
                /\ entries'[r].renewal_of = entries[r].renewal_of
                /\ entries'[r].cancelled_by = entries[r].cancelled_by
                /\ \/ entries'[r].state = entries[r].state
                   \/ /\ entries[r].state \in {"pending", "held"}
                      /\ entries'[r].state = "expired_unconfirmed"
           /\ CancelAllowed(E, m, observed)
           /\ \/ PriorOperations(m) = {} /\ p = None
              \/ RenewalAllowed(E, m, p, observed)
<1> DEFINE E == AfterLapse(p, observed)
<1>1. /\ m.id \notin Registered
      /\ entries' = [r \in Registered \cup {m.id} |->
                       IF r = m.id THEN NewEntry(m, observed, p) ELSE E[r]]
      /\ CancelAllowed(E, m, observed)
      /\ \/ PriorOperations(m) = {} /\ p = None
         \/ RenewalAllowed(E, m, p, observed)
  BY DEF RegisterRoot, RootAllowed, Processed
<1>2. \A r \in Registered :
        /\ E[r].root = entries[r].root /\ E[r].replies = entries[r].replies
        /\ E[r].renewal_of = entries[r].renewal_of
        /\ E[r].cancelled_by = entries[r].cancelled_by
        /\ \/ E[r].state = entries[r].state
           \/ /\ entries[r].state \in {"pending", "held"}
              /\ E[r].state = "expired_unconfirmed"
  BY AfterLapseFields
<1> HIDE DEF E
<1>3. Registered' = Registered \cup {m.id}
  BY <1>1 DEF Registered
<1>4. entries'[m.id] = NewEntry(m, observed, p)
  BY <1>1
<1>5. \A r \in Registered : entries'[r] = E[r]
  BY <1>1
<1>6. QED
  BY <1>1, <1>2, <1>3, <1>4, <1>5 DEF E

LEMMA IInvRegister ==
  ASSUME IInv, NEW observed \in Times, NEW m \in RootMessages,
         NEW p \in RootIds \cup {None}, RegisterRoot(m, observed, p)
  PROVE  IInv'
<1> DEFINE E == AfterLapse(p, observed)
           n == NewEntry(m, observed, p)
<1>1. TypeOK /\ TypeOK'
  BY TypeOKRegister DEF IInv
<1>2. /\ m.id \notin Registered
      /\ Registered' = Registered \cup {m.id}
      /\ entries'[m.id] = n
      /\ \A r \in Registered :
           /\ entries'[r] = E[r]
           /\ entries'[r].root = entries[r].root
           /\ entries'[r].replies = entries[r].replies
           /\ entries'[r].renewal_of = entries[r].renewal_of
           /\ entries'[r].cancelled_by = entries[r].cancelled_by
           /\ \/ entries'[r].state = entries[r].state
              \/ /\ entries[r].state \in {"pending", "held"}
                 /\ entries'[r].state = "expired_unconfirmed"
      /\ CancelAllowed(E, m, observed)
      /\ \/ PriorOperations(m) = {} /\ p = None
         \/ RenewalAllowed(E, m, p, observed)
  BY <1>1, RegisterFields
<1>3. /\ n.root = m /\ n.state \in {"pending", "expired_unconfirmed"}
      /\ n.replies = <<>> /\ n.renewal_of = p /\ n.cancelled_by = None
  BY NewEntryFields
<1> HIDE DEF E, n
<1>4. NeverConfirmedWhileOpen' /\ ActiveWasConfirmed' /\ ConfirmedBeforeExpiry'
  <2>1. ~EverConfirmed(m.id)' /\ DOMAIN entries'[m.id].replies = {}
    BY <1>2, <1>3 DEF EverConfirmed
  <2>2. ASSUME NEW r \in Registered
        PROVE  /\ EverConfirmed(r)' = EverConfirmed(r)
               /\ \A i : ConfirmsAt(r, i)' = ConfirmsAt(r, i)
    BY <1>2 DEF EverConfirmed, ConfirmsAt
  <2>3. NeverConfirmedWhileOpen'
    BY <1>2, <1>3, <2>1, <2>2 DEF IInv, NeverConfirmedWhileOpen, Unconfirmed
  <2>4. ActiveWasConfirmed'
    BY <1>2, <1>3, <2>1, <2>2 DEF IInv, ActiveWasConfirmed
  <2>5. ConfirmedBeforeExpiry'
    BY <1>2, <1>3, <2>1, <2>2 DEF IInv, ConfirmedBeforeExpiry
  <2>6. QED
    BY <2>3, <2>4, <2>5
<1>5. CancelTargets'
  BY <1>2, <1>3 DEF IInv, CancelTargets, CancelAllowed
<1>6. p \in Registered \cup {None} /\ None \notin Registered /\ None \notin Registered'
  BY <1>1, <1>2, RootAssumption DEF RenewalAllowed, PriorOperations, TypeOK
<1>7. /\ ~Superseded(m.id)'
      /\ \A r \in Registered : Superseded(r)' <=> Superseded(r) \/ p = r
  BY <1>2, <1>3, <1>6 DEF Superseded, IInv, RenewalChain
<1>8. RenewalChain'
  <2>1. ASSUME NEW r \in Registered', NEW s \in Registered', r # s,
               entries'[r].root.key = entries'[s].root.key
        PROVE  Superseded(r)' \/ Superseded(s)'
    <3>1. CASE r \in Registered /\ s \in Registered
      BY <2>1, <3>1, <1>2, <1>7 DEF IInv, RenewalChain
    <3>2. ASSUME NEW q \in Registered, entries[q].root.key = m.key
          PROVE  Superseded(q)'
      <4>1. q \in PriorOperations(m)
        BY <3>2 DEF PriorOperations
      <4>2. p \in PriorOperations(m) /\ ~Superseded(p)
        <5>1. RenewalAllowed(E, m, p, observed)
          BY <4>1, <1>2
        <5>2. ASSUME NEW x \in Registered, entries[x].renewal_of = p
              PROVE  x \in PriorOperations(m)
          <6>1. p \in Registered /\ p # None /\ entries[p].root.key = m.key
            BY <5>1, <1>6 DEF RenewalAllowed, PriorOperations
          <6>2. entries[p].root.semantics = entries[x].root.semantics
            BY <5>2, <6>1 DEF IInv, RenewalChain
          <6>3. entries[p].root \in RootMessages /\ entries[x].root \in RootMessages
            BY <5>2, <6>1, <1>1 DEF IInv, TypeOK, LifecycleEntry, Registered
          <6>4. QED
            BY <5>2, <6>1, <6>2, <6>3, SemanticsAssumption DEF PriorOperations
        <5>3. QED
          BY <5>1, <5>2, <1>2 DEF RenewalAllowed, NotSuperseded, Superseded
      <4>3. QED
        BY <3>2, <4>1, <4>2, <1>7 DEF IInv, RenewalChain, PriorOperations
    <3>3. QED
      BY <2>1, <3>1, <3>2, <1>2, <1>3
  <2>2. ASSUME NEW r \in Registered', entries'[r].renewal_of # None
        PROVE  LET q == entries'[r].renewal_of IN
                 /\ q \in Registered'
                 /\ entries'[q].root.semantics = entries'[r].root.semantics
                 /\ entries'[q].root.expires <= entries'[r].root.sent
                 /\ \A s \in Registered' \ {r} : entries'[s].renewal_of # q
    <3>1. CASE r \in Registered
      <4>1. entries[r].renewal_of # None /\ entries'[r].renewal_of = entries[r].renewal_of
        BY <2>2, <3>1, <1>2
      <4>2. p # entries[r].renewal_of
        <5>1. SUFFICES ASSUME p = entries[r].renewal_of PROVE FALSE
          OBVIOUS
        <5>2. RenewalAllowed(E, m, p, observed)
          BY <5>1, <4>1, <1>2
        <5>3. r \in PriorOperations(m)
          BY <5>1, <5>2, <3>1, <1>1, <1>6, <4>1, SemanticsAssumption
             DEF IInv, RenewalChain, PriorOperations, RenewalAllowed, TypeOK, LifecycleEntry
        <5>4. QED
          BY <5>1, <5>2, <5>3, <3>1, <1>2 DEF RenewalAllowed, NotSuperseded
      <4>3. QED
        BY <3>1, <4>1, <4>2, <1>2, <1>3 DEF IInv, RenewalChain
    <3>2. CASE r = m.id
      <4>1. p # None /\ RenewalAllowed(E, m, p, observed)
        BY <2>2, <3>2, <1>2, <1>3
      <4>2. /\ p \in Registered
            /\ entries'[p].root.semantics = m.semantics
            /\ m.sent >= entries'[p].root.expires
        BY <4>1, <1>2 DEF RenewalAllowed, RenewalInTime, PriorOperations
      <4>3. entries[p].root.expires \in Nat /\ m.sent \in Nat
        BY <4>2, <1>1, RootAssumption DEF TypeOK, LifecycleEntry
      <4>4. ASSUME NEW s \in Registered, entries[s].renewal_of = p PROVE FALSE
        <5>1. s \in PriorOperations(m)
          BY <4>1, <4>2, <4>4, <1>1, <1>2, <1>6, SemanticsAssumption
             DEF IInv, RenewalChain, PriorOperations, TypeOK, LifecycleEntry
        <5>2. QED
          BY <4>1, <4>4, <5>1, <1>2 DEF RenewalAllowed, NotSuperseded
      <4>5. QED
        BY <3>2, <4>2, <4>3, <4>4, <1>2, <1>3
    <3>3. QED
      BY <2>2, <3>1, <3>2, <1>2
  <2>3. QED
    BY <2>1, <2>2 DEF RenewalChain
<1>9. SupersededStaysClosed'
  <2>1. ASSUME NEW r \in Registered, Superseded(r) \/ p = r
        PROVE  /\ entries'[r].state \in {"expired_unconfirmed", "late_rejected"}
               /\ \A c \in Cancels(r) : entries'[c].state \notin CancelActive
    <3>1. CASE Superseded(r)
      BY <3>1, <1>2 DEF IInv, SupersededStaysClosed, CancelActive, Cancels
    <3>2. CASE p = r
      <4>1. RenewalAllowed(E, m, p, observed)
        BY <3>2, <1>2, <1>6
      <4>2. QED
        BY <3>2, <4>1, <1>2 DEF RenewalAllowed, CancelsSettled, RenewableStates, Cancels
    <3>3. QED
      BY <2>1, <3>1, <3>2
  <2>2. ASSUME NEW r \in Registered, Superseded(r) \/ p = r
        PROVE  m.target # r
    <3>1. SUFFICES ASSUME m.target = r PROVE FALSE
      OBVIOUS
    <3>2. r # None
      BY <1>6
    <3>3. m.type = "cancel"
      BY <3>1, <3>2, RootAssumption
    <3>4. ~Terminal(E[r]) /\ E[r].state # "expired_unconfirmed"
      BY <3>1, <3>3, <1>2 DEF CancelAllowed
    <3>5. QED
      BY <3>4, <2>1, <2>2, <1>2 DEF Terminal, TerminalStates
  <2>3. \A r \in Registered : Cancels(r)' \subseteq Cancels(r) \cup {m.id}
    BY <1>2 DEF Cancels
  <2>4. \A r \in Registered : m.id \in Cancels(r)' => m.target = r
    BY <1>2, <1>3 DEF Cancels
  <2>5. QED
    BY <2>1, <2>2, <2>3, <2>4, <1>2, <1>7 DEF SupersededStaysClosed
<1>10. CancelAgreement'
  <2>1. \A r \in Registered :
          /\ entries[r].state = "cancelled" => entries'[r].state = "cancelled"
          /\ entries'[r].state = "cancelled" => entries[r].state = "cancelled"
          /\ entries'[r].state \in CancelActive => entries[r].state \in CancelActive
    BY <1>2 DEF CancelActive
  <2>2. n.state # "cancelled"
    BY <1>3
  <2>3. ASSUME NEW r \in Registered', NEW c \in Cancels(r)', NEW d \in Cancels(r)',
               entries'[c].state \in CancelActive, entries'[d].state \in CancelActive
        PROVE  c = d
    <3>1. CASE c \in Registered /\ d \in Registered
      <4>1. c \in Cancels(r) /\ d \in Cancels(r)
        BY <2>3, <3>1, <1>2 DEF Cancels
      <4>2. r \in Registered
        <5>1. entries[c].root.target = r /\ r # None
          BY <4>1, <2>3, <1>6 DEF Cancels
        <5>2. entries[c].root.type = "cancel"
          BY <5>1, <3>1, <1>1, RootAssumption DEF TypeOK, LifecycleEntry
        <5>3. QED
          BY <5>1, <5>2, <3>1 DEF IInv, CancelTargets
      <4>3. QED
        BY <4>1, <4>2, <2>1, <2>3 DEF IInv, CancelAgreement, Cancels
    <3>2. ASSUME NEW x \in Registered, x \in Cancels(r)', entries'[x].state \in CancelActive,
                 m.id \in Cancels(r)'
          PROVE  FALSE
      <4>1. m.target = r /\ r # None /\ entries[x].root.target = r
        BY <3>2, <2>3, <1>2, <1>3, <1>6 DEF Cancels
      <4>2. m.type = "cancel"
        BY <4>1, RootAssumption
      <4>3. QED
        BY <3>2, <4>1, <4>2, <1>2 DEF CancelAllowed, NoActiveCancel, Cancels
    <3>3. QED
      BY <2>3, <3>1, <3>2, <1>2 DEF Cancels
  <2>4. ASSUME NEW r \in Registered', entries'[r].state = "cancelled"
        PROVE  /\ entries'[r].root.type = "cancel" =>
                    LET t == entries'[r].root.target IN
                      /\ t \in Registered'
                      /\ entries'[t].state = "cancelled" /\ entries'[t].cancelled_by = r
               /\ entries'[r].root.type # "cancel" =>
                    /\ entries'[r].cancelled_by \in Cancels(r)'
                    /\ entries'[entries'[r].cancelled_by].state = "cancelled"
    <3>1. r \in Registered /\ entries[r].state = "cancelled"
      BY <2>1, <2>2, <2>4, <1>2
    <3>2. \A c \in Cancels(r) : c \in Registered /\ c \in Cancels(r)'
      BY <1>2 DEF Cancels
    <3>3. QED
      BY <3>1, <3>2, <2>1, <1>2 DEF IInv, CancelAgreement
  <2>5. QED
    BY <2>3, <2>4 DEF CancelAgreement
<1>11. QED
  BY <1>1, <1>4, <1>5, <1>8, <1>9, <1>10 DEF IInv

(***************************************************************************)
(* Applying a reply: only the root's entry gains a reply, and only an      *)
(* accepted cancel changes a second entry, the request it targets.         *)
(***************************************************************************)
LEMMA IInvReply ==
  ASSUME IInv, NEW observed \in Times, NEW m \in ReplyMessages, ApplyReply(m, observed)
  PROVE  IInv'
<1>1. TypeOK /\ TypeOK'
  BY TypeOKReply DEF IInv
<1>0. PICK c : c = m.root
  OBVIOUS
<1>2. PICK s \in States :
        /\ c \in Registered
        /\ Advances(entries[c], m, observed, s)
        /\ NonceAllowed(entries[c], m, observed)
        /\ TargetsOpen(entries[c], s)
        /\ entries'[c] = ReplyApplied(entries[c], m, observed, s)
        /\ DOMAIN entries' = Registered
        /\ \A r \in Registered \ {c} :
             \/ /\ r \in CancelledBy(entries[c], s)
                /\ entries'[r] = CancelledTarget(entries[r], c)
             \/ /\ r \notin CancelledBy(entries[c], s)
                /\ entries'[r] = entries[r]
  BY <1>0, <1>1, ApplyReplyFields
<1>a. PICK k : k = Len(entries[c].replies) + 1
  OBVIOUS
<1>3. /\ entries'[c].root = entries[c].root
      /\ entries'[c].state = s
      /\ entries'[c].renewal_of = entries[c].renewal_of
      /\ entries'[c].cancelled_by = entries[c].cancelled_by
      /\ DOMAIN entries'[c].replies = DOMAIN entries[c].replies \cup {k}
      /\ \A i \in DOMAIN entries[c].replies : entries'[c].replies[i] = entries[c].replies[i]
      /\ entries'[c].replies[k].msg = m /\ entries'[c].replies[k].observed = observed
  BY <1>1, <1>2, <1>a, ReplyAppliedFields DEF TypeOK
<1>4. ASSUME NEW r \in Registered \ {c}
      PROVE  /\ entries'[r].root = entries[r].root
             /\ entries'[r].replies = entries[r].replies
             /\ entries'[r].renewal_of = entries[r].renewal_of
             /\ \/ entries'[r] = entries[r]
                \/ /\ r \in CancelledBy(entries[c], s)
                   /\ entries'[r].state = "cancelled" /\ entries'[r].cancelled_by = c
  <2>1. entries[r] \in LifecycleEntry /\ c \in RootIds
    BY <1>1, <1>2 DEF TypeOK
  <2>2. LET x == CancelledTarget(entries[r], c) IN
          /\ x.root = entries[r].root /\ x.replies = entries[r].replies
          /\ x.renewal_of = entries[r].renewal_of
          /\ x.state = "cancelled" /\ x.cancelled_by = c
    BY <2>1, CancelledTargetFields
  <2>3. QED
    BY <1>2, <2>2
<1>5. Registered' = Registered
  BY <1>2 DEF Registered
<1>6. entries[c].state \in States /\ entries[c].replies \in Seq(AppliedReply)
  BY <1>1, <1>2 DEF TypeOK, LifecycleEntry
<1>7. /\ ~Terminal(entries[c])
      /\ s \notin {"pending", "expired_unconfirmed"}
      /\ entries[c].state = "expired_unconfirmed" => s = "late_rejected"
      /\ s = "held" => /\ entries[c].state = "pending"
                       /\ m.type = "ack" /\ m.status = "needs_human_confirmation"
      /\ s = "late_rejected" => /\ entries[c].state \in Unconfirmed
                                /\ m.type = "ack" /\ m.status = "rejected"
      /\ s \in {"received", "accepted", "started"} =>
           \/ entries[c].state \in {"received", "accepted", "started"}
           \/ m.type = "ack" /\ m.status \in {"received", "accepted"}
      /\ s = "cancelled" => entries[c].root.type = "cancel" /\ entries[c].state \in CancelActive
      /\ entries[c].root.type = "cancel" /\ s \in CancelActive => entries[c].state \in CancelActive
      /\ entries[c].state \in {"received", "accepted", "started"} => m.type \notin {"ack", "verify"}
      /\ entries[c].state \in Unconfirmed /\ RootExpired(entries[c], observed) =>
           LateRejection(entries[c], m, observed)
  BY <1>2, <1>6, AdvanceCases
<1>8. k \in Nat /\ k \notin DOMAIN entries[c].replies /\ DOMAIN entries[c].replies = 1..(k - 1)
  BY <1>6, <1>a
<1>9. ASSUME NEW r \in Registered \ {c}
      PROVE  /\ EverConfirmed(r)' = EverConfirmed(r)
             /\ \A i : ConfirmsAt(r, i)' = ConfirmsAt(r, i)
  BY <1>4 DEF EverConfirmed, ConfirmsAt
<1>10. /\ \A i \in DOMAIN entries[c].replies : ConfirmsAt(c, i)' = ConfirmsAt(c, i)
       /\ ConfirmsAt(c, k)' <=>
            \/ m.type = "ack" /\ m.status \in {"received", "accepted"}
            \/ m.type \in {"status", "result", "verify"}
  BY <1>3 DEF ConfirmsAt
<1>11. EverConfirmed(c)' <=> EverConfirmed(c) \/ ConfirmsAt(c, k)'
  BY <1>3, <1>10 DEF EverConfirmed
<1>12. ~EverConfirmed(c) => entries[c].state \in Unconfirmed
  BY <1>2, <1>6, <1>7 DEF IInv, ActiveWasConfirmed, States, Terminal, TerminalStates
<1>13. NeverConfirmedWhileOpen'
  <2>1. s \in Unconfirmed \cup {"late_rejected"} => ~EverConfirmed(c)'
    BY <1>2, <1>7, <1>10, <1>11 DEF IInv, NeverConfirmedWhileOpen, Unconfirmed
  <2>2. \A r \in Registered \ {c} :
          entries'[r].state \in Unconfirmed \cup {"late_rejected"} => ~EverConfirmed(r)'
    BY <1>4, <1>9 DEF IInv, NeverConfirmedWhileOpen, Unconfirmed
  <2>3. QED
    BY <2>1, <2>2, <1>3, <1>5 DEF NeverConfirmedWhileOpen
<1>14. ActiveWasConfirmed'
  <2>1. s \in {"received", "accepted", "started"} => EverConfirmed(c)'
    BY <1>2, <1>7, <1>10, <1>11 DEF IInv, ActiveWasConfirmed
  <2>2. \A r \in Registered \ {c} :
          entries'[r].state \in {"received", "accepted", "started"} => EverConfirmed(r)'
    BY <1>4, <1>9 DEF IInv, ActiveWasConfirmed
  <2>3. QED
    BY <2>1, <2>2, <1>3, <1>5 DEF ActiveWasConfirmed
<1>15. CancelTargets'
  BY <1>2, <1>3, <1>4, <1>5 DEF IInv, CancelTargets
<1>16. \A r \in Registered : Superseded(r)' <=> Superseded(r)
  BY <1>2, <1>3, <1>4, <1>5 DEF Superseded
<1>17. RenewalChain'
  BY <1>2, <1>3, <1>4, <1>5, <1>16 DEF IInv, RenewalChain
<1>18. \A r \in Registered : Cancels(r)' = Cancels(r)
  BY <1>2, <1>3, <1>4, <1>5 DEF Cancels
<1>19. \A r \in Registered : entries'[r].state \in CancelActive /\ entries[r].root.type = "cancel" =>
         entries[r].state \in CancelActive
  BY <1>2, <1>3, <1>4, <1>7 DEF CancelActive
<1>20. \A r \in Registered : \A x \in Cancels(r) : entries[x].root.type = "cancel"
  BY <1>1, RootAssumption DEF Cancels, TypeOK, LifecycleEntry
<1>21. ASSUME NEW t \in CancelledBy(entries[c], s)
       PROVE  /\ t \in Registered /\ t = entries[c].root.target /\ t # c
              /\ s = "cancelled" /\ entries[c].root.type = "cancel"
              /\ entries[t].root.type = "request" /\ ~Terminal(entries[t])
              /\ entries[c].state \in CancelActive /\ c \in Cancels(t)
  BY <1>2, <1>7 DEF CancelledBy, TargetsOpen, IInv, CancelTargets, Cancels
<1>22. SupersededStaysClosed'
  <2>1. ASSUME NEW r \in Registered, Superseded(r)
        PROVE  /\ entries'[r].state \in {"expired_unconfirmed", "late_rejected"}
               /\ \A x \in Cancels(r) : entries'[x].state \notin CancelActive
    <3>1. /\ entries[r].state \in {"expired_unconfirmed", "late_rejected"}
          /\ \A x \in Cancels(r) : entries[x].state \notin CancelActive
      BY <2>1 DEF IInv, SupersededStaysClosed
    <3>2. r \notin CancelledBy(entries[c], s)
      BY <3>1, <1>21
    <3>3. entries'[r].state \in {"expired_unconfirmed", "late_rejected"}
      BY <3>1, <3>2, <1>3, <1>4, <1>7 DEF Terminal, TerminalStates
    <3>4. \A x \in Cancels(r) : entries'[x].state \notin CancelActive
      BY <3>1, <1>19, <1>20 DEF Cancels
    <3>5. QED
      BY <3>3, <3>4
  <2>2. QED
    BY <2>1, <1>5, <1>16, <1>18 DEF SupersededStaysClosed
<1>23. CancelAgreement'
  <2>1. \A r \in Registered : \A x, y \in Cancels(r) :
          entries'[x].state \in CancelActive /\ entries'[y].state \in CancelActive => x = y
    BY <1>19, <1>20 DEF IInv, CancelAgreement, Cancels
  <2>2. ASSUME NEW r \in Registered, entries[r].state = "cancelled"
        PROVE  entries'[r] = entries[r]
    BY <2>2, <1>4, <1>7, <1>21 DEF Terminal, TerminalStates
  <2>3. ASSUME NEW r \in Registered, entries[r].root.type = "cancel",
               entries'[r].state = "cancelled"
        PROVE  LET t == entries[r].root.target IN
                 /\ t \in Registered
                 /\ entries'[t].state = "cancelled" /\ entries'[t].cancelled_by = r
    <3>1. CASE entries[r].state = "cancelled"
      BY <2>2, <2>3, <3>1 DEF IInv, CancelAgreement
    <3>2. CASE entries[r].state # "cancelled"
      <4>1. r = c /\ s = "cancelled"
        BY <2>3, <3>2, <1>3, <1>4, <1>21
      <4>2. entries[c].root.target \in CancelledBy(entries[c], s)
        BY <2>3, <4>1 DEF CancelledBy, IInv, CancelTargets
      <4>3. QED
        <5>1. entries[c].root.target \in Registered \ {c}
          BY <4>2, <1>21
        <5>2. /\ entries'[entries[c].root.target].state = "cancelled"
              /\ entries'[entries[c].root.target].cancelled_by = c
          <6>1. entries'[entries[c].root.target]
                  = CancelledTarget(entries[entries[c].root.target], c)
            BY <4>2, <5>1, <1>2
          <6>2. entries[entries[c].root.target] \in LifecycleEntry /\ c \in RootIds
            BY <5>1, <1>1, <1>2 DEF TypeOK
          <6>3. QED
            BY <6>1, <6>2, CancelledTargetFields
        <5>3. QED
          BY <4>1, <5>1, <5>2
    <3>3. QED
      BY <3>1, <3>2
  <2>4. ASSUME NEW r \in Registered, entries[r].root.type # "cancel",
               entries'[r].state = "cancelled"
        PROVE  /\ entries'[r].cancelled_by \in Cancels(r)
               /\ entries'[entries'[r].cancelled_by].state = "cancelled"
    <3>1. CASE entries[r].state = "cancelled"
      <4>1. /\ entries[r].cancelled_by \in Cancels(r)
            /\ entries[entries[r].cancelled_by].state = "cancelled"
        BY <2>4, <3>1 DEF IInv, CancelAgreement
      <4>2. QED
        BY <4>1, <3>1, <2>2 DEF Cancels
    <3>2. CASE entries[r].state # "cancelled"
      <4>1. r # c
        BY <2>4, <3>2, <1>3, <1>7
      <4>2. r \in CancelledBy(entries[c], s) /\ entries'[r].cancelled_by = c
        BY <2>4, <3>2, <4>1, <1>4
      <4>3. QED
        BY <4>2, <1>3, <1>21
    <3>3. QED
      BY <3>1, <3>2
  <2>5. \A r \in Registered : entries'[r].root = entries[r].root
    BY <1>3, <1>4
  <2>6. QED
    BY <2>1, <2>3, <2>4, <2>5, <1>5, <1>18 DEF CancelAgreement
<1>24. ConfirmedBeforeExpiry'
  <2>1. ASSUME NEW i \in DOMAIN entries'[c].replies,
               \/ ConfirmsAt(c, i)' /\ \A j \in 1..(i - 1) : ~ConfirmsAt(c, j)'
               \/ entries'[c].replies[i].msg.nonce # None
        PROVE  entries'[c].replies[i].observed < entries[c].root.expires
    <3>1. CASE i \in DOMAIN entries[c].replies
      <4>1. \A j \in 1..(i - 1) : j \in DOMAIN entries[c].replies
        BY <3>1, <1>8
      <4>2. QED
        BY <2>1, <3>1, <4>1, <1>2, <1>3, <1>10 DEF IInv, ConfirmedBeforeExpiry
    <3>2. CASE i = k
      <4>1. observed \in Int /\ entries[c].root.expires \in Int
        BY <1>1, <1>2, TimesAssumption, RootAssumption DEF TypeOK, LifecycleEntry
      <4>2. entries[c].state \in Unconfirmed
        <5>1. CASE m.nonce # None
          <6>1. m.type \in {"ack", "verify"}
            BY <5>1, <1>2 DEF NonceAllowed, ExpectedNonce
          <6>2. QED
            BY <6>1, <1>6, <1>7 DEF States, Terminal, TerminalStates
        <5>2. CASE m.nonce = None
          <6>1. \A j \in DOMAIN entries[c].replies : ~ConfirmsAt(c, j)
            BY <2>1, <3>2, <5>2, <1>3, <1>8, <1>10
          <6>2. QED
            BY <6>1, <1>12 DEF EverConfirmed
        <5>3. QED
          BY <5>1, <5>2
      <4>3. ~LateRejection(entries[c], m, observed)
        <5>1. CASE m.nonce # None
          BY <5>1, <1>2 DEF NonceAllowed, ExpectedNonce
        <5>2. CASE m.nonce = None
          BY <2>1, <3>2, <5>2, <1>3, <1>10 DEF LateRejection
        <5>3. QED
          BY <5>1, <5>2
      <4>4. ~RootExpired(entries[c], observed)
        BY <4>2, <4>3, <1>7
      <4>5. QED
        BY <3>2, <4>1, <4>4, <1>3 DEF RootExpired
    <3>3. QED
      BY <2>1, <3>1, <3>2, <1>3
  <2>2. ASSUME NEW r \in Registered \ {c}, NEW i \in DOMAIN entries'[r].replies,
               \/ ConfirmsAt(r, i)' /\ \A j \in 1..(i - 1) : ~ConfirmsAt(r, j)'
               \/ entries'[r].replies[i].msg.nonce # None
        PROVE  entries'[r].replies[i].observed < entries[r].root.expires
    BY <2>2, <1>4, <1>9 DEF IInv, ConfirmedBeforeExpiry
  <2>3. QED
    BY <2>1, <2>2, <1>3, <1>4, <1>5 DEF ConfirmedBeforeExpiry
<1>25. QED
  BY <1>1, <1>13, <1>14, <1>15, <1>17, <1>22, <1>23, <1>24 DEF IInv

(***************************************************************************)
(* The expiry event closes one unconfirmed entry a little more.            *)
(***************************************************************************)
LEMMA IInvMark ==
  ASSUME IInv, NEW observed \in Times, NEW q \in RootIds,
         MarkExpiredUnconfirmed(q, observed)
  PROVE  IInv'
<1>1. TypeOK /\ TypeOK'
  BY TypeOKMark DEF IInv
<1>2. /\ q \in Registered /\ entries[q].state \in Unconfirmed
      /\ entries' = [entries EXCEPT ![q] = Expire(entries[q], observed)]
  BY DEF MarkExpiredUnconfirmed
<1>3. LET x == Expire(entries[q], observed) IN
        /\ x.root = entries[q].root /\ x.replies = entries[q].replies
        /\ x.renewal_of = entries[q].renewal_of
        /\ x.cancelled_by = entries[q].cancelled_by
        /\ x.state = "expired_unconfirmed"
  BY <1>1, <1>2, ExpireFields DEF TypeOK
<1>4. /\ Registered' = Registered
      /\ \A r \in Registered :
           /\ entries'[r].root = entries[r].root
           /\ entries'[r].replies = entries[r].replies
           /\ entries'[r].renewal_of = entries[r].renewal_of
           /\ entries'[r].cancelled_by = entries[r].cancelled_by
           /\ \/ entries'[r].state = entries[r].state
              \/ /\ entries[r].state \in Unconfirmed
                 /\ entries'[r].state = "expired_unconfirmed"
  BY <1>1, <1>2, <1>3 DEF Registered, TypeOK
<1>5. \A r \in Registered :
        /\ EverConfirmed(r)' = EverConfirmed(r)
        /\ \A i : ConfirmsAt(r, i)' = ConfirmsAt(r, i)
        /\ Superseded(r)' = Superseded(r)
        /\ Cancels(r)' = Cancels(r)
  BY <1>4 DEF EverConfirmed, ConfirmsAt, Superseded, Cancels
<1>6. NeverConfirmedWhileOpen' /\ ActiveWasConfirmed'
  BY <1>4, <1>5 DEF IInv, NeverConfirmedWhileOpen, ActiveWasConfirmed, Unconfirmed
<1>7. CancelTargets' /\ RenewalChain'
  BY <1>4, <1>5 DEF IInv, CancelTargets, RenewalChain
<1>8. SupersededStaysClosed'
  BY <1>4, <1>5 DEF IInv, SupersededStaysClosed, CancelActive, Unconfirmed, Cancels
<1>9. CancelAgreement'
  BY <1>4, <1>5 DEF IInv, CancelAgreement, CancelActive, Unconfirmed, Cancels
<1>10. ConfirmedBeforeExpiry'
  BY <1>4, <1>5 DEF IInv, ConfirmedBeforeExpiry
<1>11. QED
  BY <1>1, <1>6, <1>7, <1>8, <1>9, <1>10 DEF IInv

LEMMA IInvStep == IInv /\ [Next]_vars => IInv'
<1>1. ASSUME IInv, Next PROVE IInv'
  <2>1. Registered \subseteq RootIds
    BY <1>1 DEF IInv, TypeOK
  <2>2. QED
    BY <1>1, <2>1, IInvRegister, IInvReply, IInvMark DEF Next
<1>2. ASSUME IInv, UNCHANGED vars PROVE IInv'
  BY <1>2 DEF vars, IInv, TypeOK, Registered, NeverConfirmedWhileOpen, ActiveWasConfirmed,
     CancelTargets, RenewalChain, SupersededStaysClosed, CancelAgreement,
     ConfirmedBeforeExpiry, EverConfirmed, ConfirmsAt, Superseded, Cancels
<1>3. QED
  BY <1>1, <1>2

\* The inductive invariant holds in every reachable state.
THEOREM LifecycleInvariant == Spec => []IInv
BY IInvInit, IInvStep, PTL DEF Spec

(***************************************************************************)
(* An idempotency key is confirmed at most once and is live at most once:  *)
(* of two roots with one key one is superseded, hence closed, hence was    *)
(* never confirmed.                                                        *)
(***************************************************************************)
THEOREM OneConfirmation == Spec => []OneConfirmationPerOperation
<1>1. IInv => OneConfirmationPerOperation
  <2> SUFFICES ASSUME IInv, NEW r \in Registered, NEW s \in Registered, r # s,
                      entries[r].root.key = entries[s].root.key
               PROVE  /\ ~(EverConfirmed(r) /\ EverConfirmed(s))
                      /\ ~(entries[r].state \in Live /\ entries[s].state \in Live)
    BY DEF OneConfirmationPerOperation
  <2>1. Superseded(r) \/ Superseded(s)
    BY DEF IInv, RenewalChain
  <2>2. \A x \in Registered : Superseded(x) =>
          ~EverConfirmed(x) /\ entries[x].state \notin Live
    BY DEF IInv, SupersededStaysClosed, NeverConfirmedWhileOpen, Unconfirmed, Live
  <2>3. QED
    BY <2>1, <2>2
<1>2. QED
  BY LifecycleInvariant, <1>1, PTL

\* The renewals of an operation form one unbranched chain.
THEOREM UnbranchedRenewals == Spec => []RenewalChain
<1>1. IInv => RenewalChain
  BY DEF IInv
<1>2. QED
  BY LifecycleInvariant, <1>1, PTL

\* A superseded root is never confirmed or cancelled again.
THEOREM SupersededClosed == Spec => []SupersededStaysClosed
<1>1. IInv => SupersededStaysClosed
  BY DEF IInv
<1>2. QED
  BY LifecycleInvariant, <1>1, PTL

\* A request is cancelled exactly when an accepted cancel of it says so.
THEOREM CancelsAgree == Spec => []CancelAgreement
<1>1. IInv => CancelAgreement
  BY DEF IInv
<1>2. QED
  BY LifecycleInvariant, <1>1, PTL

\* No root is first confirmed, and no nonce is echoed, after its expiry.
THEOREM NoLateConfirmation == Spec => []ConfirmedBeforeExpiry
<1>1. IInv => ConfirmedBeforeExpiry
  BY DEF IInv
<1>2. QED
  BY LifecycleInvariant, <1>1, PTL

LEMMA OutcomeStep == IInv /\ [Next]_vars => [OutcomeKept]_vars
<1>1. ASSUME IInv, NEW observed \in Times, NEW m \in RootMessages,
             NEW p \in RootIds \cup {None}, RegisterRoot(m, observed, p)
      PROVE  OutcomeKept
  <2>1. TypeOK
    BY <1>1 DEF IInv
  <2>2. /\ Registered' = Registered \cup {m.id}
        /\ \A r \in Registered : /\ entries'[r] = AfterLapse(p, observed)[r]
                                 /\ entries'[r].replies = entries[r].replies
    BY <1>1, <2>1, RegisterFields
  <2>3. \A r \in Registered : Terminal(entries[r]) => entries'[r] = entries[r]
    BY <2>1, <2>2, AfterLapseFields DEF Terminal, TerminalStates
  <2>4. QED
    BY <2>2, <2>3 DEF OutcomeKept
<1>2. ASSUME IInv, NEW observed \in Times, NEW m \in ReplyMessages, ApplyReply(m, observed)
      PROVE  OutcomeKept
  <2>1. TypeOK
    BY <1>2 DEF IInv
  <2>2. PICK s \in States :
          /\ m.root \in Registered
          /\ Advances(entries[m.root], m, observed, s)
          /\ TargetsOpen(entries[m.root], s)
          /\ entries'[m.root] = ReplyApplied(entries[m.root], m, observed, s)
          /\ DOMAIN entries' = Registered
          /\ \A r \in Registered \ {m.root} :
               \/ /\ r \in CancelledBy(entries[m.root], s)
                  /\ entries'[r] = CancelledTarget(entries[r], m.root)
               \/ /\ r \notin CancelledBy(entries[m.root], s)
                  /\ entries'[r] = entries[r]
    BY <1>2, <2>1, ApplyReplyFields
  <2>3. ~Terminal(entries[m.root])
    BY <2>1, <2>2, AdvanceCases DEF TypeOK, LifecycleEntry
  <2>4. \A i \in DOMAIN entries[m.root].replies :
          /\ i \in DOMAIN entries'[m.root].replies
          /\ entries'[m.root].replies[i] = entries[m.root].replies[i]
    <3>1. entries[m.root] \in LifecycleEntry
      BY <2>1, <2>2 DEF TypeOK
    <3>2. QED
      BY <2>2, <3>1, ReplyAppliedFields
  <2>5. ASSUME NEW r \in Registered \ {m.root}
        PROVE  /\ Terminal(entries[r]) => entries'[r] = entries[r]
               /\ entries'[r].replies = entries[r].replies
    <3>1. entries[r] \in LifecycleEntry /\ m.root \in RootIds
      BY <2>1, <2>2 DEF TypeOK
    <3>2. CancelledTarget(entries[r], m.root).replies = entries[r].replies
      BY <3>1, CancelledTargetFields
    <3>3. QED
      BY <2>2, <3>2 DEF TargetsOpen
  <2>6. QED
    BY <2>2, <2>3, <2>4, <2>5 DEF OutcomeKept, Registered
<1>3. ASSUME IInv, NEW observed \in Times, NEW q \in RootIds,
             MarkExpiredUnconfirmed(q, observed)
      PROVE  OutcomeKept
  <2>1. /\ q \in Registered /\ entries[q].state \in Unconfirmed
        /\ entries' = [entries EXCEPT ![q] = Expire(entries[q], observed)]
    BY <1>3 DEF MarkExpiredUnconfirmed
  <2>2. Expire(entries[q], observed).replies = entries[q].replies
    BY <1>3, <2>1, ExpireFields DEF IInv, TypeOK
  <2>3. QED
    BY <1>3, <2>1, <2>2 DEF OutcomeKept, Terminal, TerminalStates, Unconfirmed, IInv, TypeOK,
       Registered
<1>4. IInv => Registered \subseteq RootIds
  BY DEF IInv, TypeOK
<1>5. QED
  BY <1>1, <1>2, <1>3, <1>4 DEF Next

(***************************************************************************)
(* Terminal outcomes and applied replies are never rewritten.              *)
(***************************************************************************)
THEOREM OutcomesAreFinal == Spec => OutcomeFinal
BY LifecycleInvariant, OutcomeStep, PTL DEF OutcomeFinal, Spec
-----------------------------------------------------------------------------
(***************************************************************************)
(* One operation per idempotency key.  Whoever reuses a key must renew the *)
(* operation it names, with the meaning it has: all roots of a key mean    *)
(* the same (lifecycle.renewal_semantics).                                 *)
(***************************************************************************)
OneMeaning ==
  \A r, s \in Registered : entries[r].root.key = entries[s].root.key =>
    entries[r].root.semantics = entries[s].root.semantics

\* Replies and expiry marks touch no root envelope and register none.
RootsKept ==
  /\ Registered' = Registered
  /\ \A r \in Registered : entries'[r].root = entries[r].root

LEMMA ReplyKeepsRoots ==
  ASSUME TypeOK, NEW observed \in Times, NEW m \in ReplyMessages, ApplyReply(m, observed)
  PROVE  RootsKept
<1>1. PICK s \in States :
        /\ m.root \in Registered
        /\ entries'[m.root] = ReplyApplied(entries[m.root], m, observed, s)
        /\ DOMAIN entries' = Registered
        /\ \A r \in Registered \ {m.root} :
             \/ entries'[r] = CancelledTarget(entries[r], m.root)
             \/ entries'[r] = entries[r]
  BY ApplyReplyFields
<1>2. ReplyApplied(entries[m.root], m, observed, s).root = entries[m.root].root
  BY <1>1, ReplyAppliedFields DEF TypeOK
<1>3. \A r \in Registered : CancelledTarget(entries[r], m.root).root = entries[r].root
  BY <1>1, CancelledTargetFields DEF TypeOK
<1>4. QED
  BY <1>1, <1>2, <1>3 DEF RootsKept, Registered

LEMMA MarkKeepsRoots ==
  ASSUME TypeOK, NEW observed \in Times, NEW q \in RootIds,
         MarkExpiredUnconfirmed(q, observed)
  PROVE  RootsKept
<1>1. /\ q \in Registered
      /\ entries' = [entries EXCEPT ![q] = Expire(entries[q], observed)]
  BY DEF MarkExpiredUnconfirmed
<1>2. Expire(entries[q], observed).root = entries[q].root
  BY <1>1, ExpireFields DEF TypeOK
<1>3. QED
  BY <1>1, <1>2 DEF RootsKept, TypeOK, Registered

LEMMA MeaningStep == IInv /\ OneMeaning /\ [Next]_vars => OneMeaning'
<1>1. ASSUME IInv, OneMeaning, NEW observed \in Times, NEW m \in RootMessages,
             NEW p \in RootIds \cup {None}, RegisterRoot(m, observed, p)
      PROVE  OneMeaning'
  <2>1. TypeOK
    BY <1>1 DEF IInv
  <2>2. /\ Registered' = Registered \cup {m.id}
        /\ entries'[m.id] = NewEntry(m, observed, p)
        /\ \A r \in Registered : /\ entries'[r] = AfterLapse(p, observed)[r]
                                 /\ entries'[r].root = entries[r].root
        /\ \/ PriorOperations(m) = {} /\ p = None
           \/ RenewalAllowed(AfterLapse(p, observed), m, p, observed)
    BY <1>1, <2>1, RegisterFields
  <2>3. NewEntry(m, observed, p).root = m
    BY NewEntryFields
  <2>4. ASSUME NEW r \in Registered, entries[r].root.key = m.key
        PROVE  entries[r].root.semantics = m.semantics
    <3>1. r \in PriorOperations(m)
      BY <2>4 DEF PriorOperations
    <3>2. /\ p \in Registered /\ entries[p].root.key = m.key
          /\ entries[p].root.semantics = m.semantics
      BY <2>2, <3>1 DEF RenewalAllowed, PriorOperations
    <3>3. QED
      BY <1>1, <2>4, <3>2 DEF OneMeaning
  <2>5. \A r \in Registered : r # m.id
    BY <1>1, <2>1, RegisterFields
  <2>6. QED
    BY <1>1, <2>2, <2>3, <2>4, <2>5 DEF OneMeaning
<1>2. ASSUME IInv, OneMeaning, NEW observed \in Times, NEW m \in ReplyMessages,
             ApplyReply(m, observed)
      PROVE  OneMeaning'
  <2>1. TypeOK
    BY <1>2 DEF IInv
  <2>2. RootsKept
    BY <1>2, <2>1, ReplyKeepsRoots
  <2>3. QED
    BY <1>2, <2>2 DEF OneMeaning, RootsKept
<1>3. ASSUME IInv, OneMeaning, NEW observed \in Times, NEW q \in RootIds,
             MarkExpiredUnconfirmed(q, observed)
      PROVE  OneMeaning'
  <2>1. RootsKept
    BY <1>3, MarkKeepsRoots DEF IInv
  <2>2. QED
    BY <1>3, <2>1 DEF OneMeaning, RootsKept
<1>4. IInv => Registered \subseteq RootIds
  BY DEF IInv, TypeOK
<1>5. ASSUME OneMeaning, UNCHANGED vars PROVE OneMeaning'
  BY <1>5 DEF OneMeaning, Registered, vars
<1>6. QED
  BY <1>1, <1>2, <1>3, <1>4, <1>5 DEF Next

(***************************************************************************)
(* The roots of one idempotency key never differ in meaning, so a key      *)
(* names one operation whatever is sent under it.                          *)
(***************************************************************************)
THEOREM KeysMeanOneThing == Spec => []OneMeaning
<1>1. Init => OneMeaning
  BY DEF Init, OneMeaning, Registered
<1>2. QED
  BY <1>1, LifecycleInvariant, MeaningStep, PTL DEF Spec
-----------------------------------------------------------------------------
(***************************************************************************)
(* The refinement.  At most one root of an operation has not lapsed, so    *)
(* that root, when there is one, decides the status of its operation.      *)
(***************************************************************************)
LEMMA RootStatusCases ==
  ASSUME NEW e, e.state \in States
  PROVE  /\ RootStatus(e) \in {"waiting", "lapsed", "confirmed", "succeeded", "refused",
                               "failed", "cancelled"}
         /\ RootStatus(e) = "waiting" <=> e.state \in {"pending", "held"}
         /\ RootStatus(e) = "lapsed" <=> e.state \in {"expired_unconfirmed", "late_rejected"}
         /\ RootStatus(e) = "confirmed" <=> e.state \in {"received", "accepted", "started"}
  BY DEF RootStatus, States, TerminalStates, Unconfirmed

SoleOpenRoot(E) ==
  \A r, s \in DOMAIN E : r # s /\ E[r].root.key = E[s].root.key =>
    RootStatus(E[r]) = "lapsed" \/ RootStatus(E[s]) = "lapsed"

LEMMA SoleOpen == IInv => SoleOpenRoot(entries)
<1> SUFFICES ASSUME IInv, NEW r \in Registered, NEW s \in Registered, r # s,
                    entries[r].root.key = entries[s].root.key
             PROVE  RootStatus(entries[r]) = "lapsed" \/ RootStatus(entries[s]) = "lapsed"
  BY DEF SoleOpenRoot, Registered
<1>1. Superseded(r) \/ Superseded(s)
  BY DEF IInv, RenewalChain
<1>2. \A x \in Registered : Superseded(x) => RootStatus(entries[x]) = "lapsed"
  BY RootStatusCases DEF IInv, TypeOK, LifecycleEntry, SupersededStaysClosed
<1>3. QED
  BY <1>1, <1>2

LEMMA OpenRootDecides ==
  ASSUME NEW E, SoleOpenRoot(E), NEW r \in DOMAIN E, RootStatus(E[r]) # "lapsed"
  PROVE  StatusFrom(RootStatuses(E, E[r].root.key)) = RootStatus(E[r])
<1> DEFINE S == RootStatuses(E, E[r].root.key)
<1>1. RootStatus(E[r]) \in S
  BY DEF RootStatuses
<1>2. \A s \in S : s = RootStatus(E[r]) \/ s = "lapsed"
  BY DEF RootStatuses, SoleOpenRoot
<1>3. S # {} /\ S # {"lapsed"}
  BY <1>1
<1> HIDE DEF S
<1>4. (CHOOSE s \in S : s # "lapsed") = RootStatus(E[r])
  BY <1>1, <1>2
<1>5. StatusFrom(S) = RootStatus(E[r])
  BY <1>3, <1>4 DEF StatusFrom
<1>6. QED
  BY <1>5 DEF S

LEMMA LapsedRootsDecide ==
  ASSUME NEW E, NEW r \in DOMAIN E,
         \A s \in DOMAIN E : E[s].root.key = E[r].root.key => RootStatus(E[s]) = "lapsed"
  PROVE  StatusFrom(RootStatuses(E, E[r].root.key)) = "lapsed"
<1>1. RootStatuses(E, E[r].root.key) = {"lapsed"}
  BY DEF RootStatuses
<1>2. QED
  BY <1>1 DEF StatusFrom

LEMMA SameStatuses ==
  ASSUME NEW E, NEW F, NEW k,
         \A r : r \in DOMAIN E /\ E[r].root.key = k <=> r \in DOMAIN F /\ F[r].root.key = k,
         \A r \in DOMAIN E : E[r].root.key = k => RootStatus(F[r]) = RootStatus(E[r])
  PROVE  RootStatuses(F, k) = RootStatuses(E, k)
  BY DEF RootStatuses

\* What an operation's status says of its roots, and they of it.
StatusesDecided ==
  /\ OperationStatus = [k \in Keys |-> OperationStatus[k]]
  /\ \A k \in Keys : (\A r \in Registered : entries[r].root.key # k) =>
       OperationStatus[k] = "unused"
  /\ \A r \in Registered :
       /\ entries[r].root.key \in Keys
       /\ RootStatus(entries[r]) # "lapsed" =>
            OperationStatus[entries[r].root.key] = RootStatus(entries[r])
       /\ (\A s \in Registered : entries[s].root.key = entries[r].root.key =>
             RootStatus(entries[s]) = "lapsed")
          => OperationStatus[entries[r].root.key] = "lapsed"
  /\ \A r, s \in Registered : r # s /\ entries[r].root.key = entries[s].root.key =>
       RootStatus(entries[r]) = "lapsed" \/ RootStatus(entries[s]) = "lapsed"

LEMMA StatusFacts == IInv => StatusesDecided
<1> SUFFICES ASSUME IInv PROVE StatusesDecided
  OBVIOUS
<1>1. SoleOpenRoot(entries)
  BY SoleOpen
<1>2. ASSUME NEW r \in Registered
      PROVE  entries[r].root.key \in Keys
  BY DEF IInv, TypeOK, LifecycleEntry, Keys
<1>3. ASSUME NEW r \in Registered, RootStatus(entries[r]) # "lapsed"
      PROVE  OperationStatus[entries[r].root.key] = RootStatus(entries[r])
  BY <1>1, <1>2, <1>3, OpenRootDecides DEF OperationStatus, Registered
<1>4. ASSUME NEW r \in Registered,
             \A s \in Registered : entries[s].root.key = entries[r].root.key =>
               RootStatus(entries[s]) = "lapsed"
      PROVE  OperationStatus[entries[r].root.key] = "lapsed"
  BY <1>2, <1>4, LapsedRootsDecide DEF OperationStatus, Registered
<1>5. ASSUME NEW k \in Keys, \A r \in Registered : entries[r].root.key # k
      PROVE  OperationStatus[k] = "unused"
  <2>1. RootStatuses(entries, k) = {}
    BY <1>5 DEF RootStatuses, Registered
  <2>2. QED
    BY <2>1 DEF OperationStatus, StatusFrom
<1>6. QED
  BY <1>1, <1>2, <1>3, <1>4, <1>5 DEF StatusesDecided, SoleOpenRoot, Registered, OperationStatus

\* An operation none of whose roots changed status keeps its own.
LEMMA OperationKept ==
  ASSUME NEW k \in Keys,
         \A r : r \in Registered' /\ entries'[r].root.key = k <=>
                r \in Registered /\ entries[r].root.key = k,
         \A r \in Registered : entries[r].root.key = k =>
           RootStatus(entries'[r]) = RootStatus(entries[r])
  PROVE  OperationStatus'[k] = OperationStatus[k]
<1>1. RootStatuses(entries', k) = RootStatuses(entries, k)
  BY SameStatuses DEF Registered
<1>2. Keys' = Keys
  BY DEF Keys
<1>3. QED
  BY <1>1, <1>2 DEF OperationStatus

\* An expiry mark at most lets a waiting operation lapse.
LEMMA OperationMark ==
  ASSUME IInv, IInv', NEW observed \in Times, NEW q \in RootIds,
         MarkExpiredUnconfirmed(q, observed)
  PROVE  Operation!OperationsNext \/ OperationStatus' = OperationStatus
<1> DEFINE k == entries[q].root.key
<1>1. StatusesDecided
  BY StatusFacts
<1>2. StatusesDecided'
  BY StatusFacts, PTL
<1>3. /\ q \in Registered /\ entries[q].state \in Unconfirmed
      /\ entries' = [entries EXCEPT ![q] = Expire(entries[q], observed)]
  BY DEF MarkExpiredUnconfirmed
<1>4. Expire(entries[q], observed).state = "expired_unconfirmed"
  BY <1>3, ExpireFields DEF IInv, TypeOK
<1>5. RootsKept
  BY MarkKeepsRoots DEF IInv
<1>6. /\ entries'[q].state = "expired_unconfirmed"
      /\ \A r \in Registered \ {q} : entries'[r] = entries[r]
  BY <1>3, <1>4 DEF Registered, IInv, TypeOK
<1>7. RootStatus(entries'[q]) = "lapsed"
  BY <1>6 DEF RootStatus
<1>8. \A j \in Keys \ {k} : OperationStatus'[j] = OperationStatus[j]
  <2> SUFFICES ASSUME NEW j \in Keys \ {k} PROVE OperationStatus'[j] = OperationStatus[j]
    OBVIOUS
  <2>1. QED
    BY <1>5, <1>6, OperationKept DEF RootsKept
<1>9. k \in Keys /\ Keys' = Keys
  BY <1>1, <1>3 DEF StatusesDecided, Keys
<1>10. CASE RootStatus(entries[q]) = "lapsed"
  <2>1. OperationStatus'[k] = OperationStatus[k]
    BY <1>5, <1>6, <1>7, <1>9, <1>10, OperationKept DEF RootsKept
  <2>2. QED
    BY <1>1, <1>2, <1>8, <1>9, <2>1 DEF StatusesDecided
<1>11. CASE RootStatus(entries[q]) = "waiting"
  <2>1. OperationStatus[k] = "waiting"
    BY <1>1, <1>3, <1>11 DEF StatusesDecided
  <2>2. \A r \in Registered : entries[r].root.key = k => RootStatus(entries'[r]) = "lapsed"
    BY <1>1, <1>3, <1>6, <1>7, <1>11 DEF StatusesDecided
  <2>3. OperationStatus'[k] = "lapsed"
    BY <1>2, <1>3, <1>5, <2>2 DEF StatusesDecided, RootsKept
  <2>4. OperationStatus' = [OperationStatus EXCEPT ![k] = "lapsed"]
    BY <1>1, <1>2, <1>8, <1>9, <2>3 DEF StatusesDecided
  <2>5. Operation!Lapse(k)
    BY <2>1, <2>4 DEF Operation!Lapse
  <2>6. QED
    BY <1>9, <2>5 DEF Operation!OperationsNext
<1>12. QED
  BY <1>3, <1>10, <1>11, RootStatusCases DEF Unconfirmed, States

(***************************************************************************)
(* A root opens its operation or renews it.  It is no predecessor yet, so  *)
(* every other root of its key has lapsed, at the latest in this event,    *)
(* as have the cancels of its predecessor that nobody answered.            *)
(***************************************************************************)
LEMMA OperationRegister ==
  ASSUME IInv, IInv', NEW observed \in Times, NEW m \in RootMessages,
         NEW p \in RootIds \cup {None}, RegisterRoot(m, observed, p)
  PROVE  Operation!OperationsNext \/ OperationStatus' = OperationStatus
<1> DEFINE k == m.key
           E == AfterLapse(p, observed)
           n == NewEntry(m, observed, p)
<1>1. StatusesDecided
  BY StatusFacts
<1>2. StatusesDecided'
  BY StatusFacts, PTL
<1>3. /\ m.id \notin Registered
      /\ Registered' = Registered \cup {m.id}
      /\ entries'[m.id] = n
      /\ \A r \in Registered :
           /\ entries'[r] = E[r]
           /\ entries'[r].root = entries[r].root
           /\ \/ entries'[r].state = entries[r].state
              \/ /\ entries[r].state \in {"pending", "held"}
                 /\ entries'[r].state = "expired_unconfirmed"
      /\ \/ PriorOperations(m) = {} /\ p = None
         \/ RenewalAllowed(E, m, p, observed)
  BY RegisterFields DEF IInv
<1>4. n.root = m /\ n.state \in {"pending", "expired_unconfirmed"}
  BY NewEntryFields
<1>5. E = AfterLapse(p, observed) /\ (p = None => \A r \in Registered : E[r] = entries[r])
  BY DEF AfterLapse, Lapsed
<1> HIDE DEF E, n
<1>6. k \in Keys /\ Keys' = Keys
  BY DEF Keys
<1>7. RootStatus(entries'[m.id]) \in {"waiting", "lapsed"}
  BY <1>3, <1>4 DEF RootStatus
<1>8. ASSUME NEW r \in Registered
      PROVE  \/ RootStatus(entries'[r]) = RootStatus(entries[r])
             \/ /\ RootStatus(entries[r]) = "waiting"
                /\ RootStatus(entries'[r]) = "lapsed"
  BY <1>3 DEF RootStatus
<1>9. \A r \in Registered : r # m.id /\ (entries[r].root.key = k =>
        RootStatus(entries'[r]) = "lapsed")
  <2> SUFFICES ASSUME NEW r \in Registered, entries[r].root.key = k
               PROVE  RootStatus(entries'[r]) = "lapsed"
    BY <1>3
  <2>1. ~Superseded(m.id)'
    <3>1. p # m.id
      BY <1>3, RootAssumption DEF RenewalAllowed, PriorOperations, RootIds
    <3>2. n.renewal_of = p
      BY NewEntryFields DEF n
    <3>3. \A x \in Registered : entries'[x].renewal_of = entries[x].renewal_of
      BY RegisterFields DEF IInv
    <3>4. \A x \in Registered : entries[x].renewal_of # m.id
      BY <1>3, RootAssumption DEF IInv, RenewalChain, RootIds
    <3>5. QED
      BY <1>3, <3>1, <3>2, <3>3, <3>4 DEF Superseded
  <2>2. Superseded(r)'
    BY <1>3, <1>4, <2>1 DEF IInv, RenewalChain
  <2>3. entries'[r].state \in {"expired_unconfirmed", "late_rejected"}
    BY <1>3, <2>2 DEF IInv, SupersededStaysClosed
  <2>4. QED
    BY <2>3 DEF RootStatus
<1>10. OperationStatus'[k] = RootStatus(entries'[m.id])
  <2>1. CASE RootStatus(entries'[m.id]) = "lapsed"
    BY <1>2, <1>3, <1>4, <1>9, <2>1 DEF StatusesDecided
  <2>2. CASE RootStatus(entries'[m.id]) # "lapsed"
    BY <1>2, <1>3, <1>4, <2>2 DEF StatusesDecided
  <2>3. QED
    BY <2>1, <2>2
<1>11. CASE PriorOperations(m) = {} /\ p = None
  <2>1. OperationStatus[k] = "unused"
    BY <1>1, <1>6, <1>11 DEF StatusesDecided, PriorOperations
  <2>2. \A j \in Keys \ {k} : OperationStatus'[j] = OperationStatus[j]
    <3> SUFFICES ASSUME NEW j \in Keys \ {k} PROVE OperationStatus'[j] = OperationStatus[j]
      OBVIOUS
    <3>1. QED
      BY <1>3, <1>4, <1>5, <1>11, OperationKept
  <2>3. \E s \in {"waiting", "lapsed"} : OperationStatus' = [OperationStatus EXCEPT ![k] = s]
    BY <1>1, <1>2, <1>6, <1>7, <1>10, <2>2 DEF StatusesDecided
  <2>4. Operation!Open(k)
    BY <2>1, <2>3 DEF Operation!Open
  <2>5. QED
    BY <1>6, <2>4 DEF Operation!OperationsNext
<1>12. CASE RenewalAllowed(E, m, p, observed)
  <2>1. p \in Registered /\ entries[p].root.key = k
    BY <1>12 DEF RenewalAllowed, PriorOperations
  <2>2. OperationStatus[k] \in {"waiting", "lapsed"}
    <3>1. CASE \E r \in Registered : entries[r].root.key = k /\ RootStatus(entries[r]) # "lapsed"
      BY <1>1, <1>8, <1>9, <3>1 DEF StatusesDecided
    <3>2. CASE ~\E r \in Registered : entries[r].root.key = k /\ RootStatus(entries[r]) # "lapsed"
      BY <1>1, <2>1, <3>2 DEF StatusesDecided
    <3>3. QED
      BY <3>1, <3>2
  <2> DEFINE C == {j \in Keys \ {k} : \E r \in Registered :
                     /\ entries[r].root.key = j
                     /\ RootStatus(entries[r]) = "waiting"
                     /\ RootStatus(entries'[r]) = "lapsed"}
  <2>3. ASSUME NEW j \in Keys \ {k}, j \notin C
        PROVE  OperationStatus'[j] = OperationStatus[j]
    BY <1>3, <1>4, <1>8, <2>3, OperationKept
  <2>4. ASSUME NEW j \in C
        PROVE  OperationStatus[j] = "waiting" /\ OperationStatus'[j] = "lapsed"
    <3>1. PICK r \in Registered : /\ entries[r].root.key = j
                                  /\ RootStatus(entries[r]) = "waiting"
                                  /\ RootStatus(entries'[r]) = "lapsed"
      OBVIOUS
    <3>2. OperationStatus[j] = "waiting"
      BY <1>1, <3>1 DEF StatusesDecided
    <3>3. \A s \in Registered : entries[s].root.key = j => RootStatus(entries'[s]) = "lapsed"
      BY <1>1, <1>8, <3>1 DEF StatusesDecided
    <3>4. \A s \in Registered' : entries'[s].root.key = j => RootStatus(entries'[s]) = "lapsed"
      BY <1>3, <1>4, <3>3
    <3>5. QED
      BY <1>2, <1>3, <3>1, <3>2, <3>4 DEF StatusesDecided
  <2>5. C \in SUBSET {c \in Keys \ {k} : OperationStatus[c] = "waiting"}
    BY <2>4
  <2> HIDE DEF C
  <2>6. OperationStatus'
          = [j \in Keys |-> IF j = k THEN OperationStatus'[k]
                            ELSE IF j \in C THEN "lapsed" ELSE OperationStatus[j]]
    BY <1>2, <1>6, <2>3, <2>4 DEF StatusesDecided
  <2>7. Operation!Renew(k)
    BY <1>7, <1>10, <2>2, <2>5, <2>6 DEF Operation!Renew
  <2>8. QED
    BY <1>6, <2>7 DEF Operation!OperationsNext
<1>13. QED
  BY <1>3, <1>11, <1>12

\* What a reply makes of the status of its root.
Onward(a, b) ==
  \/ a = b
  \/ a = "waiting" /\ b \in {"lapsed", "confirmed", "refused"}
  \/ a \in {"waiting", "confirmed"} /\ b \in {"succeeded", "failed"}

LEMMA StatusAdvances ==
  ASSUME NEW e, NEW m, NEW observed, NEW s \in States, NEW x, e.state \in States,
         Advances(e, m, observed, s), x.root = e.root, x.state = s
  PROVE  /\ Onward(RootStatus(e), RootStatus(x))
         /\ s = "cancelled" => /\ RootStatus(e) \in {"waiting", "confirmed"}
                               /\ RootStatus(x) = "succeeded"
<1>1. CASE e.state \in Unconfirmed /\ RootExpired(e, observed)
  BY <1>1 DEF Advances, LateRejection, Unconfirmed, RootStatus, Onward
<1>2. CASE ~(e.state \in Unconfirmed /\ RootExpired(e, observed))
  <2>1. <<e.root.type, e.state, m.type, m.status, s>> \in Transitions
    BY <1>2 DEF Advances
  <2>2. CASE <<e.root.type, e.state, m.type, m.status, s>> \in RequestTransitions
    BY <2>2 DEF RequestTransitions, RootStatus, Onward
  <2>3. CASE <<e.root.type, e.state, m.type, m.status, s>> \in HelloTransitions
    BY <2>3 DEF HelloTransitions, RootStatus, Onward
  <2>4. CASE <<e.root.type, e.state, m.type, m.status, s>> \in ChallengeTransitions
    BY <2>4 DEF ChallengeTransitions, RootStatus, Onward
  <2>5. CASE <<e.root.type, e.state, m.type, m.status, s>> \in CancelTransitions
    BY <2>5 DEF CancelTransitions, RootStatus, Onward
  <2>6. QED
    BY <2>1, <2>2, <2>3, <2>4, <2>5 DEF Transitions
<1>3. QED
  BY <1>1, <1>2

(***************************************************************************)
(* A reply moves the operation of its root on; the acceptance of a cancel  *)
(* ends two operations at once, and they are two, because a key means one  *)
(* thing.                                                                  *)
(***************************************************************************)
LEMMA OperationReply ==
  ASSUME IInv, IInv', OneMeaning, NEW observed \in Times, NEW m \in ReplyMessages,
         ApplyReply(m, observed)
  PROVE  Operation!OperationsNext \/ OperationStatus' = OperationStatus
<1>1. StatusesDecided
  BY StatusFacts
<1>2. StatusesDecided'
  BY StatusFacts, PTL
<1>3. TypeOK /\ RootsKept
  BY ReplyKeepsRoots DEF IInv
<1>4. PICK s \in States, c \in Registered :
        /\ c = m.root
        /\ Advances(entries[c], m, observed, s)
        /\ TargetsOpen(entries[c], s)
        /\ entries'[c] = ReplyApplied(entries[c], m, observed, s)
        /\ \A r \in Registered \ {c} :
             \/ /\ r \in CancelledBy(entries[c], s)
                /\ entries'[r] = CancelledTarget(entries[r], m.root)
             \/ /\ r \notin CancelledBy(entries[c], s)
                /\ entries'[r] = entries[r]
  BY <1>3, ApplyReplyFields
<1>5. PICK k \in Keys : k = entries[c].root.key
  BY <1>1 DEF StatusesDecided
<1>6. Keys' = Keys /\ Registered' = Registered
  BY <1>3 DEF Keys, RootsKept
<1>7. entries'[c].root = entries[c].root /\ entries'[c].state = s
  BY <1>3, <1>4, ReplyAppliedFields DEF TypeOK
<1>8. /\ Onward(RootStatus(entries[c]), RootStatus(entries'[c]))
      /\ s = "cancelled" => /\ RootStatus(entries[c]) \in {"waiting", "confirmed"}
                            /\ RootStatus(entries'[c]) = "succeeded"
  BY <1>3, <1>4, <1>7, StatusAdvances DEF TypeOK, LifecycleEntry
<1>9. ASSUME RootStatus(entries'[c]) # RootStatus(entries[c]),
             \A r \in Registered \ {c} : entries[r].root.key = k =>
               RootStatus(entries'[r]) = RootStatus(entries[r])
      PROVE  /\ OperationStatus[k] = RootStatus(entries[c])
             /\ OperationStatus'[k] = RootStatus(entries'[c])
  <2>1. RootStatus(entries[c]) # "lapsed"
    BY <1>8, <1>9 DEF Onward
  <2>2. OperationStatus[k] = RootStatus(entries[c])
    BY <1>1, <1>5, <2>1 DEF StatusesDecided
  <2>3. CASE RootStatus(entries'[c]) # "lapsed"
    BY <1>2, <1>5, <1>6, <1>7, <2>2, <2>3 DEF StatusesDecided
  <2>4. CASE RootStatus(entries'[c]) = "lapsed"
    <3>1. \A r \in Registered' : entries'[r].root.key = k => RootStatus(entries'[r]) = "lapsed"
      BY <1>1, <1>3, <1>5, <1>6, <1>9, <2>1, <2>4 DEF StatusesDecided, RootsKept
    <3>2. QED
      BY <1>2, <1>5, <1>6, <1>7, <2>2, <2>4, <3>1 DEF StatusesDecided
  <2>5. QED
    BY <2>3, <2>4
<1>10. CASE CancelledBy(entries[c], s) = {}
  <2>1. \A r \in Registered \ {c} : entries'[r] = entries[r]
    BY <1>4, <1>10
  <2>2. \A j \in Keys \ {k} : OperationStatus'[j] = OperationStatus[j]
    <3> SUFFICES ASSUME NEW j \in Keys \ {k} PROVE OperationStatus'[j] = OperationStatus[j]
      OBVIOUS
    <3>1. QED
      BY <1>3, <1>5, <2>1, OperationKept DEF RootsKept
  <2>3. CASE RootStatus(entries'[c]) = RootStatus(entries[c])
    <3>1. OperationStatus'[k] = OperationStatus[k]
      BY <1>3, <2>1, <2>3, OperationKept DEF RootsKept
    <3>2. QED
      BY <1>1, <1>2, <1>6, <2>2, <3>1 DEF StatusesDecided
  <2>4. CASE RootStatus(entries'[c]) # RootStatus(entries[c])
    <3>1. /\ OperationStatus[k] = RootStatus(entries[c])
          /\ OperationStatus'[k] = RootStatus(entries'[c])
      BY <1>9, <2>1, <2>4
    <3>2. OperationStatus' = [OperationStatus EXCEPT ![k] = OperationStatus'[k]]
      BY <1>1, <1>2, <1>6, <2>2 DEF StatusesDecided
    <3>3. Operation!Lapse(k) \/ Operation!Confirm(k) \/ Operation!Close(k)
      BY <1>8, <2>4, <3>1, <3>2
         DEF Onward, Operation!Lapse, Operation!Confirm, Operation!Close
    <3>4. QED
      BY <3>3 DEF Operation!OperationsNext
  <2>5. QED
    BY <2>3, <2>4
<1>11. ASSUME NEW t \in CancelledBy(entries[c], s)
       PROVE  Operation!OperationsNext
  <2>1. /\ t \in Registered /\ t = entries[c].root.target /\ s = "cancelled"
        /\ entries[c].root.type = "cancel" /\ entries[t].root.type = "request"
        /\ ~Terminal(entries[t]) /\ t # c
    BY <1>4, <1>11 DEF CancelledBy, TargetsOpen, IInv, CancelTargets
  <2>2. PICK j \in Keys : j = entries[t].root.key
    BY <1>1, <2>1 DEF StatusesDecided
  <2>3. j # k
    BY <1>3, <1>5, <2>1, <2>2, SemanticsAssumption DEF OneMeaning, TypeOK, LifecycleEntry
  <2>4. \A r \in Registered \ {c, t} : entries'[r] = entries[r]
    BY <1>4, <2>1 DEF CancelledBy
  <2>5. entries'[t].state = "cancelled" /\ entries'[t].root = entries[t].root
    BY <1>3, <1>4, <1>11, <2>1, CancelledTargetFields DEF TypeOK
  <2>6. RootStatus(entries'[t]) = "cancelled"
    BY <2>1, <2>5 DEF RootStatus
  <2>7. /\ OperationStatus[k] \in {"waiting", "confirmed"}
        /\ OperationStatus'[k] = "succeeded"
    BY <1>5, <1>8, <1>9, <2>1, <2>2, <2>3, <2>4
  <2>8. OperationStatus'[j] = "cancelled"
    <3>1. /\ t \in Registered' /\ entries'[t].root.key = j
          /\ RootStatus(entries'[t]) # "lapsed"
      BY <1>6, <2>1, <2>2, <2>5, <2>6
    <3>2. OperationStatus'[entries'[t].root.key] = RootStatus(entries'[t])
      BY <1>2, <3>1 DEF StatusesDecided
    <3>3. QED
      BY <2>6, <3>1, <3>2
  <2>9. OperationStatus[j] \in {"waiting", "lapsed", "confirmed"}
    <3>1. RootStatus(entries[t]) \in {"waiting", "lapsed", "confirmed"}
      BY <1>3, <2>1, RootStatusCases
         DEF TypeOK, LifecycleEntry, Terminal, States, Unconfirmed
    <3>2. CASE RootStatus(entries[t]) # "lapsed"
      BY <1>1, <2>1, <2>2, <3>1, <3>2 DEF StatusesDecided
    <3>3. CASE RootStatus(entries[t]) = "lapsed"
      <4>1. \A r \in Registered : entries[r].root.key = j => RootStatus(entries[r]) = "lapsed"
        <5> SUFFICES ASSUME NEW r \in Registered, entries[r].root.key = j, r # t
                     PROVE  RootStatus(entries[r]) = "lapsed"
          BY <3>3
        <5>1. r # c
          BY <1>5, <2>3
        <5>2. RootStatus(entries'[r]) = "lapsed"
          <6>1. /\ r \in Registered' /\ t \in Registered'
                /\ entries'[r].root.key = entries'[t].root.key
            BY <1>3, <1>6, <2>1, <2>2 DEF RootsKept
          <6>2. \A x, y \in Registered' : x # y /\ entries'[x].root.key = entries'[y].root.key =>
                  RootStatus(entries'[x]) = "lapsed" \/ RootStatus(entries'[y]) = "lapsed"
            BY <1>2 DEF StatusesDecided
          <6>3. RootStatus(entries'[t]) # "lapsed"
            BY <2>6
          <6>4. QED
            BY <6>1, <6>2, <6>3
        <5>3. QED
          BY <2>4, <5>1, <5>2
      <4>2. QED
        BY <1>1, <2>1, <2>2, <4>1 DEF StatusesDecided
    <3>4. QED
      BY <3>2, <3>3
  <2>10. \A i \in Keys \ {j, k} : OperationStatus'[i] = OperationStatus[i]
    <3> SUFFICES ASSUME NEW i \in Keys \ {j, k} PROVE OperationStatus'[i] = OperationStatus[i]
      OBVIOUS
    <3>1. QED
      BY <1>3, <1>5, <2>2, <2>4, OperationKept DEF RootsKept
  <2>11. OperationStatus'
           = [OperationStatus EXCEPT ![k] = "succeeded", ![j] = "cancelled"]
    BY <1>1, <1>2, <1>6, <2>3, <2>7, <2>8, <2>10 DEF StatusesDecided
  <2>12. Operation!Cancel(k, j)
    BY <2>3, <2>7, <2>9, <2>11 DEF Operation!Cancel
  <2>13. QED
    BY <2>12 DEF Operation!OperationsNext
<1>12. QED
  BY <1>10, <1>11

(***************************************************************************)
(* The lifecycle implements Operations: over all its roots, renewals, late *)
(* answers and cancels an operation is taken on at most once, only while   *)
(* it waits, and concluded at most once; a concluded operation is never    *)
(* renewed, and a cancelled one ends with the success of its cancel.       *)
(***************************************************************************)
THEOREM LifecycleImplementsOperations == Spec => OperationOnce
<1>1. Init => Operation!OperationsInit
  <2> SUFFICES ASSUME Init PROVE OperationStatus = [k \in Keys |-> "unused"]
    BY DEF Operation!OperationsInit
  <2>1. \A k \in Keys : RootStatuses(entries, k) = {}
    BY DEF Init, RootStatuses
  <2>2. QED
    BY <2>1 DEF OperationStatus, StatusFrom
<1>2. IInv /\ IInv' /\ OneMeaning /\ [Next]_vars
        => [Operation!OperationsNext]_OperationStatus
  <2>1. ASSUME UNCHANGED vars PROVE OperationStatus' = OperationStatus
    BY <2>1 DEF vars, OperationStatus, Keys
  <2>2. IInv => Registered \subseteq RootIds
    BY DEF IInv, TypeOK
  <2>3. QED
    BY <2>1, <2>2, OperationRegister, OperationReply, OperationMark DEF Next
<1>3. QED
  BY <1>1, <1>2, LifecycleInvariant, KeysMeanOneThing, PTL
     DEF Spec, OperationOnce, Operation!OperationsSpec

(***************************************************************************)
(* No root can reopen a concluded operation: not a renewal, not a late or  *)
(* reordered reply, not the cancel of another root of the same operation.  *)
(***************************************************************************)
THEOREM ConclusionsLast == Spec => []Operation!OperationsTypeOK /\ Operation!ConcludedOnce
<1>1. Operation!OperationsInit => Operation!OperationsTypeOK
  BY DEF Operation!OperationsInit, Operation!OperationsTypeOK
<1>2. ASSUME Operation!OperationsTypeOK, Operation!OperationsNext
      PROVE  Operation!OperationsTypeOK' /\ Operation!LastWord
  <2>1. PICK k \in Keys : \/ Operation!Open(k) \/ Operation!Renew(k) \/ Operation!Lapse(k)
                          \/ Operation!Confirm(k) \/ Operation!Close(k)
                          \/ \E c \in Keys : Operation!Cancel(c, k)
    BY <1>2 DEF Operation!OperationsNext
  <2>2. Keys' = Keys
    BY DEF Keys
  <2>3. CASE Operation!Open(k) \/ Operation!Lapse(k) \/ Operation!Confirm(k) \/ Operation!Close(k)
    BY <1>2, <2>2, <2>3 DEF Operation!OperationsTypeOK, Operation!LastWord, Operation!Conclusions,
       Operation!Open, Operation!Lapse, Operation!Confirm, Operation!Close
  <2>4. CASE Operation!Renew(k)
    BY <1>2, <2>2, <2>4 DEF Operation!OperationsTypeOK, Operation!LastWord, Operation!Conclusions,
       Operation!Renew
  <2>5. CASE \E c \in Keys : Operation!Cancel(c, k)
    BY <1>2, <2>2, <2>5 DEF Operation!OperationsTypeOK, Operation!LastWord, Operation!Conclusions,
       Operation!Cancel
  <2>6. QED
    BY <2>1, <2>3, <2>4, <2>5
<1>3. Operation!OperationsTypeOK /\ UNCHANGED OperationStatus => Operation!OperationsTypeOK'
  <2>1. Keys' = Keys
    BY DEF Keys
  <2>2. QED
    BY <2>1 DEF Operation!OperationsTypeOK, Operation!Conclusions
<1>4. Operation!OperationsTypeOK /\ [Operation!OperationsNext]_OperationStatus
        => Operation!OperationsTypeOK' /\ [Operation!LastWord]_OperationStatus
  BY <1>2, <1>3
<1>5. QED
  BY <1>1, <1>4, LifecycleImplementsOperations, PTL
     DEF OperationOnce, Operation!OperationsSpec, Operation!ConcludedOnce
=============================================================================
