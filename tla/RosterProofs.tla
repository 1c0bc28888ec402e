----------------------------- MODULE RosterProofs -----------------------------
(***************************************************************************)
(* Theorems about Roster, for any participants, sessions, addresses,       *)
(* proposals and senders: selectors are unambiguous, sessions and          *)
(* addresses exclusive, correlations earned, enrollments exact, metadata   *)
(* updates kept, and intents made for the current binding.                 *)
(***************************************************************************)
EXTENDS Roster, TLAPS

TypeInv ==
  /\ roster \in [ParticipantIds -> Participant \cup {None}]
  /\ proposals \in [ProposalIds -> Proposal \cup {None}]
  /\ live \in [Sessions -> [address : Addresses, evidence : Evidence] \cup {None}]
  /\ senders \in [Senders -> Sender]

\* A sender that has captured a binding knows its session, and one that has
\* discovered the route its address.
SenderInv ==
  \A a \in Senders :
    /\ senders[a].phase = "captured" => senders[a].session \in Sessions
    /\ senders[a].phase = "discovered" => senders[a].address \in Addresses \cup Sessions

\* CorrelationEarned for one participant; a route that is only a candidate
\* must already be one of the current binding.
Earned(p, x, known) ==
  /\ x.status = "bound" => x.session # None
  /\ x.route # None /\ x.route.status # "stale" =>
       /\ x.status = "bound" /\ x.route.generation = x.generation
       /\ x.vendor = "codex" => x.route.address = x.session
       /\ x.route.status = "operator_correlated" => Confirmation(p, x) \in known

\* NoLostUpdate for one participant.
UpdatesKept(x) ==
  \A i \in 2..Len(x.metadata) : \A f \in Fields \ x.metadata[i].given :
    x.metadata[i].values[f] = x.metadata[i - 1].values[f]

ParticipantsInv ==
  /\ SelectorsUnambiguous
  /\ OneParticipantPerSession
  /\ \A p \in Added : Earned(p, roster[p], confirmed) /\ UpdatesKept(roster[p])

RInv == TypeInv /\ SenderInv /\ ParticipantsInv /\ EnrollmentExact

-----------------------------------------------------------------------------
\* What the operations make of a participant, field by field.
LEMMA ParticipantFields ==
  ASSUME NEW x \in Participant
  PROVE  /\ x = [name |-> x.name, vendor |-> x.vendor, status |-> x.status,
                 session |-> x.session, generation |-> x.generation, route |-> x.route,
                 metadata |-> x.metadata]
         /\ x.name \in Names /\ x.vendor \in Vendors /\ x.status \in Statuses
         /\ x.session \in Sessions \cup {None} /\ x.generation \in Nat
         /\ x.route \in Route \cup {None} /\ x.metadata \in Seq(Version)
BY DEF Participant

LEMMA NewFields ==
  ASSUME NEW name \in Names, NEW vendor \in Vendors, NEW details \in Details
  PROVE  LET y == New(name, vendor, details) IN
           /\ y \in Participant /\ UpdatesKept(y)
           /\ y.name = name /\ y.vendor = vendor /\ y.status = "unbound"
           /\ y.session = None /\ y.route = None /\ y.generation = 0
<1>1. First(details) \in Seq(Version) /\ Len(First(details)) = 1
  BY RosterAssumption DEF First, Version, Fields
<1>2. New(name, vendor, details).metadata = First(details)
  BY DEF New
<1>3. UpdatesKept(New(name, vendor, details))
  <2>1. 2..Len(New(name, vendor, details).metadata) = {}
    BY <1>1, <1>2
  <2>2. QED
    BY <2>1 DEF UpdatesKept
<1>4. QED
  BY <1>1, <1>3 DEF New, Participant, Statuses

LEMMA ReboundTyped ==
  ASSUME NEW x \in Participant, NEW s \in Sessions
  PROVE  Rebound(x, s) \in Participant
<1>1. "bound" \in Statuses /\ x.generation + 1 \in Nat
  BY DEF Statuses, Participant
<1>2. QED
  BY <1>1 DEF Rebound, Participant

LEMMA ReboundFields ==
  ASSUME NEW x \in Participant, NEW s \in Sessions
  PROVE  LET y == Rebound(x, s) IN
           /\ y \in Participant
           /\ y.name = x.name /\ y.vendor = x.vendor /\ y.status = "bound"
           /\ y.session = s /\ y.route = None /\ y.generation = x.generation + 1
           /\ y.metadata = x.metadata
<1>1. Rebound(x, s).status = "bound"
  BY DEF Rebound, Participant
<1>2. QED
  BY <1>1, ReboundTyped DEF Rebound, Participant

LEMMA ObservedFields ==
  ASSUME NEW x \in Participant, NEW address \in Addresses \cup Sessions,
         NEW evidence \in Evidence \cup {None},
         NEW unconfirmed \in {"candidate", "tool_correlated"}
  PROVE  LET y == Observed(x, address, evidence, unconfirmed) IN
           /\ y \in Participant
           /\ y.name = x.name /\ y.vendor = x.vendor /\ y.status = x.status
           /\ y.session = x.session /\ y.generation = x.generation
           /\ y.metadata = x.metadata
           /\ y.route \in Route
           /\ y.route.address = address /\ y.route.evidence = evidence
           /\ y.route.generation = x.generation
           /\ y.route.status \in {unconfirmed, "operator_correlated"}
           /\ y.route.status = "operator_correlated" => Preserves(x, address, evidence)
<1> DEFINE status == ObservedStatus(x, address, evidence, unconfirmed)
           route == [address |-> address, evidence |-> evidence,
                     generation |-> x.generation, status |-> status]
<1>1. /\ status \in {unconfirmed, "operator_correlated"} /\ status \in RouteStatuses
      /\ status = "operator_correlated" => Preserves(x, address, evidence)
  BY DEF ObservedStatus, RouteStatuses
<1> HIDE DEF status
<1>2. /\ route \in Route /\ route.address = address /\ route.evidence = evidence
      /\ route.generation = x.generation /\ route.status = status
  BY <1>1, ParticipantFields DEF Route
<1>3. Observed(x, address, evidence, unconfirmed) = [x EXCEPT !.route = route]
  BY DEF Observed, status
<1> HIDE DEF route
<1>4. Observed(x, address, evidence, unconfirmed) =
        [name |-> x.name, vendor |-> x.vendor, status |-> x.status,
         session |-> x.session, generation |-> x.generation, route |-> route,
         metadata |-> x.metadata]
  BY <1>3, ParticipantFields
<1>5. QED
  BY <1>1, <1>2, <1>4, ParticipantFields DEF Participant

LEMMA ConfirmedFields ==
  ASSUME NEW x \in Participant, x.route # None
  PROVE  LET y == Confirmed(x) IN
           /\ y \in Participant
           /\ y.name = x.name /\ y.vendor = x.vendor /\ y.status = x.status
           /\ y.session = x.session /\ y.generation = x.generation
           /\ y.metadata = x.metadata
           /\ y.route \in Route
           /\ y.route.address = x.route.address /\ y.route.evidence = x.route.evidence
           /\ y.route.generation = x.route.generation
           /\ y.route.status = "operator_correlated"
<1>1. x.route \in Route
  BY ParticipantFields
<1> DEFINE route == [x.route EXCEPT !.status = "operator_correlated"]
<1>2. /\ route \in Route /\ route.address = x.route.address
      /\ route.evidence = x.route.evidence /\ route.generation = x.route.generation
      /\ route.status = "operator_correlated"
  BY <1>1 DEF Route, RouteStatuses
<1>3. Confirmed(x) = [x EXCEPT !.route = route]
  BY ParticipantFields DEF Confirmed
<1> HIDE DEF route
<1>4. Confirmed(x) =
        [name |-> x.name, vendor |-> x.vendor, status |-> x.status,
         session |-> x.session, generation |-> x.generation, route |-> route,
         metadata |-> x.metadata]
  BY <1>3, ParticipantFields
<1>5. QED
  BY <1>2, <1>4, ParticipantFields DEF Participant

\* Invalidated, and with another status retired.
LEMMA InvalidatedFields ==
  ASSUME NEW x \in Participant
  PROVE  LET y == Invalidated(x) IN
           /\ y \in Participant
           /\ y.name = x.name /\ y.vendor = x.vendor /\ y.status = "stale"
           /\ y.session = x.session /\ y.metadata = x.metadata
           /\ y.generation = x.generation
           /\ y.route # None => /\ x.route # None /\ y.route.status = "stale"
                                /\ y.route.address = x.route.address
<1> DEFINE route == IF x.route = None THEN None ELSE [x.route EXCEPT !.status = "stale"]
<1>1. /\ route \in Route \cup {None}
      /\ route # None => /\ x.route # None /\ route.status = "stale"
                         /\ route.address = x.route.address
  BY ParticipantFields DEF Route, RouteStatuses
<1>2. Invalidated(x) = [x EXCEPT !.status = "stale", !.route = route]
  BY ParticipantFields DEF Invalidated
<1> HIDE DEF route
<1>3. "stale" \in Statuses
  BY DEF Statuses
<1>4. Invalidated(x) \in Participant
  BY <1>1, <1>2, <1>3 DEF Participant
<1>5. QED
  BY <1>1, <1>2, <1>4 DEF Participant

LEMMA WithdrawnFields ==
  ASSUME NEW x \in Participant
  PROVE  \A y \in {Invalidated(x), Retired(x)} :
           /\ y \in Participant
           /\ y.name = x.name /\ y.vendor = x.vendor /\ y.status \in {"stale", "retired"}
           /\ y.session = x.session /\ y.metadata = x.metadata
           /\ y.generation = x.generation
           /\ y.route # None => /\ x.route # None /\ y.route.status = "stale"
                                /\ y.route.address = x.route.address
<1> DEFINE z == Invalidated(x)
<1>1. /\ z \in Participant
      /\ z.name = x.name /\ z.vendor = x.vendor /\ z.status = "stale"
      /\ z.session = x.session /\ z.metadata = x.metadata
      /\ z.generation = x.generation
      /\ z.route # None => /\ x.route # None /\ z.route.status = "stale"
                           /\ z.route.address = x.route.address
  BY InvalidatedFields
<1> HIDE DEF z
<1>2. Retired(x) = [z EXCEPT !.status = "retired"]
  BY DEF Retired, z
<1>3. "retired" \in Statuses
  BY DEF Statuses
<1>4. Retired(x) \in Participant
  BY <1>1, <1>2, <1>3 DEF Participant
<1>5. /\ Retired(x).name = x.name /\ Retired(x).vendor = x.vendor
      /\ Retired(x).status = "retired" /\ Retired(x).session = x.session
      /\ Retired(x).metadata = x.metadata /\ Retired(x).route = z.route
      /\ Retired(x).generation = x.generation
  BY <1>1, <1>2 DEF Participant
<1>6. QED
  BY <1>1, <1>4, <1>5 DEF z

\* An update appends a version that differs in the fields it was given.
LEMMA UpdatedFields ==
  ASSUME NEW x \in Participant, UpdatesKept(x), NEW change \in Changes,
         Len(x.metadata) > 0,
         NEW filled, filled = [f \in Fields |-> IF f \in DOMAIN change THEN change[f]
                                 ELSE x.metadata[Len(x.metadata)].values[f]]
  PROVE  LET y == [x EXCEPT !.metadata = Append(@, [given |-> DOMAIN change,
                                                    values |-> filled])] IN
           /\ y \in Participant /\ UpdatesKept(y)
           /\ y.name = x.name /\ y.vendor = x.vendor /\ y.status = x.status
           /\ y.session = x.session /\ y.generation = x.generation /\ y.route = x.route
<1> DEFINE n == Len(x.metadata)
           v == [given |-> DOMAIN change, values |-> filled]
           t == Append(x.metadata, v)
           y == [x EXCEPT !.metadata = Append(@, v)]
<1>1. x.metadata \in Seq(Version) /\ n \in Nat /\ x.metadata[n] \in Version
  <2>1. x.metadata \in Seq(Version) /\ n \in Nat
    BY ParticipantFields
  <2>2. QED
    BY <2>1
<1>2. DOMAIN change \in SUBSET Fields /\ \A f \in DOMAIN change : change[f] \in Values \cup {None}
  <2>1. PICK given \in SUBSET Fields \ {{}} : change \in [given -> Values \cup {None}]
    BY DEF Changes
  <2>2. QED
    BY <2>1
<1>3. filled \in [Fields -> Values \cup {None}]
  BY <1>1, <1>2 DEF Version
<1>4. v \in Version /\ v.given = DOMAIN change /\ v.values = filled
  BY <1>2, <1>3 DEF Version
<1>5. \A f \in Fields \ v.given : v.values[f] = x.metadata[n].values[f]
  BY <1>4
<1> HIDE DEF v
<1>6. /\ t \in Seq(Version) /\ Len(t) = n + 1 /\ t[n + 1] = v
      /\ \A i \in 1..n : t[i] = x.metadata[i]
  BY <1>1, <1>4
<1> HIDE DEF t
<1>7. y = [x EXCEPT !.metadata = t]
  BY ParticipantFields DEF t
<1>8. y \in Participant
  BY <1>6, <1>7 DEF Participant
<1>9. /\ y.metadata = t
      /\ y.name = x.name /\ y.vendor = x.vendor /\ y.status = x.status
      /\ y.session = x.session /\ y.generation = x.generation /\ y.route = x.route
  BY <1>7 DEF Participant
<1>10. ASSUME NEW i \in 2..(n + 1), NEW f \in Fields \ t[i].given
       PROVE  t[i].values[f] = t[i - 1].values[f]
  <2>1. CASE i = n + 1
    BY <1>1, <1>5, <1>6, <2>1
  <2>2. CASE i \in 2..n
    <3>1. t[i] = x.metadata[i] /\ t[i - 1] = x.metadata[i - 1]
      BY <1>1, <1>6, <2>2
    <3>2. QED
      BY <2>2, <3>1 DEF UpdatesKept
  <2>3. QED
    BY <1>1, <2>1, <2>2
<1>11. UpdatesKept(y)
  BY <1>6, <1>9, <1>10 DEF UpdatesKept
<1> HIDE DEF y
<1>12. QED
  BY <1>8, <1>9, <1>11 DEF y, v
-----------------------------------------------------------------------------
LEMMA AddedParticipants ==
  ASSUME TypeInv
  PROVE  /\ Added \subseteq ParticipantIds
         /\ \A p \in Added : roster[p] \in Participant
         /\ Active \subseteq Added
BY DEF TypeInv, Added, Active

(***************************************************************************)
(* Participant p becomes y.  It may keep its name or take a free one, and  *)
(* it may hold the session and the address that it held or available ones. *)
(***************************************************************************)
KeepsOrTakes(p, y) ==
  \/ y.status = "retired"
  \/ /\ \/ y.session = None
        \/ p \in Active /\ y.vendor = roster[p].vendor /\ y.session = roster[p].session
        \/ SessionAvailable(p, y.vendor, y.session)
     /\ \/ y.route = None
        \/ /\ p \in Active /\ y.vendor = roster[p].vendor
           /\ roster[p].route # None /\ y.route.address = roster[p].route.address
        \/ RouteAvailable(p, y.route.address)

LEMMA ParticipantChanges ==
  ASSUME TypeInv, NEW p \in ParticipantIds, NEW y \in Participant,
         roster' = [roster EXCEPT ![p] = y]
  PROVE  /\ roster' \in [ParticipantIds -> Participant \cup {None}]
         /\ roster'[p] = y
         /\ \A q \in ParticipantIds \ {p} : roster'[q] = roster[q]
         /\ Added' = Added \cup {p}
         /\ \A q \in Active' \ {p} : q \in Active
         /\ p \in Active' => y.status # "retired"
<1>1. /\ roster' \in [ParticipantIds -> Participant \cup {None}]
      /\ roster'[p] = y
      /\ \A q \in ParticipantIds \ {p} : roster'[q] = roster[q]
  BY DEF TypeInv
<1>2. Added' = Added \cup {p}
  BY <1>1, NoneAssumption DEF Added
<1>3. \A q \in Active' \ {p} : q \in Active
  BY <1>1, <1>2, AddedParticipants DEF Active
<1>4. p \in Active' => y.status # "retired"
  BY <1>1 DEF Active
<1>5. QED
  BY <1>1, <1>2, <1>3, <1>4

LEMMA ParticipantStep ==
  ASSUME TypeInv, ParticipantsInv, NEW p \in ParticipantIds, NEW y \in Participant,
         roster' = [roster EXCEPT ![p] = y],
         confirmed \subseteq confirmed',
         (p \in Added /\ y.name = roster[p].name) \/ NameFree(p, y.name),
         KeepsOrTakes(p, y),
         Earned(p, y, confirmed'), UpdatesKept(y)
  PROVE  ParticipantsInv'
<1>1. /\ roster'[p] = y
      /\ \A q \in ParticipantIds \ {p} : roster'[q] = roster[q]
      /\ Added' = Added \cup {p}
      /\ \A q \in Active' \ {p} : q \in Active
      /\ p \in Active' => y.status # "retired"
  BY ParticipantChanges
<1>2. Active' \subseteq Added' /\ Added \subseteq ParticipantIds /\ Active \subseteq Added
  BY <1>1 DEF Active, Added
<1>3. SelectorsUnambiguous'
  <2>1. \A q \in Added \ {p} : y.name # roster[q].name /\ y.name # q /\ roster[q].name # p
    BY DEF ParticipantsInv, SelectorsUnambiguous, NameFree
  <2>2. \A q, r \in Added : q # r => roster[q].name # roster[r].name /\ roster[q].name # r
    BY DEF ParticipantsInv, SelectorsUnambiguous
  <2>3. \A q, r \in Added' : q # r => roster'[q].name # roster'[r].name /\ roster'[q].name # r
    BY <1>1, <1>2, <2>1, <2>2
  <2>4. QED
    BY <2>3 DEF SelectorsUnambiguous
<1>4. OneParticipantPerSession'
  <2> DEFINE Sessions2(x, z) == x.session # None /\ x.vendor = z.vendor =>
                                  x.session # z.session
             Routes2(x, z) == x.route # None /\ z.route # None /\ x.vendor = z.vendor =>
                                x.route.address # z.route.address
  <2>1. \A q, r \in Active : q # r =>
          Sessions2(roster[q], roster[r]) /\ Routes2(roster[q], roster[r])
    BY DEF ParticipantsInv, OneParticipantPerSession
  <2>2. ASSUME p \in Active', NEW q \in Active \ {p}
        PROVE  Sessions2(y, roster[q]) /\ Sessions2(roster[q], y)
    BY <1>1, <2>1, <2>2 DEF KeepsOrTakes, SessionAvailable
  <2>3. ASSUME p \in Active', NEW q \in Active \ {p}
        PROVE  Routes2(y, roster[q]) /\ Routes2(roster[q], y)
    BY <1>1, <2>1, <2>3 DEF KeepsOrTakes, RouteAvailable
  <2>4. ASSUME NEW q \in Active', NEW r \in Active', q # r
        PROVE  Sessions2(roster'[q], roster'[r]) /\ Routes2(roster'[q], roster'[r])
    <3>1. CASE q = p
      BY <1>1, <1>2, <2>2, <2>3, <2>4, <3>1
    <3>2. CASE r = p
      BY <1>1, <1>2, <2>2, <2>3, <2>4, <3>2
    <3>3. CASE q # p /\ r # p
      BY <1>1, <1>2, <2>1, <2>4, <3>3
    <3>4. QED
      BY <3>1, <3>2, <3>3
  <2>5. QED
    BY <2>4 DEF OneParticipantPerSession
<1>5. ASSUME NEW q \in Added'
      PROVE  (Earned(q, roster[q], confirmed) /\ UpdatesKept(roster[q]))'
  <2>1. CASE q = p
    BY <1>1, <2>1 DEF Earned, UpdatesKept
  <2>2. CASE q # p
    <3>1. roster'[q] = roster[q] /\ Earned(q, roster[q], confirmed) /\ UpdatesKept(roster[q])
      BY <1>1, <1>2, <2>2 DEF ParticipantsInv
    <3>2. Earned(q, roster[q], confirmed)'
      BY <3>1 DEF Earned, Confirmation
    <3>3. UpdatesKept(roster[q])'
      BY <3>1 DEF UpdatesKept
    <3>4. QED
      BY <3>2, <3>3
  <2>3. QED
    BY <2>1, <2>2
<1>6. QED
  BY <1>3, <1>4, <1>5 DEF ParticipantsInv

\* A change that keeps the names and vendors of those added keeps what was
\* enrolled.
LEMMA EnrollmentStep ==
  ASSUME TypeInv, EnrollmentExact, UNCHANGED proposals,
         NEW p \in ParticipantIds, NEW y \in Participant,
         roster' = [roster EXCEPT ![p] = y],
         p \in Added => y.name = roster[p].name /\ y.vendor = roster[p].vendor
  PROVE  EnrollmentExact'
<1>1. Made' = Made
  BY DEF Made
<1>2. \A e \in Made : proposals[e].status = "confirmed" =>
        /\ proposals[e].participant \in Added'
        /\ roster'[proposals[e].participant].name = proposals[e].name
        /\ roster'[proposals[e].participant].vendor = proposals[e].vendor
  <2>1. /\ roster'[p] = y /\ Added' = Added \cup {p} /\ Added \subseteq ParticipantIds
        /\ \A q \in ParticipantIds \ {p} : roster'[q] = roster[q]
    BY ParticipantChanges, AddedParticipants
  <2>2. \A q \in Added : /\ q \in Added' /\ roster'[q].name = roster[q].name
                         /\ roster'[q].vendor = roster[q].vendor
    BY <2>1
  <2>3. QED
    BY <2>2 DEF EnrollmentExact
<1>3. QED
  BY <1>1, <1>2 DEF EnrollmentExact

-----------------------------------------------------------------------------
\* The steps, one lemma for the actions that change a participant alone, one
\* for each of the others.
OthersKept == UNCHANGED <<proposals, live, senders>>

LEMMA OperatorStep ==
  ASSUME RInv, OthersKept, NEW p \in ParticipantIds, NEW y \in Participant,
         roster' = [roster EXCEPT ![p] = y],
         confirmed \subseteq confirmed',
         \/ p \in Added /\ y.name = roster[p].name /\ y.vendor = roster[p].vendor
         \/ p \notin Added /\ NameFree(p, y.name),
         KeepsOrTakes(p, y),
         Earned(p, y, confirmed'), UpdatesKept(y)
  PROVE  RInv'
<1>1. TypeInv /\ SenderInv /\ ParticipantsInv /\ EnrollmentExact
  BY DEF RInv
<1>2. TypeInv'
  BY <1>1, ParticipantChanges DEF TypeInv, OthersKept
<1>3. SenderInv'
  BY <1>1 DEF SenderInv, OthersKept
<1>4. ParticipantsInv'
  BY <1>1, ParticipantStep
<1>5. EnrollmentExact'
  BY <1>1, EnrollmentStep DEF OthersKept
<1>6. QED
  BY <1>2, <1>3, <1>4, <1>5 DEF RInv

\* Of an active participant.
LEMMA ActiveParticipant ==
  ASSUME RInv, NEW p \in Active
  PROVE  /\ p \in ParticipantIds /\ p \in Added /\ roster[p] # None
         /\ roster[p] \in Participant /\ roster[p].status # "retired"
         /\ roster[p].name \in Names /\ roster[p].vendor \in Vendors
         /\ roster[p].generation \in Nat /\ roster[p].route \in Route \cup {None}
         /\ roster[p].session \in Sessions \cup {None}
         /\ Earned(p, roster[p], confirmed) /\ UpdatesKept(roster[p])
<1>1. p \in Added /\ p \in ParticipantIds /\ roster[p] # None /\ roster[p] \in Participant
  BY AddedParticipants DEF RInv, Added
<1>2. roster[p].status # "retired"
  BY DEF Active
<1>3. Earned(p, roster[p], confirmed) /\ UpdatesKept(roster[p])
  BY <1>1 DEF RInv, ParticipantsInv
<1>4. QED
  BY <1>1, <1>2, <1>3, ParticipantFields

LEMMA SomeValues ==
  /\ \A s \in Sessions : s # None
  /\ \A a \in Addresses : a # None
BY RosterAssumption

LEMMA AddStep ==
  ASSUME RInv, NEW p \in ParticipantIds, NEW name \in Names, NEW vendor \in Vendors,
         NEW details \in Details, Add(p, name, vendor, details)
  PROVE  RInv'
<1> DEFINE y == New(name, vendor, details)
<1>1. /\ y \in Participant /\ UpdatesKept(y) /\ y.name = name /\ y.status = "unbound"
      /\ y.session = None /\ y.route = None
  BY NewFields
<1> HIDE DEF y
<1>2. /\ roster' = [roster EXCEPT ![p] = y] /\ confirmed' = confirmed /\ OthersKept
      /\ p \notin Added /\ NameFree(p, y.name)
  BY <1>1 DEF Add, OthersKept, Added, y
<1>3. KeepsOrTakes(p, y) /\ Earned(p, y, confirmed')
  BY <1>1 DEF KeepsOrTakes, Earned
<1>4. QED
  BY <1>1, <1>2, <1>3, OperatorStep

LEMMA BindStep ==
  ASSUME RInv, NEW p \in ParticipantIds, NEW s \in Sessions, Bind(p, s)
  PROVE  RInv'
<1>1. p \in Active /\ SessionAvailable(p, roster[p].vendor, s)
  BY DEF Bind, Bindable
<1> DEFINE x == roster[p]
           y == Rebound(x, s)
<1>2. x \in Participant /\ p \in Added /\ UpdatesKept(x)
  BY <1>1, ActiveParticipant
<1>3. /\ y \in Participant /\ y.name = x.name /\ y.vendor = x.vendor
      /\ y.session = s /\ y.route = None /\ y.metadata = x.metadata
  BY <1>2, ReboundFields
<1>4. roster' = [roster EXCEPT ![p] = y] /\ confirmed' = confirmed /\ OthersKept
  BY DEF Bind, OthersKept
<1> HIDE DEF y
<1>5. KeepsOrTakes(p, y)
  BY <1>1, <1>3 DEF KeepsOrTakes
<1>6. Earned(p, y, confirmed')
  BY <1>3, SomeValues DEF Earned
<1>7. UpdatesKept(y)
  BY <1>2, <1>3 DEF UpdatesKept
<1>8. QED
  BY <1>2, <1>3, <1>4, <1>5, <1>6, <1>7, OperatorStep

\* A Codex session bound and observed, confirmed or not.
LEMMA CodexRouteFields ==
  ASSUME NEW x \in Participant, NEW s \in Sessions, NEW p, NEW known
  PROVE  LET bound == Rebound(x, s)
             seen == Observed(bound, s, None, "candidate")
         IN \A y \in {seen, Confirmed(seen)} :
              /\ y \in Participant /\ y.name = x.name /\ y.vendor = x.vendor
              /\ y.status = "bound" /\ y.session = s /\ y.metadata = x.metadata
              /\ y.generation = x.generation + 1
              /\ y.route \in Route /\ y.route # None /\ y.route.address = s
              /\ y = seen \/ Confirmation(p, y) \in known => Earned(p, y, known)
<1> DEFINE bound == Rebound(x, s)
           seen == Observed(bound, s, None, "candidate")
           routed == Confirmed(seen)
<1>1. /\ bound \in Participant /\ bound.name = x.name /\ bound.vendor = x.vendor
      /\ bound.status = "bound" /\ bound.session = s /\ bound.route = None
      /\ bound.metadata = x.metadata /\ bound.generation = x.generation + 1
  BY ReboundFields
<1> HIDE DEF bound
<1>2. /\ seen \in Participant /\ seen.name = x.name /\ seen.vendor = x.vendor
      /\ seen.status = "bound" /\ seen.session = s /\ seen.metadata = x.metadata
      /\ seen.generation = bound.generation
      /\ seen.route \in Route /\ seen.route.address = s
      /\ seen.route.generation = bound.generation
      /\ seen.route.status = "candidate"
  BY <1>1, ObservedFields DEF Preserves
<1> HIDE DEF seen
<1>3. None \notin Route
  BY NoneAssumption
<1>4. /\ routed \in Participant /\ routed.name = x.name /\ routed.vendor = x.vendor
      /\ routed.status = "bound" /\ routed.session = s /\ routed.metadata = x.metadata
      /\ routed.generation = bound.generation
      /\ routed.route \in Route /\ routed.route.address = s
      /\ routed.route.generation = bound.generation
  BY <1>2, <1>3, ConfirmedFields
<1> HIDE DEF routed
<1>5. Earned(p, seen, known)
  BY <1>2, SomeValues DEF Earned
<1>6. Confirmation(p, routed) \in known => Earned(p, routed, known)
  BY <1>4, SomeValues DEF Earned
<1>7. seen.generation = x.generation + 1 /\ routed.generation = x.generation + 1
  BY <1>1, <1>2, <1>4
<1>8. \A y \in {seen, routed} :
        /\ y \in Participant /\ y.name = x.name /\ y.vendor = x.vendor
        /\ y.status = "bound" /\ y.session = s /\ y.metadata = x.metadata
        /\ y.generation = x.generation + 1
        /\ y.route \in Route /\ y.route # None /\ y.route.address = s
        /\ y = seen \/ Confirmation(p, y) \in known => Earned(p, y, known)
  BY <1>2, <1>3, <1>4, <1>5, <1>6, <1>7
<1>9. QED
  BY <1>8 DEF bound, seen, routed

LEMMA BindCodexStep ==
  ASSUME RInv, NEW p \in ParticipantIds, NEW s \in Sessions, BindCodex(p, s)
  PROVE  RInv'
<1> DEFINE x == roster[p]
           bound == Rebound(x, s)
           seen == Observed(bound, s, None, "candidate")
           routed == Confirmed(seen)
<1>1. p \in Active /\ SessionAvailable(p, x.vendor, s) /\ OthersKept
  BY DEF BindCodex, Bindable, OthersKept
<1>2. x \in Participant /\ p \in Added /\ UpdatesKept(x)
  BY <1>1, ActiveParticipant
<1>3. CASE roster' = [roster EXCEPT ![p] = bound] /\ UNCHANGED confirmed
  <2>1. /\ bound \in Participant /\ bound.name = x.name /\ bound.vendor = x.vendor
        /\ bound.session = s /\ bound.route = None /\ bound.metadata = x.metadata
    BY <1>2, ReboundFields
  <2> HIDE DEF bound
  <2>2. KeepsOrTakes(p, bound)
    BY <1>1, <2>1 DEF KeepsOrTakes
  <2>3. Earned(p, bound, confirmed') /\ UpdatesKept(bound)
    BY <1>2, <2>1, SomeValues DEF Earned, UpdatesKept
  <2>4. QED
    BY <1>1, <1>2, <1>3, <2>1, <2>2, <2>3, OperatorStep
<1>4. ASSUME RouteAvailable(p, s), NEW y \in {seen, routed},
             roster' = [roster EXCEPT ![p] = y], confirmed \subseteq confirmed',
             y = seen \/ Confirmation(p, y) \in confirmed'
      PROVE  RInv'
  <2>1. /\ y \in Participant /\ y.name = x.name /\ y.vendor = x.vendor
        /\ y.session = s /\ y.metadata = x.metadata /\ y.route.address = s
    BY <1>2, CodexRouteFields
  <2>2. Earned(p, y, confirmed')
    BY <1>2, <1>4, CodexRouteFields
  <2>3. KeepsOrTakes(p, y)
    BY <1>1, <1>4, <2>1 DEF KeepsOrTakes
  <2>4. UpdatesKept(y)
    BY <1>2, <2>1 DEF UpdatesKept
  <2>5. QED
    BY <1>1, <1>2, <1>4, <2>1, <2>2, <2>3, <2>4, OperatorStep
<1>5. CASE /\ RouteAvailable(p, s)
           /\ roster' = [roster EXCEPT ![p] = seen] /\ UNCHANGED confirmed
  BY <1>4, <1>5
<1>6. CASE /\ RouteAvailable(p, s)
           /\ roster' = [roster EXCEPT ![p] = routed]
           /\ confirmed' = confirmed \cup {Confirmation(p, routed)}
  BY <1>4, <1>6
<1>7. QED
  BY <1>3, <1>5, <1>6 DEF BindCodex

LEMMA ConfirmRouteStep ==
  ASSUME RInv, NEW p \in ParticipantIds, NEW expected, ConfirmRoute(p, expected)
  PROVE  RInv'
<1> DEFINE x == roster[p]
           y == Confirmed(x)
<1>1. /\ p \in Active /\ x.route # None /\ OthersKept
      /\ x.route.status \in {"candidate", "tool_correlated"}
      /\ roster' = [roster EXCEPT ![p] = y]
      /\ confirmed' = confirmed \cup {Confirmation(p, x)}
  BY DEF ConfirmRoute, OthersKept
<1>2. x \in Participant /\ p \in Added /\ UpdatesKept(x) /\ Earned(p, x, confirmed)
  BY <1>1, ActiveParticipant
<1>3. /\ y \in Participant /\ y.name = x.name /\ y.vendor = x.vendor /\ y.status = x.status
      /\ y.session = x.session /\ y.generation = x.generation /\ y.metadata = x.metadata
      /\ y.route \in Route
      /\ y.route.address = x.route.address /\ y.route.evidence = x.route.evidence
      /\ y.route.generation = x.route.generation
  BY <1>1, <1>2, ConfirmedFields
<1> HIDE DEF y
<1>4. KeepsOrTakes(p, y)
  BY <1>1, <1>3 DEF KeepsOrTakes
<1>5. Confirmation(p, y) \in confirmed'
  BY <1>1, <1>3 DEF Confirmation
<1>6. Earned(p, y, confirmed')
  BY <1>1, <1>2, <1>3, <1>5 DEF Earned
<1>7. UpdatesKept(y)
  BY <1>2, <1>3 DEF UpdatesKept
<1>8. QED
  BY <1>1, <1>2, <1>3, <1>4, <1>6, <1>7, OperatorStep

LEMMA UpdateMetadataStep ==
  ASSUME RInv, NEW p \in ParticipantIds, NEW change \in Changes,
         NEW expected \in 1..MaxRevision, NEW read \in 1..MaxRevision,
         UpdateMetadata(p, change, expected, read)
  PROVE  RInv'
<1> DEFINE x == roster[p]
           filled == [f \in Fields |-> IF f \in DOMAIN change THEN change[f]
                                       ELSE x.metadata[read].values[f]]
           y == [x EXCEPT !.metadata = Append(@, [given |-> DOMAIN change,
                                                  values |-> filled])]
<1>1. /\ p \in Active /\ expected <= read /\ read <= Len(x.metadata)
      /\ expected = Len(x.metadata)
      /\ roster' = [roster EXCEPT ![p].metadata =
           Append(@, [given |-> DOMAIN change, values |-> filled])]
      /\ confirmed' = confirmed /\ OthersKept
  BY DEF UpdateMetadata, RevisionExpected, OthersKept
<1>2. x \in Participant /\ p \in Added /\ UpdatesKept(x) /\ Earned(p, x, confirmed)
  BY <1>1, ActiveParticipant
<1>3. read = Len(x.metadata) /\ Len(x.metadata) > 0
  BY <1>1
<1>4. /\ y \in Participant /\ UpdatesKept(y)
      /\ y.name = x.name /\ y.vendor = x.vendor /\ y.status = x.status
      /\ y.session = x.session /\ y.generation = x.generation /\ y.route = x.route
  <2>1. filled = [f \in Fields |-> IF f \in DOMAIN change THEN change[f]
                                   ELSE x.metadata[Len(x.metadata)].values[f]]
    BY <1>3
  <2> HIDE DEF filled, x
  <2>2. QED
    BY <1>2, <1>3, <2>1, UpdatedFields
<1>5. roster' = [roster EXCEPT ![p] = y]
  BY <1>1 DEF TypeInv, RInv
<1> HIDE DEF y
<1>6. KeepsOrTakes(p, y)
  BY <1>1, <1>4 DEF KeepsOrTakes
<1>7. Earned(p, y, confirmed')
  BY <1>1, <1>2, <1>4 DEF Earned, Confirmation
<1>8. QED
  BY <1>1, <1>2, <1>4, <1>5, <1>6, <1>7, OperatorStep

LEMMA WithdrawStep ==
  ASSUME RInv, NEW p \in ParticipantIds, Invalidate(p) \/ Retire(p)
  PROVE  RInv'
<1> DEFINE x == roster[p]
<1>1. p \in Active /\ confirmed' = confirmed /\ OthersKept
  BY DEF Invalidate, Retire, OthersKept
<1>2. x \in Participant /\ p \in Added /\ UpdatesKept(x)
  BY <1>1, ActiveParticipant
<1>3. PICK y \in {Invalidated(x), Retired(x)} : roster' = [roster EXCEPT ![p] = y]
  BY DEF Invalidate, Retire
<1>4. /\ y \in Participant
      /\ y.name = x.name /\ y.vendor = x.vendor /\ y.status \in {"stale", "retired"}
      /\ y.session = x.session /\ y.metadata = x.metadata
      /\ y.route # None => /\ x.route # None /\ y.route.status = "stale"
                           /\ y.route.address = x.route.address
  BY <1>2, WithdrawnFields
<1>5. KeepsOrTakes(p, y)
  BY <1>1, <1>4 DEF KeepsOrTakes
<1>6. Earned(p, y, confirmed')
  BY <1>4 DEF Earned
<1>7. UpdatesKept(y)
  BY <1>2, <1>4 DEF UpdatesKept
<1>8. QED
  BY <1>1, <1>2, <1>3, <1>4, <1>5, <1>6, <1>7, OperatorStep

-----------------------------------------------------------------------------
\* A proposal supersedes those pending for its session.
LEMMA ProposeStep ==
  ASSUME RInv, NEW e \in ProposalIds, NEW p \in ParticipantIds, NEW name \in Names,
         NEW vendor \in Vendors, NEW s \in Sessions, NEW details \in Details,
         Propose(e, p, name, vendor, s, details)
  PROVE  RInv'
<1> DEFINE x == [participant |-> p, name |-> name, vendor |-> vendor, session |-> s,
                 details |-> details, status |-> "pending", superseded_by |-> None]
           left == SupersededBy(e, vendor, s)
<1>1. /\ proposals[e] = None /\ roster[p] = None
      /\ \A f \in Made : proposals[f].participant # p
      /\ proposals' = [left EXCEPT ![e] = x]
      /\ UNCHANGED <<roster, live, senders, confirmed>>
  BY DEF Propose
<1>2. x \in Proposal
  BY DEF Proposal
<1>3. TypeInv /\ EnrollmentExact /\ Made \subseteq ProposalIds
      /\ \A f \in Made : proposals[f] \in Proposal
  BY DEF RInv, TypeInv, Made
<1>4. /\ left \in [ProposalIds -> Proposal \cup {None}]
      /\ \A f \in ProposalIds : proposals[f] = None => left[f] = None
  <2>1. ASSUME NEW f \in PendingFor(vendor, s)
        PROVE  /\ [proposals[f] EXCEPT !.status = "superseded", !.superseded_by = e] \in Proposal
               /\ proposals[f] # None
    BY <1>3 DEF PendingFor, Proposal, Made
  <2>2. QED
    BY <1>3, <2>1 DEF SupersededBy, TypeInv
<1>5. \A f \in Made :
        /\ left[f].participant = proposals[f].participant
        /\ left[f].name = proposals[f].name /\ left[f].vendor = proposals[f].vendor
        /\ left[f].session = proposals[f].session
        /\ left[f].status \in {proposals[f].status, "superseded"}
        /\ left[f].status = "pending" => f \notin PendingFor(vendor, s)
  <2>1. ASSUME NEW f \in Made, f \in PendingFor(vendor, s)
        PROVE  /\ left[f].participant = proposals[f].participant
               /\ left[f].name = proposals[f].name /\ left[f].vendor = proposals[f].vendor
               /\ left[f].session = proposals[f].session
               /\ left[f].status = "superseded"
    <3>1. left[f] = [proposals[f] EXCEPT !.status = "superseded", !.superseded_by = e]
      BY <1>3, <2>1 DEF SupersededBy
    <3>2. QED
      BY <1>3, <3>1 DEF Proposal
  <2>2. \A f \in Made \ PendingFor(vendor, s) : left[f] = proposals[f]
    BY <1>3 DEF SupersededBy
  <2>3. QED
    BY <2>1, <2>2
<1> HIDE DEF left
<1>6. /\ proposals' \in [ProposalIds -> Proposal \cup {None}]
      /\ proposals'[e] = x /\ \A f \in ProposalIds \ {e} : proposals'[f] = left[f]
  BY <1>1, <1>2, <1>4
<1>7. TypeInv' /\ SenderInv' /\ ParticipantsInv'
  BY <1>1, <1>6 DEF RInv, TypeInv, SenderInv, ParticipantsInv, SelectorsUnambiguous,
    OneParticipantPerSession, Added, Active, Earned, Confirmation, UpdatesKept
<1>8. \A f \in Made' \ {e} : f \in Made /\ f # e /\ proposals'[f] = left[f]
  BY <1>1, <1>3, <1>4, <1>6 DEF Made
<1>9. ASSUME NEW f \in Made' \ {e}, proposals'[f].status = "pending"
      PROVE  \/ proposals'[f].vendor # vendor
             \/ proposals'[f].session # s
  BY <1>5, <1>8, <1>9 DEF PendingFor
<1>10. ASSUME NEW f \in Made', NEW g \in Made', f # g
       PROVE  /\ proposals'[f].participant # proposals'[g].participant
              /\ proposals'[f].status = "pending" /\ proposals'[g].status = "pending" =>
                   \/ proposals'[f].vendor # proposals'[g].vendor
                   \/ proposals'[f].session # proposals'[g].session
  <2>1. /\ x.participant = p /\ x.vendor = vendor /\ x.session = s
    OBVIOUS
  <2> HIDE DEF x
  <2>2. CASE f = e
    BY <1>1, <1>5, <1>6, <1>8, <1>9, <1>10, <2>1, <2>2
  <2>3. CASE g = e
    BY <1>1, <1>5, <1>6, <1>8, <1>9, <1>10, <2>1, <2>3
  <2>4. CASE f # e /\ g # e
    <3>1. /\ f \in Made /\ g \in Made /\ proposals'[f] = left[f] /\ proposals'[g] = left[g]
      BY <1>8, <1>10, <2>4
    <3>2. QED
      BY <1>3, <1>5, <1>10, <3>1 DEF EnrollmentExact
  <2>5. QED
    BY <2>2, <2>3, <2>4
<1>11. ASSUME NEW f \in Made', proposals'[f].status = "confirmed"
       PROVE  /\ proposals'[f].participant \in Added'
              /\ roster'[proposals'[f].participant].name = proposals'[f].name
              /\ roster'[proposals'[f].participant].vendor = proposals'[f].vendor
  <2>1. f # e
    BY <1>6, <1>11
  <2>2. f \in Made /\ proposals'[f] = left[f] /\ proposals[f].status = "confirmed"
    BY <1>5, <1>8, <1>11, <2>1
  <2>3. QED
    BY <1>1, <1>3, <1>5, <2>2 DEF EnrollmentExact, Added
<1>12. EnrollmentExact'
  BY <1>10, <1>11 DEF EnrollmentExact
<1>13. QED
  BY <1>7, <1>12 DEF RInv

LEMMA ConfirmEnrollmentStep ==
  ASSUME RInv, NEW e \in ProposalIds, ConfirmEnrollment(e)
  PROVE  RInv'
<1> DEFINE x == proposals[e]
           p == x.participant
           new == New(x.name, x.vendor, x.details)
           bound == Rebound(new, x.session)
           routed == Confirmed(Observed(bound, x.session, None, "candidate"))
           y == Enrolled(x)
<1>1. /\ e \in Made /\ x.status = "pending"
      /\ roster[p] = None /\ NameFree(p, x.name)
      /\ SessionAvailable(p, x.vendor, x.session)
      /\ x.vendor = "codex" => RouteAvailable(p, x.session)
      /\ roster' = [roster EXCEPT ![p] = y]
      /\ confirmed' = IF x.vendor = "codex" THEN confirmed \cup {Confirmation(p, y)}
                      ELSE confirmed
      /\ proposals' = [proposals EXCEPT ![e].status = "confirmed"]
      /\ UNCHANGED <<live, senders>>
  BY DEF ConfirmEnrollment
<1>2. TypeInv /\ SenderInv /\ ParticipantsInv /\ EnrollmentExact
      /\ Made \subseteq ProposalIds /\ \A f \in Made : proposals[f] \in Proposal
  BY DEF RInv, TypeInv, Made
<1>3. /\ p \in ParticipantIds /\ p \notin Added
      /\ x.name \in Names /\ x.vendor \in Vendors /\ x.session \in Sessions
      /\ x.details \in Details
  BY <1>1, <1>2 DEF Proposal, Added
<1>4. new \in Participant /\ UpdatesKept(new) /\ new.name = x.name /\ new.vendor = x.vendor
  BY <1>3, NewFields
<1> HIDE DEF new
<1>5. /\ y \in Participant /\ y.name = x.name /\ y.vendor = x.vendor
      /\ y.session = x.session /\ y.metadata = new.metadata
      /\ y.route # None => x.vendor = "codex" /\ y.route.address = x.session
      /\ Earned(p, y, confirmed')
  <2>1. CASE x.vendor = "codex"
    <3>1. y = routed
      BY <2>1 DEF Enrolled, new
    <3> HIDE DEF y, x
    <3>2. Confirmation(p, routed) \in confirmed'
      BY <1>1, <2>1, <3>1
    <3>3. QED
      BY <1>3, <1>4, <2>1, <3>1, <3>2, CodexRouteFields
  <2>2. CASE x.vendor # "codex"
    <3>1. y = bound
      BY <2>2 DEF Enrolled, new
    <3> HIDE DEF y, x
    <3>2. /\ bound \in Participant /\ bound.name = new.name /\ bound.vendor = new.vendor
          /\ bound.session = x.session /\ bound.route = None
          /\ bound.metadata = new.metadata
      BY <1>3, <1>4, ReboundFields
    <3> HIDE DEF bound
    <3>3. Earned(p, bound, confirmed')
      BY <1>3, <3>2, SomeValues DEF Earned
    <3>4. QED
      BY <1>4, <3>1, <3>2, <3>3
  <2>3. QED
    BY <2>1, <2>2
<1> HIDE DEF y
<1>6. UpdatesKept(y)
  BY <1>4, <1>5 DEF UpdatesKept
<1>7. KeepsOrTakes(p, y)
  BY <1>1, <1>5 DEF KeepsOrTakes
<1>8. ParticipantsInv'
  <2>1. NameFree(p, y.name) /\ confirmed \subseteq confirmed'
    BY <1>1, <1>5
  <2>2. QED
    BY <1>1, <1>2, <1>3, <1>5, <1>6, <1>7, <2>1, ParticipantStep
<1>9. /\ roster' \in [ParticipantIds -> Participant \cup {None}]
      /\ roster'[p] = y /\ Added' = Added \cup {p}
      /\ \A q \in ParticipantIds \ {p} : roster'[q] = roster[q]
  BY <1>1, <1>2, <1>3, <1>5, ParticipantChanges
<1>10. /\ proposals' \in [ProposalIds -> Proposal \cup {None}]
       /\ \A f \in ProposalIds \ {e} : proposals'[f] = proposals[f]
       /\ proposals'[e].participant = p /\ proposals'[e].name = x.name
       /\ proposals'[e].vendor = x.vendor /\ proposals'[e].session = x.session
       /\ proposals'[e].status = "confirmed" /\ proposals'[e] # None
  <2> DEFINE z == [x EXCEPT !.status = "confirmed"]
  <2>1. /\ z \in Proposal /\ z.participant = p /\ z.name = x.name /\ z.vendor = x.vendor
        /\ z.session = x.session /\ z.status = "confirmed"
    BY <1>1, <1>2 DEF Proposal
  <2>2. proposals' = [proposals EXCEPT ![e] = z]
    BY <1>1, <1>2 DEF TypeInv
  <2> HIDE DEF z
  <2>3. /\ proposals' \in [ProposalIds -> Proposal \cup {None}] /\ proposals'[e] = z
        /\ \A f \in ProposalIds \ {e} : proposals'[f] = proposals[f]
    BY <2>1, <2>2, <1>2 DEF TypeInv
  <2>4. QED
    BY <2>1, <2>3, NoneAssumption
<1>11. TypeInv' /\ SenderInv'
  BY <1>1, <1>2, <1>9, <1>10 DEF TypeInv, SenderInv
<1>12. Made' = Made
  BY <1>1, <1>2, <1>10 DEF Made
<1>13. \A f \in Made : /\ proposals'[f].participant = proposals[f].participant
                       /\ proposals'[f].name = proposals[f].name
                       /\ proposals'[f].vendor = proposals[f].vendor
                       /\ proposals'[f].session = proposals[f].session
                       /\ proposals'[f].status \in {proposals[f].status, "confirmed"}
  BY <1>2, <1>10
<1>14. \A f \in Made : proposals'[f].status = "confirmed" =>
         f = e \/ proposals[f].status = "confirmed"
  BY <1>2, <1>10
<1>15. ASSUME NEW f \in Made, proposals'[f].status = "confirmed"
       PROVE  /\ proposals'[f].participant \in Added'
              /\ roster'[proposals'[f].participant].name = proposals'[f].name
              /\ roster'[proposals'[f].participant].vendor = proposals'[f].vendor
  <2>1. CASE f = e
    BY <1>5, <1>9, <1>10, <2>1
  <2>2. CASE f # e
    <3>1. /\ proposals'[f] = proposals[f] /\ proposals[f].participant \in Added
          /\ roster[proposals[f].participant].name = proposals[f].name
          /\ roster[proposals[f].participant].vendor = proposals[f].vendor
      BY <1>2, <1>10, <1>15, <2>2 DEF EnrollmentExact
    <3>2. proposals[f].participant \in ParticipantIds \ {p}
      BY <1>3, <3>1 DEF Added
    <3>3. QED
      BY <1>9, <3>1, <3>2
  <2>3. QED
    BY <2>1, <2>2
<1>16. \A f, g \in Made : f # g =>
         /\ proposals'[f].participant # proposals'[g].participant
         /\ proposals'[f].status = "pending" /\ proposals'[g].status = "pending" =>
              \/ proposals'[f].vendor # proposals'[g].vendor
              \/ proposals'[f].session # proposals'[g].session
  <2>1. \A f \in Made : proposals'[f].status = "pending" => proposals[f].status = "pending"
    BY <1>13
  <2>2. QED
    BY <1>2, <1>13, <2>1 DEF EnrollmentExact
<1>17. EnrollmentExact'
  BY <1>12, <1>15, <1>16 DEF EnrollmentExact
<1>18. QED
  BY <1>8, <1>11, <1>17 DEF RInv

-----------------------------------------------------------------------------
\* What a sender does without changing the roster.
LEMMA SenderStep ==
  ASSUME RInv, UNCHANGED <<roster, proposals, confirmed>>,
         live' \in [Sessions -> [address : Addresses, evidence : Evidence] \cup {None}],
         senders' \in [Senders -> Sender], SenderInv'
  PROVE  RInv'
<1>1. TypeInv'
  BY DEF RInv, TypeInv
<1>2. Added' = Added /\ Active' = Active /\ Made' = Made
  BY DEF Added, Active, Made
<1>3. ParticipantsInv'
  <2>1. SelectorsUnambiguous' /\ OneParticipantPerSession'
    BY <1>2 DEF RInv, ParticipantsInv, SelectorsUnambiguous, OneParticipantPerSession
  <2>2. (\A p \in Added : Earned(p, roster[p], confirmed) /\ UpdatesKept(roster[p]))'
    BY <1>2 DEF RInv, ParticipantsInv, Earned, Confirmation, UpdatesKept
  <2>3. QED
    BY <2>1, <2>2 DEF ParticipantsInv
<1>4. EnrollmentExact'
  BY <1>2 DEF RInv, EnrollmentExact
<1>5. QED
  BY <1>1, <1>3, <1>4 DEF RInv

LEMMA MoveStep ==
  ASSUME RInv, NEW s \in Sessions, Move(s)
  PROVE  RInv'
<1>1. live' \in [Sessions -> [address : Addresses, evidence : Evidence] \cup {None}]
  <2>1. PICK place \in [address : Addresses, evidence : Evidence] \cup {None} :
          live' = [live EXCEPT ![s] = place]
    BY DEF Move
  <2>2. QED
    BY <2>1 DEF RInv, TypeInv
<1>2. UNCHANGED <<roster, proposals, confirmed, senders>>
  BY DEF Move
<1>3. senders' \in [Senders -> Sender] /\ SenderInv'
  BY <1>2 DEF RInv, TypeInv, SenderInv
<1>4. QED
  BY <1>1, <1>2, <1>3, SenderStep

\* A sender becomes z.
LEMMA SenderBecomes ==
  ASSUME TypeInv, SenderInv, NEW a \in Senders, NEW z \in Sender,
         senders' = [senders EXCEPT ![a] = z],
         z.phase = "captured" => z.session \in Sessions,
         z.phase = "discovered" => z.address \in Addresses \cup Sessions
  PROVE  senders' \in [Senders -> Sender] /\ SenderInv'
<1>1. /\ senders' \in [Senders -> Sender] /\ senders'[a] = z
      /\ \A b \in Senders \ {a} : senders'[b] = senders[b]
  BY DEF TypeInv
<1>2. QED
  BY <1>1 DEF SenderInv

LEMMA CaptureClaudeStep ==
  ASSUME RInv, NEW a \in Senders, NEW p \in ParticipantIds, CaptureClaude(a, p)
  PROVE  RInv'
<1> DEFINE z == [senders[a] EXCEPT !.phase = "captured", !.participant = p,
                   !.session = roster[p].session, !.generation = roster[p].generation]
<1>1. /\ p \in Active /\ roster[p].status = "bound"
      /\ UNCHANGED <<roster, proposals, live, confirmed>>
  BY DEF CaptureClaude, Usable
<1>2. roster[p].session \in Sessions /\ roster[p].generation \in Nat
  BY <1>1, ActiveParticipant DEF Earned
<1>3. z \in Sender /\ z.phase = "captured" /\ z.session \in Sessions
  <2>1. senders[a] \in Sender
    BY DEF RInv, TypeInv
  <2> DEFINE w == [senders[a] EXCEPT !.phase = "captured", !.participant = p,
                     !.session = roster[p].session]
  <2>2. w \in Sender /\ w.phase = "captured" /\ w.session \in Sessions
    BY <1>2, <2>1 DEF Sender
  <2>3. z = [w EXCEPT !.generation = roster[p].generation]
    BY <2>1 DEF Sender
  <2> HIDE DEF w
  <2>4. QED
    BY <1>2, <2>2, <2>3 DEF Sender
<1>4. senders' = [senders EXCEPT ![a] = z]
  BY DEF CaptureClaude, RInv, TypeInv
<1> HIDE DEF z
<1>5. senders' \in [Senders -> Sender] /\ SenderInv'
  BY <1>3, <1>4, SenderBecomes DEF RInv
<1>6. QED
  BY <1>1, <1>5, SenderStep DEF RInv, TypeInv

LEMMA CaptureCodexStep ==
  ASSUME RInv, NEW a \in Senders, NEW p \in ParticipantIds, CaptureCodex(a, p)
  PROVE  RInv'
<1> DEFINE z == [senders[a] EXCEPT !.phase = "discovered", !.participant = p,
                   !.session = roster[p].session, !.generation = roster[p].generation,
                   !.address = roster[p].route.address]
<1>1. /\ p \in Active /\ roster[p].route # None
      /\ UNCHANGED <<roster, proposals, live, confirmed>>
  BY DEF CaptureCodex, Usable, RouteReady, Correlated
<1>2. /\ roster[p].session \in Sessions \cup {None} /\ roster[p].generation \in Nat
      /\ roster[p].route.address \in Addresses \cup Sessions
  BY <1>1, ActiveParticipant DEF Route
<1>3. z \in Sender /\ z.phase = "discovered" /\ z.address \in Addresses \cup Sessions
  <2>1. senders[a] \in Sender
    BY DEF RInv, TypeInv
  <2> DEFINE w == [senders[a] EXCEPT !.phase = "discovered", !.participant = p,
                     !.session = roster[p].session]
  <2>2. w \in Sender /\ w.phase = "discovered"
    BY <1>2, <2>1 DEF Sender
  <2>3. z = [w EXCEPT !.generation = roster[p].generation,
                      !.address = roster[p].route.address]
    BY <2>1 DEF Sender
  <2> HIDE DEF w
  <2>4. QED
    BY <1>2, <2>2, <2>3 DEF Sender
<1>4. senders' = [senders EXCEPT ![a] = z]
  BY DEF CaptureCodex, RInv, TypeInv
<1> HIDE DEF z
<1>5. senders' \in [Senders -> Sender] /\ SenderInv'
  BY <1>3, <1>4, SenderBecomes DEF RInv
<1>6. QED
  BY <1>1, <1>5, SenderStep DEF RInv, TypeInv

LEMMA DiscoverStep ==
  ASSUME RInv, NEW a \in Senders, Discover(a)
  PROVE  RInv'
<1> DEFINE place == live[senders[a].session]
           z == [senders[a] EXCEPT !.phase = "discovered", !.address = place.address,
                                   !.evidence = place.evidence]
<1>1. /\ senders[a].phase = "captured" /\ place # None
      /\ UNCHANGED <<roster, proposals, live, confirmed>>
  BY DEF Discover
<1>2. senders[a] \in Sender /\ senders[a].session \in Sessions
  BY <1>1 DEF RInv, TypeInv, SenderInv
<1>3. place.address \in Addresses /\ place.evidence \in Evidence
  BY <1>1, <1>2 DEF RInv, TypeInv
<1>4. senders' = [senders EXCEPT ![a] = z]
  BY DEF Discover, RInv, TypeInv
<1> HIDE DEF place
<1>5. z \in Sender /\ z.phase = "discovered" /\ z.address \in Addresses
  BY <1>2, <1>3 DEF Sender
<1> HIDE DEF z
<1>6. senders' \in [Senders -> Sender] /\ SenderInv'
  BY <1>4, <1>5, SenderBecomes DEF RInv
<1>7. QED
  BY <1>1, <1>6, SenderStep DEF RInv, TypeInv

\* A sender is done, whether it has used its route or not.
LEMMA SenderDone ==
  ASSUME TypeInv, SenderInv, NEW a \in Senders,
         senders' = [senders EXCEPT ![a].phase = "done"]
  PROVE  senders' \in [Senders -> Sender] /\ SenderInv'
<1> DEFINE z == [senders[a] EXCEPT !.phase = "done"]
<1>1. z \in Sender /\ z.phase = "done"
  BY DEF TypeInv, Sender
<1>2. senders' = [senders EXCEPT ![a] = z]
  BY DEF TypeInv
<1> HIDE DEF z
<1>3. QED
  BY <1>1, <1>2, SenderBecomes

LEMMA CodexDoneStep ==
  ASSUME RInv, NEW a \in Senders, UseCodexRoute(a) \/ GiveUp(a)
  PROVE  RInv'
<1>1. /\ UNCHANGED <<roster, proposals, live, confirmed>>
      /\ senders' = [senders EXCEPT ![a].phase = "done"]
  BY DEF UseCodexRoute, GiveUp
<1>2. senders' \in [Senders -> Sender] /\ SenderInv'
  BY <1>1, SenderDone DEF RInv
<1>3. QED
  BY <1>1, <1>2, SenderStep DEF RInv, TypeInv

\* What the second transaction of a Claude sender records.
LEMMA ClaudeRouteRecorded ==
  ASSUME RInv, NEW a \in Senders, UseClaudeRoute(a)
  PROVE  LET p == senders[a].participant
             x == roster[p]
             y == Observed(x, senders[a].address, senders[a].evidence, "tool_correlated")
         IN /\ p \in Active /\ x \in Participant
            /\ x.vendor = "claude-code" /\ x.status = "bound"
            /\ x.session = senders[a].session /\ x.generation = senders[a].generation
            /\ roster' = [roster EXCEPT ![p] = y] /\ roster'[p] = y
            /\ y \in Participant
            /\ y.name = x.name /\ y.vendor = x.vendor /\ y.status = "bound"
            /\ y.session = x.session /\ y.generation = x.generation
            /\ y.metadata = x.metadata
            /\ y.route \in Route /\ y.route # None
            /\ y.route.address = senders[a].address
            /\ y.route.evidence = senders[a].evidence
            /\ y.route.generation = x.generation
            /\ y.route.status \in {"tool_correlated", "operator_correlated"}
            /\ y.route.status = "operator_correlated" =>
                 Preserves(x, senders[a].address, senders[a].evidence)
<1> DEFINE p == senders[a].participant
           x == roster[p]
           y == Observed(x, senders[a].address, senders[a].evidence, "tool_correlated")
<1>1. /\ p \in Active /\ x.vendor = "claude-code" /\ x.status = "bound"
      /\ x.session = senders[a].session /\ x.generation = senders[a].generation
      /\ roster' = [roster EXCEPT ![p] = y]
      /\ senders[a].phase = "discovered"
  BY DEF UseClaudeRoute, BindingKept, Usable
<1>2. x \in Participant /\ p \in ParticipantIds
  BY <1>1, ActiveParticipant
<1>3. senders[a].address \in Addresses \cup Sessions
      /\ senders[a].evidence \in Evidence \cup {None}
  BY <1>1 DEF RInv, TypeInv, SenderInv, Sender
<1> HIDE DEF x
<1>4. /\ y \in Participant
      /\ y.name = x.name /\ y.vendor = x.vendor /\ y.status = x.status
      /\ y.session = x.session /\ y.generation = x.generation
      /\ y.metadata = x.metadata
      /\ y.route \in Route
      /\ y.route.address = senders[a].address
      /\ y.route.evidence = senders[a].evidence
      /\ y.route.generation = x.generation
      /\ y.route.status \in {"tool_correlated", "operator_correlated"}
      /\ y.route.status = "operator_correlated" =>
           Preserves(x, senders[a].address, senders[a].evidence)
  BY <1>2, <1>3, ObservedFields
<1> HIDE DEF y
<1>5. roster'[p] = y
  BY <1>1, <1>2 DEF RInv, TypeInv
<1>6. QED
  BY <1>1, <1>2, <1>4, <1>5, NoneAssumption DEF x, y

LEMMA UseClaudeRouteStep ==
  ASSUME RInv, NEW a \in Senders, UseClaudeRoute(a)
  PROVE  RInv'
<1> DEFINE p == senders[a].participant
           x == roster[p]
           y == Observed(x, senders[a].address, senders[a].evidence, "tool_correlated")
<1>1. /\ p \in Active /\ x \in Participant /\ x.vendor = "claude-code"
      /\ roster' = [roster EXCEPT ![p] = y] /\ y \in Participant
      /\ y.name = x.name /\ y.vendor = x.vendor /\ y.status = "bound" /\ x.status = "bound"
      /\ y.session = x.session /\ y.generation = x.generation
      /\ y.metadata = x.metadata
      /\ y.route.address = senders[a].address /\ y.route.evidence = senders[a].evidence
      /\ y.route.generation = x.generation
      /\ y.route.status = "operator_correlated" =>
           Preserves(x, senders[a].address, senders[a].evidence)
  BY ClaudeRouteRecorded
<1>2. /\ RouteAvailable(p, senders[a].address) /\ UNCHANGED <<proposals, live, confirmed>>
      /\ senders' = [senders EXCEPT ![a].phase = "done"]
  BY DEF UseClaudeRoute
<1>3. p \in Added /\ p \in ParticipantIds /\ Earned(p, x, confirmed) /\ UpdatesKept(x)
  BY <1>1, ActiveParticipant
<1>4. TypeInv /\ SenderInv /\ ParticipantsInv /\ EnrollmentExact
  BY DEF RInv
<1> HIDE DEF y
<1>5. KeepsOrTakes(p, y)
  BY <1>1, <1>2 DEF KeepsOrTakes
<1>6. y.route.status = "operator_correlated" => Confirmation(p, y) \in confirmed
  BY <1>1, <1>3 DEF Preserves, Earned, Confirmation
<1>7. Earned(p, y, confirmed')
  BY <1>1, <1>2, <1>3, <1>6 DEF Earned
<1>8. UpdatesKept(y)
  <2>1. y.metadata = x.metadata /\ UpdatesKept(x)
    BY <1>1, <1>3
  <2> HIDE DEF x
  <2>2. QED
    BY <2>1 DEF UpdatesKept
<1>9. ParticipantsInv'
  BY <1>1, <1>2, <1>3, <1>4, <1>5, <1>7, <1>8, ParticipantStep
<1>10. EnrollmentExact'
  BY <1>1, <1>2, <1>3, <1>4, EnrollmentStep
<1>11. senders' \in [Senders -> Sender] /\ SenderInv'
  BY <1>2, <1>4, SenderDone
<1>12. TypeInv'
  BY <1>1, <1>2, <1>3, <1>4, <1>11, ParticipantChanges DEF TypeInv
<1>13. QED
  BY <1>9, <1>10, <1>11, <1>12 DEF RInv

-----------------------------------------------------------------------------
LEMMA RosterStart ==
  RosterInit => RInv
<1> SUFFICES ASSUME RosterInit PROVE RInv
  OBVIOUS
<1>1. Added = {} /\ Active = {} /\ Made = {}
  BY DEF RosterInit, Added, Active, Made
<1>2. TypeInv /\ SenderInv
  BY DEF RosterInit, TypeInv, SenderInv, NoSender, Sender
<1>3. ParticipantsInv /\ EnrollmentExact
  BY <1>1 DEF ParticipantsInv, SelectorsUnambiguous, OneParticipantPerSession,
    EnrollmentExact
<1>4. QED
  BY <1>2, <1>3 DEF RInv

LEMMA RosterStep ==
  RInv /\ [RosterNext]_rosterVars => RInv'
<1> SUFFICES ASSUME RInv, [RosterNext]_rosterVars PROVE RInv'
  OBVIOUS
<1>1. CASE OperatorNext
  <2>1. PICK p \in ParticipantIds :
          \/ \E name \in Names, vendor \in Vendors, details \in Details :
               Add(p, name, vendor, details)
          \/ \E s \in Sessions : Bind(p, s) \/ BindCodex(p, s)
          \/ \E address \in Addresses \cup Sessions : ConfirmRoute(p, address)
          \/ \E change \in Changes, expected, read \in 1..MaxRevision :
               UpdateMetadata(p, change, expected, read)
          \/ Invalidate(p) \/ Retire(p)
    BY <1>1 DEF OperatorNext
  <2>2. CASE \E name \in Names, vendor \in Vendors, details \in Details :
               Add(p, name, vendor, details)
    BY <2>2, AddStep
  <2>3. CASE \E s \in Sessions : Bind(p, s)
    BY <2>3, BindStep
  <2>4. CASE \E s \in Sessions : BindCodex(p, s)
    BY <2>4, BindCodexStep
  <2>5. CASE \E address \in Addresses \cup Sessions : ConfirmRoute(p, address)
    BY <2>5, ConfirmRouteStep
  <2>6. CASE \E change \in Changes, expected, read \in 1..MaxRevision :
               UpdateMetadata(p, change, expected, read)
    BY <2>6, UpdateMetadataStep
  <2>7. CASE Invalidate(p) \/ Retire(p)
    BY <2>7, WithdrawStep
  <2>8. QED
    BY <2>1, <2>2, <2>3, <2>4, <2>5, <2>6, <2>7
<1>2. CASE EnrollmentNext
  <2>1. PICK e \in ProposalIds :
          \/ \E p \in ParticipantIds, name \in Names, vendor \in Vendors,
                s \in Sessions, details \in Details :
               Propose(e, p, name, vendor, s, details)
          \/ ConfirmEnrollment(e)
    BY <1>2 DEF EnrollmentNext
  <2>2. CASE \E p \in ParticipantIds, name \in Names, vendor \in Vendors,
                s \in Sessions, details \in Details :
               Propose(e, p, name, vendor, s, details)
    BY <2>2, ProposeStep
  <2>3. CASE ConfirmEnrollment(e)
    BY <2>3, ConfirmEnrollmentStep
  <2>4. QED
    BY <2>1, <2>2, <2>3
<1>3. CASE SenderNext
  <2>1. PICK a \in Senders :
          \/ \E p \in ParticipantIds : CaptureClaude(a, p) \/ CaptureCodex(a, p)
          \/ Discover(a) \/ UseClaudeRoute(a) \/ UseCodexRoute(a) \/ GiveUp(a)
    BY <1>3 DEF SenderNext
  <2>2. CASE \E p \in ParticipantIds : CaptureClaude(a, p) \/ CaptureCodex(a, p)
    BY <2>2, CaptureClaudeStep, CaptureCodexStep
  <2>3. CASE Discover(a)
    BY <2>3, DiscoverStep
  <2>4. CASE UseClaudeRoute(a)
    BY <2>4, UseClaudeRouteStep
  <2>5. CASE UseCodexRoute(a) \/ GiveUp(a)
    BY <2>5, CodexDoneStep
  <2>6. QED
    BY <2>1, <2>2, <2>3, <2>4, <2>5
<1>4. CASE \E s \in Sessions : Move(s)
  BY <1>4, MoveStep
<1>5. CASE UNCHANGED rosterVars
  <2>1. UNCHANGED <<roster, proposals, confirmed>> /\ live' = live /\ senders' = senders
    BY <1>5 DEF rosterVars
  <2>2. live' \in [Sessions -> [address : Addresses, evidence : Evidence] \cup {None}]
        /\ senders' \in [Senders -> Sender] /\ SenderInv'
    BY <2>1 DEF RInv, TypeInv, SenderInv
  <2>3. QED
    BY <2>1, <2>2, SenderStep
<1>6. QED
  BY <1>1, <1>2, <1>3, <1>4, <1>5 DEF RosterNext

(***************************************************************************)
(* The invariant of the roster.                                            *)
(***************************************************************************)
THEOREM RosterInvariant ==
  RosterSpec => []RInv
BY RosterStart, RosterStep, PTL DEF RosterSpec

(***************************************************************************)
(* No selector, name or identifier, ever selects two participants.         *)
(***************************************************************************)
THEOREM SelectorsAlwaysUnambiguous ==
  RosterSpec => []SelectorsUnambiguous
<1>1. RInv => SelectorsUnambiguous
  BY DEF RInv, ParticipantsInv
<1>2. QED
  BY <1>1, RosterInvariant, PTL

(***************************************************************************)
(* No session and no live address ever belongs to two active participants. *)
(***************************************************************************)
THEOREM SessionsExclusive ==
  RosterSpec => []OneParticipantPerSession
<1>1. RInv => OneParticipantPerSession
  BY DEF RInv, ParticipantsInv
<1>2. QED
  BY <1>1, RosterInvariant, PTL

(***************************************************************************)
(* A correlated route is one of the current binding, and was confirmed by  *)
(* an operator when it says so.                                            *)
(***************************************************************************)
THEOREM CorrelationAlwaysEarned ==
  RosterSpec => []CorrelationEarned
<1>1. RInv => CorrelationEarned
  BY DEF RInv, ParticipantsInv, Earned, CorrelationEarned, Correlated
<1>2. QED
  BY <1>1, RosterInvariant, PTL

(***************************************************************************)
(* Proposals stay exclusive, and those confirmed made their participants.  *)
(***************************************************************************)
THEOREM EnrollmentAlwaysExact ==
  RosterSpec => []EnrollmentExact
<1>1. RInv => EnrollmentExact
  BY DEF RInv
<1>2. QED
  BY <1>1, RosterInvariant, PTL

(***************************************************************************)
(* No operator's update of the metadata ever overwrites another's.         *)
(***************************************************************************)
THEOREM UpdatesNeverLost ==
  RosterSpec => []NoLostUpdate
<1>1. RInv => NoLostUpdate
  BY DEF RInv, ParticipantsInv, UpdatesKept, NoLostUpdate
<1>2. QED
  BY <1>1, RosterInvariant, PTL

(***************************************************************************)
(* Every intent is journaled for the binding that its participant has then,*)
(* though the sender looked the session up without the lock.               *)
(***************************************************************************)
THEOREM IntentsForCurrentBinding ==
  RosterSpec => IntentForCurrentBinding
<1> DEFINE Current(i) ==
      LET x == roster'[i.participant] IN
        /\ x.status = "bound" /\ x.session = i.session
        /\ Correlated(x) /\ x.route.generation = x.generation
        /\ x.route.address = i.address
        /\ x.vendor = "claude-code" => x.generation = i.generation
<1>1. ASSUME RInv, NEW a \in Senders, UseClaudeRoute(a)
      PROVE  \A i \in intents' \ intents : Current(i)
  <2>1. \A i \in intents' \ intents : i = senders[a]
    BY <1>1 DEF UseClaudeRoute
  <2>2. Current(senders[a])
    BY <1>1, ClaudeRouteRecorded DEF Correlated
  <2>3. QED
    BY <2>1, <2>2
<1>2. ASSUME NEW a \in Senders, UseCodexRoute(a)
      PROVE  \A i \in intents' \ intents : Current(i)
  <2>1. roster' = roster /\ \A i \in intents' \ intents : i = senders[a]
    BY <1>2 DEF UseCodexRoute
  <2>2. Current(senders[a])
    BY <1>2, <2>1 DEF UseCodexRoute, RouteKept, RouteReady, Usable
  <2>3. QED
    BY <2>1, <2>2
<1>3. ASSUME RInv, [RosterNext]_rosterVars
      PROVE  \A i \in intents' \ intents : Current(i)
  <2>1. \/ intents' = intents
        \/ \E a \in Senders : UseClaudeRoute(a) \/ UseCodexRoute(a)
    <3>1. CASE OperatorNext
      <4>1. ASSUME NEW p \in ParticipantIds, NEW name, NEW vendor, NEW details
            PROVE  Add(p, name, vendor, details) => intents' = intents
        BY DEF Add
      <4>2. ASSUME NEW p \in ParticipantIds, NEW s
            PROVE  Bind(p, s) \/ BindCodex(p, s) => intents' = intents
        BY DEF Bind, BindCodex
      <4>3. ASSUME NEW p \in ParticipantIds, NEW change, NEW expected, NEW read
            PROVE  UpdateMetadata(p, change, expected, read) => intents' = intents
        BY DEF UpdateMetadata
      <4>4. ASSUME NEW p \in ParticipantIds, NEW address
            PROVE  ConfirmRoute(p, address) \/ Invalidate(p) \/ Retire(p) =>
                     intents' = intents
        BY DEF ConfirmRoute, Invalidate, Retire
      <4>5. QED
        BY <3>1, <4>1, <4>2, <4>3, <4>4 DEF OperatorNext
    <3>2. CASE EnrollmentNext
      BY <3>2 DEF EnrollmentNext, Propose, ConfirmEnrollment
    <3>3. CASE SenderNext
      <4>1. ASSUME NEW a \in Senders, NEW p \in ParticipantIds
            PROVE  CaptureClaude(a, p) \/ CaptureCodex(a, p) => intents' = intents
        BY DEF CaptureClaude, CaptureCodex
      <4>2. ASSUME NEW a \in Senders
            PROVE  Discover(a) \/ GiveUp(a) => intents' = intents
        BY DEF Discover, GiveUp
      <4>3. QED
        BY <3>3, <4>1, <4>2 DEF SenderNext
    <3>4. CASE \E s \in Sessions : Move(s)
      BY <3>4 DEF Move
    <3>5. QED
      BY <1>3, <3>1, <3>2, <3>3, <3>4 DEF RosterNext, rosterVars
  <2>2. QED
    BY <1>1, <1>2, <1>3, <2>1
<1>4. RInv /\ [RosterNext]_rosterVars =>
        [\A i \in intents' \ intents : Current(i)]_rosterVars
  BY <1>3
<1>5. QED
  BY <1>4, RosterInvariant, PTL DEF RosterSpec, IntentForCurrentBinding
-----------------------------------------------------------------------------
(***************************************************************************)
(* What becomes of a participant in one step: it keeps its name, vendor    *)
(* and the metadata it had; once retired it stays as it is; under one      *)
(* generation it has one session, and is not bound again once it is stale; *)
(* a new generation is the next one, and starts bound.                     *)
(***************************************************************************)
Succeeds(x, y) ==
  /\ y.name = x.name /\ y.vendor = x.vendor
  /\ Len(x.metadata) <= Len(y.metadata)
  /\ \A i \in 1..Len(x.metadata) : y.metadata[i] = x.metadata[i]
  /\ x.status = "retired" => y = x
  /\ \/ /\ y.generation = x.generation /\ y.session = x.session
        /\ y.status = "bound" => x.status = "bound"
     \/ y.generation = x.generation + 1 /\ y.status = "bound"

SucceededByAll == \A p \in Added : p \in Added' /\ Succeeds(roster[p], roster'[p])

(***************************************************************************)
(* The bindings that senders hold and intents were journaled with.  A      *)
(* generation is a name for a session: no binding has a generation that    *)
(* its participant has not reached, one with the participant's own has its *)
(* session, and two with the same generation have the same session.        *)
(***************************************************************************)
Bindings == {senders[a] : a \in {b \in Senders : senders[b].phase # "idle"}} \cup intents

NamedBy(b) ==
  /\ b.participant \in Added /\ b.session \in Sessions /\ b.generation \in Nat
  /\ b.generation <= roster[b.participant].generation
  /\ b.generation = roster[b.participant].generation =>
       b.session = roster[b.participant].session

SameBinding(b, c) ==
  c.participant = b.participant /\ c.generation = b.generation /\ c.session = b.session

GenerationsNameSessions ==
  \A b \in Bindings :
    /\ NamedBy(b)
    /\ \A c \in Bindings :
         c.participant = b.participant /\ c.generation = b.generation => c.session = b.session

\* The same metadata succeeds, and metadata with a version appended.
LEMMA SucceedsWith ==
  ASSUME NEW x \in Participant, NEW y \in Participant, x.status # "retired",
         y.name = x.name, y.vendor = x.vendor,
         \/ y.metadata = x.metadata
         \/ \E v \in Version : y.metadata = Append(x.metadata, v),
         \/ /\ y.generation = x.generation /\ y.session = x.session
            /\ y.status = "bound" => x.status = "bound"
         \/ y.generation = x.generation + 1 /\ y.status = "bound"
  PROVE  Succeeds(x, y)
<1>1. x.metadata \in Seq(Version)
  BY ParticipantFields
<1>2. /\ Len(x.metadata) <= Len(y.metadata)
      /\ \A i \in 1..Len(x.metadata) : y.metadata[i] = x.metadata[i]
  <2>1. CASE y.metadata = x.metadata
    BY <1>1, <2>1
  <2>2. CASE \E v \in Version : y.metadata = Append(x.metadata, v)
    BY <1>1, <2>2
  <2>3. QED
    BY <2>1, <2>2
<1>3. QED
  BY <1>2 DEF Succeeds

LEMMA SucceedsItself ==
  ASSUME NEW x \in Participant
  PROVE  Succeeds(x, x)
<1>1. x.metadata \in Seq(Version)
  BY ParticipantFields
<1>2. Len(x.metadata) <= Len(x.metadata)
  BY <1>1
<1>3. QED
  BY <1>2 DEF Succeeds

\* One participant that is added, or succeeded, is all a step changes.
Becomes(p, y) ==
  /\ y \in Participant /\ roster' = [roster EXCEPT ![p] = y]
  /\ p \in Added => Succeeds(roster[p], y)

LEMMA BecomesSucceeds ==
  ASSUME TypeInv, NEW p \in ParticipantIds, NEW y, Becomes(p, y)
  PROVE  SucceededByAll
<1>1. /\ roster'[p] = y /\ Added' = Added \cup {p}
      /\ \A q \in ParticipantIds \ {p} : roster'[q] = roster[q]
  BY ParticipantChanges DEF Becomes
<1>2. ASSUME NEW q \in Added
      PROVE  q \in Added' /\ Succeeds(roster[q], roster'[q])
  <2>1. roster[q] \in Participant /\ q \in ParticipantIds
    BY AddedParticipants
  <2>2. CASE q = p
    BY <1>1, <2>2 DEF Becomes
  <2>3. CASE q # p
    BY <1>1, <2>1, <2>3, SucceedsItself
  <2>4. QED
    BY <2>2, <2>3
<1>3. QED
  BY <1>2 DEF SucceededByAll

LEMMA RosterKeptSucceeds ==
  ASSUME TypeInv, roster' = roster
  PROVE  SucceededByAll
BY AddedParticipants, SucceedsItself DEF SucceededByAll, Added

LEMMA AddSucceeds ==
  ASSUME RInv, NEW p \in ParticipantIds, NEW name \in Names, NEW vendor \in Vendors,
         NEW details \in Details, Add(p, name, vendor, details)
  PROVE  SucceededByAll
<1>1. New(name, vendor, details) \in Participant
  BY NewFields
<1>2. Becomes(p, New(name, vendor, details))
  BY <1>1 DEF Add, Becomes, Added
<1>3. QED
  BY <1>2, BecomesSucceeds DEF RInv

LEMMA BindSucceeds ==
  ASSUME RInv, NEW p \in ParticipantIds, NEW s \in Sessions, Bind(p, s) \/ BindCodex(p, s)
  PROVE  SucceededByAll
<1> DEFINE x == roster[p]
           bound == Rebound(x, s)
           seen == Observed(bound, s, None, "candidate")
<1>1. p \in Active
  BY DEF Bind, BindCodex, Bindable
<1>2. x \in Participant /\ x.status # "retired"
  BY <1>1, ActiveParticipant
<1>3. PICK y \in {bound, seen, Confirmed(seen)} : roster' = [roster EXCEPT ![p] = y]
  BY DEF Bind, BindCodex
<1>4. /\ y \in Participant /\ y.name = x.name /\ y.vendor = x.vendor
      /\ y.metadata = x.metadata /\ y.generation = x.generation + 1 /\ y.status = "bound"
  <2>1. CASE y = bound
    BY <1>2, <2>1, ReboundFields
  <2>2. CASE y \in {seen, Confirmed(seen)}
    <3> HIDE DEF x
    <3>1. \A z \in {seen, Confirmed(seen)} :
            /\ z \in Participant /\ z.name = x.name /\ z.vendor = x.vendor
            /\ z.metadata = x.metadata /\ z.generation = x.generation + 1
            /\ z.status = "bound"
      BY <1>2, CodexRouteFields
    <3>2. QED
      BY <2>2, <3>1
  <2>3. QED
    BY <2>1, <2>2
<1>5. Becomes(p, y)
  BY <1>2, <1>3, <1>4, SucceedsWith DEF Becomes
<1>6. QED
  BY <1>5, BecomesSucceeds DEF RInv

LEMMA ConfirmRouteSucceeds ==
  ASSUME RInv, NEW p \in ParticipantIds, NEW expected, ConfirmRoute(p, expected)
  PROVE  SucceededByAll
<1> DEFINE x == roster[p]
           y == Confirmed(x)
<1>1. p \in Active /\ x.route # None /\ roster' = [roster EXCEPT ![p] = y]
  BY DEF ConfirmRoute
<1>2. x \in Participant /\ x.status # "retired"
  BY <1>1, ActiveParticipant
<1>3. /\ y \in Participant /\ y.name = x.name /\ y.vendor = x.vendor /\ y.status = x.status
      /\ y.session = x.session /\ y.generation = x.generation /\ y.metadata = x.metadata
  BY <1>1, <1>2, ConfirmedFields
<1> HIDE DEF y
<1>4. Becomes(p, y)
  BY <1>1, <1>2, <1>3, SucceedsWith DEF Becomes
<1>5. QED
  BY <1>4, BecomesSucceeds DEF RInv

LEMMA UpdateMetadataSucceeds ==
  ASSUME RInv, NEW p \in ParticipantIds, NEW change \in Changes,
         NEW expected \in 1..MaxRevision, NEW read \in 1..MaxRevision,
         UpdateMetadata(p, change, expected, read)
  PROVE  SucceededByAll
<1> DEFINE x == roster[p]
           filled == [f \in Fields |-> IF f \in DOMAIN change THEN change[f]
                                       ELSE x.metadata[read].values[f]]
           v == [given |-> DOMAIN change, values |-> filled]
           y == [x EXCEPT !.metadata = Append(@, v)]
<1>1. /\ p \in Active /\ read <= Len(x.metadata)
      /\ roster' = [roster EXCEPT ![p].metadata = Append(@, v)]
  BY DEF UpdateMetadata
<1>2. x \in Participant /\ x.status # "retired" /\ x.metadata \in Seq(Version)
  BY <1>1, ActiveParticipant, ParticipantFields
<1>3. v \in Version
  <2>1. x.metadata[read] \in Version
    BY <1>1, <1>2
  <2>2. PICK given \in SUBSET Fields \ {{}} : change \in [given -> Values \cup {None}]
    BY DEF Changes
  <2>3. filled \in [Fields -> Values \cup {None}]
    BY <2>1, <2>2 DEF Version
  <2>4. QED
    BY <2>2, <2>3 DEF Version
<1>4. roster' = [roster EXCEPT ![p] = y]
  BY <1>1 DEF RInv, TypeInv
<1> HIDE DEF v
<1>5. /\ y \in Participant /\ y.name = x.name /\ y.vendor = x.vendor
      /\ y.session = x.session /\ y.generation = x.generation /\ y.status = x.status
      /\ y.metadata = Append(x.metadata, v)
  <2> DEFINE t == Append(x.metadata, v)
  <2>1. t \in Seq(Version)
    BY <1>2, <1>3
  <2> HIDE DEF t
  <2>2. y = [x EXCEPT !.metadata = t]
    BY <1>2, ParticipantFields DEF t
  <2>3. /\ y \in Participant /\ y.name = x.name /\ y.vendor = x.vendor
        /\ y.session = x.session /\ y.generation = x.generation /\ y.status = x.status
        /\ y.metadata = t
    BY <1>2, <2>1, <2>2 DEF Participant
  <2>4. QED
    BY <2>3 DEF t
<1> HIDE DEF y
<1>6. Becomes(p, y)
  BY <1>2, <1>3, <1>4, <1>5, SucceedsWith DEF Becomes
<1>7. QED
  BY <1>6, BecomesSucceeds DEF RInv

LEMMA WithdrawSucceeds ==
  ASSUME RInv, NEW p \in ParticipantIds, Invalidate(p) \/ Retire(p)
  PROVE  SucceededByAll
<1> DEFINE x == roster[p]
<1>1. p \in Active
  BY DEF Invalidate, Retire
<1>2. x \in Participant /\ x.status # "retired"
  BY <1>1, ActiveParticipant
<1>3. PICK y \in {Invalidated(x), Retired(x)} : roster' = [roster EXCEPT ![p] = y]
  BY DEF Invalidate, Retire
<1>4. /\ y \in Participant
      /\ y.name = x.name /\ y.vendor = x.vendor /\ y.status \in {"stale", "retired"}
      /\ y.session = x.session /\ y.metadata = x.metadata /\ y.generation = x.generation
  BY <1>2, WithdrawnFields
<1>5. Becomes(p, y)
  BY <1>2, <1>3, <1>4, SucceedsWith DEF Becomes
<1>6. QED
  BY <1>5, BecomesSucceeds DEF RInv

LEMMA ConfirmEnrollmentSucceeds ==
  ASSUME RInv, NEW e \in ProposalIds, ConfirmEnrollment(e)
  PROVE  SucceededByAll
<1> DEFINE p == proposals[e].participant
           y == Enrolled(proposals[e])
<1>1. e \in Made /\ roster[p] = None /\ roster' = [roster EXCEPT ![p] = y]
  BY DEF ConfirmEnrollment
<1> HIDE DEF y
<1>2. \A q \in Added : roster'[q] = roster[q] /\ q \in Added'
  BY <1>1 DEF Added, RInv, TypeInv
<1>3. QED
  BY <1>2, AddedParticipants, SucceedsItself DEF SucceededByAll, RInv

LEMMA UseClaudeRouteSucceeds ==
  ASSUME RInv, NEW a \in Senders, UseClaudeRoute(a)
  PROVE  SucceededByAll
<1> DEFINE p == senders[a].participant
           x == roster[p]
           y == Observed(x, senders[a].address, senders[a].evidence, "tool_correlated")
<1>1. /\ p \in Active /\ x \in Participant /\ x.status = "bound"
      /\ roster' = [roster EXCEPT ![p] = y] /\ y \in Participant
      /\ y.name = x.name /\ y.vendor = x.vendor /\ y.status = "bound"
      /\ y.session = x.session /\ y.generation = x.generation
      /\ y.metadata = x.metadata
  BY ClaudeRouteRecorded
<1>2. p \in ParticipantIds
  BY <1>1, ActiveParticipant
<1> HIDE DEF x, y
<1>3. Succeeds(x, y)
  BY <1>1, SucceedsWith
<1>4. Becomes(p, y)
  BY <1>1, <1>3 DEF Becomes, x
<1>5. QED
  BY <1>2, <1>4, BecomesSucceeds DEF RInv

LEMMA StepSucceeds ==
  ASSUME RInv, [RosterNext]_rosterVars
  PROVE  SucceededByAll
<1>1. CASE OperatorNext
  <2>1. PICK p \in ParticipantIds :
          \/ \E name \in Names, vendor \in Vendors, details \in Details :
               Add(p, name, vendor, details)
          \/ \E s \in Sessions : Bind(p, s) \/ BindCodex(p, s)
          \/ \E address \in Addresses \cup Sessions : ConfirmRoute(p, address)
          \/ \E change \in Changes, expected, read \in 1..MaxRevision :
               UpdateMetadata(p, change, expected, read)
          \/ Invalidate(p) \/ Retire(p)
    BY <1>1 DEF OperatorNext
  <2>2. QED
    BY <2>1, AddSucceeds, BindSucceeds, ConfirmRouteSucceeds, UpdateMetadataSucceeds,
      WithdrawSucceeds
<1>2. CASE EnrollmentNext
  <2>1. CASE \E e \in ProposalIds : ConfirmEnrollment(e)
    BY <2>1, ConfirmEnrollmentSucceeds
  <2>2. CASE ~\E e \in ProposalIds : ConfirmEnrollment(e)
    <3>1. roster' = roster
      BY <1>2, <2>2 DEF EnrollmentNext, Propose
    <3>2. QED
      BY <3>1, RosterKeptSucceeds DEF RInv
  <2>3. QED
    BY <2>1, <2>2
<1>3. CASE SenderNext
  <2>1. CASE \E a \in Senders : UseClaudeRoute(a)
    BY <2>1, UseClaudeRouteSucceeds
  <2>2. CASE ~\E a \in Senders : UseClaudeRoute(a)
    <3>1. roster' = roster
      <4>1. ASSUME NEW a \in Senders, NEW p \in ParticipantIds
            PROVE  CaptureClaude(a, p) \/ CaptureCodex(a, p) => roster' = roster
        BY DEF CaptureClaude, CaptureCodex
      <4>2. ASSUME NEW a \in Senders
            PROVE  Discover(a) \/ UseCodexRoute(a) \/ GiveUp(a) => roster' = roster
        BY DEF Discover, UseCodexRoute, GiveUp
      <4>3. QED
        BY <1>3, <2>2, <4>1, <4>2 DEF SenderNext
    <3>2. QED
      BY <3>1, RosterKeptSucceeds DEF RInv
  <2>3. QED
    BY <2>1, <2>2
<1>4. CASE (\E s \in Sessions : Move(s)) \/ UNCHANGED rosterVars
  <2>1. roster' = roster
    BY <1>4 DEF Move, rosterVars
  <2>2. QED
    BY <2>1, RosterKeptSucceeds DEF RInv
<1>5. QED
  BY <1>1, <1>2, <1>3, <1>4 DEF RosterNext

(***************************************************************************)
(* Whatever operators, enrollments and senders do to a participant, it is  *)
(* never forgotten, renamed or revived, none of its metadata is rewritten, *)
(* and its generation counts its bindings: it changes by one, and exactly  *)
(* when the participant is bound.  A session is changed under no           *)
(* generation, and an invalidated binding is never restored, but only      *)
(* replaced.  (participants.py, bind, invalidate, retire, update_metadata.)*)
(***************************************************************************)
THEOREM BindingsNumbered ==
  RosterSpec => [][SucceededByAll]_rosterVars
<1>1. RInv /\ [RosterNext]_rosterVars => [SucceededByAll]_rosterVars
  BY StepSucceeds
<1>2. QED
  BY <1>1, RosterInvariant, PTL DEF RosterSpec

\* A binding that was already there, or one that a sender reads from the roster.
LEMMA BindingsFrom ==
  ASSUME RInv, [RosterNext]_rosterVars, NEW b \in Bindings'
  PROVE  \/ \E c \in Bindings : SameBinding(b, c)
         \/ /\ roster' = roster /\ b.participant \in Added
            /\ b.session = roster[b.participant].session /\ b.session \in Sessions
            /\ b.generation = roster[b.participant].generation
<1> DEFINE Held == \E c \in Bindings : SameBinding(b, c)
<1>1. CASE senders' = senders /\ intents' = intents
  <2>1. b \in Bindings
    BY <1>1 DEF Bindings
  <2>2. QED
    BY <2>1 DEF SameBinding
<1>2. ASSUME NEW a \in Senders, senders[a].phase # "idle", NEW z \in Sender,
             SameBinding(z, senders[a]), senders' = [senders EXCEPT ![a] = z],
             intents' \subseteq intents \cup {senders[a]}
      PROVE  Held
  <2>1. \A c \in Senders \ {a} : senders'[c] = senders[c]
    BY <1>2 DEF RInv, TypeInv
  <2>2. senders'[a] = z
    BY <1>2 DEF RInv, TypeInv
  <2>3. senders[a] \in Bindings
    BY <1>2 DEF Bindings
  <2>4. b \in Bindings \/ b = z
    <3>1. CASE b \in intents'
      BY <1>2, <2>3, <3>1 DEF Bindings
    <3>2. CASE \E c \in Senders : senders'[c].phase # "idle" /\ b = senders'[c]
      BY <2>1, <2>2, <3>2 DEF Bindings
    <3>3. QED
      BY <3>1, <3>2 DEF Bindings
  <2>5. QED
    BY <1>2, <2>3, <2>4 DEF SameBinding
<1>3. ASSUME NEW a \in Senders, NEW p \in Active, roster[p].status = "bound",
             NEW z \in Sender, z.participant = p, z.session = roster[p].session,
             z.generation = roster[p].generation,
             senders' = [senders EXCEPT ![a] = z], intents' = intents, roster' = roster
      PROVE  \/ Held
             \/ /\ roster' = roster /\ b.participant \in Added
                /\ b.session = roster[b.participant].session /\ b.session \in Sessions
                /\ b.generation = roster[b.participant].generation
  <2>1. senders'[a] = z /\ \A c \in Senders \ {a} : senders'[c] = senders[c]
    BY <1>3 DEF RInv, TypeInv
  <2>2. b \in Bindings \/ b = z
    BY <1>3, <2>1 DEF Bindings
  <2>3. p \in Added /\ roster[p].session \in Sessions
    BY <1>3, ActiveParticipant DEF Earned
  <2>4. QED
    BY <1>3, <2>2, <2>3 DEF SameBinding
<1>4. ASSUME NEW a \in Senders
      PROVE  senders[a] \in Sender
  BY DEF RInv, TypeInv
<1>5. ASSUME NEW a \in Senders, NEW p \in ParticipantIds, CaptureClaude(a, p)
      PROVE  \/ Held
             \/ /\ roster' = roster /\ b.participant \in Added
                /\ b.session = roster[b.participant].session /\ b.session \in Sessions
                /\ b.generation = roster[b.participant].generation
  <2> DEFINE z == [senders[a] EXCEPT !.phase = "captured", !.participant = p,
                     !.session = roster[p].session, !.generation = roster[p].generation]
  <2>1. /\ p \in Active /\ roster[p].status = "bound" /\ roster' = roster
        /\ intents' = intents /\ senders' = [senders EXCEPT ![a] = z]
    BY <1>5 DEF CaptureClaude, Usable, RInv, TypeInv
  <2>2. roster[p].session \in Sessions \cup {None} /\ roster[p].generation \in Nat
    BY <2>1, ActiveParticipant
  <2>3. /\ z \in Sender /\ z.participant = p /\ z.session = roster[p].session
        /\ z.generation = roster[p].generation
    BY <1>4, <2>2 DEF Sender
  <2> HIDE DEF z
  <2>4. QED
    BY <1>3, <2>1, <2>3
<1>6. ASSUME NEW a \in Senders, NEW p \in ParticipantIds, CaptureCodex(a, p)
      PROVE  \/ Held
             \/ /\ roster' = roster /\ b.participant \in Added
                /\ b.session = roster[b.participant].session /\ b.session \in Sessions
                /\ b.generation = roster[b.participant].generation
  <2> DEFINE z == [senders[a] EXCEPT !.phase = "discovered", !.participant = p,
                     !.session = roster[p].session, !.generation = roster[p].generation,
                     !.address = roster[p].route.address]
  <2>1. /\ p \in Active /\ roster[p].status = "bound" /\ roster' = roster
        /\ roster[p].route # None
        /\ intents' = intents /\ senders' = [senders EXCEPT ![a] = z]
    BY <1>6 DEF CaptureCodex, Usable, RouteReady, Correlated, RInv, TypeInv
  <2>2. /\ roster[p].session \in Sessions \cup {None} /\ roster[p].generation \in Nat
        /\ roster[p].route.address \in Addresses \cup Sessions
    BY <2>1, ActiveParticipant DEF Route
  <2>3. /\ z \in Sender /\ z.participant = p /\ z.session = roster[p].session
        /\ z.generation = roster[p].generation
    BY <1>4, <2>2 DEF Sender
  <2> HIDE DEF z
  <2>4. QED
    BY <1>3, <2>1, <2>3
<1>7. ASSUME NEW a \in Senders, Discover(a)
      PROVE  Held
  <2> DEFINE place == live[senders[a].session]
             z == [senders[a] EXCEPT !.phase = "discovered", !.address = place.address,
                                     !.evidence = place.evidence]
  <2>1. /\ senders[a].phase = "captured" /\ place # None /\ intents' = intents
        /\ senders' = [senders EXCEPT ![a] = z]
    BY <1>7 DEF Discover, RInv, TypeInv
  <2>2. senders[a].session \in Sessions
    BY <2>1 DEF RInv, SenderInv
  <2>3. place.address \in Addresses /\ place.evidence \in Evidence
    BY <2>1, <2>2 DEF RInv, TypeInv
  <2> HIDE DEF place
  <2>4. z \in Sender /\ SameBinding(z, senders[a])
    BY <1>4, <2>3 DEF Sender, SameBinding
  <2> HIDE DEF z
  <2>5. QED
    BY <1>2, <2>1, <2>4
<1>8. ASSUME NEW a \in Senders, UseClaudeRoute(a) \/ UseCodexRoute(a) \/ GiveUp(a)
      PROVE  Held
  <2> DEFINE z == [senders[a] EXCEPT !.phase = "done"]
  <2>1. /\ senders[a].phase # "idle" /\ intents' \subseteq intents \cup {senders[a]}
        /\ senders' = [senders EXCEPT ![a] = z]
    BY <1>8 DEF UseClaudeRoute, UseCodexRoute, GiveUp, RInv, TypeInv
  <2>2. z \in Sender /\ SameBinding(z, senders[a])
    BY <1>4 DEF Sender, SameBinding
  <2> HIDE DEF z
  <2>3. QED
    BY <1>2, <2>1, <2>2
<1>9. CASE SenderNext
  BY <1>5, <1>6, <1>7, <1>8, <1>9 DEF SenderNext
<1>10. CASE OperatorNext
  <2>1. senders' = senders /\ intents' = intents
    <3>1. ASSUME NEW p \in ParticipantIds, NEW name, NEW vendor, NEW details
          PROVE  Add(p, name, vendor, details) => senders' = senders /\ intents' = intents
      BY DEF Add
    <3>2. ASSUME NEW p \in ParticipantIds, NEW s
          PROVE  Bind(p, s) \/ BindCodex(p, s) => senders' = senders /\ intents' = intents
      BY DEF Bind, BindCodex
    <3>3. ASSUME NEW p \in ParticipantIds, NEW change, NEW expected, NEW read
          PROVE  UpdateMetadata(p, change, expected, read) =>
                   senders' = senders /\ intents' = intents
      BY DEF UpdateMetadata
    <3>4. ASSUME NEW p \in ParticipantIds, NEW address
          PROVE  ConfirmRoute(p, address) \/ Invalidate(p) \/ Retire(p) =>
                   senders' = senders /\ intents' = intents
      BY DEF ConfirmRoute, Invalidate, Retire
    <3>5. QED
      BY <1>10, <3>1, <3>2, <3>3, <3>4 DEF OperatorNext
  <2>2. QED
    BY <1>1, <2>1
<1>11. CASE EnrollmentNext \/ (\E s \in Sessions : Move(s)) \/ UNCHANGED rosterVars
  <2>1. senders' = senders /\ intents' = intents
    BY <1>11 DEF EnrollmentNext, Propose, ConfirmEnrollment, Move, rosterVars
  <2>2. QED
    BY <1>1, <2>1
<1>12. QED
  BY <1>9, <1>10, <1>11 DEF RosterNext

\* What a binding's participant becomes leaves the binding named as it was.
LEMMA StaysNamed ==
  ASSUME RInv, SucceededByAll, NEW b, NamedBy(b)
  PROVE  NamedBy(b)'
<1> DEFINE x == roster[b.participant]
           y == roster'[b.participant]
<1>1. /\ b.participant \in Added' /\ Succeeds(x, y) /\ x.generation \in Nat
  BY AddedParticipants, ParticipantFields DEF NamedBy, SucceededByAll, RInv
<1>2. CASE y.generation = x.generation /\ y.session = x.session
  BY <1>1, <1>2 DEF NamedBy
<1>3. CASE y.generation = x.generation + 1
  BY <1>1, <1>3 DEF NamedBy
<1>4. QED
  BY <1>1, <1>2, <1>3 DEF Succeeds

LEMMA NamesStep ==
  ASSUME RInv, GenerationsNameSessions, [RosterNext]_rosterVars
  PROVE  GenerationsNameSessions'
<1>1. SucceededByAll
  BY StepSucceeds
<1> DEFINE Fresh(b) ==
             /\ roster' = roster /\ b.participant \in Added
             /\ b.session = roster[b.participant].session /\ b.session \in Sessions
             /\ b.generation = roster[b.participant].generation
<1>2. ASSUME NEW b \in Bindings'
      PROVE  (\E c \in Bindings : SameBinding(b, c)) \/ Fresh(b)
  BY BindingsFrom
<1>3. ASSUME NEW b \in Bindings'
      PROVE  NamedBy(b)'
  <2>1. CASE \E c \in Bindings : SameBinding(b, c)
    <3>1. NamedBy(b)
      BY <2>1 DEF GenerationsNameSessions, NamedBy, SameBinding
    <3>2. QED
      BY <1>1, <3>1, StaysNamed
  <2>2. CASE Fresh(b)
    <3>1. Added' = Added /\ roster[b.participant].generation \in Nat
      BY <2>2, AddedParticipants, ParticipantFields DEF Added, RInv
    <3>2. QED
      BY <2>2, <3>1 DEF NamedBy
  <2>3. QED
    BY <1>2, <2>1, <2>2
<1>4. ASSUME NEW b \in Bindings', NEW c \in Bindings',
             c.participant = b.participant, c.generation = b.generation
      PROVE  c.session = b.session
  <2>1. CASE Fresh(b) \/ Fresh(c)
    BY <1>3, <1>4, <2>1 DEF NamedBy
  <2>2. CASE /\ \E d \in Bindings : SameBinding(b, d)
             /\ \E e \in Bindings : SameBinding(c, e)
    BY <1>4, <2>2 DEF GenerationsNameSessions, SameBinding
  <2>3. QED
    BY <1>2, <2>1, <2>2
<1>5. QED
  BY <1>3, <1>4 DEF GenerationsNameSessions

(***************************************************************************)
(* However often its participant was rebound since, the generation that a  *)
(* sender captured and an intent was journaled with names one session of   *)
(* the participant.  So the journal's generations tell bindings apart, and *)
(* comparing generation and session, as a Claude sender does, admits no    *)
(* binding but the captured one, even when the same session is bound anew. *)
(***************************************************************************)
THEOREM GenerationsTellBindingsApart ==
  RosterSpec => []GenerationsNameSessions
<1>1. RosterInit => GenerationsNameSessions
  <2>1. RosterInit => Bindings = {}
    BY DEF RosterInit, Bindings, NoSender
  <2>2. QED
    BY <2>1 DEF GenerationsNameSessions
<1>2. RInv /\ GenerationsNameSessions /\ [RosterNext]_rosterVars => GenerationsNameSessions'
  BY NamesStep
<1>3. QED
  BY <1>1, <1>2, RosterInvariant, PTL DEF RosterSpec
=============================================================================
