------------------------- MODULE CompatibilityProofs -------------------------
(***************************************************************************)
(* Machine-checked proofs about Compatibility, for every set of checkouts, *)
(* participants, plans and requests, and for every bound.                  *)
(***************************************************************************)
EXTENDS Compatibility, TLAPS

CompatIInv == CompatTypeOK /\ JournalReadable

\* What the constants' assumption says of one request.
LEMMA RequestFields ==
  ASSUME NEW q \in Requests
  PROVE  q.version \in Nat /\ q.epoch \in Nat /\ q.expires \in Nat
  BY CompatibilityAssumption

\* A staged plan is a well-formed one.
LEMMA PlannedFields ==
  ASSUME CompatTypeOK, NEW i \in Planned
  PROVE  /\ i \in PlanIds /\ plans[i] \in Plan
         /\ plans[i].request \in Requests /\ plans[i].version \in Versions
<1>1. i \in PlanIds /\ plans[i] \in Plan
  BY DEF CompatTypeOK, Planned
<1>2. QED
  BY <1>1 DEF Plan

\* The roster a plan freezes, when every participant in it is bound.
LEMMA FrozenRoster ==
  ASSUME CompatTypeOK, AllBound
  PROVE  Generations \in [Active -> 1..MaxGeneration] /\ Active \in SUBSET Participants
<1>1. \A x \in Active : x \in Participants /\ roster[x].generation \in 1..MaxGeneration
  BY CompatibilityAssumption DEF CompatTypeOK, Participant, Active, AllBound
<1>2. QED
  BY <1>1 DEF Generations, Active

LEMMA CompatInitInv == CompatInit => CompatIInv
<1>1. SUFFICES ASSUME CompatInit PROVE CompatIInv
  OBVIOUS
<1>2. clock \in 0..MaxTime
  BY <1>1, CompatibilityAssumption DEF CompatInit
<1>3. /\ roster \in [Participants -> Participant]
      /\ \A x \in Participants : roster[x].status = "bound" => roster[x].generation > 0
  BY <1>1, CompatibilityAssumption DEF CompatInit, Participant, Statuses
<1>4. plans \in [PlanIds -> Plan \cup {None}]
  BY <1>1 DEF CompatInit
<1>5. readiness \in Seq(Readiness) /\ Len(readiness) <= MaxReadiness
  BY <1>1, CompatibilityAssumption DEF CompatInit
<1>6. gates \in Seq(Gate) /\ \A k \in DOMAIN gates : FALSE
  BY <1>1 DEF CompatInit
<1>7. QED
  BY <1>1, <1>2, <1>3, <1>4, <1>5, <1>6
  DEF CompatIInv, CompatTypeOK, JournalReadable, CompatInit

\* A roster change by any of the four commands.
LEMMA RosterStep ==
  ASSUME CompatIInv, NEW v, NEW x \in Participants, NEW status \in Statuses,
         NEW g \in 0..MaxGeneration, status = "bound" => g > 0,
         ChangeRoster(v, x, status, g)
  PROVE  CompatIInv'
<1>1. [status |-> status, generation |-> g] \in Participant
  BY DEF Participant
<1>2. /\ roster' \in [Participants -> Participant]
      /\ \A y \in Participants : roster'[y].status = "bound" => roster'[y].generation > 0
  BY <1>1 DEF CompatIInv, CompatTypeOK, ChangeRoster
<1>3. QED
  BY <1>2 DEF CompatIInv, CompatTypeOK, JournalReadable, ChangeRoster, Planned

LEMMA MakePlanStep ==
  ASSUME CompatIInv, NEW v \in Versions, NEW now \in 0..clock, NEW i \in PlanIds,
         NEW q \in Requests, MakePlan(v, now, i, q)
  PROVE  CompatIInv'
<1> DEFINE plan == [request |-> q, version |-> v, frozen |-> Generations]
<1>1. plan \in Plan
  BY FrozenRoster DEF CompatIInv, MakePlan, NewPlan, Plan
<1>2. plans' \in [PlanIds -> Plan \cup {None}]
  BY <1>1 DEF CompatIInv, CompatTypeOK, MakePlan, NewPlan
<1>3. Planned \subseteq Planned'
  BY <1>1, CompatibilityAssumption DEF CompatIInv, CompatTypeOK, MakePlan, NewPlan, Planned
<1>4. readable' = TRUE
  BY DEF MakePlan, ObservePlan
<1>5. QED
  BY <1>2, <1>3, <1>4 DEF CompatIInv, CompatTypeOK, JournalReadable, MakePlan

LEMMA DeclareReadyStep ==
  ASSUME CompatIInv, NEW v \in Versions, NEW now \in 0..clock, NEW i \in PlanIds,
         NEW x \in Participants, DeclareReady(v, now, i, x)
  PROVE  CompatIInv'
<1> DEFINE record == [plan |-> i, participant |-> x, generation |-> roster[x].generation,
                      version |-> v, ready_at |-> now]
<1>1. now \in 0..MaxTime /\ roster[x].generation \in 1..MaxGeneration
  BY CompatibilityAssumption
  DEF CompatIInv, CompatTypeOK, DeclareReady, NewReadiness, BindingFrozen, Participant
<1>2. record \in Readiness
  BY <1>1 DEF Readiness
<1>3. /\ readiness' \in Seq(Readiness) /\ Len(readiness') = Len(readiness) + 1
      /\ Len(readiness') <= MaxReadiness
  BY <1>2, CompatibilityAssumption DEF CompatIInv, CompatTypeOK, DeclareReady, NewReadiness
<1>4. ReadinessFits(record)
  <2>1. plans[i].request.expires \in Nat
    BY PlannedFields, RequestFields DEF CompatIInv, DeclareReady, NewReadiness
  <2>2. now <= plans[i].request.expires
    BY <1>1, <2>1, CompatibilityAssumption DEF DeclareReady, NewReadiness
  <2>3. QED
    BY <2>2 DEF DeclareReady, NewReadiness, BindingFrozen, ReadinessFits
<1>5. readable' = TRUE
  BY <1>4 DEF DeclareReady, NewReadiness, ObserveReadiness
<1>6. DOMAIN readiness \subseteq DOMAIN readiness'
  BY <1>3 DEF CompatIInv, CompatTypeOK
<1>7. QED
  BY <1>3, <1>5, <1>6 DEF CompatIInv, CompatTypeOK, JournalReadable, DeclareReady, NewReadiness, Planned

LEMMA ActivateStep ==
  ASSUME CompatIInv, NEW v \in Versions, NEW now \in 0..clock, NEW i \in PlanIds,
         Activate(v, now, i)
  PROVE  CompatIInv'
<1> DEFINE gate == [plan |-> i, readiness |-> LatestReadiness(i), activated_at |-> now]
<1>1. now \in 0..MaxTime
  BY CompatibilityAssumption DEF CompatIInv, CompatTypeOK
<1>2. LatestReadiness(i) \subseteq DOMAIN readiness
  BY DEF LatestReadiness
<1>3. DOMAIN readiness \subseteq 1..MaxReadiness
  BY CompatibilityAssumption DEF CompatIInv, CompatTypeOK
<1>4. gate \in Gate
  BY <1>1, <1>2, <1>3 DEF Gate
<1>5. gates' \in Seq(Gate) /\ gates' = Append(gates, gate)
  BY <1>4 DEF CompatIInv, CompatTypeOK, Activate, NewGate
<1>6. \A k \in DOMAIN gates' : /\ gates'[k].plan \in Planned
                             /\ gates'[k].readiness \subseteq DOMAIN readiness
                             /\ gates'[k].activated_at <= clock
  <2>1. gate.plan \in Planned /\ gate.activated_at <= clock
    BY CompatibilityAssumption DEF Activate, NewGate, CompatIInv, CompatTypeOK
  <2>2. TAKE k \in DOMAIN gates'
  <2>3. (k \in DOMAIN gates /\ gates'[k] = gates[k]) \/ gates'[k] = gate
    BY <1>5 DEF CompatIInv, CompatTypeOK
  <2>4. QED
    BY <1>2, <2>1, <2>3 DEF CompatIInv, CompatTypeOK
<1>7. QED
  BY <1>5, <1>6 DEF CompatIInv, CompatTypeOK, JournalReadable, Activate, Planned

LEMMA CompatNextInv == CompatIInv /\ [CompatNext]_compatVars => CompatIInv'
<1>1. SUFFICES ASSUME CompatIInv, [CompatNext]_compatVars PROVE CompatIInv'
  OBVIOUS
<1>2. CASE UNCHANGED compatVars
  BY <1>1, <1>2 DEF CompatIInv, CompatTypeOK, JournalReadable, compatVars, Planned
<1>3. CASE Tick
  <2>1. clock \in Nat /\ clock' \in 0..MaxTime /\ clock <= clock'
    BY <1>1, <1>3, CompatibilityAssumption DEF CompatIInv, CompatTypeOK, Tick
  <2>2. \A k \in DOMAIN gates : gates[k].activated_at <= clock'
    <3>1. TAKE k \in DOMAIN gates
    <3>2. gates[k] \in Gate /\ gates[k].activated_at <= clock
      BY <1>1 DEF CompatIInv, CompatTypeOK
    <3>3. gates[k].activated_at \in Nat
      BY <3>2, CompatibilityAssumption DEF Gate
    <3>4. QED
      BY <2>1, <3>2, <3>3
  <2>3. QED
    BY <1>1, <1>3, <2>1, <2>2 DEF CompatIInv, CompatTypeOK, JournalReadable, Tick, Planned
<1>4. ASSUME NEW v \in Versions, NEW now \in 0..clock, NEW i \in PlanIds, NEW q \in Requests,
             MakePlan(v, now, i, q)
      PROVE  CompatIInv'
  BY <1>1, <1>4, MakePlanStep
<1>5. ASSUME NEW v \in Versions, NEW now \in 0..clock, NEW i \in PlanIds,
             NEW x \in Participants, DeclareReady(v, now, i, x)
      PROVE  CompatIInv'
  BY <1>1, <1>5, DeclareReadyStep
<1>6. ASSUME NEW v \in Versions, NEW now \in 0..clock, NEW i \in PlanIds, Activate(v, now, i)
      PROVE  CompatIInv'
  BY <1>1, <1>6, ActivateStep
<1>7. ASSUME NEW v \in Versions, NEW x \in Participants,
             Enroll(v, x) \/ Bind(v, x) \/ Invalidate(v, x) \/ Retire(v, x)
      PROVE  CompatIInv'
  <2>1. roster[x].generation \in 0..MaxGeneration
    BY <1>1 DEF CompatIInv, CompatTypeOK, Participant
  <2>2. CASE Enroll(v, x)
    <3>1. ChangeRoster(v, x, "unbound", 0) /\ "unbound" \in Statuses /\ 0 \in 0..MaxGeneration
      BY <2>2, CompatibilityAssumption DEF Enroll, Statuses
    <3>2. QED
      BY <1>1, <3>1, RosterStep
  <2>3. CASE Bind(v, x)
    <3>1. Rebound(x) \in 0..MaxGeneration /\ Rebound(x) > 0
      BY <2>1, <2>3, CompatibilityAssumption DEF Bind, Rebound
    <3>2. QED
      BY <1>1, <2>3, <3>1, RosterStep DEF Bind, Statuses
  <2>4. CASE Invalidate(v, x)
    BY <1>1, <2>1, <2>4, RosterStep DEF Invalidate, Statuses
  <2>5. CASE Retire(v, x)
    BY <1>1, <2>1, <2>5, RosterStep DEF Retire, Statuses
  <2>6. QED
    BY <1>7, <2>2, <2>3, <2>4, <2>5
<1>8. QED
  BY <1>1, <1>2, <1>3, <1>4, <1>5, <1>6, <1>7 DEF CompatNext

LEMMA CompatInductive == CompatSpec => []CompatIInv
  BY CompatInitInv, CompatNextInv, PTL DEF CompatSpec

\* The records, the roster and the times are well formed.
THEOREM CompatTypeCorrect == CompatSpec => []CompatTypeOK
<1>1. CompatIInv => CompatTypeOK
  BY DEF CompatIInv
<1>2. QED
  BY <1>1, CompatInductive, PTL

(***************************************************************************)
(* No command appends a record that a later replay refuses, whatever the   *)
(* order of commands and however old the times they are stamped with.      *)
(***************************************************************************)
THEOREM JournalStaysReadable == CompatSpec => []JournalReadable
<1>1. CompatIInv => JournalReadable
  BY DEF CompatIInv
<1>2. QED
  BY <1>1, CompatInductive, PTL

\* Every step but an activation leaves the gates alone.
LEMMA OnlyActivateAppends ==
  ASSUME [CompatNext]_compatVars
  PROVE  \/ gates' = gates
         \/ \E v \in Versions, now \in 0..clock, i \in PlanIds : Activate(v, now, i)
<1>1. ASSUME NEW v \in Versions, NEW x \in Participants,
             Enroll(v, x) \/ Bind(v, x) \/ Invalidate(v, x) \/ Retire(v, x)
      PROVE  gates' = gates
  BY <1>1 DEF Enroll, Bind, Invalidate, Retire, ChangeRoster
<1>2. ASSUME NEW v \in Versions, NEW now \in 0..clock, NEW i \in PlanIds, NEW q \in Requests,
             MakePlan(v, now, i, q)
      PROVE  gates' = gates
  BY <1>2 DEF MakePlan
<1>3. ASSUME NEW v \in Versions, NEW now \in 0..clock, NEW i \in PlanIds,
             NEW x \in Participants, DeclareReady(v, now, i, x)
      PROVE  gates' = gates
  BY <1>3 DEF DeclareReady, NewReadiness
<1>4. CASE Tick
  BY <1>4 DEF Tick
<1>5. CASE UNCHANGED compatVars
  BY <1>5 DEF compatVars
<1>6. QED
  BY <1>1, <1>2, <1>3, <1>4, <1>5 DEF CompatNext

(***************************************************************************)
(* Whoever activates a gate, and however the roster changed since the plan *)
(* was made, every participant is bound and was declared ready for exactly *)
(* this plan and this binding.                                             *)
(***************************************************************************)
THEOREM EveryoneReady == CompatSpec => ReadyWhenActivated
<1>1. ASSUME CompatIInv, [CompatNext]_compatVars
      PROVE  [ReadyAtActivation]_gates
  <2>1. CASE gates' = gates
    BY <2>1
  <2>2. ASSUME NEW v \in Versions, NEW now \in 0..clock, NEW i \in PlanIds,
               Activate(v, now, i)
        PROVE  ReadyAtActivation
    <3> DEFINE gate == [plan |-> i, readiness |-> LatestReadiness(i), activated_at |-> now]
    <3>1. gates' = Append(gates, gate)
      BY <2>2 DEF Activate, NewGate
    <3>2. gates'[Len(gates')] = gate
      BY <1>1, <3>1 DEF CompatIInv, CompatTypeOK
    <3>3. ReadinessComplete(gate) /\ RosterMatches(plans[i])
      BY <2>2 DEF Activate, NewGate, ActivationAccepted
    <3>4. ASSUME NEW x \in Active
          PROVE  /\ roster[x].status = "bound"
                 /\ \E m \in gate.readiness :
                      /\ readiness[m].plan = gate.plan
                      /\ readiness[m].participant = x
                      /\ readiness[m].generation = roster[x].generation
                      /\ readiness[m].ready_at <= gate.activated_at
      <4>1. /\ roster[x].status = "bound"
            /\ x \in DOMAIN plans[i].frozen /\ plans[i].frozen[x] = roster[x].generation
        BY <3>3 DEF RosterMatches, AllBound, Generations
      <4>2. PICK m \in gate.readiness : readiness[m].participant = x
        BY <3>3, <4>1 DEF ReadinessComplete
      <4>3. /\ readiness[m].plan = gate.plan
            /\ plans[i].frozen[x] = readiness[m].generation
            /\ readiness[m].ready_at <= gate.activated_at
        BY <3>3, <4>2 DEF ReadinessComplete, ReadinessFits
      <4>4. QED
        BY <4>1, <4>2, <4>3
    <3>5. QED
      BY <3>2, <3>4 DEF ReadyAtActivation
  <2>3. QED
    BY <1>1, <2>1, <2>2, OnlyActivateAppends
<1>2. QED
  BY <1>1, CompatInductive, PTL DEF CompatSpec, ReadyWhenActivated

-----------------------------------------------------------------------------
(***************************************************************************)
(* The gates themselves.  Of each feature only the active gate is compared *)
(* with a new one, so the invariant must say that it stands for all the    *)
(* earlier gates of its feature.                                           *)
(***************************************************************************)
ActiveGateStands ==
  \A j \in DOMAIN gates : \E k \in ActiveGates :
    /\ Requested(k).feature = Requested(j).feature
    /\ Requested(j).version <= Requested(k).version

GatesIInv == GatesAdvance /\ ActiveGateStands /\ ReadyReadersReadOn

\* A journaled gate keeps its meaning while no gate is appended.
LEMMA GatesKept ==
  ASSUME CompatIInv, [CompatNext]_compatVars, gates' = gates
  PROVE  \A k \in DOMAIN gates : /\ Requested(k)' = Requested(k)
                                /\ \A m \in gates[k].readiness : readiness'[m] = readiness[m]
<1> DEFINE Kept == /\ \A i \in Planned : plans'[i] = plans[i]
                   /\ \A m \in DOMAIN readiness : readiness'[m] = readiness[m]
<1>1. ASSUME NEW v \in Versions, NEW now \in 0..clock, NEW i \in PlanIds, NEW q \in Requests,
             MakePlan(v, now, i, q)
      PROVE  Kept
  BY <1>1 DEF CompatIInv, CompatTypeOK, MakePlan, NewPlan, Planned
<1>2. ASSUME NEW v \in Versions, NEW now \in 0..clock, NEW i \in PlanIds,
             NEW x \in Participants, DeclareReady(v, now, i, x)
      PROVE  Kept
  <2> DEFINE record == [plan |-> i, participant |-> x, generation |-> roster[x].generation,
                        version |-> v, ready_at |-> now]
  <2>1. plans' = plans /\ readiness' = Append(readiness, record)
    BY <1>2 DEF DeclareReady, NewReadiness
  <2>2. readiness \in Seq(Readiness)
    BY DEF CompatIInv, CompatTypeOK
  <2>3. QED
    BY <2>1, <2>2
<1>3. ASSUME plans' = plans, readiness' = readiness
      PROVE  Kept
  BY <1>3
<1>4. Kept
  BY <1>1, <1>2, <1>3
  DEF CompatNext, compatVars, Activate, Enroll, Bind, Invalidate, Retire, ChangeRoster, Tick
<1>5. QED
  BY <1>4 DEF CompatIInv, CompatTypeOK, Requested

LEMMA GatesKeptInv ==
  ASSUME CompatIInv, [CompatNext]_compatVars, gates' = gates, GatesIInv
  PROVE  GatesIInv'
<1>1. \A k \in DOMAIN gates : Requested(k)' = Requested(k)
  BY GatesKept
<1>2. DOMAIN gates = 1..Len(gates)
  BY DEF CompatIInv, CompatTypeOK
<1>3. GatesAdvance'
  BY <1>1, <1>2 DEF GatesIInv, GatesAdvance, Feature
<1>4. ActiveGates' = ActiveGates
  BY <1>1, <1>2 DEF ActiveGates
<1>5. ActiveGateStands'
  <2>1. ASSUME NEW j \in DOMAIN gates
        PROVE  \E k \in ActiveGates' : /\ Requested(k)'.feature = Requested(j)'.feature
                                        /\ Requested(j)'.version <= Requested(k)'.version
    <3>1. PICK k \in ActiveGates : /\ Requested(k).feature = Requested(j).feature
                                   /\ Requested(j).version <= Requested(k).version
      BY DEF GatesIInv, ActiveGateStands
    <3>2. k \in DOMAIN gates
      BY DEF ActiveGates
    <3>3. QED
      BY <1>1, <1>4, <3>1, <3>2
  <2>2. QED
    BY <2>1 DEF ActiveGateStands
<1>6. ReadyReadersReadOn'
  BY <1>1, <1>2, GatesKept DEF GatesIInv, ReadyReadersReadOn, Supports
<1>7. QED
  BY <1>3, <1>5, <1>6 DEF GatesIInv

LEMMA GateAppendedInv ==
  ASSUME CompatIInv, GatesIInv,
         NEW v \in Versions, NEW now \in 0..clock, NEW i \in PlanIds, Activate(v, now, i)
  PROVE  GatesIInv'
<1> DEFINE gate == [plan |-> i, readiness |-> LatestReadiness(i), activated_at |-> now]
           q == plans[i].request
<1>0. PICK n : n = Len(gates)
  OBVIOUS
<1>1. /\ n \in Nat /\ DOMAIN gates = 1..n /\ Len(gates') = n + 1 /\ DOMAIN gates' = 1..(n + 1)
      /\ \A k \in 1..n : gates'[k] = gates[k]
      /\ gates'[n + 1] = gate
  BY <1>0 DEF CompatIInv, CompatTypeOK, Activate, NewGate
<1>2. plans' = plans /\ readiness' = readiness
  BY DEF Activate, NewGate
<1>3. (\A k \in 1..n : Requested(k)' = Requested(k)) /\ Requested(n + 1)' = q
  BY <1>1, <1>2 DEF Requested
<1>4. \A k \in 1..n : Requested(k).version \in Nat
  BY <1>1, PlannedFields, RequestFields DEF CompatIInv, CompatTypeOK, Requested
<1>5. q.version \in Nat /\ plans[i] \in Plan
  BY PlannedFields, RequestFields DEF CompatIInv, Activate
<1>6. ActiveGates \subseteq 1..n
  BY <1>1 DEF ActiveGates
<1>7. \A j \in 1..n : Requested(j).feature = q.feature => Requested(j).version < q.version
  <2>1. TAKE j \in 1..n
  <2>2. PICK k \in ActiveGates : /\ Requested(k).feature = Requested(j).feature
                                 /\ Requested(j).version <= Requested(k).version
    BY <1>1 DEF GatesIInv, ActiveGateStands
  <2>3. Requested(k).feature = q.feature => Requested(k).version < q.version
    BY DEF Activate, NewGate, ActivationAccepted, Advances
  <2>4. QED
    BY <1>4, <1>5, <1>6, <2>2, <2>3
<1>8. GatesAdvance'
  <2>1. n = 0 => Feature(q) = <<Kernel, 1>>
    BY <1>6 DEF Activate, NewGate, ActivationAccepted, KernelFirst, KernelActive, Feature
  <2>2. ASSUME NEW k \in 1..(n + 1)
        PROVE  k = 1 => Feature(Requested(k)') = <<Kernel, 1>>
    BY <1>1, <1>3, <2>1 DEF GatesIInv, GatesAdvance
  <2>3. ASSUME NEW k \in 1..(n + 1), NEW j \in 1..(k - 1),
               Requested(j)'.feature = Requested(k)'.feature
        PROVE  Requested(j)'.version < Requested(k)'.version
    <3>1. CASE k \in 1..n
      <4>1. j \in 1..n
        BY <1>1, <3>1
      <4>2. QED
        BY <1>1, <1>3, <2>3, <3>1, <4>1 DEF GatesIInv, GatesAdvance
    <3>2. CASE k = n + 1
      <4>1. j \in 1..n
        BY <1>1, <3>2
      <4>2. QED
        BY <1>3, <1>7, <2>3, <3>2, <4>1
    <3>3. QED
      BY <1>1, <3>1, <3>2
  <2>4. QED
    BY <1>1, <2>2, <2>3 DEF GatesAdvance, Feature
<1>9. ActiveGateStands'
  <2>1. n + 1 \in ActiveGates'
    BY <1>1 DEF ActiveGates
  <2>2. \A k \in ActiveGates : Requested(k).feature # q.feature => k \in ActiveGates'
    BY <1>1, <1>3 DEF ActiveGates
  <2>3. ASSUME NEW j \in 1..(n + 1)
        PROVE  \E k \in ActiveGates' : /\ Requested(k)'.feature = Requested(j)'.feature
                                        /\ Requested(j)'.version <= Requested(k)'.version
    <3>1. CASE j = n + 1
      BY <1>3, <1>5, <2>1, <3>1
    <3>2. CASE j \in 1..n /\ Requested(j).feature = q.feature
      BY <1>3, <1>4, <1>5, <1>7, <2>1, <3>2
    <3>3. CASE j \in 1..n /\ Requested(j).feature # q.feature
      <4>1. PICK k \in ActiveGates : /\ Requested(k).feature = Requested(j).feature
                                     /\ Requested(j).version <= Requested(k).version
        BY <1>1, <3>3 DEF GatesIInv, ActiveGateStands
      <4>2. k \in ActiveGates' /\ k \in 1..n
        BY <1>6, <2>2, <3>3, <4>1
      <4>3. QED
        BY <1>3, <3>3, <4>1, <4>2
    <3>4. QED
      BY <1>1, <3>1, <3>2, <3>3
  <2>4. QED
    BY <1>1, <2>3 DEF ActiveGateStands
<1>10. ReadyReadersReadOn'
  <2>1. \A m \in gate.readiness : readiness[m].version = v /\ Supports(v, q)
    BY DEF Activate, NewGate, ActivationAccepted, ReadinessComplete, ReadinessFits, ProfileUnchanged
  <2>2. \A j \in 1..n : Supports(v, Requested(j))
    BY <1>1 DEF Activate, NewGate, Replays
  <2>3. ASSUME NEW k \in 1..(n + 1), NEW j \in 1..k, NEW m \in gates'[k].readiness
        PROVE  Supports(readiness[m].version, Requested(j)')
    <3>1. CASE k \in 1..n
      <4>1. j \in 1..n
        BY <1>1, <3>1
      <4>2. QED
        BY <1>1, <1>3, <3>1, <4>1 DEF GatesIInv, ReadyReadersReadOn
    <3>2. CASE k = n + 1
      <4>1. j \in 1..n \/ j = n + 1
        BY <1>1, <3>2
      <4>2. QED
        BY <1>1, <1>3, <2>1, <2>2, <3>2, <4>1
    <3>3. QED
      BY <1>1, <3>1, <3>2
  <2>4. QED
    BY <1>1, <1>2, <2>3 DEF ReadyReadersReadOn, Supports
<1>11. QED
  BY <1>8, <1>9, <1>10 DEF GatesIInv

LEMMA GatesInductive == CompatSpec => []GatesIInv
<1>1. CompatInit => GatesIInv
  BY DEF CompatInit, GatesIInv, GatesAdvance, ActiveGateStands, ReadyReadersReadOn
<1>2. CompatIInv /\ GatesIInv /\ [CompatNext]_compatVars => GatesIInv'
  <2>1. SUFFICES ASSUME CompatIInv, GatesIInv, [CompatNext]_compatVars PROVE GatesIInv'
    OBVIOUS
  <2>2. CASE gates' = gates
    BY <2>1, <2>2, GatesKeptInv
  <2>3. ASSUME NEW v \in Versions, NEW now \in 0..clock, NEW i \in PlanIds, Activate(v, now, i)
        PROVE  GatesIInv'
    BY <2>1, <2>3, GateAppendedInv
  <2>4. QED
    BY <2>1, <2>2, <2>3, OnlyActivateAppends
<1>3. QED
  BY <1>1, <1>2, CompatInductive, PTL DEF CompatSpec

\* The first gate is the kernel's, and the gates of a feature only rise.
THEOREM GatesOnlyRise == CompatSpec => []GatesAdvance
<1>1. GatesIInv => GatesAdvance
  BY DEF GatesIInv
<1>2. QED
  BY <1>1, GatesInductive, PTL

(***************************************************************************)
(* The checkout with which a participant was declared ready for a gate     *)
(* reads that gate and every earlier one.                                  *)
(***************************************************************************)
THEOREM ReadyReadersKeepReading == CompatSpec => []ReadyReadersReadOn
<1>1. GatesIInv => ReadyReadersReadOn
  BY DEF GatesIInv
<1>2. QED
  BY <1>1, GatesInductive, PTL
=============================================================================
