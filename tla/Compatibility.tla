---------------------------- MODULE Compatibility ----------------------------
(***************************************************************************)
(* Compatibility gates: how a project decides, in three journaled stages,  *)
(* that every participant's reader understands a feature, and how a reader *)
(* that does not is stopped.                                               *)
(*                                                                         *)
(* Commands are run from possibly different checkouts.  A command reads    *)
(* the clock when it starts and waits for the project lock afterwards: its *)
(* transaction is one step, which stamps its record with any time that is  *)
(* already past.  plan and ready append their records after the command    *)
(* line's own checks; every later replay applies the kernel's checks to    *)
(* the same records, and fails for ever if one does not pass.              *)
(*                                                                         *)
(* A clean validation profile identifies a checkout, so its digest, reader *)
(* epoch and capabilities are one version here.  Operator references and   *)
(* the configuration of a feature are left out: they only refuse.          *)
(***************************************************************************)
EXTENDS Naturals, Sequences, FiniteSets

CONSTANTS
  Participants,
  PlanIds,
  Requests,      \* what plan commands ask for
  Versions,      \* checkouts of the tools, one per clean validation profile
  Epoch,         \* CURRENT_READER_EPOCH of each version
  Capabilities,  \* SUPPORTED_READER_CAPABILITIES of each version
  MaxLifetime,   \* MAX_PLAN_LIFETIME
  MaxTime,       \* bound of the model: the clock
  MaxGeneration, \* bound of the model: rebindings of a participant
  MaxReadiness,  \* bound of the model: readiness records
  None

VARIABLES
  clock,      \* the host's clock
  roster,     \* the participants' statuses and binding generations
  plans,      \* compatibility.upgrade.planned records; None before they exist
  readiness,  \* compatibility.participant.ready records, in journal order
  gates,      \* state.compatibility.gate_activated records, in journal order
  readable    \* whether replay accepts every record of the journal

compatVars == <<clock, roster, plans, readiness, gates, readable>>

Kernel == "compatibility.kernel"

Feature(request) == <<request.feature, request.version>>

Statuses == {"absent", "unbound", "bound", "stale", "retired"}

Participant == [status : Statuses, generation : 0..MaxGeneration]

Plan == [request : Requests, version : Versions,
         frozen : UNION {[S -> 1..MaxGeneration] : S \in SUBSET Participants}]

Readiness == [plan : PlanIds, participant : Participants,
              generation : 1..MaxGeneration, version : Versions, ready_at : 0..MaxTime]

Gate == [plan : PlanIds, readiness : SUBSET (1..MaxReadiness), activated_at : 0..MaxTime]

\* A request names a feature version, the reader it needs and its expiry.
ASSUME CompatibilityAssumption ==
  /\ {MaxLifetime, MaxTime, MaxGeneration, MaxReadiness} \subseteq Nat
  /\ Epoch \in [Versions -> Nat]
  /\ DOMAIN Capabilities = Versions
  /\ \A q \in Requests :
       /\ {q.version, q.epoch, q.expires} \subseteq Nat
       /\ {<<Kernel, 1>>, Feature(q)} \subseteq q.capabilities
  /\ None \notin Plan

Planned == {i \in PlanIds : plans[i] # None}

Active == {x \in Participants : roster[x].status \notin {"absent", "retired"}}

Generations == [x \in Active |-> roster[x].generation]

AllBound == \A x \in Active : roster[x].status = "bound"

\* What gate k was activated for.
Requested(k) == plans[gates[k].plan].request

\* The active gate of a feature is the last one journaled.
ActiveGates ==
  {k \in DOMAIN gates :
     \A j \in (k + 1)..Len(gates) : Requested(j).feature # Requested(k).feature}

-----------------------------------------------------------------------------
(***************************************************************************)
(* The kernel: what replay accepts.                                        *)
(***************************************************************************)
Supports(version, request) ==
  /\ request.epoch <= Epoch[version]
  /\ request.capabilities \subseteq Capabilities[version]

\* An ordinary replay stops at the first gate the reader does not support.
Replays(version) ==
  /\ readable
  /\ \A k \in DOMAIN gates : Supports(version, Requested(k))

PlanWindow(request, recorded) ==
  recorded < request.expires /\ request.expires - recorded <= MaxLifetime

ObservePlan(i, request, recorded) ==
  plans[i] = None /\ PlanWindow(request, recorded)

\* _require_readiness_for_plan
ReadinessFits(r) ==
  LET plan == plans[r.plan] IN
  /\ r.participant \in DOMAIN plan.frozen
  /\ plan.frozen[r.participant] = r.generation
  /\ Supports(r.version, plan.request)
  /\ r.version = plan.version
  /\ r.ready_at <= plan.request.expires

ObserveReadiness(r) == r.plan \in Planned /\ ReadinessFits(r)

RosterMatchesFault(plan) ==
  /\ plan.frozen = << >> => \A x \in Participants : roster[x].status = "absent"
  /\ AllBound
  /\ DOMAIN Generations = DOMAIN plan.frozen

\* A plan without participants is for a project that never had any.
RosterMatches(plan) ==
  /\ plan.frozen = << >> => \A x \in Participants : roster[x].status = "absent"
  /\ AllBound
  /\ Generations = plan.frozen

AdvancesFault(request) ==
  \A k \in ActiveGates :
    Requested(k).feature = request.feature => Requested(k).version <= request.version

\* Only the active gate of the feature is compared.
Advances(request) ==
  \A k \in ActiveGates :
    Requested(k).feature = request.feature => Requested(k).version < request.version

KernelActive == \E k \in ActiveGates : Requested(k).feature = Kernel

KernelFirst(request) ==
  IF request.feature = Kernel THEN KernelActive \/ request.version = 1 ELSE KernelActive

ReadinessComplete(gate) ==
  LET referenced == {readiness[k] : k \in gate.readiness} IN
  /\ {r.participant : r \in referenced} = DOMAIN plans[gate.plan].frozen
  /\ \A r \in referenced :
       r.plan = gate.plan /\ ReadinessFits(r) /\ r.ready_at <= gate.activated_at

PlanResolved(gate) ==
  /\ gate.plan \in Planned
  /\ gate.activated_at <= plans[gate.plan].request.expires

ActivationAccepted(gate) ==
  /\ PlanResolved(gate)
  /\ ReadinessComplete(gate)
  /\ LET plan == plans[gate.plan] IN
     /\ RosterMatches(plan)
     /\ KernelFirst(plan.request)
     /\ Advances(plan.request)

-----------------------------------------------------------------------------
(***************************************************************************)
(* The commands, run from checkout v at some time in 0..clock.             *)
(***************************************************************************)
\* _frozen_roster: every participant is retired, but some existed.
RosterEmptied == Active = {} /\ \E x \in Participants : roster[x].status = "retired"

NewPlan(v, request) == [request |-> request, version |-> v, frozen |-> Generations]

MakePlan(v, now, i, request) ==
  /\ Replays(v)
  /\ ~RosterEmptied /\ AllBound
  /\ PlanWindow(request, now)
  /\ plans[i] = None
  /\ plans' = [plans EXCEPT ![i] = NewPlan(v, request)]
  /\ readable' = ObservePlan(i, request, now)
  /\ UNCHANGED <<clock, roster, readiness, gates>>

BindingFrozenFault(plan, x) == x \in DOMAIN plan.frozen

\* The participant is bound, and bound as it was when the plan was made.
BindingFrozen(plan, x) ==
  /\ roster[x].status = "bound"
  /\ x \in DOMAIN plan.frozen
  /\ plan.frozen[x] = roster[x].generation

NewReadiness(v, now, i, x) ==
  [plan |-> i, participant |-> x, generation |-> roster[x].generation,
   version |-> v, ready_at |-> now]

\* Repeating a declaration that is already recorded adds nothing.
DeclareReady(v, now, i, x) ==
  LET plan == plans[i]
      record == NewReadiness(v, now, i, x)
  IN /\ Replays(v)
     /\ i \in Planned
     /\ now < plan.request.expires
     /\ BindingFrozen(plan, x)
     /\ Supports(v, plan.request)
     /\ v = plan.version
     /\ \A k \in DOMAIN readiness :
          readiness[k] # [record EXCEPT !.ready_at = readiness[k].ready_at]
     /\ Len(readiness) < MaxReadiness
     /\ readiness' = Append(readiness, record)
     /\ readable' = ObserveReadiness(record)
     /\ UNCHANGED <<clock, roster, plans, gates>>

\* The latest readiness of each participant that recorded one for plan i.
LatestReadiness(i) ==
  {k \in DOMAIN readiness :
     /\ readiness[k].plan = i
     /\ \A j \in (k + 1)..Len(readiness) :
          readiness[j].plan = i => readiness[j].participant # readiness[k].participant}

ProfileUnchangedFault(v, plan) == TRUE

\* Whoever activates a plan runs the checkout that it was made with.
ProfileUnchanged(v, plan) == v = plan.version

NewGate(now, i) == [plan |-> i, readiness |-> LatestReadiness(i), activated_at |-> now]

Activate(v, now, i) ==
  LET plan == plans[i]
      gate == NewGate(now, i)
  IN /\ Replays(v)
     /\ i \in Planned
     /\ now < plan.request.expires
     /\ ProfileUnchanged(v, plan)
     /\ ActivationAccepted(gate)
     /\ Supports(v, plan.request)
     /\ gates' = Append(gates, gate)
     /\ UNCHANGED <<clock, roster, plans, readiness, readable>>

(***************************************************************************)
(* Enrollment, binding, invalidation and removal replay the journal too.   *)
(***************************************************************************)
ChangeRoster(v, x, status, generation) ==
  /\ Replays(v)
  /\ roster' = [roster EXCEPT ![x] = [status |-> status, generation |-> generation]]
  /\ UNCHANGED <<clock, plans, readiness, gates, readable>>

Enroll(v, x) == roster[x].status = "absent" /\ ChangeRoster(v, x, "unbound", 0)

Rebound(x) == roster[x].generation + 1

Bind(v, x) ==
  /\ x \in Active /\ roster[x].generation < MaxGeneration
  /\ ChangeRoster(v, x, "bound", Rebound(x))

Invalidate(v, x) == x \in Active /\ ChangeRoster(v, x, "stale", roster[x].generation)

Retire(v, x) == x \in Active /\ ChangeRoster(v, x, "retired", roster[x].generation)

Tick ==
  /\ clock < MaxTime
  /\ clock' = clock + 1
  /\ UNCHANGED <<roster, plans, readiness, gates, readable>>

CompatInit ==
  /\ clock = 0
  /\ roster = [x \in Participants |-> [status |-> "absent", generation |-> 0]]
  /\ plans = [i \in PlanIds |-> None]
  /\ readiness = << >> /\ gates = << >>
  /\ readable = TRUE

CompatNext ==
  \/ \E v \in Versions :
       \/ \E now \in 0..clock, i \in PlanIds :
            \/ \E q \in Requests : MakePlan(v, now, i, q)
            \/ \E x \in Participants : DeclareReady(v, now, i, x)
            \/ Activate(v, now, i)
       \/ \E x \in Participants :
            Enroll(v, x) \/ Bind(v, x) \/ Invalidate(v, x) \/ Retire(v, x)
  \/ Tick

CompatSpec == CompatInit /\ [][CompatNext]_compatVars

-----------------------------------------------------------------------------
(***************************************************************************)
(* Type invariant.  The records are well formed, and nothing carries a     *)
(* time that has not come: records are stamped with the time a command     *)
(* read when it started.                                                   *)
(***************************************************************************)
CompatTypeOK ==
  /\ clock \in 0..MaxTime
  /\ roster \in [Participants -> Participant]
  /\ \A x \in Participants : roster[x].status = "bound" => roster[x].generation > 0
  /\ plans \in [PlanIds -> Plan \cup {None}]
  /\ readiness \in Seq(Readiness) /\ Len(readiness) <= MaxReadiness
  /\ gates \in Seq(Gate)
  /\ \A k \in DOMAIN gates : /\ gates[k].plan \in Planned
                            /\ gates[k].readiness \subseteq DOMAIN readiness
                            /\ gates[k].activated_at <= clock
  /\ readable \in BOOLEAN

(***************************************************************************)
(* Replay accepts every record the commands append.  plan and ready check  *)
(* less than replay does, and with a clock read before the lock was taken: *)
(* one record that replay refuses would close the project's journal to     *)
(* every reader for ever.                                                  *)
(***************************************************************************)
JournalReadable == readable

(***************************************************************************)
(* The kernel's first version is activated before anything else, and the   *)
(* gates of one feature only rise, whoever activates plans in whichever    *)
(* order (_activate).                                                      *)
(***************************************************************************)
GatesAdvance ==
  \A k \in DOMAIN gates :
    /\ k = 1 => Feature(Requested(k)) = <<Kernel, 1>>
    /\ \A j \in 1..(k - 1) :
         Requested(j).feature = Requested(k).feature => Requested(j).version < Requested(k).version

(***************************************************************************)
(* Whoever declared readiness for a gate can read the whole journal up to  *)
(* that gate: the checkout every participant was ready with supports the   *)
(* gate itself and all that were activated before it, those included that  *)
(* were activated after the plan was made.                                 *)
(***************************************************************************)
ReadyReadersReadOn ==
  \A k \in DOMAIN gates : \A j \in 1..k : \A m \in gates[k].readiness :
    Supports(readiness[m].version, Requested(j))

(***************************************************************************)
(* A gate is activated only over a roster in which every participant is    *)
(* bound and was declared ready, for this plan and this very binding, not  *)
(* later than the activation says: no participant joined, left, or was     *)
(* bound again since the plan was made.                                    *)
(***************************************************************************)
ReadyAtActivation ==
  LET gate == gates'[Len(gates')] IN
  Len(gates') > Len(gates) =>
    \A x \in Active :
      /\ roster[x].status = "bound"
      /\ \E m \in gate.readiness :
           /\ readiness[m].plan = gate.plan
           /\ readiness[m].participant = x
           /\ readiness[m].generation = roster[x].generation
           /\ readiness[m].ready_at <= gate.activated_at

ReadyWhenActivated == [][ReadyAtActivation]_gates
=============================================================================
