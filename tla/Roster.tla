-------------------------------- MODULE Roster --------------------------------
(***************************************************************************)
(* The participant roster, the enrollment proposals, and the senders that  *)
(* resolve a participant to a live route.                                  *)
(*                                                                         *)
(* Every change of roster and proposals is one journal record, applied and *)
(* appended under the project lock.  A sender reads the binding under the  *)
(* lock, releases it while it asks the product where the session lives,    *)
(* and takes it again to record the route and its intent; in between       *)
(* operators may bind, confirm, invalidate and retire, and the product may *)
(* move a session to another address.                                      *)
(*                                                                         *)
(* Left out, because they only refuse: well-formedness of the fields,      *)
(* session labels and kinds, timestamps (every record is stamped with the  *)
(* time of its own transaction) and product approvals.                     *)
(***************************************************************************)
EXTENDS Naturals, Sequences, FiniteSets

CONSTANTS
  ParticipantIds,  \* participant_id
  Names,           \* common_name; a name may look like an identifier
  Vendors,         \* those in use, of "codex" and "claude-code"
  Sessions,        \* session UUIDs
  Addresses,       \* qualified ListAgents addresses
  Evidence,        \* Agent View evidence of a running session
  ProposalIds,
  Senders,         \* invocations of preflight and send
  Values,          \* values of descriptive fields
  Details,         \* the metadata that participants are added with
  MaxGeneration,   \* bound of the model: rebindings of a participant
  MaxRevision,     \* bound of the model: versions of its metadata
  None

ASSUME RosterAssumption ==
  /\ MaxGeneration \in Nat
  /\ Vendors \subseteq {"codex", "claude-code"}
  /\ None \notin ParticipantIds \cup Names \cup Sessions \cup Addresses
                   \cup Evidence \cup ProposalIds
  /\ Sessions \cap Addresses = {}
  /\ Details \subseteq [{"role", "approved_product_executable"} -> Values \cup {None}]

VARIABLES
  roster,      \* the participants; None before they are added
  proposals,   \* the enrollment proposals; None before they are made
  live,        \* the product: where each session can be reached now
  senders,     \* the senders' own state
  intents,     \* history: the intents journaled, with what was read before
  confirmed    \* history: the routes operators confirmed

rosterVars == <<roster, proposals, live, senders, intents, confirmed>>

Statuses == {"unbound", "bound", "stale", "retired"}

RouteStatuses == {"candidate", "tool_correlated", "operator_correlated", "stale"}

\* A Codex session is its own address and has no Agent View.
Route ==
  [address : Addresses \cup Sessions, evidence : Evidence \cup {None},
   generation : Nat, status : RouteStatuses]

(***************************************************************************)
(* The metadata of a participant, all its versions: the code keeps the     *)
(* last with its number, metadata_revision.  "given" are the fields that   *)
(* the command was given; display_name is like role.                       *)
(***************************************************************************)
Fields == {"role", "approved_product_executable"}

Version == [given : SUBSET Fields, values : [Fields -> Values \cup {None}]]

First(details) == <<[given |-> Fields, values |-> details]>>

Participant ==
  [name : Names, vendor : Vendors, status : Statuses, session : Sessions \cup {None},
   generation : Nat, route : Route \cup {None}, metadata : Seq(Version)]

Proposal ==
  [participant : ParticipantIds, name : Names, vendor : Vendors, session : Sessions,
   details : Details,
   status : {"pending", "confirmed", "superseded"},
   superseded_by : ProposalIds \cup {None}]

ASSUME NoneAssumption == None \notin Participant /\ None \notin Route /\ None \notin Proposal

Sender ==
  [phase : {"idle", "captured", "discovered", "done"},
   participant : ParticipantIds \cup {None}, session : Sessions \cup {None},
   generation : Nat, address : Addresses \cup Sessions \cup {None},
   evidence : Evidence \cup {None}]

Added == {p \in ParticipantIds : roster[p] # None}

Active == {p \in Added : roster[p].status # "retired"}

Made == {e \in ProposalIds : proposals[e] # None}

Correlated(x) ==
  x.route # None /\ x.route.status \in {"tool_correlated", "operator_correlated"}

-----------------------------------------------------------------------------
(***************************************************************************)
(* The operations of ParticipantRoster on one participant x.               *)
(***************************************************************************)
New(name, vendor, details) ==
  [name |-> name, vendor |-> vendor, status |-> "unbound", session |-> None,
   generation |-> 0, route |-> None, metadata |-> First(details)]

Rebound(x, s) ==
  [x EXCEPT !.status = "bound", !.session = s, !.generation = @ + 1, !.route = None]

PreservesFault(x, address, evidence) == x.route # None /\ x.route.status = "operator_correlated"

\* preserve_correlation: nothing observed differs from what was confirmed.
Preserves(x, address, evidence) ==
  /\ x.route # None
  /\ x.route.status = "operator_correlated"
  /\ x.route.generation = x.generation
  /\ x.route.address = address /\ x.route.evidence = evidence

ObservedStatus(x, address, evidence, unconfirmed) ==
  IF Preserves(x, address, evidence) THEN "operator_correlated" ELSE unconfirmed

Observed(x, address, evidence, unconfirmed) ==
  [x EXCEPT !.route = [address |-> address, evidence |-> evidence,
                       generation |-> x.generation,
                       status |-> ObservedStatus(x, address, evidence, unconfirmed)]]

Confirmed(x) == [x EXCEPT !.route.status = "operator_correlated"]

Invalidated(x) ==
  [x EXCEPT !.status = "stale",
            !.route = IF @ = None THEN None ELSE [@ EXCEPT !.status = "stale"]]

Retired(x) == [Invalidated(x) EXCEPT !.status = "retired"]

NameFreeFault(p, name) ==
  \A q \in Added : roster[q].name # name

\* Neither name nor identifier selects anybody else, retired ones included.
NameFree(p, name) ==
  \A q \in Added : roster[q].name \notin {name, p} /\ q # name

SessionAvailableFault(p, vendor, s) ==
  \A q \in {q \in Added : roster[q].status = "bound"} \ {p} :
    ~(roster[q].vendor = vendor /\ roster[q].session = s)

\* _ensure_session_available; stale bindings still hold their session.
SessionAvailable(p, vendor, s) ==
  \A q \in Active \ {p} : ~(roster[q].vendor = vendor /\ roster[q].session = s)

\* _ensure_route_available; stale routes still hold their address.
RouteAvailable(p, address) ==
  \A q \in Active \ {p} : roster[q].route # None => roster[q].route.address # address

Confirmation(p, x) ==
  [participant |-> p, generation |-> x.generation, address |-> x.route.address,
   evidence |-> x.route.evidence]

-----------------------------------------------------------------------------
\* Operators' commands.
Add(p, name, vendor, details) ==
  /\ roster[p] = None /\ NameFree(p, name)
  /\ roster' = [roster EXCEPT ![p] = New(name, vendor, details)]
  /\ UNCHANGED <<proposals, live, senders, intents, confirmed>>

Bindable(p, s) ==
  /\ p \in Active
  /\ SessionAvailable(p, roster[p].vendor, s)
  /\ roster[p].generation < MaxGeneration

Bind(p, s) ==
  /\ Bindable(p, s)
  /\ roster[p].vendor = "claude-code"
  /\ roster' = [roster EXCEPT ![p] = Rebound(@, s)]
  /\ UNCHANGED <<proposals, live, senders, intents, confirmed>>

(***************************************************************************)
(* A Codex session is bound, and its route observed and confirmed, by      *)
(* three records; the process may fail or die after each.                  *)
(***************************************************************************)
BindCodex(p, s) ==
  /\ Bindable(p, s)
  /\ roster[p].vendor = "codex"
  /\ LET bound == Rebound(roster[p], s)
         routed == Confirmed(Observed(bound, s, None, "candidate"))
     IN \/ /\ roster' = [roster EXCEPT ![p] = bound]
           /\ UNCHANGED confirmed
        \/ /\ RouteAvailable(p, s)
           /\ roster' = [roster EXCEPT ![p] = Observed(bound, s, None, "candidate")]
           /\ UNCHANGED confirmed
        \/ /\ RouteAvailable(p, s)
           /\ roster' = [roster EXCEPT ![p] = routed]
           /\ confirmed' = confirmed \cup {Confirmation(p, routed)}
  /\ UNCHANGED <<proposals, live, senders, intents>>

\* participant confirm-route --expected-address
ConfirmRoute(p, expected) ==
  /\ p \in Active
  /\ roster[p].status = "bound" /\ roster[p].route # None
  /\ roster[p].route.status \in {"candidate", "tool_correlated"}
  /\ roster[p].route.address = expected
  /\ roster' = [roster EXCEPT ![p] = Confirmed(@)]
  /\ confirmed' = confirmed \cup {Confirmation(p, roster[p])}
  /\ UNCHANGED <<proposals, live, senders, intents>>

Changes == UNION {[given -> Values \cup {None}] : given \in SUBSET Fields \ {{}}}

RevisionExpectedFault(p, expected) == expected \in DOMAIN roster[p].metadata

RevisionExpected(p, expected) == expected = Len(roster[p].metadata)

(***************************************************************************)
(* participant update-metadata.  The operator gives the revision that they *)
(* inspected and some fields; the command fills the others from what it    *)
(* reads, and updates in a second transaction.  An update that changes     *)
(* nothing is reported as done without looking at the revision.            *)
(***************************************************************************)
UpdateMetadata(p, change, expected, read) ==
  /\ p \in Active
  /\ LET versions == roster[p].metadata
         filled == [f \in Fields |-> IF f \in DOMAIN change THEN change[f]
                                    ELSE versions[read].values[f]]
     IN /\ expected <= read /\ read <= Len(versions) /\ Len(versions) < MaxRevision
        /\ filled # versions[Len(versions)].values
        /\ RevisionExpected(p, expected)
        /\ roster' = [roster EXCEPT ![p].metadata =
             Append(@, [given |-> DOMAIN change, values |-> filled])]
  /\ UNCHANGED <<proposals, live, senders, intents, confirmed>>

Invalidate(p) ==
  /\ p \in Active
  /\ roster' = [roster EXCEPT ![p] = Invalidated(@)]
  /\ UNCHANGED <<proposals, live, senders, intents, confirmed>>

Retire(p) ==
  /\ p \in Active
  /\ roster' = [roster EXCEPT ![p] = Retired(@)]
  /\ UNCHANGED <<proposals, live, senders, intents, confirmed>>

-----------------------------------------------------------------------------
(***************************************************************************)
(* Enrollment.  An agent proposes its own session; repeating the same      *)
(* proposal reuses it, a different one supersedes those still pending for  *)
(* the session.  The operator confirms one exact proposal.                 *)
(***************************************************************************)
PendingFor(vendor, s) ==
  {e \in Made : /\ proposals[e].status = "pending"
                /\ proposals[e].vendor = vendor /\ proposals[e].session = s}

SupersededByFault(e, vendor, s) == proposals

SupersededBy(e, vendor, s) ==
  [f \in ProposalIds |->
     IF f \in PendingFor(vendor, s)
     THEN [proposals[f] EXCEPT !.status = "superseded", !.superseded_by = e]
     ELSE proposals[f]]

Propose(e, p, name, vendor, s, details) ==
  /\ proposals[e] = None
  /\ roster[p] = None /\ \A f \in Made : proposals[f].participant # p
  /\ \A q \in Added : roster[q].name # name
  /\ SessionAvailable(p, vendor, s)
  /\ \A f \in PendingFor(vendor, s) :
       proposals[f].name # name \/ proposals[f].details # details
  /\ proposals' = [SupersededBy(e, vendor, s) EXCEPT ![e] =
       [participant |-> p, name |-> name, vendor |-> vendor, session |-> s,
        details |-> details, status |-> "pending", superseded_by |-> None]]
  /\ UNCHANGED <<roster, live, senders, intents, confirmed>>

\* The confirmation adds, binds and, for Codex, routes in one record.
Enrolled(x) ==
  LET bound == Rebound(New(x.name, x.vendor, x.details), x.session) IN
    IF x.vendor = "codex" THEN Confirmed(Observed(bound, x.session, None, "candidate"))
    ELSE bound

ConfirmEnrollment(e) ==
  /\ e \in Made /\ proposals[e].status = "pending"
  /\ LET x == proposals[e]
         p == x.participant
     IN /\ roster[p] = None /\ NameFree(p, x.name)
        /\ SessionAvailable(p, x.vendor, x.session)
        /\ x.vendor = "codex" => RouteAvailable(p, x.session)
        /\ roster' = [roster EXCEPT ![p] = Enrolled(x)]
        /\ confirmed' = IF x.vendor = "codex"
                        THEN confirmed \cup {Confirmation(p, Enrolled(x))}
                        ELSE confirmed
  /\ proposals' = [proposals EXCEPT ![e].status = "confirmed"]
  /\ UNCHANGED <<live, senders, intents>>

-----------------------------------------------------------------------------
\* The product starts, moves, renames and ends sessions as it likes.
Move(s) ==
  /\ \E place \in [address : Addresses, evidence : Evidence] \cup {None} :
       /\ place # live[s]
       /\ place # None =>
            \A t \in Sessions \ {s} : live[t] # None => live[t].address # place.address
       /\ live' = [live EXCEPT ![s] = place]
  /\ UNCHANGED <<roster, proposals, senders, intents, confirmed>>

Usable(p, vendor) ==
  p \in Active /\ roster[p].vendor = vendor /\ roster[p].status = "bound"

\* require_correlated_route
RouteReady(p) ==
  Correlated(roster[p]) /\ roster[p].route.generation = roster[p].generation

\* The first transaction of a Claude sender.
CaptureClaude(a, p) ==
  /\ senders[a].phase = "idle" /\ Usable(p, "claude-code")
  /\ senders' = [senders EXCEPT ![a].phase = "captured", ![a].participant = p,
       ![a].session = roster[p].session, ![a].generation = roster[p].generation]
  /\ UNCHANGED <<roster, proposals, live, intents, confirmed>>

\* Fresh discovery: the Agent View and ListAgents agree on one live session.
Discover(a) ==
  /\ senders[a].phase = "captured"
  /\ live[senders[a].session] # None
  /\ senders' = [senders EXCEPT ![a].phase = "discovered",
       ![a].address = live[senders[a].session].address,
       ![a].evidence = live[senders[a].session].evidence]
  /\ UNCHANGED <<roster, proposals, live, intents, confirmed>>

BindingKeptFault(a) == Usable(senders[a].participant, "claude-code")

\* The binding is the one the discovery was made for.
BindingKept(a) ==
  LET p == senders[a].participant IN
    /\ Usable(p, "claude-code")
    /\ roster[p].session = senders[a].session
    /\ roster[p].generation = senders[a].generation

(***************************************************************************)
(* The second transaction: the route is recorded, and then the intent,     *)
(* unless this is a preflight or the intent is refused.                    *)
(***************************************************************************)
UseClaudeRoute(a) ==
  /\ senders[a].phase = "discovered"
  /\ BindingKept(a)
  /\ RouteAvailable(senders[a].participant, senders[a].address)
  /\ roster' = [roster EXCEPT ![senders[a].participant] =
       Observed(@, senders[a].address, senders[a].evidence, "tool_correlated")]
  /\ senders' = [senders EXCEPT ![a].phase = "done"]
  /\ intents' \in {intents, intents \cup {senders[a]}}
  /\ UNCHANGED <<proposals, live, confirmed>>

\* A Codex sender reads the recorded route, and again before its intent; the
\* generation is no part of what it keeps.
CaptureCodex(a, p) ==
  /\ senders[a].phase = "idle" /\ Usable(p, "codex")
  /\ RouteReady(p)
  /\ senders' = [senders EXCEPT ![a].phase = "discovered", ![a].participant = p,
       ![a].session = roster[p].session, ![a].generation = roster[p].generation,
       ![a].address = roster[p].route.address]
  /\ UNCHANGED <<roster, proposals, live, intents, confirmed>>

\* Session and address are those read first.
RouteKept(a) ==
  LET p == senders[a].participant IN
    /\ Usable(p, "codex") /\ RouteReady(p)
    /\ roster[p].session = senders[a].session
    /\ roster[p].route.address = senders[a].address

UseCodexRoute(a) ==
  /\ senders[a].phase = "discovered"
  /\ RouteKept(a)
  /\ senders' = [senders EXCEPT ![a].phase = "done"]
  /\ intents' = intents \cup {senders[a]}
  /\ UNCHANGED <<roster, proposals, live, confirmed>>

\* Discovery fails, a check refuses, or the process dies.
GiveUp(a) ==
  /\ senders[a].phase \in {"captured", "discovered"}
  /\ senders' = [senders EXCEPT ![a].phase = "done"]
  /\ UNCHANGED <<roster, proposals, live, intents, confirmed>>

-----------------------------------------------------------------------------
NoSender ==
  [phase |-> "idle", participant |-> None, session |-> None, generation |-> 0,
   address |-> None, evidence |-> None]

RosterInit ==
  /\ roster = [p \in ParticipantIds |-> None]
  /\ proposals = [e \in ProposalIds |-> None]
  /\ live = [s \in Sessions |-> None]
  /\ senders = [a \in Senders |-> NoSender]
  /\ intents = {}
  /\ confirmed = {}

OperatorNext ==
  \E p \in ParticipantIds :
    \/ \E name \in Names, vendor \in Vendors, details \in Details :
         Add(p, name, vendor, details)
    \/ \E s \in Sessions : Bind(p, s) \/ BindCodex(p, s)
    \/ \E address \in Addresses \cup Sessions : ConfirmRoute(p, address)
    \/ \E change \in Changes, expected, read \in 1..MaxRevision :
         UpdateMetadata(p, change, expected, read)
    \/ Invalidate(p)
    \/ Retire(p)

EnrollmentNext ==
  \E e \in ProposalIds :
    \/ \E p \in ParticipantIds, name \in Names, vendor \in Vendors, s \in Sessions,
          details \in Details :
         Propose(e, p, name, vendor, s, details)
    \/ ConfirmEnrollment(e)

SenderNext ==
  \E a \in Senders :
    \/ \E p \in ParticipantIds : CaptureClaude(a, p) \/ CaptureCodex(a, p)
    \/ Discover(a) \/ UseClaudeRoute(a) \/ UseCodexRoute(a) \/ GiveUp(a)

RosterNext ==
  OperatorNext \/ EnrollmentNext \/ SenderNext \/ \E s \in Sessions : Move(s)

RosterSpec == RosterInit /\ [][RosterNext]_rosterVars
-----------------------------------------------------------------------------
(***************************************************************************)
(* Whatever selector an operator gives, name or identifier, it selects at  *)
(* most one participant, though names may look like identifiers, and names *)
(* of retired participants stay reserved.                                  *)
(***************************************************************************)
SelectorsUnambiguous ==
  \A p, q \in Added : p # q => roster[p].name # roster[q].name /\ roster[p].name # q

(***************************************************************************)
(* However participants are bound, rebound, invalidated, enrolled and      *)
(* routed, no session and no live address belongs to two participants that *)
(* are not retired: a message for one never reaches the other's session.   *)
(***************************************************************************)
OneParticipantPerSession ==
  \A p, q \in Active : p # q =>
    /\ roster[p].session # None /\ roster[p].vendor = roster[q].vendor =>
         roster[p].session # roster[q].session
    /\ roster[p].route # None /\ roster[q].route # None
         /\ roster[p].vendor = roster[q].vendor =>
         roster[p].route.address # roster[q].route.address

(***************************************************************************)
(* A correlated route was found for the current binding, and one marked as *)
(* operator-correlated was confirmed, address and evidence, by an operator *)
(* for this very binding; a confirmation is never carried over to another. *)
(***************************************************************************)
CorrelationEarned ==
  \A p \in Added : Correlated(roster[p]) =>
    /\ roster[p].status = "bound"
    /\ roster[p].route.generation = roster[p].generation
    /\ roster[p].vendor = "codex" => roster[p].route.address = roster[p].session
    /\ roster[p].route.status = "operator_correlated" =>
         Confirmation(p, roster[p]) \in confirmed

(***************************************************************************)
(* At most one proposal is pending for a session; a confirmed proposal     *)
(* made exactly its participant, and no other proposal made the same one.  *)
(***************************************************************************)
EnrollmentExact ==
  /\ \A e, f \in Made : e # f =>
       /\ proposals[e].participant # proposals[f].participant
       /\ proposals[e].status = "pending" /\ proposals[f].status = "pending" =>
            \/ proposals[e].vendor # proposals[f].vendor
            \/ proposals[e].session # proposals[f].session
  /\ \A e \in Made : proposals[e].status = "confirmed" =>
       /\ proposals[e].participant \in Added
       /\ roster[proposals[e].participant].name = proposals[e].name
       /\ roster[proposals[e].participant].vendor = proposals[e].vendor

(***************************************************************************)
(* An intent is journaled only while its participant is bound to the       *)
(* session that the sender looked up before it released the lock, with a   *)
(* correlated route of the current binding at the intent's address; and a  *)
(* Claude participant was not rebound in between.                          *)
(***************************************************************************)
IntentForCurrentBinding ==
  [][\A i \in intents' \ intents :
       LET x == roster'[i.participant] IN
         /\ x.status = "bound" /\ x.session = i.session
         /\ Correlated(x) /\ x.route.generation = x.generation
         /\ x.route.address = i.address
         /\ x.vendor = "claude-code" => x.generation = i.generation]_rosterVars

(***************************************************************************)
(* Of the operators who update the metadata of one participant, from what  *)
(* they inspected at different times, none overwrites what another wrote:  *)
(* a version differs from the one before it in the fields given only.      *)
(* (participants.py, update_metadata; cam1_project.py.)                    *)
(***************************************************************************)
NoLostUpdate ==
  \A p \in Added : LET versions == roster[p].metadata IN
    \A i \in 2..Len(versions) : \A f \in Fields \ versions[i].given :
      versions[i].values[f] = versions[i - 1].values[f]
=============================================================================
