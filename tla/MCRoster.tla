------------------------------ MODULE MCRoster ------------------------------
(***************************************************************************)
(* Instances of Roster for TLC.  The identifiers are not interchangeable   *)
(* when one of them is also a name.                                        *)
(***************************************************************************)
EXTENDS Roster, TLC

CONSTANTS i1, i2, i3, n1, n2

Three == {i1, i2, i3}
Two == {i1, i2}
NamesLikeIds == {n1, i1}
PlainNames == {n1, n2}
Claude == {"claude-code"}
Codex == {"codex"}
Both == {"codex", "claude-code"}

(***************************************************************************)
(* Participants start without metadata.  An update touches nothing else,   *)
(* so that updates are explored of one participant alone.                  *)
(***************************************************************************)
NoDetails == {[f \in Fields |-> None]}

UpdatedAlone == \A p \in Added : Len(roster[p].metadata) > 1 => Added = {p}

Interchangeable ==
  Permutations(Sessions) \cup Permutations(Addresses) \cup Permutations(Evidence)
    \cup Permutations(ProposalIds) \cup Permutations(Senders)
    \cup Permutations(Values)
=============================================================================
