---------------------------- MODULE AppendOnlyLog ----------------------------
(***************************************************************************)
(* What the project journal and the approval ledger promise their users: a *)
(* sequence that is only ever extended at its end.  The first "kept"       *)
(* records were promised to stay, and stay for ever; records beyond them   *)
(* may be lost when the host crashes, last ones first.  Which reports      *)
(* promise a record is for the implementation to say.                      *)
(***************************************************************************)
EXTENDS Naturals, Sequences

CONSTANT Records

VARIABLES log, kept

Extend ==
  /\ Len(log') = Len(log) + 1
  /\ SubSeq(log', 1, Len(log)) = log
  /\ log'[Len(log')] \in Records

\* A loss keeps what was promised.
Lose == \E k \in kept..Len(log) : log' = SubSeq(log, 1, k)

Promise == kept' \in kept..Len(log')

LogInit == log = <<>> /\ kept = 0

LogNext ==
  \/ Extend /\ Promise
  \/ Lose /\ kept' = kept
  \/ UNCHANGED log /\ Promise

LogSpec == LogInit /\ [][LogNext]_<<log, kept>>
=============================================================================
