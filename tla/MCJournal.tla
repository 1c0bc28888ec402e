------------------------------ MODULE MCJournal ------------------------------
(***************************************************************************)
(* Instances of Journal for TLC: two processes, interchangeable.           *)
(***************************************************************************)
EXTENDS Journal, TLC

Symmetry == Permutations(Processes)
=============================================================================
