------------------------- MODULE MCProductApprovals -------------------------
(***************************************************************************)
(* An instance of ProductApprovals for TLC; the fingerprints are           *)
(* interchangeable.                                                        *)
(***************************************************************************)
EXTENDS ProductApprovals, TLC

Symmetry ==
  Permutations(Paths) \cup Permutations(Fingerprints) \cup Permutations(Contexts)
=============================================================================
