--------------------------- MODULE MCCompatibility ---------------------------
(***************************************************************************)
(* Instances of Compatibility for TLC: two checkouts, the later of which   *)
(* has a reader epoch that the earlier one does not know.                  *)
(***************************************************************************)
EXTENDS Compatibility, TLC

CONSTANTS old, new

Ask(feature, epoch, expires) ==
  [feature |-> feature, version |-> 1, epoch |-> epoch, expires |-> expires,
   capabilities |-> {<<Kernel, 1>>, <<feature, 1>>}]

OldAndNew == {old, new}
Epochs == old :> 1 @@ new :> 2
Reads == [v \in OldAndNew |-> {<<Kernel, 1>>, <<"f", 1>>}]

\* The operator may ask for a later reader epoch than the checkout's own.
KernelAndFeature == {Ask(Kernel, 1, 2), Ask(Kernel, 2, 2), Ask("f", 1, 1)}

Interchangeable == Permutations(PlanIds) \cup Permutations(Participants)
=============================================================================
