-------------------------- MODULE MCOwningPointers --------------------------
(* Model checking of OwningPointers.                                       *)
EXTENDS OwningPointers, TLC

Symmetry ==
  Permutations(Slots) \cup Permutations(Natives) \cup Permutations(Parents)
    \cup Permutations(Owned)
=============================================================================
