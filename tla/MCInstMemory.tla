---------------------------- MODULE MCInstMemory ----------------------------
(* Model checking of InstMemory.                                           *)
EXTENDS InstMemory, TLC

Symmetry == Permutations(Slots) \cup Permutations(Blocks)
=============================================================================
