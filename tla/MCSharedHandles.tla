--------------------------- MODULE MCSharedHandles ---------------------------
(* Model checking of SharedHandles.                                        *)
EXTENDS SharedHandles, TLC

Symmetry == Permutations(Objects)
=============================================================================
