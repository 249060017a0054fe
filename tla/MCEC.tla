-------------------------------- MODULE MCEC --------------------------------
(* EC for TLC: two writers, two fragments of one object.                   *)
EXTENDS EC, TLC

Symmetry == Permutations(Writers)
=============================================================================
