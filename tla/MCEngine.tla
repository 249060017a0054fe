------------------------------ MODULE MCEngine ------------------------------
(* One collection, as for names that hash alike. *)
EXTENDS Engine, TLC

OneCollection(n) == "c"
Symmetric == Permutations(Objects)
=============================================================================
