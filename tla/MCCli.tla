------------------------------- MODULE MCCli --------------------------------
(* Cli for TLC: one collection. *)
EXTENDS Cli, TLC

OneCollection(n) == "c"
Symmetric == Permutations(Objects)
=============================================================================
