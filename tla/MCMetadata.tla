----------------------------- MODULE MCMetadata -----------------------------
(* The requests of one name, in every order and of every mixture of kinds. *)
EXTENDS Metadata, TLC

Symmetric == Permutations(Requests)
=============================================================================
