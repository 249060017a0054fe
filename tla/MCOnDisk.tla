------------------------------ MODULE MCOnDisk ------------------------------
(* OnDisk for TLC: two writers and a reader of one object's directory.     *)
EXTENDS OnDisk, TLC

Symmetry == Permutations(Writers)

\* Any three files, and the four of which three .meta clash.
FewOrClashing == Cardinality(ever) < 4 \/ (Clash(ever) /\ Kind(ever, "data") # {})
=============================================================================
