------------------------------ MODULE MCDevice ------------------------------
(* Requests for one name, interchangeable until they start: a PUT, a POST *)
(* and a third of any kind but POST.                                       *)
EXTENDS Device, TLC

OfKind(k) == {r \in Requests : req[r].kind = k}
MCInit == Init /\ OfKind("PUT") # {} /\ Cardinality(OfKind("POST")) = 1
MCSpec == MCInit /\ [][Next]_vars

Symmetric == Permutations(Requests)
=============================================================================
