------------------------------ MODULE MCGroups ------------------------------
(* Instances of Groups for TLC.                                              *)
EXTENDS Groups, TLC

CONSTANTS g1, g2, s1, s2, p1, p2, n1, n2, o1, o2

OneOfEach == g1 :> "op" @@ g2 :> "whitelist"
Operators == [g \in GroupIds |-> "op"]

GroupSymmetry == Permutations(Requests) \cup Permutations(Players)
=============================================================================
