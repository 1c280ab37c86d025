------------------------- MODULE MCServerLifecycle -------------------------
(* Instances of ServerLifecycle for TLC.                                     *)
EXTENDS ServerLifecycle, TLC

CONSTANTS s1, s2, p1, p2, p3, r1, r2, r3

AllOps == [r \in Requests |-> Ops]
\* One client restarts, which includes starting; the other stops.
RestarterAndStopper == [r \in Requests |-> IF r = r1 THEN {"restart"} ELSE {"stop"}]

PidSymmetry == Permutations(Pids)
\* Sound with AllOps, which treats the slots alike.
Symmetry == PidSymmetry \cup Permutations(Requests)
=============================================================================
