------------------------- MODULE MCSharedResources --------------------------
(* An instance of SharedResources for TLC: a group among three users, two    *)
(* groups, or a server with its schedule, among two.                         *)
EXTENDS SharedResources

Parts ==
    {[users |-> {1, 2, 3}, resources |-> {<<"group", 1>>}],
     [users |-> {1, 2}, resources |-> {<<"group", 1>>, <<"group", 2>>}],
     [users |-> {1, 2}, resources |-> {<<"server", 1>>}]}
=============================================================================
