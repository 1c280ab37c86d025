------------------------- MODULE MCServerCatalogue -------------------------
(* Instances of ServerCatalogue for TLC.                                     *)
EXTENDS ServerCatalogue, TLC

CONSTANTS i1, i2, i3, n1, n2, n3, d1, d2, a1, a2, a3, o1, o2

\* Two of the names differ only in characters that are replaced by "_".
TwoAlike == (n1 :> d1) @@ (n2 :> d1) @@ (n3 :> d2)

CatalogueSymmetry ==
    Permutations(Ids) \cup Permutations(Requests) \cup Permutations(Archives)
=============================================================================
