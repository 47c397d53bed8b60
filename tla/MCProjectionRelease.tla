------------------------ MODULE MCProjectionRelease ------------------------
(* Three releases over shared source rows: big and half share one row, and *)
(* quarter is above the floor of half and below that of big.               *)
EXTENDS ProjectionRelease, TLC

CONSTANTS big, half, quarter, o1, o2, r1, r2

Size(n) == [m \in Measures |-> IF m = "claims" THEN 0 ELSE n]

MCCorpus == (big :> Size(4)) @@ (half :> Size(2)) @@ (quarter :> Size(1))
MCUses   == (big :> {o1, o2}) @@ (half :> {o1}) @@ (quarter :> {o2})

RefresherSymmetry == Permutations(Refreshers)
=============================================================================
