--------------------------- MODULE MCMarketplace ----------------------------
(* Two requests over the items of two authors. *)
EXTENDS Marketplace, TLC

CONSTANTS i1, i2, a1, a2

TwoAuthors == [i \in Items |-> IF i = i1 THEN a1 ELSE a2]

\* The requests are alike, and so are the two authors with their items.
Swap == i1 :> i2 @@ i2 :> i1 @@ a1 :> a2 @@ a2 :> a1
Stay == [x \in {i1, i2, a1, a2} |-> x]
Symmetry == {p @@ q : p \in Permutations(Requests), q \in {Stay, Swap}}
=============================================================================
