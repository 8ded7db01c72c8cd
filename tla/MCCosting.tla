----------------------------- MODULE MCCosting ------------------------------
(* Two purchases of one product.  The cost of the second is not agreed.    *)
EXTENDS Costing, TLC

CONSTANTS p1, p2, i1, i2, x1

OneLineEach == (i1 :> p1 @@ i2 :> p2)
OneProduct == [i \in Items |-> x1]
OneAndTwo == (i1 :> 1 @@ i2 :> 2)
SecondUnpriced == (i1 :> 1100 @@ i2 :> NoCost)
OneInStock == [x \in Products |-> 1]
KnownCost == [x \in Products |-> 500]
OneInTwoOut == {1, -2}
HalfFree == {[accepted |-> 1, free |-> 1]}
=============================================================================
