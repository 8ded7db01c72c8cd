------------------------------ MODULE MCRefund ------------------------------
(* A sale of one line of two pieces that do   not divide its total evenly, *)
(* paid with two payments.                                                 *)
EXTENDS Refund, TLC

CONSTANTS l1, p1, p2

TwoPieces == [l \in Lines |-> 2]
ThreeUnits == [l \in Lines |-> 3]
TwoPayments == (p1 :> 2 @@ p2 :> 1)
Symmetry == Permutations(Workers) \cup Permutations(Returns)
=============================================================================
