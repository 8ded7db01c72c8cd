----------------------------- MODULE MCPricing ------------------------------
(* One unit, two price sets, the second with a wholesale tier from 2, and  *)
(* one promotion.  Quantities are in halves.                               *)
EXTENDS Pricing, TLC

CONSTANTS u1, s1, s2, m1

AllUnits == [s \in Sets |-> Units]
Offers ==
  (s1 :> [price |-> 10, tiers |-> {}]
   @@ s2 :> [price |-> 8, tiers |-> {[code |-> "GROSIR", min |-> 4, price |-> 5]}])
Percent == [m \in Promos |-> [unit |-> u1, type |-> "PERCENT_DISCOUNT", value |-> 25,
                              min |-> 2, priority |-> 0, rank |-> 1]]
Spread == (s1 :> {0} @@ s2 :> {1, 2})
OneTick == [from : {1}, to : {2}]
OneBack == {-1}
=============================================================================
