------------------------------ MODULE MCOpname ------------------------------
(* Two sessions that share a product, and one product of its own for the   *)
(* first.                                                                  *)
EXTENDS Opname, TLC

CONSTANTS s1, s2, p1, p2

SharedScope == (s1 :> {p1, p2} @@ s2 :> {p2})
Symmetry == Permutations(Workers)
=============================================================================
