---------------------------- MODULE MCLocalShift ----------------------------
(* Instances of LocalShift; shifts, commands, tabs and amounts are         *)
(* interchangeable.                                                        *)
EXTENDS LocalShift, TLC

Symmetry == Permutations(Shifts) \cup Permutations(Events) \cup Permutations(Tabs)
              \cup Permutations(Counts)
=============================================================================
