----------------------------- MODULE MCCashShift ----------------------------
(* Instances of CashShift: all shifts on one terminal.                     *)
EXTENDS CashShift, TLC

OneTerminal == [s \in Shifts |-> CHOOSE t \in Terminals : TRUE]
Symmetry == Permutations(Workers) \cup Permutations(Events) \cup Permutations(Shifts)
=============================================================================
