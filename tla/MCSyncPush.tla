----------------------------- MODULE MCSyncPush -----------------------------
(* SyncPush for TLC.  "open" opens a shift; "alien" was recorded under     *)
(* another device identity.  Neither needs the other.                      *)
EXTENDS SyncPush, TLC

CONSTANTS open, alien, t1, t2, r1, r2

MCRequires  == [c \in Commands |-> {}]
MCAggregate == [c \in Commands |-> c]

(* The delay grows from one tick to its cap of two.                        *)
MCBackoffDelay == [n \in 1..AttemptCap |-> ExponentialBackoff(n, 1, 2, 0)]

Symmetry == Permutations({t1, t2}) \cup Permutations({r1, r2})
=============================================================================
