-------------------------- MODULE CommandDelivery --------------------------
(***************************************************************************)
(* What delivery of offline commands promises the business, whatever the   *)
(* network, the tabs and the server do: a recorded command takes effect at *)
(* most once, and the device holds it for delivered only after it did.     *)
(* The effects and the confirmation are steps of their own: the device may *)
(* not know for a long time that its command was executed.                 *)
(***************************************************************************)
CONSTANT Commands

VARIABLES
  recorded,      \* commands the device has recorded
  executed,      \* commands whose effects the server has committed
  confirmed      \* commands the device knows to be executed

Init == recorded = {} /\ executed = {} /\ confirmed = {}

Record(c) ==
  /\ c \notin recorded
  /\ recorded' = recorded \cup {c}
  /\ UNCHANGED <<executed, confirmed>>

Execute(c) ==
  /\ c \in recorded \ executed
  /\ executed' = executed \cup {c}
  /\ UNCHANGED <<recorded, confirmed>>

Confirm(c) ==
  /\ c \in executed \ confirmed
  /\ confirmed' = confirmed \cup {c}
  /\ UNCHANGED <<recorded, executed>>

Next == \E c \in Commands : Record(c) \/ Execute(c) \/ Confirm(c)

Spec == Init /\ [][Next]_<<recorded, executed, confirmed>>
=============================================================================
