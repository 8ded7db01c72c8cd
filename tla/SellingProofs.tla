--------------------------- MODULE SellingProofs ----------------------------
(***************************************************************************)
(* Theorems about what a sale belongs to and what it is charged.           *)
(*                                                                         *)
(* LocalShift: every closing counts every sale of its shift and lies after *)
(* all of them, and recorded facts never change, for any number of tabs,   *)
(* shifts, sales and movements.                                            *)
(*                                                                         *)
(* Pricing: one version of a unit is in force at a time, an up-to-date     *)
(* device quotes it, a sale accepted without a warning was charged what    *)
(* was in force, and a sale is refused only for known causes, for any      *)
(* units, price sets, offers, promotions, clocks and approvals.            *)
(***************************************************************************)
EXTENDS LocalShift, Pricing, FiniteFacts, TLAPS

Frozen == {"CLOSING", "CLOSED"}

(* What an operation may rely on between its read and its write: a         *)
(* movement that its command is not recorded, a completion that its shift  *)
(* takes no more sales, that those there are lie before it, and, once it   *)
(* has read the movements, that it has them all.                           *)
OpOK(o) ==
  /\ o.at <= now
  /\ o.kind \in {"SALE", "MOVEMENT"} => o.event \in Events
  /\ o.kind = "MOVEMENT" => ledger[o.event].kind = "NONE"
  /\ o.kind \in {"MOVEMENT", "BEGIN", "COMPLETE", "COUNTED"} => o.shift \in Shifts
  /\ o.kind \in {"BEGIN", "COMPLETE", "COUNTED"} => o.actual \in Counts
  /\ o.kind \in {"COMPLETE", "COUNTED"} =>
       /\ shifts[o.shift].status \in Frozen
       /\ \A e \in Sales(o.shift) : ledger[e].occurred_at <= o.at
  /\ o.kind = "COUNTED" => Sales(o.shift) \subseteq o.counted

OpsOK ==
  /\ \A t \in Tabs : OpOK(op[t])
  /\ \A t, u \in Tabs : t # u /\ op[t].event # NoEvent => op[t].event # op[u].event

LedgerOK == \A e \in Events : ledger[e].occurred_at <= now

(* A shift that has a closing takes no more sales.                         *)
ClosedIsFrozen == \A s \in Shifts : Len(snapshots[s]) > 0 => shifts[s].status \in Frozen

IInv == /\ TypeOK /\ OpsOK /\ LedgerOK /\ ClosedIsFrozen
        /\ EverySaleCounted /\ SaleBeforeClosing

-----------------------------------------------------------------------------
LEMMA IdleOp == /\ Idle \in Operation
                /\ Idle.kind = "NONE" /\ Idle.event = NoEvent /\ Idle.at = 0
BY LocalShiftAssumption DEF Idle, Operation, Times

(* Every step keeps the types.                                             *)
LEMMA TypeStep ==
  ASSUME TypeOK, OpsOK, [Next]_vars
  PROVE  TypeOK'
<1> USE LocalShiftAssumption
<1>1. ASSUME NEW s \in Shifts, OpenShift(s)
      PROVE  TypeOK'
  <2>1. NewShift(now) \in ShiftRow
    BY DEF NewShift, ShiftRow, TypeOK, Times
  <2>2. QED
    BY <1>1, <2>1 DEF OpenShift, TypeOK
<1>2. ASSUME NEW t \in Tabs, NEW e \in Events, StartSale(t, e)
      PROVE  TypeOK'
  <2>1. [Idle EXCEPT !.kind = "SALE", !.event = e, !.at = now] \in Operation
    BY IdleOp DEF Operation, TypeOK
  <2>2. QED
    BY <1>2, <2>1 DEF StartSale, Start, TypeOK
<1>3. ASSUME NEW t \in Tabs, NEW e \in Events, NEW s \in Shifts, StartMovement(t, e, s)
      PROVE  TypeOK'
  <2>1. [Idle EXCEPT !.kind = "MOVEMENT", !.event = e, !.shift = s, !.at = now] \in Operation
    BY IdleOp DEF Operation, TypeOK
  <2>2. QED
    BY <1>3, <2>1 DEF StartMovement, Start, TypeOK
<1>4. ASSUME NEW t \in Tabs, NEW s \in Shifts, NEW actual \in Counts, StartClosing(t, s, actual)
      PROVE  TypeOK'
  <2>1. shifts[s].status \in {"NONE", "OPEN", "CLOSING"}
          /\ shifts[s].blind_actual_cash \in Counts \cup {NoCount}
    BY <1>4 DEF StartClosing, IsActive, TypeOK, ShiftRow
  <2>2. [Idle EXCEPT !.kind = "BEGIN", !.shift = s, !.status = shifts[s].status,
                     !.blind = shifts[s].blind_actual_cash, !.actual = actual, !.at = now]
          \in Operation
    BY <2>1, IdleOp DEF Operation, TypeOK
  <2>3. QED
    BY <1>4, <2>2 DEF StartClosing, Start, TypeOK
<1>5. ASSUME NEW t \in Tabs, NEW s \in Shifts, NEW actual \in Counts, StartCompletion(t, s, actual)
      PROVE  TypeOK'
  <2>1. [Idle EXCEPT !.kind = "COMPLETE", !.shift = s, !.actual = actual, !.at = now]
          \in Operation
    BY IdleOp DEF Operation, TypeOK
  <2>2. QED
    BY <1>5, <2>1 DEF StartCompletion, Start, TypeOK
<1>6. ASSUME NEW t \in Tabs, WriteSale(t)
      PROVE  TypeOK'
  <2>1. op[t].event \in Events /\ op[t].at \in Times
    BY <1>6 DEF WriteSale, OpsOK, OpOK, TypeOK, Operation
  <2>2. \A s \in Shifts : SaleRows(s, op[t].at) \in Movement
    BY <2>1 DEF SaleRows, Movement
  <2>3. ledger' \in [Events -> Movement]
    BY <1>6, <2>1, <2>2 DEF WriteSale, TypeOK
  <2>4. QED
    BY <1>6, <2>3, IdleOp DEF WriteSale, Finish, TypeOK
<1>7. ASSUME NEW t \in Tabs, WriteMovement(t)
      PROVE  TypeOK'
  <2>1. op[t].event \in Events /\ op[t].at \in Times /\ op[t].shift \in Shifts
    BY <1>7 DEF WriteMovement, OpsOK, OpOK, TypeOK, Operation
  <2>2. [kind |-> "MANUAL", shift |-> op[t].shift, occurred_at |-> op[t].at] \in Movement
    BY <2>1 DEF Movement
  <2>3. ledger' \in [Events -> Movement]
    BY <1>7, <2>1, <2>2 DEF WriteMovement, TypeOK
  <2>4. QED
    BY <1>7, <2>3, IdleOp DEF WriteMovement, Finish, TypeOK
<1>8. ASSUME NEW t \in Tabs, MarkClosing(t)
      PROVE  TypeOK'
  <2>1. op[t].shift \in Shifts /\ op[t].actual \in Counts
    BY <1>8 DEF MarkClosing, OpsOK, OpOK
  <2>2. [shifts[op[t].shift] EXCEPT !.status = "CLOSING", !.blind_actual_cash = op[t].actual]
          \in ShiftRow
    BY <2>1 DEF TypeOK, ShiftRow
  <2>3. shifts' = shifts \/ shifts' = [shifts EXCEPT ![op[t].shift] =
          [shifts[op[t].shift] EXCEPT !.status = "CLOSING", !.blind_actual_cash = op[t].actual]]
    BY <1>8, <2>1 DEF MarkClosing, TypeOK
  <2>4. shifts' \in [Shifts -> ShiftRow]
    BY <2>1, <2>2, <2>3 DEF TypeOK
  <2>5. QED
    BY <1>8, <2>4, IdleOp DEF MarkClosing, Finish, TypeOK
<1>9. ASSUME NEW t \in Tabs, CountMovements(t)
      PROVE  TypeOK'
  <2>1. [op[t] EXCEPT !.kind = "COUNTED", !.counted = Counted(op[t].shift)] \in Operation
    BY DEF Counted, Rows, TypeOK, Operation
  <2>2. QED
    BY <1>9, <2>1 DEF CountMovements, Start, TypeOK
<1>10. ASSUME NEW t \in Tabs, WriteClosing(t)
       PROVE  TypeOK'
  <2>1. op[t].shift \in Shifts /\ op[t].actual \in Counts
          /\ op[t].counted \subseteq Events /\ op[t].at \in Times
    BY <1>10 DEF WriteClosing, OpsOK, OpOK, TypeOK, Operation
  <2>2. [shifts[op[t].shift] EXCEPT !.status = "CLOSED", !.active = "NULL", !.closed_at = op[t].at]
          \in ShiftRow
    BY <2>1 DEF TypeOK, ShiftRow
  <2>3. shifts' = [shifts EXCEPT ![op[t].shift] = [shifts[op[t].shift] EXCEPT
          !.status = "CLOSED", !.active = "NULL", !.closed_at = op[t].at]]
    BY <1>10, <2>1 DEF WriteClosing, ClosedAt, TypeOK
  <2>4. shifts' \in [Shifts -> ShiftRow]
    BY <2>1, <2>2, <2>3 DEF TypeOK
  <2>5. [counted |-> op[t].counted, actual_cash |-> op[t].actual, created_at |-> op[t].at]
          \in Closing
    BY <2>1 DEF Closing
  <2>6. snapshots' \in [Shifts -> Seq(Closing)]
    BY <1>10, <2>1, <2>5 DEF WriteClosing, TypeOK
  <2>7. QED
    BY <1>10, <2>4, <2>6, IdleOp DEF WriteClosing, Finish, TypeOK
<1>11. ASSUME NEW t \in Tabs, CloseTab(t)
       PROVE  TypeOK'
  BY <1>11, IdleOp DEF CloseTab, Finish, TypeOK
<1>12. CASE Tick
  BY <1>12 DEF Tick, TypeOK, Times
<1>13. CASE UNCHANGED vars
  BY <1>13 DEF vars, TypeOK
<1>14. QED
  BY <1>1, <1>2, <1>3, <1>4, <1>5, <1>6, <1>7, <1>8, <1>9, <1>10, <1>11, <1>12, <1>13 DEF Next

-----------------------------------------------------------------------------
(* What every step keeps: recorded rows, and the sales of a shift that is  *)
(* being closed.  This is where the guards of completeSale and of the cash *)
(* movement matter.                                                        *)
Keeps ==
  /\ now <= now'
  /\ \A e \in Events : ledger[e].kind # "NONE" => ledger'[e] = ledger[e]
  /\ \A s \in Shifts : shifts[s].status \in Frozen =>
       /\ shifts'[s].status \in Frozen
       /\ \A e \in Sales(s)' : e \in Sales(s) /\ ledger'[e] = ledger[e]

LEMMA KeepsWithoutLedger ==
  ASSUME TypeOK, ledger' = ledger, now' \in Int, now <= now',
         \A s \in Shifts : shifts[s].status \in Frozen => shifts'[s].status \in Frozen
  PROVE  Keeps
BY DEF Keeps, Sales, Rows

LEMMA EveryStepKeeps ==
  ASSUME TypeOK, OpsOK, [Next]_vars
  PROVE  Keeps
<1> USE DEF Frozen
<1>1. now \in Int
  BY DEF TypeOK, Times
<1>2. CASE UNCHANGED <<ledger, shifts, now>>
  BY <1>1, <1>2, KeepsWithoutLedger
<1>3. ASSUME NEW s \in Shifts, OpenShift(s)
      PROVE  Keeps
  <2>1. \A q \in Shifts : q # s => shifts'[q] = shifts[q]
    BY <1>3 DEF OpenShift, TypeOK
  <2>2. UNCHANGED <<ledger, now>> /\ shifts[s].status = "NONE"
    BY <1>3 DEF OpenShift
  <2>3. \A q \in Shifts : shifts[q].status \in Frozen => shifts'[q].status \in Frozen
    BY <2>1, <2>2
  <2>4. QED
    BY <1>1, <2>2, <2>3, KeepsWithoutLedger
<1>4. ASSUME NEW t \in Tabs, WriteSale(t)
      PROVE  Keeps
  <2>1. UNCHANGED <<shifts, now>>
    BY <1>4 DEF WriteSale
  <2>2. CASE UNCHANGED ledger
    BY <1>2, <2>1, <2>2
  <2>3. ASSUME ~AlreadyRecorded(op[t].event), NEW s \in Shifts, TakesSales(s),
               ledger' = [ledger EXCEPT ![op[t].event] = SaleRows(s, op[t].at)]
        PROVE  Keeps
    <3>1. op[t].event \in Events
      BY <1>4 DEF WriteSale, OpsOK, OpOK
    <3>2. PICK e \in Events : e = op[t].event
      BY <3>1
    <3>3. ledger'[e].shift = s /\ \A q \in Events : q # e => ledger'[q] = ledger[q]
      BY <2>3, <3>2 DEF SaleRows, TypeOK
    <3>4. ledger[e].kind = "NONE" /\ shifts[s].status = "OPEN"
      BY <2>3, <3>2 DEF AlreadyRecorded, TakesSales
    <3>5. ASSUME NEW q \in Shifts, shifts[q].status \in Frozen, NEW d \in Sales(q)'
          PROVE  d \in Sales(q) /\ ledger'[d] = ledger[d]
      <4>1. d \in Events /\ ledger'[d].shift = q /\ ledger'[d].kind = "SALE" /\ q # s
        BY <3>4, <3>5 DEF Sales, Rows
      <4>2. d # e /\ ledger'[d] = ledger[d]
        BY <3>3, <4>1
      <4>3. QED
        BY <4>1, <4>2 DEF Sales, Rows
    <3>6. QED
      BY <1>1, <2>1, <3>3, <3>4, <3>5 DEF Keeps
  <2>4. QED
    BY <1>4, <2>2, <2>3 DEF WriteSale
<1>5. ASSUME NEW t \in Tabs, WriteMovement(t)
      PROVE  Keeps
  <2>1. op[t].event \in Events /\ ledger[op[t].event].kind = "NONE"
    BY <1>5 DEF WriteMovement, OpsOK, OpOK
  <2>2. PICK e \in Events : e = op[t].event
    BY <2>1
  <2>3. ledger'[e].kind = "MANUAL" /\ \A q \in Events : q # e => ledger'[q] = ledger[q]
    BY <1>5, <2>2 DEF WriteMovement, TypeOK
  <2>4. UNCHANGED <<shifts, now>>
    BY <1>5 DEF WriteMovement
  <2>5. ASSUME NEW q \in Shifts, NEW d \in Sales(q)'
        PROVE  d \in Sales(q) /\ ledger'[d] = ledger[d]
    <3>1. d \in Events /\ ledger'[d].shift = q /\ ledger'[d].kind = "SALE"
      BY <2>5 DEF Sales, Rows
    <3>2. d # e /\ ledger'[d] = ledger[d]
      BY <2>3, <3>1
    <3>3. QED
      BY <3>1, <3>2 DEF Sales, Rows
  <2>6. QED
    BY <1>1, <2>1, <2>2, <2>3, <2>4, <2>5 DEF Keeps
<1>6. ASSUME NEW t \in Tabs, MarkClosing(t) \/ WriteClosing(t)
      PROVE  Keeps
  <2>1. op[t].shift \in Shifts
    BY <1>6 DEF MarkClosing, WriteClosing, OpsOK, OpOK
  <2>2. UNCHANGED <<ledger, now>>
    BY <1>6 DEF MarkClosing, WriteClosing
  <2>3. CASE MarkClosing(t)
    <3>1. \A q \in Shifts : shifts'[q] = shifts[q] \/ shifts'[q].status = "CLOSING"
      BY <2>1, <2>3 DEF MarkClosing, TypeOK, ShiftRow
    <3>2. \A q \in Shifts : shifts[q].status \in Frozen => shifts'[q].status \in Frozen
      BY <3>1
    <3>3. QED
      BY <1>1, <2>2, <3>2, KeepsWithoutLedger
  <2>4. CASE WriteClosing(t)
    <3>1. \A q \in Shifts : shifts'[q] = shifts[q] \/ shifts'[q].status = "CLOSED"
      BY <2>1, <2>4 DEF WriteClosing, TypeOK, ShiftRow
    <3>2. \A q \in Shifts : shifts[q].status \in Frozen => shifts'[q].status \in Frozen
      BY <3>1
    <3>3. QED
      BY <1>1, <2>2, <3>2, KeepsWithoutLedger
  <2>5. QED
    BY <1>6, <2>3, <2>4
<1>7. CASE Tick
  BY <1>1, <1>7, KeepsWithoutLedger DEF Tick
<1>8. ASSUME NEW t \in Tabs, NEW e \in Events, NEW s \in Shifts, StartMovement(t, e, s)
      PROVE  UNCHANGED <<ledger, shifts, now>>
  BY <1>8 DEF StartMovement
<1>9. ASSUME NEW t \in Tabs, NEW e \in Events, StartSale(t, e)
       PROVE  UNCHANGED <<ledger, shifts, now>>
  BY <1>9 DEF StartSale
<1>10. ASSUME NEW t \in Tabs, CountMovements(t) \/ CloseTab(t)
       PROVE  UNCHANGED <<ledger, shifts, now>>
  BY <1>10 DEF CountMovements, CloseTab
<1>11. ASSUME NEW t \in Tabs, NEW s \in Shifts, NEW actual \in Counts,
              StartClosing(t, s, actual) \/ StartCompletion(t, s, actual)
       PROVE  UNCHANGED <<ledger, shifts, now>>
  BY <1>11 DEF StartClosing, StartCompletion
<1>12. QED
  BY <1>2, <1>3, <1>4, <1>5, <1>6, <1>7, <1>8, <1>9, <1>10, <1>11 DEF Next, vars

-----------------------------------------------------------------------------
(* The steps of one tab.                                                   *)
TabStep(t) ==
  \/ \E e \in Events : StartSale(t, e)
  \/ \E e \in Events, s \in Shifts : StartMovement(t, e, s)
  \/ \E s \in Shifts, actual \in Counts :
       StartClosing(t, s, actual) \/ StartCompletion(t, s, actual)
  \/ WriteSale(t) \/ WriteMovement(t) \/ MarkClosing(t)
  \/ CountMovements(t) \/ WriteClosing(t) \/ CloseTab(t)

(* An operation that does not move may go on relying on what it read.      *)
LEMMA OpKept ==
  ASSUME TypeOK, TypeOK', Keeps, NEW t \in Tabs, OpOK(op[t]), op'[t] = op[t],
         op[t].event \in Events => ledger'[op[t].event] = ledger[op[t].event]
  PROVE  OpOK(op[t])'
<1>1. PICK o \in Operation : o = op[t]
  BY DEF TypeOK
<1>2. o.at \in Int /\ now \in Int /\ now' \in Int
  BY DEF Operation, TypeOK, Times
<1>3. o.at <= now'
  BY <1>1, <1>2 DEF OpOK, Keeps
<1>4. o.kind \in {"COMPLETE", "COUNTED"} =>
       /\ shifts'[o.shift].status \in Frozen
       /\ \A e \in Sales(o.shift)' : ledger'[e].occurred_at <= o.at
  BY <1>1 DEF OpOK, Keeps
<1>5. o.kind = "COUNTED" => Sales(o.shift)' \subseteq o.counted
  BY <1>1 DEF OpOK, Keeps
<1>6. QED
  BY <1>1, <1>3, <1>4, <1>5 DEF OpOK

(* A step of a tab leaves the operations of the others, and writes no row  *)
(* but its own; its command is either the one it had or one no tab has.    *)
LEMMA OwnOpStep ==
  ASSUME TypeOK, OpsOK, LedgerOK, TypeOK', Keeps, NEW t \in Tabs, TabStep(t)
  PROVE  /\ OpOK(op[t])'
         /\ \A u \in Tabs \ {t} : op'[u] = op[u]
         /\ \A e \in Events : e # op[t].event => ledger'[e] = ledger[e]
         /\ \/ op'[t].event \in {NoEvent, op[t].event}
            \/ \A u \in Tabs : op[u].event # op'[t].event
<1>1. op[t] \in Operation /\ OpOK(op[t]) /\ now \in Nat
  BY DEF TypeOK, OpsOK, Times
<1>2. ASSUME NEW e \in Events, StartSale(t, e)
      PROVE  /\ OpOK(op[t])'
             /\ UNCHANGED ledger /\ \A u \in Tabs \ {t} : op'[u] = op[u]
             /\ \A u \in Tabs : op[u].event # op'[t].event
  <2>1. op'[t] = [Idle EXCEPT !.kind = "SALE", !.event = e, !.at = now]
          /\ UNCHANGED <<ledger, now>> /\ \A u \in Tabs \ {t} : op'[u] = op[u]
    BY <1>2 DEF StartSale, Start, TypeOK
  <2>2. op'[t].kind = "SALE" /\ op'[t].event = e /\ op'[t].at = now
    BY <2>1 DEF Idle
  <2>3. OpOK(op[t])'
    BY <1>1, <2>1, <2>2 DEF OpOK
  <2>4. QED
    BY <1>2, <2>1, <2>2, <2>3 DEF StartSale
<1>3. ASSUME NEW e \in Events, NEW s \in Shifts, StartMovement(t, e, s)
      PROVE  /\ OpOK(op[t])'
             /\ UNCHANGED ledger /\ \A u \in Tabs \ {t} : op'[u] = op[u]
             /\ \A u \in Tabs : op[u].event # op'[t].event
  <2>1. op'[t] = [Idle EXCEPT !.kind = "MOVEMENT", !.event = e, !.shift = s, !.at = now]
          /\ UNCHANGED <<ledger, now>> /\ \A u \in Tabs \ {t} : op'[u] = op[u]
    BY <1>3 DEF StartMovement, Start, TypeOK
  <2>2. op'[t].kind = "MOVEMENT" /\ op'[t].event = e /\ op'[t].at = now /\ op'[t].shift = s
    BY <2>1 DEF Idle
  <2>3. ledger'[e].kind = "NONE"
    BY <1>3, <2>1 DEF StartMovement
  <2>4. OpOK(op[t])'
    BY <1>1, <2>1, <2>2, <2>3 DEF OpOK
  <2>5. QED
    BY <1>3, <2>1, <2>2, <2>4 DEF StartMovement
<1>4. ASSUME NEW s \in Shifts, NEW actual \in Counts, StartClosing(t, s, actual)
      PROVE  /\ OpOK(op[t])'
             /\ UNCHANGED ledger /\ \A u \in Tabs \ {t} : op'[u] = op[u]
             /\ op'[t].event = NoEvent
  <2>1. op'[t] = [Idle EXCEPT !.kind = "BEGIN", !.shift = s, !.status = shifts[s].status,
                    !.blind = shifts[s].blind_actual_cash, !.actual = actual, !.at = now]
          /\ UNCHANGED <<ledger, now>> /\ \A u \in Tabs \ {t} : op'[u] = op[u]
    BY <1>4 DEF StartClosing, Start, TypeOK
  <2>2. op'[t].kind = "BEGIN" /\ op'[t].event = NoEvent /\ op'[t].at = now
          /\ op'[t].shift = s /\ op'[t].actual = actual
    BY <2>1 DEF Idle
  <2>3. OpOK(op[t])'
    BY <1>1, <2>1, <2>2 DEF OpOK
  <2>4. QED
    BY <2>1, <2>2, <2>3
<1>5. ASSUME NEW s \in Shifts, NEW actual \in Counts, StartCompletion(t, s, actual)
      PROVE  /\ OpOK(op[t])'
             /\ UNCHANGED ledger /\ \A u \in Tabs \ {t} : op'[u] = op[u]
             /\ op'[t].event = NoEvent
  <2>1. op'[t] = [Idle EXCEPT !.kind = "COMPLETE", !.shift = s, !.actual = actual, !.at = now]
          /\ UNCHANGED <<ledger, shifts, now>> /\ \A u \in Tabs \ {t} : op'[u] = op[u]
    BY <1>5 DEF StartCompletion, Start, TypeOK
  <2>2. op'[t].kind = "COMPLETE" /\ op'[t].event = NoEvent /\ op'[t].at = now
          /\ op'[t].shift = s /\ op'[t].actual = actual
    BY <2>1 DEF Idle
  <2>3. shifts'[s].status \in Frozen
    BY <1>5, <2>1 DEF StartCompletion, Frozen
  <2>4. \A e \in Sales(s)' : ledger'[e].occurred_at <= now
    BY <2>1 DEF LedgerOK, Sales, Rows
  <2>5. OpOK(op[t])'
    BY <1>1, <2>1, <2>2, <2>3, <2>4 DEF OpOK, Sales, Rows
  <2>6. QED
    BY <2>1, <2>2, <2>5
<1>6. CASE CountMovements(t)
  <2>1. op'[t] = [op[t] EXCEPT !.kind = "COUNTED", !.counted = Counted(op[t].shift)]
          /\ UNCHANGED <<ledger, shifts, now>> /\ op[t].kind = "COMPLETE"
          /\ \A u \in Tabs \ {t} : op'[u] = op[u]
    BY <1>6 DEF CountMovements, Start, TypeOK
  <2>2. op'[t].kind = "COUNTED" /\ op'[t].event = op[t].event /\ op'[t].at = op[t].at
          /\ op'[t].shift = op[t].shift /\ op'[t].actual = op[t].actual
          /\ op'[t].counted = Rows(op[t].shift)
    BY <1>1, <2>1 DEF Operation, Counted
  <2>3. PICK o \in Operation : o = op[t]
    BY <1>1
  <2>4. Sales(o.shift)' = Sales(o.shift) /\ Sales(o.shift) \subseteq Rows(o.shift)
    BY <2>1 DEF Sales, Rows
  <2>5. /\ shifts'[o.shift].status \in Frozen /\ o.at <= now'
        /\ o.shift \in Shifts /\ o.actual \in Counts
    BY <1>1, <2>1, <2>3 DEF OpOK
  <2>6. \A e \in Sales(o.shift)' : ledger'[e].occurred_at <= o.at
    <3>1. \A e \in Sales(o.shift) : ledger[e].occurred_at <= o.at
      BY <1>1, <2>1, <2>3 DEF OpOK
    <3>2. QED
      BY <2>1, <2>4, <3>1
  <2>7. Sales(o.shift)' \subseteq op'[t].counted
    BY <2>2, <2>3, <2>4
  <2>8. OpOK(op[t])'
    BY <2>2, <2>3, <2>5, <2>6, <2>7 DEF OpOK
  <2>9. QED
    BY <2>1, <2>2, <2>8
<1>7. CASE WriteSale(t) \/ WriteMovement(t) \/ MarkClosing(t) \/ WriteClosing(t) \/ CloseTab(t)
  <2>1. Finish(t)
    BY <1>7 DEF WriteSale, WriteMovement, MarkClosing, WriteClosing, CloseTab
  <2>2. op'[t] = Idle /\ \A u \in Tabs \ {t} : op'[u] = op[u]
    BY <2>1 DEF Finish, TypeOK
  <2>3. now' = now
    BY <1>7 DEF WriteSale, WriteMovement, MarkClosing, WriteClosing, CloseTab
  <2>4. OpOK(op[t])'
    BY <1>1, <2>2, <2>3, IdleOp DEF OpOK
  <2>5. \A e \in Events : e # op[t].event => ledger'[e] = ledger[e]
    BY <1>7 DEF WriteSale, WriteMovement, MarkClosing, WriteClosing, CloseTab, TypeOK
  <2>6. QED
    BY <2>2, <2>4, <2>5, IdleOp
<1>8. QED
  BY <1>2, <1>3, <1>4, <1>5, <1>6, <1>7 DEF TabStep

LEMMA OpsStep ==
  ASSUME TypeOK, OpsOK, LedgerOK, TypeOK', Keeps, [Next]_vars
  PROVE  OpsOK'
<1>1. CASE UNCHANGED <<op, ledger>>
  <2>1. \A t \in Tabs : OpOK(op[t])'
    BY <1>1, OpKept DEF OpsOK
  <2>2. QED
    BY <1>1, <2>1 DEF OpsOK
<1>2. ASSUME NEW t \in Tabs, TabStep(t)
      PROVE  OpsOK'
  <2>1. /\ OpOK(op[t])'
        /\ \A u \in Tabs \ {t} : op'[u] = op[u]
        /\ \A e \in Events : e # op[t].event => ledger'[e] = ledger[e]
        /\ \/ op'[t].event \in {NoEvent, op[t].event}
           \/ \A u \in Tabs : op[u].event # op'[t].event
    BY <1>2, OwnOpStep
  <2>2. ASSUME NEW u \in Tabs \ {t}
        PROVE  OpOK(op[u])'
    <3>1. OpOK(op[u]) /\ op'[u] = op[u]
      BY <2>1 DEF OpsOK
    <3>2. op[u].event \in Events => op[u].event # op[t].event
      BY LocalShiftAssumption DEF OpsOK
    <3>3. op[u].event \in Events => ledger'[op[u].event] = ledger[op[u].event]
      BY <2>1, <3>2
    <3>4. QED
      BY <3>1, <3>3, OpKept
  <2>3. ASSUME NEW u \in Tabs, NEW v \in Tabs, u # v, op'[u].event # NoEvent
        PROVE  op'[u].event # op'[v].event
    <3>1. op[u].event # NoEvent => op[u].event # op[v].event
      BY <2>3 DEF OpsOK
    <3>2. op[v].event # NoEvent => op[v].event # op[u].event
      BY <2>3 DEF OpsOK
    <3>3. CASE u = t
      BY <2>1, <2>3, <3>1, <3>3
    <3>4. CASE v = t
      BY <2>1, <2>3, <3>1, <3>2, <3>4
    <3>5. CASE u # t /\ v # t
      BY <2>1, <2>3, <3>1, <3>5
    <3>6. QED
      BY <3>3, <3>4, <3>5
  <2>4. QED
    BY <2>1, <2>2, <2>3 DEF OpsOK
<1>3. CASE \E s \in Shifts : OpenShift(s)
  BY <1>1, <1>3 DEF OpenShift
<1>4. CASE Tick
  BY <1>1, <1>4 DEF Tick
<1>5. QED
  BY <1>1, <1>2, <1>3, <1>4 DEF Next, TabStep, vars

LEMMA LedgerStep ==
  ASSUME TypeOK, OpsOK, LedgerOK, TypeOK', Keeps, [Next]_vars
  PROVE  LedgerOK'
<1>1. now \in Int /\ now' \in Int /\ \A e \in Events : ledger[e].occurred_at \in Int
  BY DEF TypeOK, Times, Movement
<1>2. CASE UNCHANGED ledger
  BY <1>1, <1>2 DEF LedgerOK, Keeps
<1>3. ASSUME NEW t \in Tabs, WriteSale(t) \/ WriteMovement(t)
      PROVE  LedgerOK'
  <2>1. op[t].event \in Events /\ op[t].at <= now /\ now' = now
    BY <1>3 DEF WriteSale, WriteMovement, OpsOK, OpOK
  <2>2. PICK e \in Events : e = op[t].event
    BY <2>1
  <2>3. \A q \in Events : q # e => ledger'[q] = ledger[q]
    BY <1>3, <2>2 DEF WriteSale, WriteMovement, TypeOK
  <2>4. ledger'[e] = ledger[e] \/ ledger'[e].occurred_at = op[t].at
    <3>1. CASE WriteSale(t)
      <4>1. ledger' = ledger \/ \E s \in Shifts :
              ledger' = [ledger EXCEPT ![e] = SaleRows(s, op[t].at)]
        BY <2>2, <3>1 DEF WriteSale
      <4>2. QED
        BY <4>1 DEF SaleRows, TypeOK
    <3>2. CASE WriteMovement(t)
      BY <2>2, <3>2 DEF WriteMovement, TypeOK
    <3>3. QED
      BY <1>3, <3>1, <3>2
  <2>5. QED
    BY <2>1, <2>3, <2>4 DEF LedgerOK
<1>4. CASE \E t \in Tabs : WriteSale(t) \/ WriteMovement(t)
  BY <1>3, <1>4
<1>5. CASE ~ \E t \in Tabs : WriteSale(t) \/ WriteMovement(t)
  <2>1. UNCHANGED ledger
    BY <1>5 DEF Next, OpenShift, StartSale, StartMovement, StartClosing, StartCompletion,
                MarkClosing, CountMovements, WriteClosing, CloseTab, Tick, vars
  <2>2. QED
    BY <1>2, <2>1
<1>6. QED
  BY <1>4, <1>5

-----------------------------------------------------------------------------
(* A closing written now, and the ones written before.                     *)
LEMMA ClosingStep ==
  ASSUME TypeOK, OpsOK, ClosedIsFrozen, EverySaleCounted, SaleBeforeClosing,
         TypeOK', Keeps, [Next]_vars
  PROVE  ClosedIsFrozen' /\ EverySaleCounted' /\ SaleBeforeClosing'
<1>1. ASSUME UNCHANGED snapshots
      PROVE  ClosedIsFrozen' /\ EverySaleCounted'
  <2>1. ClosedIsFrozen'
    BY <1>1 DEF ClosedIsFrozen, Keeps
  <2>2. ASSUME NEW s \in Shifts, NEW i \in 1 .. Len(snapshots[s])
        PROVE  Sales(s)' \subseteq snapshots[s][i].counted
    <3>1. Len(snapshots[s]) \in Nat
      BY DEF TypeOK
    <3>2. shifts[s].status \in Frozen
      BY <3>1 DEF ClosedIsFrozen
    <3>3. QED
      BY <3>2 DEF Keeps, EverySaleCounted
  <2>3. EverySaleCounted'
    BY <1>1, <2>2 DEF EverySaleCounted
  <2>4. QED
    BY <2>1, <2>3
<1>2. ASSUME \A s \in Shifts : shifts'[s].status = "CLOSED" =>
               shifts[s].status = "CLOSED" /\ shifts'[s].closed_at = shifts[s].closed_at
      PROVE  SaleBeforeClosing'
  <2>1. ASSUME NEW s \in Shifts, shifts'[s].status = "CLOSED", NEW e \in Sales(s)'
        PROVE  ledger'[e].occurred_at <= shifts'[s].closed_at
    <3>1. shifts[s].status = "CLOSED" /\ shifts'[s].closed_at = shifts[s].closed_at
      BY <1>2, <2>1
    <3>2. e \in Sales(s) /\ ledger'[e] = ledger[e]
      BY <2>1, <3>1 DEF Keeps, Frozen
    <3>3. QED
      BY <3>1, <3>2 DEF SaleBeforeClosing
  <2>2. QED
    BY <2>1 DEF SaleBeforeClosing
<1>3. ASSUME NEW t \in Tabs, WriteClosing(t)
      PROVE  ClosedIsFrozen' /\ EverySaleCounted' /\ SaleBeforeClosing'
  <2>1. op[t] \in Operation /\ OpOK(op[t]) /\ op[t].kind = "COUNTED"
    BY <1>3 DEF WriteClosing, OpsOK, TypeOK
  <2>2. PICK s \in Shifts : s = op[t].shift
    BY <2>1 DEF OpOK
  <2>3. /\ Sales(s) \subseteq op[t].counted
        /\ \A e \in Sales(s) : ledger[e].occurred_at <= op[t].at
    BY <2>1, <2>2 DEF OpOK
  <2>4. UNCHANGED ledger
    BY <1>3 DEF WriteClosing
  <2>5. \A q \in Shifts : Sales(q)' = Sales(q)
    BY <2>4 DEF Sales, Rows
  <2>6. /\ shifts'[s].status = "CLOSED" /\ shifts'[s].closed_at = op[t].at
        /\ \A q \in Shifts : q # s => shifts'[q] = shifts[q]
    BY <1>3, <2>2 DEF WriteClosing, ClosedAt, TypeOK, ShiftRow
  <2>7. /\ snapshots'[s] = Append(snapshots[s],
              [counted |-> op[t].counted, actual_cash |-> op[t].actual, created_at |-> op[t].at])
        /\ \A q \in Shifts : q # s => snapshots'[q] = snapshots[q]
    BY <1>3, <2>2 DEF WriteClosing, TypeOK
  <2>8. ClosedIsFrozen'
    BY <2>6, <2>7 DEF ClosedIsFrozen, Frozen
  <2>9. ASSUME NEW q \in Shifts, NEW i \in 1 .. Len(snapshots'[q])
        PROVE  Sales(q)' \subseteq snapshots'[q][i].counted
    <3>1. CASE q # s
      BY <2>5, <2>7, <2>9, <3>1 DEF EverySaleCounted
    <3>2. CASE q = s
      <4>1. snapshots[s] \in Seq(Closing)
        BY DEF TypeOK
      <4>2. \/ i \in 1 .. Len(snapshots[s]) /\ snapshots'[s][i] = snapshots[s][i]
            \/ snapshots'[s][i].counted = op[t].counted
        BY <2>7, <2>9, <3>2, <4>1
      <4>3. QED
        BY <2>3, <2>5, <3>2, <4>2 DEF EverySaleCounted
    <3>3. QED
      BY <3>1, <3>2
  <2>10. SaleBeforeClosing'
    <3>1. ASSUME NEW q \in Shifts, shifts'[q].status = "CLOSED", NEW e \in Sales(q)
          PROVE  ledger'[e].occurred_at <= shifts'[q].closed_at
      <4>1. CASE q = s
        BY <2>3, <2>4, <2>6, <3>1, <4>1
      <4>2. CASE q # s
        BY <2>4, <2>6, <3>1, <4>2 DEF SaleBeforeClosing
      <4>3. QED
        BY <4>1, <4>2
    <3>2. QED
      BY <2>5, <3>1 DEF SaleBeforeClosing
  <2>11. QED
    BY <2>8, <2>9, <2>10 DEF EverySaleCounted
<1>4. ASSUME NEW t \in Tabs, MarkClosing(t)
      PROVE  ClosedIsFrozen' /\ EverySaleCounted' /\ SaleBeforeClosing'
  <2>1. op[t].shift \in Shifts /\ UNCHANGED snapshots
    BY <1>4 DEF MarkClosing, OpsOK, OpOK
  <2>2. \A q \in Shifts : shifts'[q] = shifts[q] \/ shifts'[q].status = "CLOSING"
    BY <1>4, <2>1 DEF MarkClosing, TypeOK, ShiftRow
  <2>3. QED
    BY <1>1, <1>2, <2>1, <2>2
<1>5. ASSUME NEW s \in Shifts, OpenShift(s)
      PROVE  ClosedIsFrozen' /\ EverySaleCounted' /\ SaleBeforeClosing'
  <2>1. UNCHANGED snapshots
    BY <1>5 DEF OpenShift
  <2>2. \A q \in Shifts : shifts'[q] = shifts[q] \/ shifts'[q].status = "OPEN"
    BY <1>5 DEF OpenShift, NewShift, TypeOK
  <2>3. QED
    BY <1>1, <1>2, <2>1, <2>2
<1>6. CASE UNCHANGED <<shifts, snapshots>>
  BY <1>1, <1>2, <1>6
<1>7. CASE \/ \E t \in Tabs : WriteClosing(t) \/ MarkClosing(t)
           \/ \E s \in Shifts : OpenShift(s)
  BY <1>3, <1>4, <1>5, <1>7
<1>8. CASE ~ \/ \E t \in Tabs : WriteClosing(t) \/ MarkClosing(t)
             \/ \E s \in Shifts : OpenShift(s)
  <2>1. UNCHANGED <<shifts, snapshots>>
    BY <1>8 DEF Next, StartSale, StartMovement, StartClosing, StartCompletion, WriteSale,
                WriteMovement, CountMovements, CloseTab, Tick, vars
  <2>2. QED
    BY <1>6, <2>1
<1>9. QED
  BY <1>7, <1>8

-----------------------------------------------------------------------------
LEMMA InitIInv == Init => IInv
<1> SUFFICES ASSUME Init PROVE IInv
  OBVIOUS
<1> USE LocalShiftAssumption
<1>1. TypeOK
  <2>1. shifts \in [Shifts -> ShiftRow]
    BY DEF Init, ShiftRow, Times
  <2>2. ledger \in [Events -> Movement]
    BY DEF Init, Movement, Times
  <2>3. QED
    BY <2>1, <2>2, IdleOp DEF Init, TypeOK, Times
<1>2. \A t \in Tabs : op[t] = Idle
  BY DEF Init
<1>3. OpsOK
  BY <1>2, IdleOp DEF OpsOK, OpOK, Init
<1>4. LedgerOK
  BY DEF Init, LedgerOK
<1>5. \A s \in Shifts : Len(snapshots[s]) = 0 /\ shifts[s].status = "NONE"
  BY DEF Init
<1>6. ClosedIsFrozen /\ EverySaleCounted /\ SaleBeforeClosing
  BY <1>5 DEF ClosedIsFrozen, EverySaleCounted, SaleBeforeClosing
<1>7. QED
  BY <1>1, <1>3, <1>4, <1>6 DEF IInv

LEMMA IInvStep == IInv /\ [Next]_vars => IInv'
<1> SUFFICES ASSUME IInv, [Next]_vars PROVE IInv'
  OBVIOUS
<1>1. TypeOK /\ OpsOK /\ LedgerOK /\ ClosedIsFrozen /\ EverySaleCounted /\ SaleBeforeClosing
  BY DEF IInv
<1>2. TypeOK' /\ Keeps
  BY <1>1, TypeStep, EveryStepKeeps
<1>3. OpsOK' /\ LedgerOK'
  BY <1>1, <1>2, OpsStep, LedgerStep
<1>4. ClosedIsFrozen' /\ EverySaleCounted' /\ SaleBeforeClosing'
  BY <1>1, <1>2, ClosingStep
<1>5. QED
  BY <1>2, <1>3, <1>4 DEF IInv

THEOREM LocalShiftInvariant == Spec => []IInv
BY InitIInv, IInvStep, PTL DEF Spec

(* No sale slips in between the count of a closing and its commit, or      *)
(* after it, though completeShiftClosing reads and writes in separate      *)
(* transactions: a shift that is CLOSING never takes a sale again.         *)
THEOREM ClosingCountsEverySale == Spec => []EverySaleCounted
<1>1. IInv => EverySaleCounted
  BY DEF IInv
<1>2. QED
  BY <1>1, LocalShiftInvariant, PTL

(* closed_at is not before any sale of the shift, also when two tabs close *)
(* it and the later write carries the earlier time.                        *)
THEOREM SalesLieBeforeClosing == Spec => []SaleBeforeClosing
<1>1. IInv => SaleBeforeClosing
  BY DEF IInv
<1>2. QED
  BY <1>1, LocalShiftInvariant, PTL

(* A recorded movement and a written snapshot never change, whatever tab   *)
(* submits the command again.                                              *)
THEOREM RecordedFactsAreFinal == Spec => FactsAreFinal
<1> DEFINE Final == /\ \A e \in Events : ledger[e].kind # "NONE" => ledger'[e] = ledger[e]
                    /\ \A s \in Shifts : \A i \in 1..Len(snapshots[s]) :
                         snapshots'[s][i] = snapshots[s][i]
<1>1. IInv /\ [Next]_vars => [Final]_vars
  <2> SUFFICES ASSUME IInv, [Next]_vars PROVE Final
    OBVIOUS
  <2>1. TypeOK /\ OpsOK
    BY DEF IInv
  <2>2. \A e \in Events : ledger[e].kind # "NONE" => ledger'[e] = ledger[e]
    BY <2>1, EveryStepKeeps DEF Keeps
  <2>3. ASSUME NEW s \in Shifts, NEW i \in 1 .. Len(snapshots[s])
        PROVE  snapshots'[s][i] = snapshots[s][i]
    <3>1. snapshots[s] \in Seq(Closing)
      BY <2>1 DEF TypeOK
    <3>2. ASSUME NEW t \in Tabs, WriteClosing(t)
          PROVE  snapshots'[s] = snapshots[s] \/ \E c : snapshots'[s] = Append(snapshots[s], c)
      BY <2>1, <3>2 DEF WriteClosing, TypeOK
    <3>3. CASE \E t \in Tabs : WriteClosing(t)
      BY <2>3, <3>1, <3>2, <3>3
    <3>4. CASE ~ \E t \in Tabs : WriteClosing(t)
      <4>1. UNCHANGED snapshots
        BY <3>4 DEF Next, OpenShift, StartSale, StartMovement, StartClosing, StartCompletion,
                    WriteSale, WriteMovement, MarkClosing, CountMovements, CloseTab, Tick, vars
      <4>2. QED
        BY <4>1
    <3>5. QED
      BY <3>3, <3>4
  <2>4. QED
    BY <2>2, <2>3
<1>2. QED
  BY <1>1, LocalShiftInvariant, PTL DEF Spec, FactsAreFinal

-----------------------------------------------------------------------------
(* The price of a sale.                                                    *)

PublishedRow(v) == v.status \in {"ACTIVE", "SCHEDULED"}
Within(v, t) == v.from <= t /\ t < v.to

(* The versions of a unit follow each other without gap or overlap, and    *)
(* the last one has no end: what makes this survive the next approval is   *)
(* that a superseded version has ended, and that an active version with an *)
(* end has a scheduled one behind it.                                      *)
RowsOK(rows, time) ==
  /\ rows \subseteq Version
  /\ \A v \in rows : v.from < v.to /\ (v.status = "SUPERSEDED" => v.to <= time)
  /\ \A v, w \in rows : v.unit = w.unit /\ v # w => v.to <= w.from \/ w.to <= v.from
  /\ \A v \in rows : \A t \in Instants : v.from <= t /\ t < Forever
       => \E w \in rows : w.unit = v.unit /\ Within(w, t)
  /\ \A v \in rows : \E w \in rows : w.unit = v.unit /\ PublishedRow(w)
  /\ \A v \in rows : v.status = "ACTIVE"
       => v.to = Forever \/ \E w \in rows : w.unit = v.unit /\ w.status = "SCHEDULED"

NewRow(s, a, u) ==
  [set |-> s, unit |-> u, from |-> a.from, to |-> Forever, created |-> a.started,
   status |-> IF a.from <= a.started THEN "ACTIVE" ELSE "SCHEDULED",
   tiers |-> ApprovedTiers(Offer[s])]

(* What an open approval has read is still so: the version it will close   *)
(* is the only published one of its unit, active and older than the new    *)
(* one.                                                                    *)
OpenOK(s, a, rows, time) ==
  /\ a.step # "OPEN" => a.new = {} /\ a.old = {}
  /\ a.from \in 0 .. MaxServerTime + 1 /\ a.started \in 0 .. MaxServerTime /\ a.started <= time
  /\ \A n \in a.new :
       /\ n.unit \in Units /\ n = NewRow(s, a, n.unit)
       /\ \A v \in rows : v.unit = n.unit /\ PublishedRow(v)
            => v \in a.old /\ v.status = "ACTIVE" /\ v.from < a.from
  /\ \A v \in a.old : /\ v \in rows /\ PublishedRow(v)
                      /\ \E n \in a.new : n.unit = v.unit

Approval == [step : {"NONE", "OPEN"}, started : Instants, from : Instants, todo : SUBSET Units,
             old : SUBSET Version, new : SUBSET Version]

PriceInv ==
  /\ serverNow \in 0 .. MaxServerTime
  /\ RowsOK(versions, serverNow)
  /\ approval \in [Sets -> Approval]
  /\ \A s \in Sets : OpenOK(s, approval[s], versions, serverNow)
  /\ \A s, t \in Sets : s # t
       => \A n \in approval[s].new, m \in approval[t].new : n.unit # m.unit

LEMMA PriceInstants ==
  /\ MaxServerTime \in Nat /\ MaxSkew \in Nat /\ Forever \in Nat
  /\ MaxServerTime + 1 < Forever
  /\ Instants = 0 .. Forever
  /\ 0 .. MaxServerTime + 1 \subseteq Instants
BY PricingAssumption DEF Forever, Instants

LEMMA RowTimes ==
  ASSUME NEW v \in Version
  PROVE  /\ v.from \in Nat /\ v.to \in Nat /\ v.to <= Forever
         /\ v.from \in Instants /\ v.to \in Instants
<1>1. v.from \in Instants /\ v.to \in Instants
  BY DEF Version
<1>2. QED
  BY <1>1, PriceInstants

LEMMA NewRowTyped ==
  ASSUME NEW s \in Sets, NEW u \in Units, NEW a,
         a.from \in 0 .. MaxServerTime + 1, a.started \in 0 .. MaxServerTime
  PROVE  NewRow(s, a, u) \in Version
<1>1. ApprovedTiers(Offer[s]) \subseteq Tier
  <2>1. Offer[s].tiers \subseteq Tier /\ Offer[s].price \in Nat /\ Whole \in Nat
    BY PricingAssumption
  <2>2. [code |-> "RETAIL", min |-> Whole, price |-> Offer[s].price] \in Tier
    BY <2>1 DEF Tier
  <2>3. QED
    BY <2>1, <2>2 DEF ApprovedTiers
<1>2. a.from \in Instants /\ a.started \in Instants /\ Forever \in Instants
  BY PriceInstants
<1>3. QED
  BY <1>1, <1>2 DEF NewRow, Version

(* Time passing changes nothing of it.                                     *)
LEMMA LaterRows ==
  ASSUME NEW rows, NEW t \in Nat, NEW r \in Nat, t <= r, RowsOK(rows, t)
  PROVE  RowsOK(rows, r)
<1>1. \A v \in rows : v.to \in Nat
  <2>1. rows \subseteq Version
    BY DEF RowsOK
  <2>2. QED
    BY <2>1, RowTimes
<1>2. QED
  BY <1>1 DEF RowsOK

LEMMA LaterOpen ==
  ASSUME NEW s, NEW a, NEW rows, NEW t \in Nat, NEW r \in Nat, t <= r, OpenOK(s, a, rows, t)
  PROVE  OpenOK(s, a, rows, r)
<1>1. a.started <= r
  BY DEF OpenOK
<1>2. QED
  BY <1>1 DEF OpenOK

(* A version that an approval will close is the last of its unit.          *)
LEMMA OldIsLast ==
  ASSUME NEW s, NEW a, NEW rows, NEW t,
         RowsOK(rows, t), OpenOK(s, a, rows, t), NEW v \in a.old
  PROVE  /\ v \in rows /\ v.status = "ACTIVE" /\ v.to = Forever /\ v.from < a.from
         /\ \E n \in a.new : n.unit = v.unit
<1>1. PICK n \in a.new : n.unit = v.unit
  BY DEF OpenOK
<1>2. v \in rows /\ v.status = "ACTIVE" /\ v.from < a.from
  BY <1>1 DEF OpenOK
<1>3. \A w \in rows : w.unit = v.unit => w.status # "SCHEDULED"
  <2> SUFFICES ASSUME NEW w \in rows, w.unit = v.unit, w.status = "SCHEDULED" PROVE FALSE
    OBVIOUS
  <2>1. w.status = "ACTIVE"
    BY <1>1 DEF OpenOK, PublishedRow
  <2>2. QED
    BY <2>1
<1>4. QED
  BY <1>1, <1>2, <1>3 DEF RowsOK

RowsAfter(a, rows) == (rows \ a.old) \cup {Closed(v, a) : v \in a.old} \cup a.new

(* What a closed version is.                                               *)
LEMMA ClosedRow ==
  ASSUME NEW a, a.from \in 0 .. MaxServerTime + 1, NEW v \in Version
  PROVE  /\ Closed(v, a) \in Version
         /\ Closed(v, a).unit = v.unit /\ Closed(v, a).from = v.from
         /\ Closed(v, a).to = a.from
         /\ Closed(v, a).status = IF a.from <= a.started THEN "SUPERSEDED" ELSE v.status
<1>1. a.from \in Instants
  BY PriceInstants
<1>2. QED
  BY <1>1 DEF Closed, Version

LEMMA NewRowIs ==
  ASSUME NEW s, NEW a, NEW rows, NEW t, OpenOK(s, a, rows, t), NEW n \in a.new
  PROVE  /\ n.from = a.from /\ n.to = Forever /\ n.unit \in Units
         /\ n.status = IF a.from <= a.started THEN "ACTIVE" ELSE "SCHEDULED"
         /\ n = NewRow(s, a, n.unit) /\ PublishedRow(n)
<1>1. n.unit \in Units /\ n = NewRow(s, a, n.unit)
  BY DEF OpenOK
<1>2. \A u : /\ NewRow(s, a, u).from = a.from /\ NewRow(s, a, u).to = Forever
            /\ NewRow(s, a, u).status = IF a.from <= a.started THEN "ACTIVE" ELSE "SCHEDULED"
  BY DEF NewRow
<1>3. QED
  BY <1>1, <1>2 DEF PublishedRow

(* The three kinds of row after a commit.                                  *)
Kept(a, rows, v) == v \in rows /\ v \notin a.old
Ended(a, v) == \E x \in a.old : v = Closed(x, a)

LEMMA KindsOfRow ==
  ASSUME NEW a, NEW rows, NEW v
  PROVE  v \in RowsAfter(a, rows) <=> Kept(a, rows, v) \/ Ended(a, v) \/ v \in a.new
BY DEF RowsAfter, Kept, Ended

(* A kept row of a unit that gets a new version is superseded.             *)
LEMMA KeptIsOver ==
  ASSUME NEW s, NEW a, NEW rows, NEW t,
         RowsOK(rows, t), OpenOK(s, a, rows, t),
         NEW v, Kept(a, rows, v), NEW n \in a.new, n.unit = v.unit
  PROVE  v.to <= a.from
<1>1. v \in rows /\ v \notin a.old
  BY DEF Kept
<1>2. ~PublishedRow(v)
  BY <1>1 DEF OpenOK
<1>3. PICK w \in rows : w.unit = v.unit /\ PublishedRow(w)
  BY <1>1 DEF RowsOK
<1>4. w \in a.old
  BY <1>3 DEF OpenOK
<1>5. w.to = Forever /\ w.from < a.from
  BY <1>4, OldIsLast
<1>6. v.to <= w.from \/ w.to <= v.from
  BY <1>1, <1>2, <1>3 DEF RowsOK
<1>7. v \in Version /\ w \in Version /\ v.from < v.to
  BY <1>1, <1>3 DEF RowsOK
<1>8. PICK vf \in Nat, vt \in Nat, wf \in Nat, f \in Nat, e \in Nat :
        vf = v.from /\ vt = v.to /\ wf = w.from /\ f = a.from /\ e = Forever /\ vt <= e
  <2>1. a.from \in Nat
    BY PriceInstants DEF OpenOK
  <2>2. QED
    BY <1>7, <2>1, RowTimes, PriceInstants
<1>9. vt <= f
  BY <1>5, <1>6, <1>7, <1>8
<1>10. QED
  BY <1>8, <1>9

(* The versions after an approval: each conjunct of RowsOK, from the kinds *)
(* of row it compares.                                                     *)
LEMMA CommittedRows ==
  ASSUME NEW s \in Sets, NEW a, NEW rows, NEW t \in Nat,
         RowsOK(rows, t), OpenOK(s, a, rows, t)
  PROVE  RowsOK(RowsAfter(a, rows), t)
<1> DEFINE R == RowsAfter(a, rows)
<1>0. PICK f \in Nat, e \in Nat, b \in Nat :
        f = a.from /\ e = Forever /\ f < e /\ b = a.started /\ b <= t
  <2>1. /\ a.from \in 0 .. MaxServerTime + 1 /\ a.started \in 0 .. MaxServerTime
        /\ a.started <= t
    BY DEF OpenOK
  <2>2. /\ a.from \in Nat /\ a.started \in Nat /\ Forever \in Nat
        /\ a.from < Forever
    BY <2>1, PriceInstants
  <2>3. QED
    BY <2>1, <2>2
<1>1. /\ a.from \in 0 .. MaxServerTime + 1 /\ a.started \in 0 .. MaxServerTime
      /\ rows \subseteq Version
  BY DEF OpenOK, RowsOK
<1>2. \A v \in R : Kept(a, rows, v) \/ Ended(a, v) \/ v \in a.new
  BY KindsOfRow
<1>3. ASSUME NEW v, Kept(a, rows, v)
      PROVE  v \in rows /\ v \notin a.old /\ v \in Version /\ v \in R
  BY <1>1, <1>3, KindsOfRow DEF Kept
<1>4. ASSUME NEW x \in a.old
      PROVE  /\ x \in rows /\ x \in Version /\ x.to = e /\ x.from < f
             /\ x.status = "ACTIVE"
             /\ Closed(x, a) \in R /\ Closed(x, a) \in Version
             /\ Closed(x, a).unit = x.unit /\ Closed(x, a).from = x.from
             /\ Closed(x, a).to = f
             /\ Closed(x, a).status = IF f <= b THEN "SUPERSEDED" ELSE "ACTIVE"
             /\ \E n \in a.new : n.unit = x.unit
  <2>1. /\ x \in rows /\ x.status = "ACTIVE" /\ x.to = Forever /\ x.from < a.from
        /\ \E n \in a.new : n.unit = x.unit
    BY OldIsLast
  <2>2. x \in Version
    BY <1>1, <2>1
  <2>3. Closed(x, a) \in R
    BY KindsOfRow DEF Ended
  <2>4. QED
    BY <1>0, <1>1, <2>1, <2>2, <2>3, ClosedRow
<1>5. ASSUME NEW n \in a.new
      PROVE  /\ n \in R /\ n \in Version /\ n.from = f /\ n.to = e /\ PublishedRow(n)
             /\ n.status = IF f <= b THEN "ACTIVE" ELSE "SCHEDULED"
             /\ n = NewRow(s, a, n.unit)
  <2>1. /\ n.from = a.from /\ n.to = Forever /\ n.unit \in Units
        /\ n.status = IF a.from <= a.started THEN "ACTIVE" ELSE "SCHEDULED"
        /\ n = NewRow(s, a, n.unit) /\ PublishedRow(n)
    BY NewRowIs
  <2>2. NewRow(s, a, n.unit) \in Version
    BY <1>1, <2>1, NewRowTyped
  <2>3. n \in R
    BY KindsOfRow
  <2>4. QED
    BY <1>0, <2>1, <2>2, <2>3
<1> HIDE DEF R
<1>6. R \subseteq Version
  <2> SUFFICES ASSUME NEW v \in R PROVE v \in Version
    OBVIOUS
  <2>1. CASE Kept(a, rows, v)
    BY <1>3, <2>1
  <2>2. CASE Ended(a, v)
    BY <1>4, <2>2 DEF Ended
  <2>3. CASE v \in a.new
    BY <1>5, <2>3
  <2>4. QED
    BY <1>2, <2>1, <2>2, <2>3
<1>7. \A v \in R : v.from < v.to /\ (v.status = "SUPERSEDED" => v.to <= t)
  <2> SUFFICES ASSUME NEW v \in R
               PROVE  v.from < v.to /\ (v.status = "SUPERSEDED" => v.to <= t)
    OBVIOUS
  <2>1. CASE Kept(a, rows, v)
    BY <1>3, <2>1 DEF RowsOK
  <2>2. CASE Ended(a, v)
    <3>1. PICK x \in a.old : v = Closed(x, a)
      BY <2>2 DEF Ended
    <3>2. /\ v.from = x.from /\ v.to = f /\ x.from < f
          /\ v.status = IF f <= b THEN "SUPERSEDED" ELSE "ACTIVE"
      BY <1>4, <3>1
    <3>3. v.from < v.to
      BY <3>2
    <3>4. ASSUME v.status = "SUPERSEDED" PROVE v.to <= t
      <4>1. f <= b
        BY <3>2, <3>4
      <4>2. f <= t
        BY <1>0, <4>1
      <4>3. QED
        BY <3>2, <4>2
    <3>5. QED
      BY <3>3, <3>4
  <2>3. CASE v \in a.new
    <3>1. v.from = f /\ v.to = e /\ v.status # "SUPERSEDED"
      BY <1>5, <2>3
    <3>2. QED
      BY <1>0, <3>1
  <2>4. QED
    BY <1>2, <2>1, <2>2, <2>3
<1>8. \A v, w \in R : v.unit = w.unit /\ v # w => v.to <= w.from \/ w.to <= v.from
  \* A row that was there starts and ends as before, or ends earlier.
  <2>1. ASSUME NEW v, Kept(a, rows, v) \/ Ended(a, v)
        PROVE  \E x \in rows : /\ x.unit = v.unit /\ x.from = v.from /\ v.to <= x.to
                               /\ x.from \in Nat /\ x.to \in Nat /\ v.to \in Nat
                               /\ x \notin a.old => v = x
                               /\ x \in a.old => v = Closed(x, a)
    <3>1. CASE Kept(a, rows, v)
      <4>1. v \in rows /\ v \in Version /\ v \notin a.old
        BY <1>3, <3>1
      <4>2. v.from \in Nat /\ v.to \in Nat /\ v.to <= v.to
        BY <4>1, RowTimes
      <4>3. QED
        BY <4>1, <4>2
    <3>2. CASE Ended(a, v)
      <4>1. PICK x \in a.old : v = Closed(x, a)
        BY <3>2 DEF Ended
      <4>2. /\ x \in rows /\ x \in Version /\ x.to = e
            /\ v.unit = x.unit /\ v.from = x.from /\ v.to = f
        BY <1>4, <4>1
      <4>3. x.from \in Nat /\ x.to \in Nat
        BY <4>2, RowTimes
      <4>4. v.to <= x.to /\ v.to \in Nat
        BY <1>0, <4>2
      <4>5. QED
        BY <4>1, <4>2, <4>3, <4>4
    <3>3. QED
      BY <2>1, <3>1, <3>2
  <2>2. ASSUME NEW v, NEW n \in a.new, Kept(a, rows, v) \/ Ended(a, v), v.unit = n.unit
        PROVE  v.to <= n.from
    <3>1. CASE Kept(a, rows, v)
      <4>1. v.to <= a.from
        BY <2>2, <3>1, KeptIsOver
      <4>2. QED
        BY <1>0, <1>5, <4>1
    <3>2. CASE Ended(a, v)
      <4>1. v.to = f
        BY <1>4, <3>2 DEF Ended
      <4>2. QED
        BY <1>5, <4>1
    <3>3. QED
      BY <2>2, <3>1, <3>2
  <2> SUFFICES ASSUME NEW v \in R, NEW w \in R, v.unit = w.unit, v # w
               PROVE  v.to <= w.from \/ w.to <= v.from
    OBVIOUS
  <2>3. CASE v \in a.new /\ w \in a.new
    <3>1. v = NewRow(s, a, v.unit) /\ w = NewRow(s, a, w.unit)
      BY <1>5, <2>3
    <3>2. QED
      BY <3>1
  <2>4. CASE v \notin a.new /\ w \in a.new
    BY <1>2, <2>2, <2>4
  <2>5. CASE v \in a.new /\ w \notin a.new
    BY <1>2, <2>2, <2>5
  <2>6. CASE v \notin a.new /\ w \notin a.new
    <3>1. PICK x \in rows : /\ x.unit = v.unit /\ x.from = v.from /\ v.to <= x.to
                            /\ x.from \in Nat /\ x.to \in Nat /\ v.to \in Nat
                            /\ x \notin a.old => v = x
                            /\ x \in a.old => v = Closed(x, a)
      BY <1>2, <2>1, <2>6
    <3>2. PICK y \in rows : /\ y.unit = w.unit /\ y.from = w.from /\ w.to <= y.to
                            /\ y.from \in Nat /\ y.to \in Nat /\ w.to \in Nat
                            /\ y \notin a.old => w = y
                            /\ y \in a.old => w = Closed(y, a)
      BY <1>2, <2>1, <2>6
    <3>3. x # y
      BY <3>1, <3>2
    <3>4. x.to <= y.from \/ y.to <= x.from
      BY <3>1, <3>2, <3>3 DEF RowsOK
    <3>5. CASE x.to <= y.from
      <4>1. v.to <= y.from
        BY <3>1, <3>2, <3>5
      <4>2. QED
        BY <3>2, <4>1
    <3>6. CASE y.to <= x.from
      <4>1. w.to <= x.from
        BY <3>1, <3>2, <3>6
      <4>2. QED
        BY <3>1, <4>1
    <3>7. QED
      BY <3>4, <3>5, <3>6
  <2>7. QED
    BY <2>3, <2>4, <2>5, <2>6
\* The row that was there, for each that is now and not new.
<1>9. ASSUME NEW v \in R, v \notin a.new
      PROVE  \E x \in rows : x.unit = v.unit /\ x.from = v.from
  BY <1>2, <1>3, <1>4, <1>9 DEF Ended
<1>10. \A v \in R : \A r \in Instants : v.from <= r /\ r < Forever
         => \E w \in R : w.unit = v.unit /\ Within(w, r)
  <2> SUFFICES ASSUME NEW v \in R, NEW r \in Instants, v.from <= r, r < Forever
               PROVE  \E w \in R : w.unit = v.unit /\ Within(w, r)
    OBVIOUS
  <2>0. r \in Nat
    BY PriceInstants
  <2>1. CASE \E n \in a.new : n.unit = v.unit /\ f <= r
    <3>1. PICK n \in a.new : n.unit = v.unit /\ f <= r
      BY <2>1
    <3>2. n \in R /\ n.from = f /\ n.to = e
      BY <1>5
    <3>3. Within(n, r)
      BY <1>0, <3>1, <3>2 DEF Within
    <3>4. QED
      BY <3>1, <3>2, <3>3
  <2>2. CASE ~\E n \in a.new : n.unit = v.unit /\ f <= r
    <3>1. v \notin a.new
      BY <1>5, <2>2
    <3>2. PICK x \in rows : x.unit = v.unit /\ x.from = v.from
      BY <1>9, <3>1
    <3>3. PICK w \in rows : w.unit = v.unit /\ Within(w, r)
      BY <3>2 DEF RowsOK
    <3>4. CASE w \notin a.old
      <4>1. w \in R
        BY <1>3, <3>4 DEF Kept
      <4>2. QED
        BY <3>3, <4>1
    <3>5. CASE w \in a.old
      <4>1. /\ Closed(w, a) \in R /\ Closed(w, a).unit = w.unit
            /\ Closed(w, a).from = w.from /\ Closed(w, a).to = f
            /\ \E n \in a.new : n.unit = w.unit
        BY <1>4, <3>5
      <4>2. r < f
        BY <2>0, <2>2, <3>3, <4>1
      <4>3. Within(Closed(w, a), r)
        BY <3>3, <4>1, <4>2 DEF Within
      <4>4. QED
        BY <3>3, <4>1, <4>3
    <3>6. QED
      BY <3>4, <3>5
  <2>3. QED
    BY <2>1, <2>2
<1>11. \A v \in R : \E w \in R : w.unit = v.unit /\ PublishedRow(w)
  <2> SUFFICES ASSUME NEW v \in R PROVE \E w \in R : w.unit = v.unit /\ PublishedRow(w)
    OBVIOUS
  <2>1. CASE \E n \in a.new : n.unit = v.unit
    BY <1>5, <2>1
  <2>2. CASE ~\E n \in a.new : n.unit = v.unit
    <3>1. PICK x \in rows : x.unit = v.unit
      BY <1>9, <2>2
    <3>2. PICK w \in rows : w.unit = v.unit /\ PublishedRow(w)
      BY <3>1 DEF RowsOK
    <3>3. w \notin a.old
      BY <1>4, <2>2, <3>2
    <3>4. w \in R
      BY <1>3, <3>3 DEF Kept
    <3>5. QED
      BY <3>2, <3>4
  <2>3. QED
    BY <2>1, <2>2
<1>12. \A v \in R : v.status = "ACTIVE"
         => v.to = Forever \/ \E w \in R : w.unit = v.unit /\ w.status = "SCHEDULED"
  <2> SUFFICES ASSUME NEW v \in R, v.status = "ACTIVE"
               PROVE  v.to = Forever \/ \E w \in R : w.unit = v.unit /\ w.status = "SCHEDULED"
    OBVIOUS
  <2>1. CASE Kept(a, rows, v)
    <3>1. v \in rows /\ v \notin a.old
      BY <1>3, <2>1
    <3>2. ~\E n \in a.new : n.unit = v.unit
      BY <3>1 DEF OpenOK, PublishedRow
    <3>3. CASE v.to = Forever
      BY <3>3
    <3>4. CASE v.to # Forever
      <4>1. PICK w \in rows : w.unit = v.unit /\ w.status = "SCHEDULED"
        BY <3>1, <3>4 DEF RowsOK
      <4>2. w \notin a.old
        BY <1>4, <4>1
      <4>3. w \in R
        BY <1>3, <4>2 DEF Kept
      <4>4. QED
        BY <4>1, <4>3
    <3>5. QED
      BY <3>3, <3>4
  <2>2. CASE Ended(a, v)
    <3>1. PICK x \in a.old : v = Closed(x, a)
      BY <2>2 DEF Ended
    <3>2. /\ v.unit = x.unit /\ \E n \in a.new : n.unit = x.unit
          /\ v.status = IF f <= b THEN "SUPERSEDED" ELSE "ACTIVE"
      BY <1>4, <3>1
    <3>3. PICK n \in a.new : n.unit = v.unit
      BY <3>2
    <3>4. ~(f <= b)
      BY <3>2
    <3>5. n \in R /\ n.status = "SCHEDULED"
      BY <1>5, <3>4
    <3>6. QED
      BY <3>3, <3>5
  <2>3. CASE v \in a.new
    BY <1>0, <1>5, <2>3
  <2>4. QED
    BY <1>2, <2>1, <2>2, <2>3
<1>13. RowsOK(R, t)
  BY <1>6, <1>7, <1>8, <1>10, <1>11, <1>12 DEF RowsOK
<1>14. QED
  BY <1>13 DEF R

(* An approval of other units does not see the commit.                     *)
LEMMA OtherApproval ==
  ASSUME NEW s, NEW a, NEW c, NEW o, NEW rows, NEW t,
         RowsOK(rows, t), OpenOK(s, a, rows, t), OpenOK(c, o, rows, t),
         \A n \in a.new, m \in o.new : n.unit # m.unit
  PROVE  OpenOK(c, o, RowsAfter(a, rows), t)
<1>1. ASSUME NEW v, \A n \in a.new : n.unit # v.unit
      PROVE  v \in RowsAfter(a, rows) <=> v \in rows
  <2>1. ~Ended(a, v)
    <3> SUFFICES ASSUME NEW x \in a.old, v = Closed(x, a) PROVE FALSE
      BY DEF Ended
    <3>1. x \in rows /\ \E n \in a.new : n.unit = x.unit
      BY OldIsLast
    <3>2. x \in Version /\ a.from \in 0 .. MaxServerTime + 1
      BY <3>1 DEF RowsOK, OpenOK
    <3>3. v.unit = x.unit
      BY <3>2, ClosedRow
    <3>4. QED
      BY <1>1, <3>1, <3>3
  <2>2. v \notin a.new
    BY <1>1
  <2>3. v \notin a.old
    BY <1>1, OldIsLast
  <2>4. QED
    BY <2>1, <2>2, <2>3, KindsOfRow DEF Kept
<1>2. ASSUME NEW m \in o.new, NEW v, v.unit = m.unit
      PROVE  v \in RowsAfter(a, rows) <=> v \in rows
  <2>1. \A n \in a.new : n.unit # v.unit
    BY <1>2
  <2>2. QED
    BY <1>1, <2>1
<1>3. ASSUME NEW n \in o.new
      PROVE  \A v \in RowsAfter(a, rows) : v.unit = n.unit /\ PublishedRow(v)
               => v \in o.old /\ v.status = "ACTIVE" /\ v.from < o.from
  BY <1>2 DEF OpenOK
<1>4. ASSUME NEW v \in o.old
      PROVE  v \in RowsAfter(a, rows)
  BY <1>2 DEF OpenOK
<1>5. QED
  BY <1>3, <1>4 DEF OpenOK

LEMMA PriceInit == ASSUME PricingInit PROVE PriceInv
<1>1. serverNow = 0 /\ versions = {} /\ approval = [s \in Sets |-> NoApproval]
  BY DEF PricingInit
<1>2. /\ NoApproval.step = "NONE" /\ NoApproval.new = {} /\ NoApproval.old = {}
      /\ NoApproval.from = 0 /\ NoApproval.started = 0 /\ NoApproval \in Approval
  BY PriceInstants DEF NoApproval, Approval
<1>3. RowsOK(versions, serverNow)
  BY <1>1 DEF RowsOK
<1>4. \A s \in Sets : OpenOK(s, approval[s], versions, serverNow)
  BY <1>1, <1>2, PriceInstants DEF OpenOK
<1>5. serverNow \in 0 .. MaxServerTime
  BY <1>1, PriceInstants
<1>6. QED
  BY <1>1, <1>2, <1>3, <1>4, <1>5 DEF PriceInv

(* An approval that ends leaves nothing behind.                            *)
LEMMA EndedApproval ==
  ASSUME NEW s, NEW rows, NEW t \in Nat
  PROVE  NoApproval \in Approval /\ NoApproval.new = {} /\ OpenOK(s, NoApproval, rows, t)
<1>1. /\ NoApproval.step = "NONE" /\ NoApproval.new = {} /\ NoApproval.old = {}
      /\ NoApproval.from = 0 /\ NoApproval.started = 0 /\ NoApproval \in Approval
  BY PriceInstants DEF NoApproval, Approval
<1>2. QED
  BY <1>1, PriceInstants DEF OpenOK

(* One approval changes, the rows do not.                                  *)
LEMMA ApprovalStep ==
  ASSUME PriceInv, NEW s \in Sets, NEW a \in Approval,
         approval' = [approval EXCEPT ![s] = a], UNCHANGED <<serverNow, versions>>,
         OpenOK(s, a, versions, serverNow),
         \A t \in Sets \ {s} : \A n \in a.new, m \in approval[t].new : n.unit # m.unit
  PROVE  PriceInv'
<1>1. approval \in [Sets -> Approval]
  BY DEF PriceInv
<1>2. /\ approval' \in [Sets -> Approval] /\ approval'[s] = a
      /\ \A t \in Sets : t # s => approval'[t] = approval[t]
  BY <1>1
<1>3. \A t \in Sets : OpenOK(t, approval'[t], versions', serverNow')
  BY <1>2 DEF PriceInv
<1>4. ASSUME NEW r \in Sets, NEW t \in Sets, r # t
      PROVE  \A n \in approval'[r].new, m \in approval'[t].new : n.unit # m.unit
  <2>1. CASE r = s
    BY <1>2, <1>4, <2>1
  <2>2. CASE t = s
    BY <1>2, <1>4, <2>2
  <2>3. CASE r # s /\ t # s
    BY <1>2, <1>4, <2>3 DEF PriceInv
  <2>4. QED
    BY <2>1, <2>2, <2>3
<1>5. serverNow' \in 0 .. MaxServerTime /\ RowsOK(versions', serverNow')
  BY DEF PriceInv
<1>6. QED
  BY <1>2, <1>3, <1>4, <1>5 DEF PriceInv

LEMMA BeginApprovalStep ==
  ASSUME PriceInv, NEW s \in Sets, BeginApproval(s)
  PROVE  PriceInv'
<1>1. PICK from \in Starts[s], units \in (SUBSET UnitsOf[s]) \ {{}} :
        approval' = [approval EXCEPT ![s] =
          [NoApproval EXCEPT !.step = "OPEN", !.started = serverNow, !.from = from,
                               !.todo = units]]
  BY DEF BeginApproval
<1>2. PICK a : a = [NoApproval EXCEPT !.step = "OPEN", !.started = serverNow,
                                       !.from = from, !.todo = units]
  OBVIOUS
<1>3. /\ from \in 0 .. MaxServerTime + 1 /\ units \subseteq Units
      /\ serverNow \in 0 .. MaxServerTime /\ serverNow <= serverNow
  <2>1. Starts[s] \subseteq 0 .. MaxServerTime + 1 /\ UnitsOf[s] \subseteq Units
    BY PricingAssumption
  <2>2. serverNow \in 0 .. MaxServerTime
    BY DEF PriceInv
  <2>3. QED
    BY <2>1, <2>2, PriceInstants
<1>4. /\ a.new = {} /\ a.old = {} /\ a.from = from /\ a.started = serverNow
      /\ a.todo = units /\ a.step = "OPEN"
      /\ a = [step |-> a.step, started |-> a.started, from |-> a.from, todo |-> a.todo,
              old |-> a.old, new |-> a.new]
  BY <1>2 DEF NoApproval
<1>5. a \in Approval
  <2>1. a.started \in Instants /\ a.from \in Instants
    BY <1>3, <1>4, PriceInstants
  <2>2. QED
    BY <1>3, <1>4, <2>1 DEF Approval
<1>6. OpenOK(s, a, versions, serverNow)
  BY <1>3, <1>4 DEF OpenOK
<1>7. UNCHANGED <<serverNow, versions>>
  BY DEF BeginApproval
<1>8. approval' = [approval EXCEPT ![s] = a]
  BY <1>1, <1>2
<1>9. QED
  BY <1>4, <1>5, <1>6, <1>7, <1>8, ApprovalStep

LEMMA PublishItemStep ==
  ASSUME PriceInv, NEW s \in Sets, NEW u \in Units, PublishItem(s, u)
  PROVE  PriceInv'
<1>1. PICK a : a = approval[s]
  OBVIOUS
<1>2. a \in Approval /\ OpenOK(s, a, versions, serverNow) /\ serverNow \in Nat
  BY <1>1, PriceInstants DEF PriceInv
<1>3. a.step = "OPEN" /\ UNCHANGED <<serverNow, versions>>
  BY <1>1 DEF PublishItem
<1>4. CASE PRICE_VERSION_OVERLAP(s, u)
  <2>1. approval' = [approval EXCEPT ![s] = NoApproval]
    BY <1>4 DEF PublishItem
  <2>2. /\ NoApproval \in Approval /\ NoApproval.new = {}
        /\ OpenOK(s, NoApproval, versions, serverNow)
    BY <1>2, EndedApproval
  <2>3. QED
    BY <1>3, <2>1, <2>2, ApprovalStep
<1>5. CASE ~PRICE_VERSION_OVERLAP(s, u)
  <2>1. PICK b : b = [a EXCEPT !.todo = a.todo \ {u}, !.old = a.old \cup Published(versions, u),
                               !.new = a.new \cup {NewVersion(s, u)}]
    OBVIOUS
  <2>2. approval' = [approval EXCEPT ![s] = b]
    <3>1. approval \in [Sets -> Approval]
      BY DEF PriceInv
    <3>2. QED
      BY <1>1, <1>5, <2>1, <3>1 DEF PublishItem
  <2>3. /\ b.step = a.step /\ b.from = a.from /\ b.started = a.started
        /\ b.todo = a.todo \ {u} /\ b.old = a.old \cup Published(versions, u)
        /\ b.new = a.new \cup {NewVersion(s, u)}
        /\ b = [step |-> b.step, started |-> b.started, from |-> b.from, todo |-> b.todo,
                old |-> b.old, new |-> b.new]
    BY <1>2, <2>1 DEF Approval
  <2>4. NewVersion(s, u) = NewRow(s, a, u) /\ NewRow(s, a, u).unit = u
    BY <1>1 DEF NewVersion, NewRow
  <2>5. a.from \in 0 .. MaxServerTime + 1 /\ a.started \in 0 .. MaxServerTime
    BY <1>2 DEF OpenOK
  <2>6. NewVersion(s, u) \in Version
    BY <2>4, <2>5, NewRowTyped
  <2>7. \A v : v \in Published(versions, u)
                 <=> v \in versions /\ v.unit = u /\ PublishedRow(v)
    BY DEF Published, PublishedRow
  <2>8. Published(versions, u) \subseteq Version
    BY <2>7 DEF PriceInv, RowsOK
  <2>9. b \in Approval
    BY <1>2, <2>3, <2>6, <2>8 DEF Approval
  <2>10. \A v \in versions : v.unit = u /\ PublishedRow(v)
           => v.status = "ACTIVE" /\ v.from < a.from
    <3> SUFFICES ASSUME NEW v \in versions, v.unit = u, PublishedRow(v)
                 PROVE  v.status = "ACTIVE" /\ v.from < a.from
      OBVIOUS
    <3>1. v \in Published(versions, u)
      BY <2>7
    <3>2. v.status # "SCHEDULED" /\ ~(v.from >= a.from)
      BY <1>1, <1>5, <3>1 DEF PRICE_VERSION_OVERLAP
    <3>3. v.from \in Nat
      BY RowTimes DEF PriceInv, RowsOK
    <3>4. a.from \in Nat
      BY <2>5, PriceInstants
    <3>5. QED
      BY <3>2, <3>3, <3>4 DEF PublishedRow
  <2>11. \A x : NewRow(s, b, x) = NewRow(s, a, x)
    BY <2>3 DEF NewRow
  <2>12. OpenOK(s, b, versions, serverNow)
    <3>1. ASSUME NEW n \in b.new
          PROVE  /\ n.unit \in Units /\ n = NewRow(s, b, n.unit)
                 /\ \A v \in versions : v.unit = n.unit /\ PublishedRow(v)
                      => v \in b.old /\ v.status = "ACTIVE" /\ v.from < b.from
      <4>1. CASE n \in a.new
        <5>1. /\ n.unit \in Units /\ n = NewRow(s, a, n.unit)
              /\ \A v \in versions : v.unit = n.unit /\ PublishedRow(v)
                   => v \in a.old /\ v.status = "ACTIVE" /\ v.from < a.from
          BY <1>2, <4>1 DEF OpenOK
        <5>2. QED
          BY <2>3, <2>11, <5>1
      <4>2. CASE n = NewVersion(s, u)
        <5>1. n = NewRow(s, a, u) /\ n.unit = u
          BY <2>4, <4>2
        <5>2. \A v \in versions : v.unit = u /\ PublishedRow(v) => v \in b.old
          BY <2>3, <2>7
        <5>3. QED
          BY <2>3, <2>10, <2>11, <5>1, <5>2
      <4>3. QED
        BY <2>3, <4>1, <4>2
    <3>2. ASSUME NEW v \in b.old
          PROVE  /\ v \in versions /\ PublishedRow(v)
                 /\ \E n \in b.new : n.unit = v.unit
      <4>1. CASE v \in a.old
        BY <1>2, <2>3, <4>1 DEF OpenOK
      <4>2. CASE v \in Published(versions, u)
        <5>1. v \in versions /\ v.unit = u /\ PublishedRow(v)
          BY <2>7, <4>2
        <5>2. NewVersion(s, u) \in b.new /\ NewVersion(s, u).unit = u
          BY <2>3, <2>4
        <5>3. QED
          BY <5>1, <5>2
      <4>3. QED
        BY <2>3, <4>1, <4>2
    <3>3. b.started <= serverNow
      BY <1>2, <2>3 DEF OpenOK
    <3>4. QED
      BY <1>3, <2>3, <2>5, <3>1, <3>2, <3>3 DEF OpenOK
  <2>13. ASSUME NEW t \in Sets \ {s}, NEW n \in b.new, NEW m \in approval[t].new
         PROVE  n.unit # m.unit
    <3>1. CASE n \in a.new
      BY <1>1, <3>1 DEF PriceInv
    <3>2. CASE n = NewVersion(s, u)
      BY <2>4, <3>2 DEF PublishItem, UnitFree
    <3>3. QED
      BY <2>3, <3>1, <3>2
  <2>14. QED
    BY <1>3, <2>2, <2>9, <2>12, <2>13, ApprovalStep
<1>6. QED
  BY <1>4, <1>5

LEMMA EndApprovalStep ==
  ASSUME PriceInv, NEW s \in Sets,
         approval' = [approval EXCEPT ![s] = NoApproval], UNCHANGED <<serverNow, versions>>
  PROVE  PriceInv'
<1>1. serverNow \in Nat
  BY PriceInstants DEF PriceInv
<1>2. /\ NoApproval \in Approval /\ NoApproval.new = {}
      /\ OpenOK(s, NoApproval, versions, serverNow)
  BY <1>1, EndedApproval
<1>3. QED
  BY <1>2, ApprovalStep

LEMMA CommitApprovalStep ==
  ASSUME PriceInv, NEW s \in Sets, CommitApproval(s)
  PROVE  PriceInv'
<1>1. PICK a : a = approval[s]
  OBVIOUS
<1>2. PICK R : R = RowsAfter(a, versions)
  OBVIOUS
<1>3. /\ approval' = [approval EXCEPT ![s] = NoApproval] /\ serverNow' = serverNow
      /\ versions' = R \/ versions' = versions
  BY <1>1, <1>2 DEF CommitApproval, RowsAfter
<1>4. CASE versions' = versions
  BY <1>3, <1>4, EndApprovalStep
<1>5. CASE versions' = R
  <2>1. /\ serverNow \in 0 .. MaxServerTime /\ serverNow \in Nat
        /\ RowsOK(versions, serverNow) /\ OpenOK(s, a, versions, serverNow)
        /\ approval \in [Sets -> Approval]
    BY <1>1, PriceInstants DEF PriceInv
  <2>2. RowsOK(R, serverNow)
    BY <1>2, <2>1, CommittedRows
  <2>3. \A t \in Sets : OpenOK(t, NoApproval, R, serverNow) /\ NoApproval \in Approval
                        /\ NoApproval.new = {}
    BY <2>1, EndedApproval
  <2>4. ASSUME NEW t \in Sets, t # s
        PROVE  OpenOK(t, approval[t], R, serverNow)
    <3>1. /\ OpenOK(t, approval[t], versions, serverNow)
          /\ \A n \in a.new, m \in approval[t].new : n.unit # m.unit
      BY <1>1, <2>4 DEF PriceInv
    <3>2. OpenOK(t, approval[t], RowsAfter(a, versions), serverNow)
      BY <2>1, <3>1, OtherApproval
    <3>3. QED
      BY <1>2, <3>2
  <2>5. /\ approval' \in [Sets -> Approval] /\ approval'[s] = NoApproval
        /\ \A t \in Sets : t # s => approval'[t] = approval[t]
    BY <1>3, <2>1, <2>3
  <2>6. \A t \in Sets : OpenOK(t, approval'[t], R, serverNow)
    BY <2>3, <2>4, <2>5
  <2>7. ASSUME NEW r \in Sets, NEW t \in Sets, r # t
        PROVE  \A n \in approval'[r].new, m \in approval'[t].new : n.unit # m.unit
    <3>1. CASE r = s \/ t = s
      BY <2>3, <2>5, <3>1
    <3>2. CASE r # s /\ t # s
      BY <2>5, <2>7, <3>2 DEF PriceInv
    <3>3. QED
      BY <3>1, <3>2
  <2>8. QED
    BY <1>3, <1>5, <2>1, <2>2, <2>5, <2>6, <2>7 DEF PriceInv
<1>6. QED
  BY <1>3, <1>4, <1>5

LEMMA TimeStep ==
  ASSUME PriceInv, UNCHANGED <<versions, approval>>,
         serverNow' \in 0 .. MaxServerTime, serverNow <= serverNow'
  PROVE  PriceInv'
<1>1. serverNow \in Nat /\ serverNow' \in Nat
  BY PriceInstants DEF PriceInv
<1>2. RowsOK(versions, serverNow')
  BY <1>1, LaterRows DEF PriceInv
<1>3. \A s \in Sets : OpenOK(s, approval[s], versions, serverNow')
  BY <1>1, LaterOpen DEF PriceInv
<1>4. QED
  BY <1>2, <1>3 DEF PriceInv

LEMMA PriceNext == ASSUME PriceInv, [PricingNext]_pricingVars PROVE PriceInv'
<1>0. serverNow \in 0 .. MaxServerTime /\ serverNow <= serverNow
  BY PriceInstants DEF PriceInv
<1>1. CASE UNCHANGED <<serverNow, versions, approval>>
  BY <1>0, <1>1, TimeStep
<1>2. ASSUME NEW s \in Sets, CreateProposal(s) PROVE PriceInv'
  BY <1>1, <1>2 DEF CreateProposal
<1>3. ASSUME NEW s \in Sets, SubmitProposal(s) PROVE PriceInv'
  BY <1>1, <1>3 DEF SubmitProposal
<1>4. ASSUME NEW s \in Sets, BeginApproval(s) PROVE PriceInv'
  BY <1>4, BeginApprovalStep
<1>5. ASSUME NEW s \in Sets, NEW u \in Units, PublishItem(s, u) PROVE PriceInv'
  BY <1>5, PublishItemStep
<1>6. ASSUME NEW s \in Sets, CommitApproval(s) PROVE PriceInv'
  BY <1>6, CommitApprovalStep
<1>7. ASSUME NEW s \in Sets, AbortApproval(s) PROVE PriceInv'
  BY <1>7, EndApprovalStep DEF AbortApproval
<1>8. ASSUME NEW m \in Promos, PublishPromotion(m) PROVE PriceInv'
  BY <1>1, <1>8 DEF PublishPromotion
<1>9. ASSUME Synchronise \/ SignIn PROVE PriceInv'
  BY <1>1, <1>9 DEF Synchronise, SignIn, server
<1>10. ASSUME NEW u \in Units, NEW q \in Quantities, AddItem(u, q) PROVE PriceInv'
  BY <1>1, <1>10 DEF AddItem, server
<1>11. ASSUME NEW l \in cart, RemoveLine(l) PROVE PriceInv'
  BY <1>1, <1>11 DEF RemoveLine, server
<1>12. ASSUME NEW l \in cart, NEW q \in Quantities, SetLineQuantity(l, q) PROVE PriceInv'
  BY <1>1, <1>12 DEF SetLineQuantity, server
<1>13. ASSUME NEW tender \in Tenders, CompleteSale(tender) PROVE PriceInv'
  BY <1>1, <1>13 DEF CompleteSale, server
<1>14. ASSUME NEW n \in DOMAIN sales, PushSale(n) PROVE PriceInv'
  BY <1>1, <1>14 DEF PushSale, server
<1>15. ASSUME ServerTick PROVE PriceInv'
  <2>1. UNCHANGED <<versions, approval>> /\ serverNow < MaxServerTime /\ serverNow' = serverNow + 1
    BY <1>15 DEF ServerTick, server
  <2>2. serverNow' \in 0 .. MaxServerTime /\ serverNow <= serverNow'
    BY <1>0, <2>1, PriceInstants
  <2>3. QED
    BY <2>1, <2>2, TimeStep
<1>16. ASSUME NEW d \in Jumps, SetClock(d) PROVE PriceInv'
  BY <1>1, <1>16 DEF SetClock, server
<1>17. CASE UNCHANGED pricingVars
  BY <1>1, <1>17 DEF pricingVars, server
<1>18. QED
  BY <1>2, <1>3, <1>4, <1>5, <1>6, <1>7, <1>8, <1>9, <1>10, <1>11, <1>12, <1>13, <1>14,
     <1>15, <1>16, <1>17 DEF PricingNext

(* The inductive invariant: approvals, whatever their order, chain up the  *)
(* versions of a unit.                                                     *)
THEOREM PriceChain == PricingSpec => []PriceInv
<1>1. PricingInit => PriceInv
  BY PriceInit
<1>2. PriceInv /\ [PricingNext]_pricingVars => PriceInv'
  BY PriceNext
<1>3. QED
  BY <1>1, <1>2, PTL DEF PricingSpec

(* At every time exactly one version of a unit is in force, from the start *)
(* of its first one on.                                                    *)
THEOREM OnePrice == PricingSpec => []OnePriceInForce
<1>1. PriceInv => OnePriceInForce
  <2> SUFFICES ASSUME PriceInv, NEW u \in Units, NEW t \in Instants,
                      NEW x \in versions, x.unit = u, x.from <= t, t < Forever
               PROVE  Cardinality({v \in {y \in versions : y.unit = u} : InWindow(v, t)}) = 1
    BY DEF OnePriceInForce
  <2> DEFINE F == {v \in {y \in versions : y.unit = u} : InWindow(v, t)}
  <2>1. PICK w \in versions : w.unit = u /\ Within(w, t)
    BY DEF PriceInv, RowsOK
  <2>2. w \in F
    BY <2>1 DEF InWindow, Within
  <2>3. ASSUME NEW v \in F PROVE v = w
    <3>1. v \in versions /\ v.unit = u /\ v.from <= t /\ t < v.to
      BY DEF InWindow
    <3>2. SUFFICES ASSUME v # w PROVE FALSE
      OBVIOUS
    <3>3. v.to <= w.from \/ w.to <= v.from
      BY <2>1, <3>1, <3>2 DEF PriceInv, RowsOK
    <3>4. v \in Version /\ w \in Version
      BY <2>1, <3>1 DEF PriceInv, RowsOK
    <3>5. PICK vf \in Nat, vt \in Nat, wf \in Nat, wt \in Nat, i \in Nat :
            vf = v.from /\ vt = v.to /\ wf = w.from /\ wt = w.to /\ i = t
      <4>1. t \in Nat
        BY PriceInstants
      <4>2. QED
        BY <3>4, <4>1, RowTimes
    <3>6. vf <= i /\ i < vt /\ wf <= i /\ i < wt /\ (vt <= wf \/ wt <= vf)
      BY <2>1, <3>1, <3>3, <3>5 DEF Within
    <3>7. QED
      BY <3>6
  <2>4. F = {w}
    BY <2>2, <2>3
  <2>5. Cardinality({w}) = 1
    BY FS_Singleton
  <2>6. QED
    BY <2>4, <2>5
<1>2. QED
  BY <1>1, PriceChain, PTL

(* A device with every published row and the right time quotes the version *)
(* in force: a superseded version has ended, so leaving it out loses       *)
(* nothing.                                                                *)
THEOREM QuotedPrice == PricingSpec => []QuotesPriceInForce
<1>1. PriceInv => QuotesPriceInForce
  <2> SUFFICES ASSUME PriceInv, cache \in {Pulled, Bootstrapped},
                      PricingTime = serverNow, NEW u \in Units
               PROVE  Quotable(u) = {v \in versions : v.unit = u /\ InWindow(v, serverNow)}
    BY DEF QuotesPriceInForce
  <2>1. ASSUME NEW v \in versions, InWindow(v, serverNow)
        PROVE  ForSale(v) /\ serverNow < v.to
    <3>1. serverNow < v.to
      BY <2>1 DEF InWindow
    <3>2. v \in Version /\ (v.status = "SUPERSEDED" => v.to <= serverNow)
      BY DEF PriceInv, RowsOK
    <3>3. v.to \in Nat /\ serverNow \in Nat
      BY <3>2, RowTimes, PriceInstants DEF PriceInv
    <3>4. v.status # "SUPERSEDED"
      BY <3>1, <3>2, <3>3
    <3>5. v.status \in {"ACTIVE", "SCHEDULED", "SUPERSEDED"}
      BY <3>2 DEF Version
    <3>6. QED
      BY <3>1, <3>4, <3>5 DEF ForSale
  <2>2. \/ cache.prices = versions
        \/ cache.prices = {v \in versions : ForSale(v) /\ serverNow < v.to}
    <3>1. Pulled.prices = versions
      BY DEF Pulled
    <3>2. Bootstrapped.prices = {v \in versions : ForSale(v) /\ serverNow < v.to}
      BY DEF Pulled, Bootstrapped, ForSale
    <3>3. QED
      BY <3>1, <3>2
  <2>3. \A v : v \in Quotable(u)
                 <=> /\ v \in cache.prices /\ v.unit = u /\ ForSale(v)
                     /\ InWindow(v, serverNow)
    BY DEF Quotable
  <2>4. QED
    BY <2>1, <2>2, <2>3
<1>2. QED
  BY <1>1, PriceChain, PTL

-----------------------------------------------------------------------------
(* What is charged.                                                        *)

SaleFields == {"items", "occurred", "at", "subtotal", "promotion", "total", "tendered", "change",
               "verdict"}

(* Promotions are what their publication made them, one for each id; a     *)
(* version has the tiers of its offer; sales are numbered and have a time. *)
SaleInv ==
  /\ IsFiniteSet(promos) /\ promos \subseteq Promotion
  /\ \A p, r \in promos : p.id = r.id => p = r
  /\ \A v \in versions : v.tiers = ApprovedTiers(Offer[v.set])
  /\ skew \in Int /\ signedIn \in Int /\ estimate \in Int
  /\ \E k \in Nat : DOMAIN sales = 1 .. k
  /\ \A n \in DOMAIN sales :
       /\ sales[n].occurred \in Int
       /\ SaleFields \subseteq DOMAIN sales[n]

(* A finite set has a member that some number puts first.                  *)
LEMMA GreatestBy ==
  ASSUME NEW S, IsFiniteSet(S), S # {}, NEW f, \A x \in S : f[x] \in Int
  PROVE  \E x \in S : \A y \in S : f[y] <= f[x]
<1> DEFINE T == {f[x] : x \in S}
<1>1. IsFiniteSet(T)
  BY ImageFinite
<1>2. T # {} /\ T \subseteq Int
  OBVIOUS
<1>3. Max(T) \in T /\ \A y \in T : y <= Max(T)
  <2> HIDE DEF T
  <2>1. QED
    BY <1>1, <1>2, MaxIsGreatest
<1>4. PICK x \in S : f[x] = Max(T)
  BY <1>3
<1>5. \A y \in S : f[y] <= f[x]
  BY <1>3, <1>4
<1>6. QED
  BY <1>5

(* Those of a finite set that a number puts first.                         *)
Foremost(S, f) == {x \in S : \A y \in S : f[y] <= f[x]}

LEMMA ForemostSome ==
  ASSUME NEW S, IsFiniteSet(S), S # {}, NEW f, \A x \in S : f[x] \in Int
  PROVE  /\ Foremost(S, f) \subseteq S /\ Foremost(S, f) # {} /\ IsFiniteSet(Foremost(S, f))
         /\ \A x \in Foremost(S, f) : \A y \in S : f[y] <= f[x]
         /\ \A x \in Foremost(S, f) : \A y \in S \ Foremost(S, f) : f[y] < f[x]
<1>1. Foremost(S, f) \subseteq S /\ \A x \in Foremost(S, f) : \A y \in S : f[y] <= f[x]
  BY DEF Foremost
<1>2. Foremost(S, f) # {}
  BY GreatestBy DEF Foremost
<1>3. IsFiniteSet(Foremost(S, f))
  BY <1>1, FS_Subset
<1>4. ASSUME NEW x \in Foremost(S, f), NEW y \in S \ Foremost(S, f) PROVE f[y] < f[x]
  <2>1. x \in S /\ y \in S /\ f[x] \in Int /\ f[y] \in Int /\ f[y] <= f[x]
    BY <1>1
  <2>2. PICK z \in S : ~(f[z] <= f[y])
    BY DEF Foremost
  <2>3. f[z] \in Int /\ f[z] <= f[x]
    BY <1>1
  <2>4. QED
    BY <2>1, <2>2, <2>3
<1>5. QED
  BY <1>1, <1>2, <1>3, <1>4

LEMMA PromotionPriceInt ==
  ASSUME NEW p \in Promotion, NEW price \in Int
  PROVE  PromotionPrice(p, price) \in Int
<1>1. p.value \in Nat /\ p.type \in {"FIXED_PRICE", "PERCENT_DISCOUNT", "FIXED_DISCOUNT"}
  BY DEF Promotion
<1>2. PICK v \in Nat : v = p.value
  BY <1>1
<1>3. CASE p.type = "FIXED_PRICE"
  BY <1>1, <1>3 DEF PromotionPrice
<1>4. CASE p.type = "FIXED_DISCOUNT"
  BY <1>1, <1>4 DEF PromotionPrice
<1>5. CASE p.type = "PERCENT_DISCOUNT"
  <2>1. PromotionPrice(p, price) = (2 * price * (100 - v) + 100) \div 200
    BY <1>2, <1>5 DEF PromotionPrice
  <2>2. 2 * price * (100 - v) + 100 \in Int
    OBVIOUS
  <2>3. QED
    BY <2>1, <2>2
<1>6. QED
  BY <1>1, <1>3, <1>4, <1>5

(* comparePromotions puts one promotion first: of the foremost by priority *)
(* those by benefit, of these the oldest, of these the lowest id.          *)
LEMMA FirstPromotion ==
  ASSUME NEW C, IsFiniteSet(C), C # {}, C \subseteq Promotion, NEW price \in Int
  PROVE  \E p \in C : \A r \in C : ComparePromotions(p, r, price)
<1> DEFINE f1 == [p \in C |-> p.priority]
           f2 == [p \in C |-> price - PromotionPrice(p, price)]
           f3 == [p \in C |-> -p.created]
           f4 == [p \in C |-> -p.rank]
<1>1. ASSUME NEW p \in C
      PROVE  /\ f1[p] = p.priority /\ f1[p] \in Int
             /\ f2[p] = price - PromotionPrice(p, price) /\ f2[p] \in Int
             /\ f3[p] = -p.created /\ p.created \in Int /\ f3[p] \in Int
             /\ f4[p] = -p.rank /\ p.rank \in Int /\ f4[p] \in Int
  <2>1. p.priority \in Int /\ p.created \in Int /\ p.rank \in Int
    BY DEF Promotion, Instants
  <2>2. PromotionPrice(p, price) \in Int
    BY PromotionPriceInt
  <2>3. QED
    BY <2>1, <2>2
<1> HIDE DEF f1, f2, f3, f4
<1> DEFINE C1 == Foremost(C, f1)
           C2 == Foremost(C1, f2)
           C3 == Foremost(C2, f3)
           C4 == Foremost(C3, f4)
<1>2. /\ C1 \subseteq C /\ C1 # {} /\ IsFiniteSet(C1)
      /\ \A x \in C1 : \A y \in C \ C1 : f1[y] < f1[x]
      /\ \A x \in C1 : \A y \in C : f1[y] <= f1[x]
  BY <1>1, ForemostSome
<1> HIDE DEF C1
<1>3. /\ C2 \subseteq C1 /\ C2 # {} /\ IsFiniteSet(C2)
      /\ \A x \in C2 : \A y \in C1 \ C2 : f2[y] < f2[x]
      /\ \A x \in C2 : \A y \in C1 : f2[y] <= f2[x]
  BY <1>1, <1>2, ForemostSome
<1> HIDE DEF C2
<1>4. /\ C3 \subseteq C2 /\ C3 # {} /\ IsFiniteSet(C3)
      /\ \A x \in C3 : \A y \in C2 \ C3 : f3[y] < f3[x]
      /\ \A x \in C3 : \A y \in C2 : f3[y] <= f3[x]
  BY <1>1, <1>2, <1>3, ForemostSome
<1> HIDE DEF C3
<1>5. /\ C4 \subseteq C3 /\ C4 # {}
      /\ \A x \in C4 : \A y \in C3 : f4[y] <= f4[x]
  BY <1>1, <1>2, <1>3, <1>4, ForemostSome
<1> HIDE DEF C4
<1>6. PICK p \in C4 : TRUE
  BY <1>5
<1>7. p \in C /\ p \in C1 /\ p \in C2 /\ p \in C3
  BY <1>2, <1>3, <1>4, <1>5
<1>8. ASSUME NEW r \in C PROVE ComparePromotions(p, r, price)
  <2>1. CASE r \notin C1
    <3>1. f1[r] < f1[p]
      BY <1>2, <1>7, <2>1
    <3>2. p.priority > r.priority
      BY <1>1, <1>7, <3>1
    <3>3. QED
      BY <3>2 DEF ComparePromotions
  <2>2. CASE r \in C1 /\ r \notin C2
    <3>1. f1[r] <= f1[p] /\ f1[p] <= f1[r] /\ f2[r] < f2[p]
      BY <1>2, <1>3, <1>7, <2>2
    <3>2. p.priority = r.priority
            /\ price - PromotionPrice(p, price) > price - PromotionPrice(r, price)
      BY <1>1, <1>7, <3>1
    <3>3. QED
      BY <3>2 DEF ComparePromotions
  <2>3. CASE r \in C2 /\ r \notin C3
    <3>1. f1[r] <= f1[p] /\ f1[p] <= f1[r] /\ f2[r] <= f2[p] /\ f2[p] <= f2[r] /\ f3[r] < f3[p]
      BY <1>2, <1>3, <1>4, <1>7, <2>3
    <3>2. p.priority = r.priority
            /\ price - PromotionPrice(p, price) = price - PromotionPrice(r, price)
            /\ p.created < r.created
      BY <1>1, <1>7, <3>1
    <3>3. QED
      BY <3>2 DEF ComparePromotions
  <2>4. CASE r \in C3
    <3>1. /\ f1[r] <= f1[p] /\ f1[p] <= f1[r] /\ f2[r] <= f2[p] /\ f2[p] <= f2[r]
          /\ f3[r] <= f3[p] /\ f3[p] <= f3[r] /\ f4[r] <= f4[p]
      BY <1>2, <1>3, <1>4, <1>5, <1>7, <2>4
    <3>2. p.priority = r.priority
            /\ price - PromotionPrice(p, price) = price - PromotionPrice(r, price)
            /\ p.created = r.created /\ p.rank <= r.rank
      BY <1>1, <1>7, <3>1
    <3>3. QED
      BY <3>2 DEF ComparePromotions
  <2>5. QED
    BY <2>1, <2>2, <2>3, <2>4
<1>9. QED
  BY <1>7, <1>8

(* ResolvePromotion finds the first of the candidates, unless there is     *)
(* none.                                                                   *)
LEMMA ResolvedPromotion ==
  ASSUME NEW ps, IsFiniteSet(ps), ps \subseteq Promotion, NEW price \in Int, NEW q, NEW t,
         NEW C, C = PromotionCandidates(ps, price, q, t),
         NEW best, best = CHOOSE p \in C : \A r \in C : ComparePromotions(p, r, price)
  PROVE  /\ C \subseteq ps
         /\ C = {} => ResolvePromotion(ps, price, q, t) = [id |-> NoPromo, discount |-> 0]
         /\ C # {} =>
              /\ best \in C
              /\ ResolvePromotion(ps, price, q, t)
                   = [id |-> best.id, discount |-> price - PromotionPrice(best, price)]
<1>1. C \subseteq ps
  BY DEF PromotionCandidates
<1>2. IsFiniteSet(C) /\ C \subseteq Promotion
  BY <1>1, FS_Subset
<1>3. C # {} => best \in C
  BY <1>2, FirstPromotion
<1>4. ResolvePromotion(ps, price, q, t) =
        IF C = {} THEN [id |-> NoPromo, discount |-> 0]
        ELSE [id |-> best.id, discount |-> price - PromotionPrice(best, price)]
  BY DEF ResolvePromotion
<1>5. QED
  BY <1>1, <1>3, <1>4

(* The tier and the price that the server finds for a line it accepts: the *)
(* version named by the line is the one in force when the sale took place, *)
(* and any version of that name has the same tiers.                        *)
LEMMA AcceptedVersion ==
  ASSUME PriceInv, SaleInv, NEW sale, sale.occurred \in Int, NEW i,
         VersionSound(sale, i), ~VersionStale(sale, i)
  PROVE  LET v == CHOOSE v \in versions : v.unit = i.unit /\ InWindow(v, sale.occurred)
             w == CHOOSE y \in Named(i) : TRUE IN
         v.tiers = w.tiers
<1> DEFINE v == CHOOSE v \in versions : v.unit = i.unit /\ InWindow(v, sale.occurred)
           w == CHOOSE y \in Named(i) : TRUE
<1>1. PICK x \in Named(i) : x.from <= sale.occurred
  BY DEF VersionSound
<1>2. x \in versions /\ x.unit = i.unit /\ x.set = i.set
  BY DEF Named
<1>3. x \in Version
  BY <1>2 DEF PriceInv, RowsOK
<1>4. x.from \in Nat /\ x.to \in Nat
  BY <1>3, RowTimes
<1>5. ~(sale.occurred >= x.to)
  BY DEF VersionStale
<1>6. InWindow(x, sale.occurred)
  BY <1>1, <1>4, <1>5 DEF InWindow
<1>7. v \in versions /\ v.unit = i.unit /\ InWindow(v, sale.occurred)
  BY <1>2, <1>6
<1> HIDE DEF v
<1>8. v \in Version
  BY <1>7 DEF PriceInv, RowsOK
<1>9. v.from \in Nat /\ v.to \in Nat
  BY <1>8, RowTimes
<1>10. v = x
  <2>1. SUFFICES ASSUME v # x PROVE FALSE
    OBVIOUS
  <2>2. v.to <= x.from \/ x.to <= v.from
    BY <1>2, <1>7, <2>1 DEF PriceInv, RowsOK
  <2>3. PICK o \in Int, vf \in Nat, vt \in Nat, xf \in Nat, xt \in Nat :
          o = sale.occurred /\ vf = v.from /\ vt = v.to /\ xf = x.from /\ xt = x.to
    BY <1>4, <1>9
  <2>4. vf <= o /\ o < vt /\ xf <= o /\ o < xt /\ (vt <= xf \/ xt <= vf)
    BY <1>6, <1>7, <2>2, <2>3 DEF InWindow
  <2>5. QED
    BY <2>4
<1>11. w \in Named(i)
  BY <1>1
<1>12. w \in versions /\ w.set = i.set
  BY <1>11 DEF Named
<1> HIDE DEF w
<1>13. x.tiers = w.tiers
  BY <1>2, <1>12 DEF SaleInv
<1>14. v.tiers = w.tiers
  BY <1>10, <1>13
<1>15. QED
  BY <1>14 DEF v, w

(* The tier of the highest minimum the quantity reaches, said in two ways. *)
LEMMA HighestTier ==
  ASSUME NEW tiers, NEW q, ResolveTier(tiers, q) # NoTier
  PROVE  ResolveTier(tiers, q) =
           CHOOSE t \in tiers : t.min <= q /\ \A r \in tiers : r.min <= q => r.min <= t.min
<1> DEFINE reached == {t \in tiers : t.min <= q}
           P(t) == t \in reached /\ \A r \in reached : r.min <= t.min
           Q(t) == /\ t \in tiers
                   /\ t.min <= q /\ \A r \in tiers : r.min <= q => r.min <= t.min
<1>1. \A t : P(t) <=> Q(t)
  OBVIOUS
<1>2. (CHOOSE t : P(t)) = (CHOOSE t : Q(t))
  <2> HIDE DEF P, Q
  <2>1. QED
    BY <1>1, Zenon
<1>3. ResolveTier(tiers, q) = CHOOSE t \in reached : \A r \in reached : r.min <= t.min
  BY DEF ResolveTier
<1>4. ResolveTier(tiers, q) = CHOOSE t : P(t)
  BY <1>3
<1>5. QED
  BY <1>2, <1>4

(* The parts of a resolution that finds a tier.                            *)
LEMMA ResolutionParts ==
  ASSUME NEW base, NEW tiers, NEW ps, NEW q, NEW t, NEW status,
         NEW tier, tier = ResolveTier(tiers, q), tier # NoTier,
         NEW live, live = IF status = "TRUSTED" THEN ps ELSE {}
  PROVE  LET res == Resolution(base, tiers, ps, q, t, status) IN
         /\ res.tier = tier /\ res.price = tier.price
         /\ res.promotion = ResolvePromotion(live, tier.price, q, t).id
         /\ res.discount = ResolvePromotion(live, tier.price, q, t).discount
BY DEF Resolution

(* A line of a sale accepted without a warning was charged the price in    *)
(* force: the server compares the promotion of the line with the first of  *)
(* the running ones, and its discount with that of the promotion alone.    *)
LEMMA ChargedInForce ==
  ASSUME PriceInv, SaleInv, NEW sale, sale.occurred \in Int,
         Sound(sale), ~Stale(sale), NEW i \in sale.items
  PROVE  i.final = PriceInForce(sale, i)
<1> DEFINE q == UnitQuantity(sale, i)
           w == CHOOSE v \in Named(i) : TRUE
           tier == ResolveTier(w.tiers, q)
           E == Eligible(sale, i, i.resolved)
           live == IF i.status = "TRUSTED" THEN E ELSE {}
           own == Authoritative(sale, i, E, i.resolved, i.status)
           C == PromotionCandidates(live, tier.price, q, i.resolved)
           best == CHOOSE p \in C : \A r \in C : ComparePromotions(p, r, tier.price)
<1>1. /\ VersionSound(sale, i) /\ ~VersionStale(sale, i)
      /\ TierSound(sale, i) /\ PromotionSound(sale, i) /\ ~PromotionStale(sale, i)
      /\ ItemSound(i) /\ i.price - i.discount = i.final
  BY DEF Sound, Stale, PayloadSound, AggregateMath
<1>2. own.tier # NoTier /\ own.price = i.price /\ own.promotion = i.promotion
  BY <1>1 DEF TierSound, PromotionStale
<1>3. /\ \A ps : Authoritative(sale, i, ps, i.resolved, i.status)
                   = Resolution(BaseOf(w), w.tiers, ps, q, i.resolved, i.status)
      /\ own = Resolution(BaseOf(w), w.tiers, E, q, i.resolved, i.status)
  BY DEF Authoritative
<1>4. tier # NoTier
  BY <1>2, <1>3 DEF Resolution
<1>5. i.price = tier.price /\ i.promotion = ResolvePromotion(live, tier.price, q, i.resolved).id
  BY <1>2, <1>3, <1>4, ResolutionParts
<1>6. /\ tier.price \in Int /\ i.discount \in Int /\ i.final = tier.price - i.discount
  BY <1>1, <1>5 DEF ItemSound
<1>7. /\ E \subseteq promos /\ IsFiniteSet(promos) /\ promos \subseteq Promotion
      /\ \A p, r \in promos : p.id = r.id => p = r
  BY DEF Eligible, SaleInv
<1>8. live \subseteq promos /\ IsFiniteSet(live) /\ live \subseteq Promotion
  BY <1>7, FS_Subset, FS_EmptySet
<1>9. PriceInForce(sale, i) = IF C = {} THEN tier.price ELSE PromotionPrice(best, tier.price)
  <2> DEFINE v == CHOOSE v \in versions : v.unit = i.unit /\ InWindow(v, sale.occurred)
             running(p) == IF i.status # "TRUSTED" THEN {} ELSE
               {r \in promos : /\ r.unit = i.unit /\ r.created <= i.resolved /\ r.from <= serverNow
                               /\ InWindow(r, i.resolved) /\ r.min <= q
                               /\ PromotionPrice(r, p) < p}
  <2>1. v.tiers = w.tiers
    BY <1>1, AcceptedVersion
  <2> HIDE DEF v, w
  <2>2. tier = CHOOSE t \in v.tiers : t.min <= q /\ \A r \in v.tiers : r.min <= q => r.min <= t.min
    BY <1>4, <2>1, HighestTier
  <2> HIDE DEF q
  <2>3. C = running(tier.price)
    BY DEF PromotionCandidates, Concerns, Eligible
  <2> DEFINE t0 == CHOOSE t \in v.tiers :
                     t.min <= q /\ \A r \in v.tiers : r.min <= q => r.min <= t.min
             first(p) == CHOOSE x \in running(p) :
                           \A r \in running(p) : ComparePromotions(x, r, p)
  <2>4. PriceInForce(sale, i)
          = IF running(t0.price) = {} THEN t0.price ELSE PromotionPrice(first(t0.price), t0.price)
    BY DEF PriceInForce, v, q
  <2>5. best = first(tier.price)
    BY <2>3
  <2> HIDE DEF running, first, C, best, tier
  <2>6. QED
    BY <2>2, <2>3, <2>4, <2>5
<1> HIDE DEF q, w, tier, live, own, E
<1>10. /\ C \subseteq live
       /\ C = {} => i.promotion = NoPromo
       /\ C # {} => best \in C /\ i.promotion = best.id
  BY <1>5, <1>6, <1>8, ResolvedPromotion
<1> HIDE DEF C, best
<1>11. C # {} => best \in promos /\ best.id \in Promos
  BY <1>8, <1>10 DEF Promotion
<1>12. CASE C = {}
  <2>1. i.promotion \notin Promos
    BY <1>10, <1>12, PricingAssumption
  <2>2. \A p \in E : p.id \in Promos
    BY <1>7 DEF Promotion
  <2>3. i.discount = 0
    BY <1>1, <2>1, <2>2 DEF PromotionSound, E
  <2>4. QED
    BY <1>6, <1>9, <1>12, <2>3
<1>13. CASE C # {}
  <2>1. i.promotion # NoPromo
    BY <1>10, <1>11, <1>13, PricingAssumption
  <2>2. PICK p \in E :
          /\ p.id = i.promotion
          /\ Authoritative(sale, i, {p}, i.resolved, i.status).promotion = p.id
          /\ Authoritative(sale, i, {p}, i.resolved, i.status).discount = i.discount
    BY <1>1, <2>1 DEF PromotionSound, E
  <2>3. p = best
    BY <1>7, <1>10, <1>11, <1>13, <2>2
  <2> DEFINE one == IF i.status = "TRUSTED" THEN {p} ELSE {}
             D == PromotionCandidates(one, tier.price, q, i.resolved)
             R == ResolvePromotion(one, tier.price, q, i.resolved)
             first == CHOOSE x \in D : \A r \in D : ComparePromotions(x, r, tier.price)
  <2>4. R.id = p.id /\ R.discount = i.discount
    <3>1. Authoritative(sale, i, {p}, i.resolved, i.status)
            = Resolution(BaseOf(w), w.tiers, {p}, q, i.resolved, i.status)
      BY <1>3
    <3>2. QED
      BY <1>4, <2>2, <3>1, ResolutionParts DEF tier
  <2>5. IsFiniteSet(one) /\ one \subseteq Promotion /\ one \subseteq {p}
    BY <1>7, FS_Singleton, FS_EmptySet
  <2> HIDE DEF one
  <2>6. /\ D \subseteq one
        /\ D = {} => R = [id |-> NoPromo, discount |-> 0]
        /\ D # {} =>
             /\ first \in D
             /\ R = [id |-> first.id, discount |-> tier.price - PromotionPrice(first, tier.price)]
    BY <1>6, <2>5, ResolvedPromotion
  <2> HIDE DEF D, first, R
  <2>7. /\ D \subseteq one
        /\ D = {} => p.id = NoPromo
        /\ D # {} => /\ first \in D
                     /\ i.discount = tier.price - PromotionPrice(first, tier.price)
    BY <2>4, <2>6
  <2>8. i.discount = tier.price - PromotionPrice(p, tier.price)
    BY <2>1, <2>2, <2>5, <2>7
  <2>9. PromotionPrice(p, tier.price) \in Int
    BY <1>6, <1>7, PromotionPriceInt
  <2>10. i.final = PromotionPrice(p, tier.price)
    BY <1>6, <2>8, <2>9
  <2>11. QED
    BY <1>9, <1>13, <2>3, <2>10
<1>14. QED
  BY <1>12, <1>13

(* A publication adds one promotion of a new id.                           *)
LEMMA PublishPromotionSale ==
  ASSUME PriceInv, SaleInv, NEW m \in Promos, PublishPromotion(m)
  PROVE  SaleInv'
<1>1. PICK w \in Windows :
        promos' = promos \cup
          {[id |-> m, unit |-> Deal[m].unit, from |-> w.from, to |-> w.to, created |-> serverNow,
            type |-> Deal[m].type, value |-> Deal[m].value, min |-> Deal[m].min,
            priority |-> Deal[m].priority, rank |-> Deal[m].rank]}
  BY DEF PublishPromotion
<1> DEFINE new == [id |-> m, unit |-> Deal[m].unit, from |-> w.from, to |-> w.to,
                   created |-> serverNow, type |-> Deal[m].type, value |-> Deal[m].value,
                   min |-> Deal[m].min, priority |-> Deal[m].priority, rank |-> Deal[m].rank]
<1>2. new \in Promotion
  <2>1. w.from \in Instants /\ w.to \in Instants /\ serverNow \in Instants
    BY PricingAssumption, PriceInstants DEF PriceInv
  <2>2. /\ Deal[m].unit \in Units /\ Deal[m].value \in Nat /\ Deal[m].min \in Nat
        /\ Deal[m].rank \in Nat /\ Deal[m].priority \in Int
        /\ Deal[m].type \in {"FIXED_PRICE", "PERCENT_DISCOUNT", "FIXED_DISCOUNT"}
    BY PricingAssumption
  <2>3. QED
    BY <2>1, <2>2 DEF Promotion
<1>3. new.id = m
  OBVIOUS
<1> HIDE DEF new
<1>4. promos' = promos \cup {new}
  BY <1>1 DEF new
<1>5. IsFiniteSet(promos')
  BY <1>4, FS_AddElement DEF SaleInv
<1>6. promos' \subseteq Promotion
  BY <1>2, <1>4 DEF SaleInv
<1>7. \A p, r \in promos' : p.id = r.id => p = r
  BY <1>3, <1>4 DEF SaleInv, PublishPromotion
<1>8. UNCHANGED <<versions, skew, signedIn, estimate, sales>>
  BY DEF PublishPromotion, clock
<1>9. QED
  BY <1>5, <1>6, <1>7, <1>8 DEF SaleInv

(* Closing a version keeps its tiers and a new one has those of its offer. *)
LEMMA CommitApprovalSale ==
  ASSUME PriceInv, SaleInv, NEW s \in Sets, CommitApproval(s)
  PROVE  SaleInv'
<1> DEFINE a == approval[s]
           rows == (versions \ a.old) \cup {Closed(v, a) : v \in a.old} \cup a.new
<1>1. versions' = rows \/ versions' = versions
  BY DEF CommitApproval
<1>2. UNCHANGED <<promos, skew, signedIn, estimate, sales>>
  BY DEF CommitApproval, clock
<1>3. OpenOK(s, a, versions, serverNow)
  BY DEF PriceInv
<1>4. ASSUME NEW v \in rows PROVE v.tiers = ApprovedTiers(Offer[v.set])
  <2>1. CASE v \in versions
    BY <2>1 DEF SaleInv
  <2>2. ASSUME NEW o \in a.old, v = Closed(o, a) PROVE v.tiers = ApprovedTiers(Offer[v.set])
    <3>1. o \in versions /\ o \in Version
      BY <1>3 DEF OpenOK, PriceInv, RowsOK
    <3>2. v.tiers = o.tiers /\ v.set = o.set
      BY <2>2, <3>1 DEF Closed, Version
    <3>3. QED
      BY <3>1, <3>2 DEF SaleInv
  <2>3. CASE v \in a.new
    <3>1. v = NewRow(s, a, v.unit)
      BY <1>3, <2>3 DEF OpenOK
    <3>2. NewRow(s, a, v.unit).set = s
            /\ NewRow(s, a, v.unit).tiers = ApprovedTiers(Offer[s])
      BY DEF NewRow
    <3>3. QED
      BY <3>1, <3>2
  <2>4. QED
    BY <2>1, <2>2, <2>3
<1> HIDE DEF rows
<1>5. QED
  BY <1>1, <1>2, <1>4 DEF SaleInv

LEMMA SaleInvKept ==
  ASSUME SaleInv, UNCHANGED <<promos, versions>>,
         skew' \in Int, signedIn' \in Int, estimate' \in Int,
         \E k \in Nat : DOMAIN sales' = 1 .. k,
         \A n \in DOMAIN sales' : /\ sales'[n].occurred \in Int
                                  /\ SaleFields \subseteq DOMAIN sales'[n]
  PROVE  SaleInv'
BY DEF SaleInv

(* The time of an operation.                                               *)
LEMMA OperationTimeInt ==
  ASSUME PriceInv, SaleInv PROVE OperationTime \in Int
<1> DEFINE e == serverNow + skew - signedIn
<1>1. estimate \in Int /\ e \in Int
  BY PriceInstants DEF PriceInv, SaleInv
<1> HIDE DEF e
<1>2. IsFiniteSet({estimate, e})
  <2>1. IsFiniteSet({estimate})
    BY FS_Singleton
  <2>2. IsFiniteSet({estimate} \cup {e})
    BY <2>1, FS_AddElement
  <2>3. {estimate} \cup {e} = {estimate, e}
    OBVIOUS
  <2>4. QED
    BY <2>2, <2>3
<1>3. Max({estimate, e}) \in {estimate, e}
  <2>1. {estimate, e} # {} /\ {estimate, e} \subseteq Int
    BY <1>1
  <2>2. QED
    BY <1>2, <2>1, MaxIsGreatest
<1>4. OperationTime = Max({estimate, e})
  BY DEF OperationTime, e
<1>5. QED
  BY <1>1, <1>3, <1>4

(* A completed sale comes after the others, which stay as they are.        *)
LEMMA CompletedSales ==
  ASSUME SaleInv, NEW tender \in Tenders, CompleteSale(tender)
  PROVE  /\ \E k \in Nat : DOMAIN sales = 1 .. k /\ DOMAIN sales' = 1 .. k + 1
         /\ \A n \in DOMAIN sales : n \in DOMAIN sales' /\ sales'[n] = sales[n]
         /\ \A n \in DOMAIN sales' \ DOMAIN sales :
              /\ sales'[n].occurred = OperationTime
              /\ SaleFields \subseteq DOMAIN sales'[n]
<1>1. PICK k \in Nat : DOMAIN sales = 1 .. k
  BY DEF SaleInv
<1>2. Cardinality(1 .. k) = k
  BY FS_Interval
<1> DEFINE items == {Item(l) : l \in cart}
           new == [items |-> items, occurred |-> OperationTime, at |-> serverNow,
                   subtotal |-> Subtotal(items), promotion |-> PromotionTotal(items),
                   total |-> FinalTotal(items), tendered |-> tender,
                   change |-> tender - FinalTotal(items), verdict |-> "PENDING"]
<1>3. sales' = [n \in 1 .. k + 1 |-> IF n \in DOMAIN sales THEN sales[n] ELSE new]
  BY <1>1, <1>2 DEF CompleteSale
<1>4. new.occurred = OperationTime /\ SaleFields \subseteq DOMAIN new
  BY DEF SaleFields
<1> HIDE DEF new
<1>5. QED
  BY <1>1, <1>3, <1>4

LEMMA SaleInvInit == ASSUME PricingInit PROVE SaleInv
<1>1. promos = {} /\ versions = {} /\ sales = <<>> /\ skew = 0 /\ signedIn = 0 /\ estimate = 0
  BY DEF PricingInit
<1>2. DOMAIN sales = {} /\ DOMAIN sales = 1 .. 0
  BY <1>1
<1>3. QED
  BY <1>1, <1>2, FS_EmptySet DEF SaleInv

LEMMA SaleInvNext == ASSUME PriceInv, SaleInv, [PricingNext]_pricingVars PROVE SaleInv'
<1>0. /\ skew \in Int /\ signedIn \in Int /\ estimate \in Int /\ serverNow \in Int
      /\ \E k \in Nat : DOMAIN sales = 1 .. k
      /\ \A n \in DOMAIN sales :
           /\ sales[n].occurred \in Int
           /\ SaleFields \subseteq DOMAIN sales[n]
  BY PriceInstants DEF PriceInv, SaleInv
<1>1. CASE UNCHANGED <<promos, versions, skew, signedIn, estimate, sales>>
  BY <1>0, <1>1, SaleInvKept
<1>2. ASSUME NEW s \in Sets,
             CreateProposal(s) \/ SubmitProposal(s) \/ BeginApproval(s) \/ AbortApproval(s)
      PROVE  SaleInv'
  BY <1>1, <1>2 DEF CreateProposal, SubmitProposal, BeginApproval, AbortApproval, clock
<1>3. ASSUME NEW s \in Sets, NEW u \in Units, PublishItem(s, u) PROVE SaleInv'
  BY <1>1, <1>3 DEF PublishItem, clock
<1>4. ASSUME NEW s \in Sets, CommitApproval(s) PROVE SaleInv'
  BY <1>4, CommitApprovalSale
<1>5. ASSUME NEW m \in Promos, PublishPromotion(m) PROVE SaleInv'
  BY <1>5, PublishPromotionSale
<1>6. ASSUME Synchronise PROVE SaleInv'
  BY <1>1, <1>6 DEF Synchronise, server, clock
<1>7. ASSUME SignIn PROVE SaleInv'
  BY <1>0, <1>7, SaleInvKept DEF SignIn, server
<1>8. ASSUME NEW u \in Units, NEW q \in Quantities, AddItem(u, q) PROVE SaleInv'
  BY <1>1, <1>8 DEF AddItem, server, clock
<1>9. ASSUME NEW l \in cart, RemoveLine(l) PROVE SaleInv'
  BY <1>1, <1>9 DEF RemoveLine, server, clock
<1>10. ASSUME NEW l \in cart, NEW q \in Quantities, SetLineQuantity(l, q) PROVE SaleInv'
  BY <1>1, <1>10 DEF SetLineQuantity, server, clock
<1>11. ASSUME NEW tender \in Tenders, CompleteSale(tender) PROVE SaleInv'
  <2>1. UNCHANGED <<promos, versions, skew, signedIn>> /\ estimate' = OperationTime
    BY <1>11 DEF CompleteSale, server
  <2>2. (\E k \in Nat : DOMAIN sales' = 1 .. k)
        /\ \A n \in DOMAIN sales' :
          \/ n \in DOMAIN sales /\ sales'[n] = sales[n]
          \/ sales'[n].occurred = OperationTime /\ SaleFields \subseteq DOMAIN sales'[n]
    BY <1>11, CompletedSales
  <2>3. OperationTime \in Int
    BY OperationTimeInt
  <2>4. QED
    BY <1>0, <2>1, <2>2, <2>3, SaleInvKept
<1>12. ASSUME NEW n \in DOMAIN sales, PushSale(n) PROVE SaleInv'
  <2>1. UNCHANGED <<promos, versions, skew, signedIn, estimate>>
    BY <1>12 DEF PushSale, server, clock
  <2>2. PICK c : sales' = [sales EXCEPT ![n].verdict = c]
    BY <1>12 DEF PushSale
  <2>3. \A k \in DOMAIN sales' :
          /\ k \in DOMAIN sales
          /\ sales'[k] = sales[k] \/ sales'[k] = [sales[k] EXCEPT !.verdict = c]
    BY <2>2
  <2>4. \A k \in DOMAIN sales' : /\ sales'[k].occurred \in Int
                                 /\ SaleFields \subseteq DOMAIN sales'[k]
    BY <1>0, <2>3 DEF SaleFields
  <2>5. DOMAIN sales' = DOMAIN sales
    BY <2>2
  <2>6. QED
    BY <1>0, <2>1, <2>4, <2>5, SaleInvKept
<1>13. ASSUME ServerTick PROVE SaleInv'
  BY <1>1, <1>13 DEF ServerTick, server, clock
<1>14. ASSUME NEW d \in Jumps, SetClock(d) PROVE SaleInv'
  <2>1. skew' \in -MaxSkew .. MaxSkew /\ UNCHANGED <<promos, versions, signedIn, estimate, sales>>
    BY <1>14 DEF SetClock, server
  <2>2. skew' \in Int
    BY <2>1, PriceInstants
  <2>3. QED
    BY <1>0, <2>1, <2>2, SaleInvKept
<1>15. CASE UNCHANGED pricingVars
  BY <1>1, <1>15 DEF pricingVars, server, clock
<1>16. QED
  BY <1>2, <1>3, <1>4, <1>5, <1>6, <1>7, <1>8, <1>9, <1>10, <1>11, <1>12, <1>13, <1>14, <1>15
     DEF PricingNext

(* Promotions, tiers and times stay what they are.                         *)
THEOREM SaleFacts == PricingSpec => [](PriceInv /\ SaleInv)
<1>1. PricingInit => SaleInv
  BY SaleInvInit
<1>2. PriceInv /\ SaleInv /\ [PricingNext]_pricingVars => SaleInv'
  BY SaleInvNext
<1>3. QED
  BY <1>1, <1>2, PriceChain, PTL DEF PricingSpec

(* A sale accepted without STALE_PRICING_EXCEPTION was charged the price   *)
(* in force: only its push sets the verdict, and it does so in sound and   *)
(* not stale sales only.                                                   *)
THEOREM UnwarnedPrice == PricingSpec => UnwarnedIsInForce
<1> DEFINE A == \A n \in DOMAIN sales :
                  sales[n].verdict = "PENDING" /\ sales'[n].verdict = "ACCEPTED" =>
                    \A i \in sales[n].items : i.final = PriceInForce(sales[n], i)
<1>1. PriceInv /\ SaleInv /\ [PricingNext]_pricingVars => [A]_pricingVars
  <2> SUFFICES ASSUME PriceInv, SaleInv, PricingNext, NEW n \in DOMAIN sales,
                      sales[n].verdict = "PENDING", sales'[n].verdict = "ACCEPTED",
                      NEW i \in sales[n].items
               PROVE  i.final = PriceInForce(sales[n], i)
    OBVIOUS
  <2>1. sales' # sales
    OBVIOUS
  <2>2. ASSUME NEW tender \in Tenders, CompleteSale(tender) PROVE FALSE
    BY <2>2, CompletedSales
  <2>3. PICK k \in DOMAIN sales : PushSale(k)
    BY <2>1, <2>2 DEF PricingNext, CreateProposal, SubmitProposal, BeginApproval, PublishItem,
       CommitApproval, AbortApproval, PublishPromotion, Synchronise, SignIn, AddItem, RemoveLine,
       SetLineQuantity, ServerTick, SetClock
  <2>4. PICK c : /\ sales' = [sales EXCEPT ![k].verdict = c]
                 /\ c = CASE ~Sound(sales[k]) -> "REFUSED"
                          [] Sound(sales[k]) /\ Stale(sales[k]) -> "STALE"
                          [] OTHER -> "ACCEPTED"
    BY <2>3 DEF PushSale
  <2>5. n = k /\ sales'[k] = [sales[k] EXCEPT !.verdict = c]
    BY <2>4
  <2>6. c = "ACCEPTED"
    BY <2>5 DEF SaleInv, SaleFields
  <2>7. Sound(sales[k]) /\ ~Stale(sales[k])
    BY <2>4, <2>6
  <2>8. sales[n].occurred \in Int
    BY DEF SaleInv
  <2>9. QED
    BY <2>5, <2>7, <2>8, ChargedInForce
<1>2. QED
  BY <1>1, SaleFacts, PTL DEF UnwarnedIsInForce, PricingSpec

-----------------------------------------------------------------------------
(* Which sales stand.                                                      *)

(* Only offers that readApprovedItem accepts are approved.                 *)
OffersOK ==
  /\ \A s \in Sets : approval[s].step = "OPEN" => ValidTiers(Offer[s])
  /\ \A v \in versions : ValidTiers(Offer[v.set])

(* What a version keeps when it is closed.                                 *)
SameOffer(v, w) ==
  v.set = w.set /\ v.unit = w.unit /\ v.from = w.from /\ v.created = w.created /\ v.tiers = w.tiers

(* Nothing is dated later than the server's clock.                         *)
DatedOK == /\ \A v \in versions : v.created <= serverNow
           /\ \A p \in promos : p.created <= serverNow

(* The device's copy is of rows the server had when it was made.           *)
CacheOK(c, vs, ps, time) ==
  /\ c.prices \subseteq Version /\ c.offset \in Int /\ c.time \in Nat /\ c.time <= time
  /\ \A x \in c.prices : x.created <= c.time /\ \E v \in vs : SameOffer(v, x)
  /\ c.promos \subseteq ps /\ \A p \in c.promos : p.created <= c.time

(* A line of the cart was priced by a version and promotions of the server *)
(* that were there when it was added.                                      *)
LineOK(l, vs, ps, time) ==
  /\ l \in Line /\ l.base = BaseOf(l)
  /\ \E v \in vs : /\ v.set = l.set /\ v.unit = l.unit /\ v.from = l.from /\ v.tiers = l.tiers
                   /\ v.created <= l.at
  /\ l.from <= l.resolved /\ l.at <= time
  /\ l.status # "TRUSTED" => l.resolved <= l.at
  /\ l.promos \subseteq ps /\ \A p \in l.promos : p.unit = l.unit /\ p.created <= l.at

(* A sale is of such lines, and its totals are theirs.                     *)
SoldOK(sale, vs, ps, time) ==
  /\ IsFiniteSet(sale.items) /\ sale.items # {} /\ sale.at \in Int /\ sale.at <= time
  /\ \A i \in sale.items :
       /\ LayersSound(i)
       /\ \E l : LineOK(l, vs, ps, time) /\ l.at <= sale.at /\ i = Item(l)
  /\ sale.subtotal = Subtotal(sale.items) /\ sale.promotion = PromotionTotal(sale.items)
  /\ sale.total = FinalTotal(sale.items) /\ sale.tendered \in Nat
  /\ sale.tendered >= sale.total /\ sale.change = sale.tendered - sale.total

StandInv ==
  /\ OffersOK /\ DatedOK
  /\ CacheOK(cache, versions, promos, serverNow)
  /\ IsFiniteSet(cart) /\ \A l \in cart : LineOK(l, versions, promos, serverNow)
  /\ \A n \in DOMAIN sales : SoldOK(sales[n], versions, promos, serverNow)
  /\ SaleStands

(* The tiers of an offer: a RETAIL one from 1, and none that is no tier.   *)
LEMMA OfferTiers ==
  ASSUME NEW s \in Sets, ValidTiers(Offer[s])
  PROVE  /\ ApprovedTiers(Offer[s]) \subseteq Tier
         /\ \A t \in ApprovedTiers(Offer[s]) : t # NoTier
         /\ \E t \in ApprovedTiers(Offer[s]) : t.code = "RETAIL" /\ t.min = Whole
<1>1. /\ Offer[s].tiers \subseteq Tier /\ Offer[s].price \in Nat /\ Whole \in Nat
      /\ \A t \in Offer[s].tiers : t.code # "NONE"
  BY PricingAssumption
<1> DEFINE retail == [code |-> "RETAIL", min |-> Whole, price |-> Offer[s].price]
<1>2. retail \in Tier /\ retail.code = "RETAIL" /\ retail.min = Whole
  BY <1>1 DEF Tier
<1> HIDE DEF retail
<1>3. \/ ApprovedTiers(Offer[s]) = Offer[s].tiers /\ \E t \in Offer[s].tiers : t.code = "RETAIL"
      \/ ApprovedTiers(Offer[s]) = Offer[s].tiers \cup {retail}
  BY DEF ApprovedTiers, retail
<1>4. ApprovedTiers(Offer[s]) \subseteq Tier
  BY <1>1, <1>2, <1>3
<1>5. \A t \in ApprovedTiers(Offer[s]) : t.code # "NONE"
  BY <1>1, <1>2, <1>3
<1>6. \E t \in ApprovedTiers(Offer[s]) : t.code = "RETAIL"
  BY <1>2, <1>3
<1>7. \A t \in ApprovedTiers(Offer[s]) : t.code = "RETAIL" => t.min = Whole
  BY DEF ValidTiers
<1>8. \A t \in ApprovedTiers(Offer[s]) : t # NoTier
  BY <1>5 DEF NoTier
<1>9. QED
  BY <1>4, <1>6, <1>7, <1>8

(* The base price is an amount.                                            *)
LEMMA BaseNat ==
  ASSUME NEW v, v.tiers \subseteq Tier, \E t \in v.tiers : t.code = "RETAIL"
  PROVE  BaseOf(v) \in Nat
<1> DEFINE t == CHOOSE t \in v.tiers : t.code = "RETAIL"
<1>1. t \in v.tiers
  OBVIOUS
<1> HIDE DEF t
<1>2. t.price \in Nat
  BY <1>1 DEF Tier
<1>3. QED
  BY <1>2 DEF BaseOf, t

(* A quantity that reaches a tier is given one of the tiers it reaches.    *)
LEMMA TierReached ==
  ASSUME NEW tiers \in SUBSET Tier, NEW q \in Nat, NEW t0 \in tiers, t0.min <= q
  PROVE  ResolveTier(tiers, q) \in tiers
<1> DEFINE reached == {t \in tiers : t.min <= q}
           mins == {t.min : t \in reached}
<1>1. reached \subseteq tiers /\ reached # {} /\ \A t \in reached : t.min \in Nat /\ t.min <= q
  BY DEF Tier
<1>2. mins \subseteq 0 .. q /\ mins # {} /\ mins \subseteq Int
  BY <1>1
<1>3. ResolveTier(tiers, q) = CHOOSE t \in reached : \A r \in reached : r.min <= t.min
  BY <1>1 DEF ResolveTier
<1>4. \A r \in reached : r.min \in mins
  OBVIOUS
<1>5. \A m \in mins : \E t \in reached : t.min = m
  OBVIOUS
<1> HIDE DEF reached, mins
<1>6. IsFiniteSet(mins)
  <2>1. IsFiniteSet(0 .. q)
    BY FS_Interval
  <2>2. QED
    BY <1>2, <2>1, FS_Subset
<1>7. Max(mins) \in mins /\ \A m \in mins : m <= Max(mins)
  BY <1>2, <1>6, MaxIsGreatest
<1>8. PICK t \in reached : t.min = Max(mins)
  BY <1>5, <1>7
<1>9. \A r \in reached : r.min <= t.min
  BY <1>4, <1>7, <1>8
<1>10. QED
  BY <1>1, <1>3, <1>9

(* The unit price of a line before promotions, the promotions it looks at, *)
(* those that make it cheaper, and the first of such.                      *)
LinePrice(l) == IF ResolveTier(l.tiers, l.qty) = NoTier THEN l.base
                ELSE ResolveTier(l.tiers, l.qty).price
LinePromos(l) == IF l.status = "TRUSTED" THEN l.promos ELSE {}
LineCandidates(l) == PromotionCandidates(LinePromos(l), LinePrice(l), l.qty, l.resolved)
FirstOf(C, price) == CHOOSE p \in C : \A r \in C : ComparePromotions(p, r, price)

(* What a line quotes is what its item says, in amounts.                   *)
LEMMA QuotedLine ==
  ASSUME PriceInv, SaleInv, OffersOK, NEW l, LineOK(l, versions, promos, serverNow),
         LayersSound(Item(l))
  PROVE  /\ l.tiers = ApprovedTiers(Offer[l.set]) /\ ValidTiers(Offer[l.set]) /\ l.set \in Sets
         /\ Item(l).tier = ResolveTier(l.tiers, l.qty) /\ Item(l).price = LinePrice(l)
         /\ Item(l).base \in Nat /\ LinePrice(l) \in Nat
         /\ Item(l).discount \in Nat /\ Item(l).final \in Nat
         /\ Item(l).final = Item(l).price - Item(l).discount
         /\ IsFiniteSet(LinePromos(l)) /\ LinePromos(l) \subseteq Promotion
         /\ LineCandidates(l) = {} => Item(l).promotion = NoPromo
         /\ LineCandidates(l) # {} =>
              LET best == FirstOf(LineCandidates(l), LinePrice(l)) IN
              /\ best \in LineCandidates(l) /\ Item(l).promotion = best.id
              /\ Item(l).discount = LinePrice(l) - PromotionPrice(best, LinePrice(l))
<1> DEFINE price == LinePrice(l)
           live == LinePromos(l)
           C == LineCandidates(l)
           best == FirstOf(C, price)
<1>1. l \in Line /\ l.base = BaseOf(l) /\ l.promos \subseteq promos
  BY DEF LineOK
<1>2. PICK v \in versions : v.set = l.set /\ v.tiers = l.tiers
  BY DEF LineOK
<1>3. l.set \in Sets /\ l.tiers = ApprovedTiers(Offer[l.set]) /\ ValidTiers(Offer[l.set])
  BY <1>1, <1>2 DEF Line, SaleInv, OffersOK
<1>4. /\ l.tiers \subseteq Tier
      /\ \E t \in l.tiers : t.code = "RETAIL"
  BY <1>3, OfferTiers
<1>5. l.base \in Nat
  BY <1>1, <1>4, BaseNat
<1>6. ResolveTier(l.tiers, l.qty) # NoTier => ResolveTier(l.tiers, l.qty) \in Tier
  <2>1. SUFFICES ASSUME ResolveTier(l.tiers, l.qty) # NoTier
                 PROVE  ResolveTier(l.tiers, l.qty) \in Tier
    OBVIOUS
  <2>2. PICK t0 \in l.tiers : t0.min <= l.qty
    BY <2>1 DEF ResolveTier
  <2>3. l.qty \in Nat
    BY <1>1, PricingAssumption DEF Line
  <2>4. QED
    BY <1>4, <2>2, <2>3, TierReached
<1>7. price \in Nat
  BY <1>5, <1>6 DEF Tier, LinePrice
<1>8. live \subseteq promos /\ IsFiniteSet(live) /\ live \subseteq Promotion
  BY <1>1, FS_Subset, FS_EmptySet DEF SaleInv, LinePromos
<1> DEFINE quote == Resolution(l.base, l.tiers, l.promos, l.qty, l.resolved, l.status)
           R == ResolvePromotion(live, price, l.qty, l.resolved)
<1>9. quote.tier = ResolveTier(l.tiers, l.qty) /\ quote.price = price
        /\ quote.promotion = R.id /\ quote.discount = R.discount
  BY DEF Resolution, LinePrice, LinePromos
<1>10. Quote(l) = quote
  BY DEF Quote
<1> HIDE DEF quote
<1>11. /\ Item(l).tier = quote.tier /\ Item(l).price = quote.price /\ Item(l).base = l.base
       /\ Item(l).promotion = quote.promotion /\ Item(l).discount = quote.discount
       /\ Item(l).final = quote.price - quote.discount
  BY <1>10 DEF Item
<1>12. /\ C = {} => R = [id |-> NoPromo, discount |-> 0]
       /\ C # {} =>
            /\ best \in C
            /\ R = [id |-> best.id, discount |-> price - PromotionPrice(best, price)]
       /\ C \subseteq live
  <2>1. C \subseteq live
    BY DEF PromotionCandidates, LineCandidates
  <2>2. price \in Int /\ IsFiniteSet(C) /\ C \subseteq Promotion
    BY <1>7, <1>8, <2>1, FS_Subset
  <2>3. C # {} => best \in C
    BY <2>2, FirstPromotion DEF FirstOf
  <2>4. R = IF C = {} THEN [id |-> NoPromo, discount |-> 0]
            ELSE [id |-> best.id, discount |-> price - PromotionPrice(best, price)]
    BY DEF ResolvePromotion, LineCandidates, FirstOf
  <2>5. QED
    BY <2>1, <2>3, <2>4
<1> HIDE DEF R, price, live, C, best
<1>13. Item(l).discount \in Int
  <2>1. CASE C = {}
    BY <1>9, <1>11, <1>12, <2>1
  <2>2. CASE C # {}
    <3>1. PromotionPrice(best, price) \in Int
      BY <1>7, <1>8, <1>12, <2>2, PromotionPriceInt
    <3>2. R.discount = price - PromotionPrice(best, price)
      BY <1>12, <2>2
    <3>3. QED
      BY <1>7, <1>9, <1>11, <3>1, <3>2
  <2>3. QED
    BY <2>1, <2>2
<1>14. Item(l).price = price /\ 0 <= Item(l).discount /\ Item(l).discount <= Item(l).price
         /\ Item(l).final = Item(l).price - Item(l).discount
  BY <1>9, <1>11 DEF LayersSound
<1>15. Item(l).discount \in Nat /\ Item(l).final \in Nat
  BY <1>7, <1>13, <1>14
<1>16. /\ C = {} => R.id = NoPromo
       /\ C # {} => R.id = best.id /\ R.discount = price - PromotionPrice(best, price)
  BY <1>12
<1>17. QED
  BY <1>3, <1>5, <1>7, <1>8, <1>9, <1>11, <1>12, <1>14, <1>15, <1>16
     DEF price, live, C, best

(* When a unit is on one line only, that is the quantity of the unit.      *)
LEMMA OneLineQuantity ==
  ASSUME NEW sale, NEW i \in sale.items, i.qty \in Int,
         \A j \in sale.items : j.unit = i.unit => j = i
  PROVE  UnitQuantity(sale, i) = i.qty
<1> DEFINE f == [j \in sale.items |-> j.qty]
<1>1. {j \in sale.items : j.unit = i.unit} = {i}
  OBVIOUS
<1>2. UnitQuantity(sale, i) = SumFunctionOnSet(f, {i})
  BY <1>1 DEF UnitQuantity
<1>3. f[i] = i.qty
  OBVIOUS
<1> HIDE DEF f
<1>4. {} \cup {i} = {i} /\ \A x \in {} \cup {i} : f[x] \in Int
  BY <1>3
<1>5. SumFunctionOnSet(f, {} \cup {i}) = f[i] + SumFunctionOnSet(f, {})
  BY <1>4, FS_EmptySet, SumAdd
<1>6. QED
  BY <1>2, <1>3, <1>4, <1>5, SumEmpty

(* The server finds nothing wrong with a line, unless there is one of the  *)
(* known causes: it was priced by the server's own rows, and what happened *)
(* to these since then does not count.                                     *)
LEMMA LineStands ==
  ASSUME PriceInv, SaleInv, OffersOK, NEW sale, sale.occurred \in Int,
         SoldOK(sale, versions, promos, serverNow), ~KnownCause(sale), NEW i \in sale.items
  PROVE  /\ VersionSound(sale, i) /\ i.resolved <= sale.occurred
         /\ TierSound(sale, i) /\ PromotionSound(sale, i)
<1>1. PICK l : LineOK(l, versions, promos, serverNow) /\ l.at <= sale.at /\ i = Item(l)
  BY DEF SoldOK
<1>2. /\ i.unit = l.unit /\ i.set = l.set /\ i.from = l.from /\ i.base = l.base
      /\ i.qty = l.qty /\ i.resolved = l.resolved /\ i.status = l.status /\ i.at = l.at
  BY <1>1 DEF Item
<1>3. /\ l \in Line /\ l.base = BaseOf(l) /\ l.from <= l.resolved
      /\ l.status # "TRUSTED" => l.resolved <= l.at
      /\ l.promos \subseteq promos /\ \A p \in l.promos : p.unit = l.unit /\ p.created <= l.at
  BY <1>1 DEF LineOK
<1>4. l.qty \in Nat /\ l.from \in Int /\ l.resolved \in Int /\ l.at \in Int
        /\ serverNow \in Int /\ Whole \in Nat
  BY <1>3, PricingAssumption, PriceInstants DEF Line, PriceInv
<1>5. /\ ~(i.qty < Whole) /\ sale.occurred = sale.at
      /\ \A j \in sale.items : j.unit = i.unit => j = i
      /\ i.status = "TRUSTED" => i.resolved = i.at
      /\ \A p \in promos : p.unit = i.unit /\ p.type = "FIXED_DISCOUNT" => ~(p.value > i.price)
  BY DEF KnownCause
<1>6. sale.at \in Int /\ sale.at <= serverNow /\ LayersSound(i)
  BY DEF SoldOK
<1>7. PICK ro \in Int, at \in Int, oc \in Int, fr \in Int :
        ro = l.resolved /\ at = l.at /\ oc = sale.occurred /\ fr = l.from
  BY <1>4
<1>8. ro <= at /\ at <= oc /\ oc <= serverNow /\ fr <= ro
  BY <1>1, <1>2, <1>3, <1>4, <1>5, <1>6, <1>7
<1>9. i.resolved <= sale.occurred /\ l.resolved <= serverNow
  BY <1>2, <1>4, <1>7, <1>8
<1>10. VersionSound(sale, i)
  <2>1. PICK v \in versions : /\ v.set = l.set /\ v.unit = l.unit /\ v.from = l.from
                              /\ v.tiers = l.tiers /\ v.created <= l.at
    BY <1>1 DEF LineOK
  <2>2. v \in Named(i) /\ v.from = i.from
    BY <1>2, <2>1 DEF Named
  <2>3. BaseOf(v) = i.base
    BY <1>2, <1>3, <2>1 DEF BaseOf
  <2>4. v.created \in Int
    <3>1. v \in Version
      BY DEF PriceInv, RowsOK
    <3>2. QED
      BY <3>1, PriceInstants DEF Version
  <2>5. v.from <= sale.occurred /\ v.from <= serverNow /\ v.created <= sale.occurred
    BY <1>4, <1>7, <1>8, <2>1, <2>4
  <2>6. QED
    BY <2>2, <2>3, <2>5 DEF VersionSound
<1> DEFINE tier == ResolveTier(l.tiers, l.qty)
           price == LinePrice(l)
           live == LinePromos(l)
           C == LineCandidates(l)
           best == FirstOf(C, price)
<1>11. /\ l.tiers = ApprovedTiers(Offer[l.set]) /\ ValidTiers(Offer[l.set]) /\ l.set \in Sets
       /\ i.tier = tier /\ i.price = price /\ price \in Nat
       /\ IsFiniteSet(live) /\ live \subseteq Promotion
       /\ C = {} => i.promotion = NoPromo
       /\ C # {} => /\ best \in C /\ i.promotion = best.id
                    /\ i.discount = price - PromotionPrice(best, price)
  BY <1>1, <1>6, QuotedLine
<1>12. tier # NoTier
  <2>1. PICK t \in l.tiers : t.min = Whole
    BY <1>11, OfferTiers
  <2>2. l.tiers \in SUBSET Tier /\ t.min <= l.qty
    BY <1>2, <1>4, <1>5, <1>11, <2>1, OfferTiers
  <2>3. tier \in l.tiers
    BY <1>4, <2>2, TierReached
  <2>4. QED
    BY <1>11, <2>3, OfferTiers
<1>13. \A ps, t, status : Authoritative(sale, i, ps, t, status)
                           = Resolution(l.base, l.tiers, ps, l.qty, t, status)
  <2> DEFINE w == CHOOSE v \in Named(i) : TRUE
  <2>1. w \in Named(i)
    BY <1>10 DEF VersionSound
  <2>2. w \in versions /\ w.set = i.set
    BY <2>1 DEF Named
  <2> HIDE DEF w
  <2>3. w.tiers = l.tiers
    BY <1>2, <1>11, <2>2 DEF SaleInv
  <2>4. BaseOf(w) = l.base
    BY <1>3, <2>3 DEF BaseOf
  <2>5. UnitQuantity(sale, i) = l.qty
    <3>1. i.qty \in Int
      BY <1>2, <1>4
    <3>2. QED
      BY <1>2, <1>5, <3>1, OneLineQuantity
  <2>6. \A ps, t, status : Authoritative(sale, i, ps, t, status)
                            = Resolution(BaseOf(w), w.tiers, ps, UnitQuantity(sale, i), t, status)
    BY DEF Authoritative, w
  <2>7. QED
    BY <2>3, <2>4, <2>5, <2>6
<1> HIDE DEF tier, price
<1>14. ASSUME NEW ps, ps \subseteq promos, \A p \in ps : p.unit = i.unit, NEW t, NEW status
       PROVE  LET res == Authoritative(sale, i, ps, t, status) IN
              /\ res.valid = "YES" /\ res.tier = tier /\ res.price = price
              /\ status = "TRUSTED" =>
                   /\ res.promotion = ResolvePromotion(ps, price, l.qty, t).id
                   /\ res.discount = ResolvePromotion(ps, price, l.qty, t).discount
  <2> DEFINE ls == IF status = "TRUSTED" THEN ps ELSE {}
             res == Resolution(l.base, l.tiers, ps, l.qty, t, status)
  <2>1. ~INVALID_PROMOTION(ls, price, l.qty, t)
    BY <1>5, <1>11, <1>14 DEF INVALID_PROMOTION
  <2>2. /\ res.tier = tier /\ res.price = price
        /\ res.promotion = ResolvePromotion(ls, price, l.qty, t).id
        /\ res.discount = ResolvePromotion(ls, price, l.qty, t).discount
    BY DEF Resolution, LinePrice, tier, price
  <2>3. res.valid = IF INVALID_PROMOTION(ls, price, l.qty, t) THEN "NO" ELSE "YES"
    BY DEF Resolution, LinePrice, tier, price
  <2>4. Authoritative(sale, i, ps, t, status) = res
    BY <1>13
  <2> HIDE DEF res
  <2>5. QED
    BY <2>1, <2>2, <2>3, <2>4
<1>15. \A t : /\ Eligible(sale, i, t) \subseteq promos
              /\ \A p \in Eligible(sale, i, t) : p.unit = i.unit
  BY DEF Eligible
<1>16. TierSound(sale, i)
  BY <1>11, <1>12, <1>14, <1>15 DEF TierSound
<1>17. PromotionSound(sale, i)
  <2>1. CASE C = {}
    BY <1>6, <1>11, <2>1 DEF PromotionSound, LayersSound
  <2>2. CASE C # {}
    <3>1. best \in C /\ i.promotion = best.id /\ i.discount = price - PromotionPrice(best, price)
      BY <1>11, <2>2
    <3> HIDE DEF best
    <3>2. PICK p \in C : p = best
      BY <3>1
    <3>3. /\ p \in live /\ Concerns(p, l.qty, l.resolved) /\ PromotionPrice(p, price) < price
      BY DEF PromotionCandidates, LineCandidates, price
    <3>4. l.status = "TRUSTED" /\ p \in l.promos
      BY <3>3 DEF LinePromos
    <3>5. p \in promos /\ p.unit = i.unit /\ p.created <= l.at /\ InWindow(p, l.resolved)
            /\ p \in Promotion /\ l.resolved = l.at
      BY <1>2, <1>3, <1>5, <1>11, <3>3, <3>4 DEF Concerns
    <3>6. p.from \in Int /\ p.from <= l.resolved
      BY <3>5, PriceInstants DEF InWindow, Promotion
    <3>7. p.from <= serverNow
      BY <1>4, <1>9, <3>6
    <3>8. p \in Eligible(sale, i, i.resolved)
      BY <1>2, <3>5, <3>7 DEF Eligible
    <3> DEFINE alone == Authoritative(sale, i, {p}, i.resolved, i.status)
               R == ResolvePromotion({p}, price, l.qty, l.resolved)
    <3>9. alone.promotion = R.id /\ alone.discount = R.discount
      <4>1. {p} \subseteq promos /\ \A r \in {p} : r.unit = i.unit
        BY <3>5
      <4>2. QED
        BY <1>2, <1>14, <3>4, <4>1
    <3>10. PromotionCandidates({p}, price, l.qty, l.resolved) = {p}
      BY <3>3 DEF PromotionCandidates
    <3>11. PICK first \in {p} : \A r \in {p} : ComparePromotions(first, r, price)
      <4>1. IsFiniteSet({p}) /\ {p} \subseteq Promotion /\ price \in Int /\ {p} # {}
        <5>1. IsFiniteSet({p})
          BY FS_Singleton
        <5>2. QED
          BY <1>11, <3>5, <5>1
      <4>2. QED
        BY <4>1, FirstPromotion
    <3>12. R = [id |-> p.id, discount |-> price - PromotionPrice(p, price)]
      <4>1. (CHOOSE x \in {p} : \A r \in {p} : ComparePromotions(x, r, price)) = p
        BY <3>11
      <4>2. QED
        BY <3>10, <4>1 DEF ResolvePromotion
    <3> HIDE DEF R
    <3>13. Authoritative(sale, i, Eligible(sale, i, sale.occurred), sale.occurred, "TRUSTED").valid
             = "YES"
      BY <1>14, <1>15
    <3>14. QED
      BY <3>1, <3>2, <3>8, <3>9, <3>12, <3>13 DEF PromotionSound
  <2>3. QED
    BY <2>1, <2>2
<1>18. QED
  BY <1>9, <1>10, <1>16, <1>17

(* The amounts of an item.                                                 *)
LEMMA ItemAmounts ==
  ASSUME PriceInv, SaleInv, OffersOK, NEW sale, SoldOK(sale, versions, promos, serverNow),
         NEW i \in sale.items
  PROVE  /\ i.qty \in Nat /\ i.qty > 0 /\ i.base \in Nat /\ i.price \in Nat
         /\ i.discount \in Nat /\ i.final \in Nat /\ i.final = i.price - i.discount
<1>1. PICK l : LineOK(l, versions, promos, serverNow) /\ i = Item(l)
  BY DEF SoldOK
<1>2. LayersSound(Item(l))
  BY <1>1 DEF SoldOK
<1>3. /\ Item(l).price = LinePrice(l) /\ Item(l).base \in Nat /\ LinePrice(l) \in Nat
      /\ Item(l).discount \in Nat /\ Item(l).final \in Nat
      /\ Item(l).final = Item(l).price - Item(l).discount
  BY <1>1, <1>2, QuotedLine
<1>4. i.qty = l.qty /\ l \in Line
  BY <1>1 DEF Item, LineOK
<1>5. l.qty \in 1 .. MaxQty /\ MaxQty \in Nat
  BY <1>4, PricingAssumption DEF Line
<1>6. i.qty \in Nat /\ i.qty > 0
  BY <1>4, <1>5
<1>7. QED
  BY <1>1, <1>3, <1>6

(* The totals of a sale add up.                                            *)
LEMMA SaleTotals ==
  ASSUME PriceInv, SaleInv, OffersOK, NEW sale, SoldOK(sale, versions, promos, serverNow)
  PROVE  PayloadSound(sale) /\ AggregateMath(sale)
<1> DEFINE f == [i \in sale.items |-> i.price * i.qty]
           g == [i \in sale.items |-> i.discount * i.qty]
           h == [i \in sale.items |-> i.final * i.qty]
<1>1. ASSUME NEW i \in sale.items
      PROVE  f[i] \in Nat /\ g[i] \in Nat /\ h[i] \in Nat /\ h[i] = f[i] - g[i]
  <2>1. PICK q \in Nat, p \in Nat, d \in Nat, e \in Nat :
          q = i.qty /\ p = i.price /\ d = i.discount /\ e = i.final /\ e = p - d
    BY ItemAmounts
  <2>2. p * q \in Nat /\ d * q \in Nat /\ e * q \in Nat /\ e * q = p * q - d * q
    BY <2>1
  <2>3. f[i] = p * q /\ g[i] = d * q /\ h[i] = e * q
    BY <2>1
  <2>4. QED
    BY <2>2, <2>3
<1>2. /\ Subtotal(sale.items) = SumFunctionOnSet(f, sale.items)
      /\ PromotionTotal(sale.items) = SumFunctionOnSet(g, sale.items)
      /\ FinalTotal(sale.items) = SumFunctionOnSet(h, sale.items)
  BY DEF Subtotal, PromotionTotal, FinalTotal
<1> HIDE DEF f, g, h
<1>3. /\ IsFiniteSet(sale.items) /\ sale.items # {}
      /\ sale.subtotal = Subtotal(sale.items) /\ sale.promotion = PromotionTotal(sale.items)
      /\ sale.total = FinalTotal(sale.items) /\ sale.tendered \in Nat
      /\ sale.tendered >= sale.total /\ sale.change = sale.tendered - sale.total
  BY DEF SoldOK
<1>4. SumFunctionOnSet(f, sale.items) \in Nat
  BY <1>1, <1>3, SumNat
<1>5. SumFunctionOnSet(g, sale.items) \in Nat
  BY <1>1, <1>3, SumNat
<1>6. SumFunctionOnSet(h, sale.items) \in Nat
  BY <1>1, <1>3, SumNat
<1>7. SumFunctionOnSet(h, sale.items)
        = SumFunctionOnSet(f, sale.items) - SumFunctionOnSet(g, sale.items)
  <2>1. \A i \in sale.items : f[i] \in Int /\ g[i] \in Int /\ h[i] = f[i] - g[i]
    BY <1>1
  <2>2. QED
    BY <1>3, <2>1, SumDifference
<1>8. sale.subtotal \in Nat /\ sale.promotion \in Nat /\ sale.total \in Nat
        /\ sale.total = sale.subtotal - sale.promotion
  BY <1>2, <1>3, <1>4, <1>5, <1>6, <1>7
<1>9. sale.change \in Nat
  BY <1>3, <1>8
<1>10. \A i \in sale.items : ItemSound(i) /\ i.price - i.discount = i.final
  BY ItemAmounts DEF ItemSound
<1>11. PayloadSound(sale)
  BY <1>3, <1>8, <1>9, <1>10 DEF PayloadSound
<1>12. AggregateMath(sale)
  BY <1>3, <1>8, <1>10 DEF AggregateMath
<1>13. QED
  BY <1>11, <1>12

LEMMA SoundUnlessKnown ==
  ASSUME PriceInv, SaleInv, OffersOK, NEW sale, sale.occurred \in Int,
         SoldOK(sale, versions, promos, serverNow), ~KnownCause(sale)
  PROVE  Sound(sale)
BY SaleTotals, LineStands DEF Sound

(* The server's rows only grow, and time only passes.                      *)
Grows(vs, ps, time, ws, qs, later) ==
  /\ \A v \in vs : \E w \in ws : SameOffer(w, v)
  /\ ps \subseteq qs
  /\ time \in Int /\ later \in Int /\ time <= later

LEMMA LineKept ==
  ASSUME NEW vs, NEW ps, NEW time, NEW ws, NEW qs, NEW later,
         Grows(vs, ps, time, ws, qs, later), NEW l, LineOK(l, vs, ps, time)
  PROVE  LineOK(l, ws, qs, later)
<1>1. l.at \in Int
  BY PriceInstants DEF LineOK, Line
<1>2. l.at <= later
  BY <1>1 DEF Grows, LineOK
<1>3. PICK v \in vs : /\ v.set = l.set /\ v.unit = l.unit /\ v.from = l.from /\ v.tiers = l.tiers
                      /\ v.created <= l.at
  BY DEF LineOK
<1>4. PICK w \in ws : SameOffer(w, v)
  BY DEF Grows
<1>5. w.set = l.set /\ w.unit = l.unit /\ w.from = l.from /\ w.tiers = l.tiers /\ w.created <= l.at
  BY <1>3, <1>4 DEF SameOffer
<1>6. l.promos \subseteq qs
  BY DEF Grows, LineOK
<1>7. QED
  BY <1>2, <1>5, <1>6 DEF LineOK

LEMMA SoldKept ==
  ASSUME NEW vs, NEW ps, NEW time, NEW ws, NEW qs, NEW later,
         Grows(vs, ps, time, ws, qs, later), NEW sale, SoldOK(sale, vs, ps, time)
  PROVE  SoldOK(sale, ws, qs, later)
<1>1. sale.at <= later
  BY DEF Grows, SoldOK
<1>2. \A i \in sale.items :
        LayersSound(i) /\ \E l : LineOK(l, ws, qs, later) /\ l.at <= sale.at /\ i = Item(l)
  BY LineKept DEF SoldOK
<1>3. QED
  BY <1>1, <1>2 DEF SoldOK

LEMMA CacheKept ==
  ASSUME NEW vs, NEW ps, NEW time, NEW ws, NEW qs, NEW later,
         Grows(vs, ps, time, ws, qs, later), NEW c, CacheOK(c, vs, ps, time)
  PROVE  CacheOK(c, ws, qs, later)
<1>1. c.time <= later
  BY DEF Grows, CacheOK
<1>2. ASSUME NEW x \in c.prices PROVE \E w \in ws : SameOffer(w, x)
  <2>1. PICK v \in vs : SameOffer(v, x)
    BY DEF CacheOK
  <2>2. PICK w \in ws : SameOffer(w, v)
    BY DEF Grows
  <2>3. SameOffer(w, x)
    BY <2>1, <2>2 DEF SameOffer
  <2>4. QED
    BY <2>3
<1>3. c.promos \subseteq qs
  BY DEF Grows, CacheOK
<1>4. QED
  BY <1>1, <1>2, <1>3 DEF CacheOK

LEMMA SameOfferSelf == \A v : SameOffer(v, v)
BY DEF SameOffer

(* An approval under way is of a valid offer.                              *)
LEMMA ApprovalOffers ==
  ASSUME PriceInv, OffersOK, DatedOK, UNCHANGED <<versions, promos, serverNow>>,
         NEW s \in Sets, NEW a, approval' = [approval EXCEPT ![s] = a],
         a.step = "OPEN" => ValidTiers(Offer[s])
  PROVE  /\ Grows(versions, promos, serverNow, versions', promos', serverNow')
         /\ OffersOK' /\ DatedOK'
<1>1. \A t \in Sets : approval'[t] = IF t = s THEN a ELSE approval[t]
  BY DEF PriceInv
<1>2. \A t \in Sets : approval'[t].step = "OPEN" => ValidTiers(Offer[t])
  BY <1>1 DEF OffersOK
<1>3. OffersOK'
  BY <1>2 DEF OffersOK
<1>4. serverNow \in Int
  BY PriceInstants DEF PriceInv
<1>5. Grows(versions, promos, serverNow, versions', promos', serverNow')
  BY <1>4, SameOfferSelf DEF Grows
<1>6. QED
  BY <1>3, <1>5 DEF DatedOK

LEMMA CommitGrows ==
  ASSUME PriceInv, OffersOK, DatedOK, NEW s \in Sets, CommitApproval(s)
  PROVE  /\ Grows(versions, promos, serverNow, versions', promos', serverNow')
         /\ OffersOK' /\ DatedOK'
<1> DEFINE a == approval[s]
           rows == (versions \ a.old) \cup {Closed(v, a) : v \in a.old} \cup a.new
<1>1. versions' = rows \/ versions' = versions
  BY DEF CommitApproval
<1>2. /\ UNCHANGED <<promos, serverNow>> /\ a.step = "OPEN"
      /\ approval' = [approval EXCEPT ![s] = NoApproval]
  BY DEF CommitApproval
<1>3. OpenOK(s, a, versions, serverNow) /\ ValidTiers(Offer[s])
  BY <1>2 DEF PriceInv, OffersOK
<1>4. ASSUME NEW o \in a.old PROVE SameOffer(Closed(o, a), o) /\ o \in versions
  <2>1. o \in versions /\ o \in Version
    BY <1>3 DEF OpenOK, PriceInv, RowsOK
  <2>2. QED
    BY <2>1 DEF Closed, Version, SameOffer
<1>5. ASSUME NEW v \in rows
      PROVE  v.created <= serverNow /\ ValidTiers(Offer[v.set])
  <2>1. CASE v \in versions
    BY <2>1 DEF DatedOK, OffersOK
  <2>2. ASSUME NEW o \in a.old, v = Closed(o, a)
        PROVE  v.created <= serverNow /\ ValidTiers(Offer[v.set])
    <3>1. v.created = o.created /\ v.set = o.set /\ o \in versions
      BY <1>4, <2>2 DEF SameOffer
    <3>2. QED
      BY <3>1 DEF DatedOK, OffersOK
  <2>3. CASE v \in a.new
    <3>1. v = NewRow(s, a, v.unit) /\ a.started <= serverNow
      BY <1>3, <2>3 DEF OpenOK
    <3>2. NewRow(s, a, v.unit).set = s /\ NewRow(s, a, v.unit).created = a.started
      BY DEF NewRow
    <3>3. v.set = s /\ v.created = a.started
      BY <3>1, <3>2
    <3>4. QED
      BY <1>3, <3>1, <3>3
  <2>4. QED
    BY <2>1, <2>2, <2>3
<1>6. ASSUME NEW v \in versions PROVE \E w \in rows : SameOffer(w, v)
  <2>1. CASE v \in a.old
    BY <1>4, <2>1
  <2>2. CASE v \notin a.old
    BY <2>2, SameOfferSelf
  <2>3. QED
    BY <2>1, <2>2
<1>7. serverNow \in Int
  BY PriceInstants DEF PriceInv
<1> HIDE DEF rows
<1>8. Grows(versions, promos, serverNow, versions', promos', serverNow')
  <2>1. \A v \in versions : \E w \in versions' : SameOffer(w, v)
    BY <1>1, <1>6, SameOfferSelf
  <2>2. QED
    BY <1>2, <1>7, <2>1 DEF Grows
<1>9. \A v \in versions' : v.created <= serverNow /\ ValidTiers(Offer[v.set])
  BY <1>1, <1>5 DEF DatedOK, OffersOK
<1>10. \A t \in Sets : approval'[t] = IF t = s THEN NoApproval ELSE approval[t]
  BY <1>2 DEF PriceInv
<1>11. NoApproval.step # "OPEN"
  BY DEF NoApproval
<1>12. \A t \in Sets : approval'[t].step = "OPEN" => ValidTiers(Offer[t])
  BY <1>10, <1>11 DEF OffersOK
<1>13. OffersOK'
  BY <1>9, <1>12 DEF OffersOK
<1>14. DatedOK'
  BY <1>2, <1>9 DEF DatedOK
<1>15. QED
  BY <1>8, <1>13, <1>14

LEMMA ServerGrows ==
  ASSUME PriceInv, SaleInv, OffersOK, DatedOK, [PricingNext]_pricingVars
  PROVE  /\ Grows(versions, promos, serverNow, versions', promos', serverNow')
         /\ OffersOK' /\ DatedOK'
<1> DEFINE G == /\ Grows(versions, promos, serverNow, versions', promos', serverNow')
                /\ OffersOK' /\ DatedOK'
<1>0. serverNow \in Int
  BY PriceInstants DEF PriceInv
<1>1. ASSUME UNCHANGED <<promos, versions, approval, serverNow>> PROVE G
  <2>1. OffersOK' /\ DatedOK'
    BY <1>1 DEF OffersOK, DatedOK
  <2>2. QED
    BY <1>0, <1>1, <2>1, SameOfferSelf DEF Grows
<1>2. ASSUME NEW s \in Sets, CreateProposal(s) \/ SubmitProposal(s) PROVE G
  BY <1>1, <1>2 DEF CreateProposal, SubmitProposal
<1>3. ASSUME NEW s \in Sets, BeginApproval(s) PROVE G
  <2>1. PICK a : approval' = [approval EXCEPT ![s] = a]
    BY <1>3 DEF BeginApproval
  <2>2. UNCHANGED <<versions, promos, serverNow>> /\ ValidTiers(Offer[s])
    BY <1>3 DEF BeginApproval
  <2>3. QED
    BY <2>1, <2>2, ApprovalOffers
<1>4. ASSUME NEW s \in Sets, NEW u \in Units, PublishItem(s, u) PROVE G
  <2>1. PICK a : approval' = [approval EXCEPT ![s] = a]
    BY <1>4 DEF PublishItem
  <2>2. UNCHANGED <<versions, promos, serverNow>> /\ approval[s].step = "OPEN"
    BY <1>4 DEF PublishItem
  <2>3. ValidTiers(Offer[s])
    BY <2>2 DEF OffersOK
  <2>4. QED
    BY <2>1, <2>2, <2>3, ApprovalOffers
<1>5. ASSUME NEW s \in Sets, CommitApproval(s) PROVE G
  BY <1>5, CommitGrows
<1>6. ASSUME NEW s \in Sets, AbortApproval(s) PROVE G
  <2>1. /\ approval' = [approval EXCEPT ![s] = NoApproval] /\ NoApproval.step # "OPEN"
        /\ UNCHANGED <<versions, promos, serverNow>>
    BY <1>6 DEF AbortApproval, NoApproval
  <2>2. QED
    BY <2>1, ApprovalOffers
<1>7. ASSUME NEW m \in Promos, PublishPromotion(m) PROVE G
  <2>1. \A p \in promos' : p \in promos \/ p.created = serverNow
    BY <1>7 DEF PublishPromotion
  <2>2. UNCHANGED <<versions, approval, serverNow>> /\ promos \subseteq promos'
    BY <1>7 DEF PublishPromotion
  <2>3. DatedOK'
    BY <1>0, <2>1, <2>2 DEF DatedOK
  <2>4. OffersOK'
    BY <2>2 DEF OffersOK
  <2>5. QED
    BY <1>0, <2>1, <2>2, <2>3, <2>4, SameOfferSelf DEF Grows
<1>8. ASSUME Synchronise \/ SignIn PROVE G
  BY <1>1, <1>8 DEF Synchronise, SignIn, server
<1>9. ASSUME NEW u \in Units, NEW q \in Quantities, AddItem(u, q) PROVE G
  BY <1>1, <1>9 DEF AddItem, server
<1>10. ASSUME NEW l \in cart, RemoveLine(l) PROVE G
  BY <1>1, <1>10 DEF RemoveLine, server
<1>11. ASSUME NEW l \in cart, NEW q \in Quantities, SetLineQuantity(l, q) PROVE G
  BY <1>1, <1>11 DEF SetLineQuantity, server
<1>12. ASSUME NEW tender \in Tenders, CompleteSale(tender) PROVE G
  BY <1>1, <1>12 DEF CompleteSale, server
<1>13. ASSUME NEW n \in DOMAIN sales, PushSale(n) PROVE G
  BY <1>1, <1>13 DEF PushSale, server
<1>14. ASSUME ServerTick PROVE G
  <2>1. UNCHANGED <<versions, promos, approval>> /\ serverNow' = serverNow + 1
    BY <1>14 DEF ServerTick, server
  <2>2. \A v \in versions : v.created \in Int
    <3>1. versions \subseteq Version
      BY DEF PriceInv, RowsOK
    <3>2. QED
      BY <3>1, PriceInstants DEF Version
  <2>3. \A p \in promos : p.created \in Int
    BY PriceInstants DEF SaleInv, Promotion
  <2>4. DatedOK'
    BY <1>0, <2>1, <2>2, <2>3 DEF DatedOK
  <2>5. OffersOK'
    BY <2>1 DEF OffersOK
  <2>6. QED
    BY <1>0, <2>1, <2>4, <2>5, SameOfferSelf DEF Grows
<1>15. ASSUME NEW d \in Jumps, SetClock(d) PROVE G
  BY <1>1, <1>15 DEF SetClock, server
<1>16. CASE UNCHANGED pricingVars
  BY <1>1, <1>16 DEF pricingVars, server
<1>17. QED
  BY <1>2, <1>3, <1>4, <1>5, <1>6, <1>7, <1>8, <1>9, <1>10, <1>11, <1>12, <1>13, <1>14, <1>15,
     <1>16 DEF PricingNext

(* A synchronisation copies rows the server has.                           *)
LEMMA SynchronisedCache ==
  ASSUME PriceInv, SaleInv, DatedOK, NEW c, c \in {Pulled, Bootstrapped}
  PROVE  CacheOK(c, versions, promos, serverNow)
<1>1. /\ c.prices \subseteq versions /\ c.promos \subseteq promos
      /\ c.time = serverNow /\ c.offset = -skew
  <2>1. /\ Pulled.prices = versions /\ Pulled.promos = promos
        /\ Pulled.time = serverNow /\ Pulled.offset = -skew
    BY DEF Pulled
  <2>2. /\ Bootstrapped.prices \subseteq versions /\ Bootstrapped.promos \subseteq promos
        /\ Bootstrapped.time = serverNow /\ Bootstrapped.offset = -skew
    BY DEF Pulled, Bootstrapped
  <2>3. QED
    BY <2>1, <2>2
<1>2. versions \subseteq Version /\ serverNow \in Nat /\ skew \in Int
  BY PriceInstants DEF PriceInv, RowsOK, SaleInv
<1>3. \A x \in c.prices : x.created <= c.time /\ \E v \in versions : SameOffer(v, x)
  BY <1>1, SameOfferSelf DEF DatedOK
<1>4. \A p \in c.promos : p.created <= c.time
  BY <1>1 DEF DatedOK
<1>5. QED
  BY <1>1, <1>2, <1>3, <1>4 DEF CacheOK

(* getPublishedRetailPrice finds one of the prices it may quote.           *)
LEMMA QuotedVersion ==
  ASSUME CacheOK(cache, versions, promos, serverNow), NEW u, Quotable(u) # {}
  PROVE  PublishedRetailPrice(u) \in Quotable(u)
<1> DEFINE starts == {v.from : v \in Quotable(u)}
<1>1. Quotable(u) \subseteq Version
  BY DEF Quotable, CacheOK
<1>2. \A v \in Quotable(u) : v.from \in 0 .. Forever /\ v.from \in Int
  BY <1>1, RowTimes, PriceInstants
<1>3. starts \subseteq 0 .. Forever /\ starts # {} /\ starts \subseteq Int
  BY <1>2
<1>4. \A v \in Quotable(u) : v.from \in starts
  OBVIOUS
<1>5. \A s \in starts : \E v \in Quotable(u) : v.from = s
  OBVIOUS
<1> HIDE DEF starts
<1>6. IsFiniteSet(starts)
  <2>1. IsFiniteSet(0 .. Forever)
    BY PriceInstants, FS_Interval
  <2>2. QED
    BY <1>3, <2>1, FS_Subset
<1>7. Max(starts) \in starts /\ \A s \in starts : s <= Max(starts)
  BY <1>3, <1>6, MaxIsGreatest
<1>8. PICK v \in Quotable(u) : v.from = Max(starts)
  BY <1>5, <1>7
<1>9. \A w \in Quotable(u) : w.from <= v.from
  BY <1>4, <1>7, <1>8
<1>10. QED
  BY <1>9 DEF PublishedRetailPrice

LEMMA FoundLine ==
  ASSUME PriceInv, SaleInv, StandInv, NEW u \in Units, NEW q \in Quantities, Quotable(u) # {}
  PROVE  LineOK(Lookup(u, q), versions, promos, serverNow)
<1> DEFINE v == PublishedRetailPrice(u)
           l == Lookup(u, q)
<1>1. v \in Quotable(u) /\ CacheOK(cache, versions, promos, serverNow)
  BY QuotedVersion DEF StandInv
<1> HIDE DEF v
<1>2. v \in cache.prices /\ v \in Version /\ v.unit = u /\ v.from <= PricingTime
        /\ v.created <= cache.time
  BY <1>1 DEF Quotable, InWindow, CacheOK
<1>3. PICK w \in versions : SameOffer(w, v)
  BY <1>1, <1>2 DEF CacheOK
<1>4. /\ l.unit = u /\ l.set = v.set /\ l.from = v.from /\ l.base = BaseOf(v) /\ l.tiers = v.tiers
      /\ l.promos = {p \in cache.promos : p.unit = u /\ InWindow(p, PricingTime)}
      /\ l.resolved = PricingTime /\ l.status = ClockStatus /\ l.qty = q /\ l.at = serverNow
  BY DEF Lookup, v
<1>5. /\ serverNow \in Int /\ serverNow \in Instants /\ cache.time \in Int /\ cache.offset \in Int
      /\ skew \in Int /\ cache.time <= serverNow
      /\ cache.promos \subseteq promos /\ \A p \in cache.promos : p.created <= cache.time
  BY <1>1, PriceInstants DEF PriceInv, SaleInv, CacheOK
<1>6. ClockStatus \in {"TRUSTED", "CLOCK_UNTRUSTED"} /\ PricingTime \in Int
        /\ (ClockStatus # "TRUSTED" => PricingTime = cache.time)
  BY <1>5 DEF ClockStatus, PricingTime
<1>7. v.set \in Sets /\ v.from \in Instants /\ v.tiers \subseteq Tier /\ v.created \in Int
  BY <1>2, PriceInstants DEF Version
<1>8. w.set = v.set /\ w.unit = u /\ w.from = v.from /\ w.tiers = v.tiers /\ w.created = v.created
  BY <1>2, <1>3 DEF SameOffer
<1>9. BaseOf(v) \in Nat
  <2>1. v.tiers = ApprovedTiers(Offer[v.set]) /\ ValidTiers(Offer[v.set])
    BY <1>8 DEF SaleInv, StandInv, OffersOK
  <2>2. \E t \in v.tiers : t.code = "RETAIL"
    BY <1>7, <2>1, OfferTiers
  <2>3. QED
    BY <1>7, <2>2, BaseNat
<1>10. q \in 1 .. MaxQty
  BY PricingAssumption
<1>11. l.promos \subseteq Promotion /\ l.promos \subseteq promos
         /\ \A p \in l.promos : p.unit = l.unit /\ p.created <= l.at
  <2>1. \A p \in l.promos : p \in cache.promos /\ p.unit = u
    BY <1>4
  <2>2. \A p \in l.promos : p \in promos /\ p \in Promotion
    BY <1>5, <2>1 DEF SaleInv
  <2>3. \A p \in promos : p.created \in Int
    BY PriceInstants DEF SaleInv, Promotion
  <2>4. QED
    BY <1>4, <1>5, <2>1, <2>2, <2>3
<1>12. l \in Line
  <2>1. l = [unit |-> l.unit, set |-> l.set, from |-> l.from, base |-> l.base, tiers |-> l.tiers,
             promos |-> l.promos, resolved |-> l.resolved, status |-> l.status, qty |-> l.qty,
             at |-> l.at]
    BY DEF Lookup
  <2> HIDE DEF l
  <2>2. QED
    BY <1>4, <1>5, <1>6, <1>7, <1>9, <1>10, <1>11, <2>1 DEF Line
<1> HIDE DEF l
<1>13. l.base = BaseOf(l)
  BY <1>4 DEF BaseOf
<1>14. w.created <= l.at
  BY <1>2, <1>4, <1>5, <1>7, <1>8
<1>15. l.from <= l.resolved /\ l.at <= serverNow /\ (l.status # "TRUSTED" => l.resolved <= l.at)
  BY <1>2, <1>4, <1>5, <1>6
<1>16. LineOK(l, versions, promos, serverNow)
  BY <1>4, <1>8, <1>11, <1>12, <1>13, <1>14, <1>15 DEF LineOK
<1>17. QED
  BY <1>16 DEF l

LEMMA LineQuantity ==
  ASSUME NEW l, NEW vs, NEW ps, NEW time, LineOK(l, vs, ps, time), NEW r \in 1 .. MaxQty
  PROVE  LineOK(WithQuantity(l, r), vs, ps, time)
<1> DEFINE k == WithQuantity(l, r)
<1>1. l \in Line
  BY DEF LineOK
<1>2. /\ k \in Line /\ k.base = l.base /\ k.tiers = l.tiers /\ k.set = l.set /\ k.unit = l.unit
      /\ k.from = l.from /\ k.resolved = l.resolved /\ k.status = l.status /\ k.at = l.at
      /\ k.promos = l.promos
  BY <1>1 DEF WithQuantity, Line
<1> HIDE DEF k
<1>3. BaseOf(k) = BaseOf(l)
  BY <1>2 DEF BaseOf
<1>4. LineOK(k, vs, ps, time)
  BY <1>2, <1>3 DEF LineOK
<1>5. QED
  BY <1>4 DEF k

(* A sale that is completed is of the lines of the cart.                   *)
LEMMA CompletedSold ==
  ASSUME PriceInv, SaleInv, StandInv, NEW tender \in Tenders, CompleteSale(tender)
  PROVE  \A n \in DOMAIN sales' \ DOMAIN sales :
           SoldOK(sales'[n], versions, promos, serverNow) /\ sales'[n].verdict = "PENDING"
<1> DEFINE items == {Item(l) : l \in cart}
           new == [items |-> items, occurred |-> OperationTime, at |-> serverNow,
                   subtotal |-> Subtotal(items), promotion |-> PromotionTotal(items),
                   total |-> FinalTotal(items), tendered |-> tender,
                   change |-> tender - FinalTotal(items), verdict |-> "PENDING"]
<1>1. \A n \in DOMAIN sales' \ DOMAIN sales : sales'[n] = new
  BY DEF CompleteSale
<1>2. cart # {} /\ (\A i \in items : LayersSound(i)) /\ tender >= FinalTotal(items)
  BY DEF CompleteSale
<1>3. IsFiniteSet(items)
  <2> DEFINE f == [l \in cart |-> Item(l)]
  <2>1. items = {f[l] : l \in cart}
    OBVIOUS
  <2>2. IsFiniteSet(cart)
    BY DEF StandInv
  <2> HIDE DEF f, items
  <2>3. QED
    BY <2>1, <2>2, ImageFinite
<1>4. items # {}
  BY <1>2
<1>5. serverNow \in Int /\ serverNow <= serverNow /\ tender \in Nat
  BY PriceInstants, PricingAssumption DEF PriceInv
<1>6. ASSUME NEW i \in items
      PROVE  \E l : LineOK(l, versions, promos, serverNow) /\ l.at <= serverNow /\ i = Item(l)
  <2>1. PICK l \in cart : i = Item(l)
    OBVIOUS
  <2>2. LineOK(l, versions, promos, serverNow)
    BY DEF StandInv
  <2>3. l.at <= serverNow
    BY <2>2 DEF LineOK
  <2>4. QED
    BY <2>1, <2>2, <2>3
<1> HIDE DEF items
<1>7. /\ new.items = items /\ new.at = serverNow /\ new.subtotal = Subtotal(items)
      /\ new.promotion = PromotionTotal(items) /\ new.total = FinalTotal(items)
      /\ new.tendered = tender /\ new.change = tender - FinalTotal(items)
      /\ new.verdict = "PENDING"
  OBVIOUS
<1> HIDE DEF new
<1>8. SoldOK(new, versions, promos, serverNow)
  BY <1>2, <1>3, <1>4, <1>5, <1>6, <1>7 DEF SoldOK
<1>9. QED
  BY <1>1, <1>7, <1>8

(* A verdict changes nothing of what was sold.                             *)
LEMMA JudgedSold ==
  ASSUME NEW sale, SaleFields \subseteq DOMAIN sale, NEW c, NEW vs, NEW ps, NEW time,
         SoldOK(sale, vs, ps, time)
  PROVE  SoldOK([sale EXCEPT !.verdict = c], vs, ps, time)
<1> DEFINE new == [sale EXCEPT !.verdict = c]
<1>1. /\ new.items = sale.items /\ new.at = sale.at /\ new.subtotal = sale.subtotal
      /\ new.promotion = sale.promotion /\ new.total = sale.total
      /\ new.tendered = sale.tendered /\ new.change = sale.change
  BY DEF SaleFields
<1> HIDE DEF new
<1>2. SoldOK(new, vs, ps, time)
  BY <1>1 DEF SoldOK
<1>3. QED
  BY <1>2 DEF new

(* Whoever touches the cart leaves lines of the server's rows in it.       *)
LEMMA CartKept ==
  ASSUME PriceInv, SaleInv, StandInv, UNCHANGED <<versions, promos, serverNow>>,
         \/ \E u \in Units, q \in Quantities : AddItem(u, q)
         \/ \E l \in cart : RemoveLine(l) \/ \E q \in Quantities : SetLineQuantity(l, q)
  PROVE  IsFiniteSet(cart') /\ \A l \in cart' : LineOK(l, versions, promos, serverNow)
<1>1. IsFiniteSet(cart) /\ \A l \in cart : LineOK(l, versions, promos, serverNow)
  BY DEF StandInv
<1>2. ASSUME NEW l \in cart, RemoveLine(l)
      PROVE  IsFiniteSet(cart') /\ \A k \in cart' : LineOK(k, versions, promos, serverNow)
  <2>1. cart' \subseteq cart
    BY <1>2 DEF RemoveLine
  <2>2. QED
    BY <1>1, <2>1, FS_Subset
<1>3. ASSUME NEW l \in cart, NEW q \in Quantities, SetLineQuantity(l, q)
      PROVE  IsFiniteSet(cart') /\ \A k \in cart' : LineOK(k, versions, promos, serverNow)
  <2>1. cart' = (cart \ {l}) \cup {WithQuantity(l, q)}
    BY <1>3 DEF SetLineQuantity
  <2>2. q \in 1 .. MaxQty
    BY PricingAssumption
  <2>3. LineOK(WithQuantity(l, q), versions, promos, serverNow)
    BY <1>1, <2>2, LineQuantity
  <2>4. IsFiniteSet(cart \ {l})
    BY <1>1, FS_Subset
  <2>5. IsFiniteSet((cart \ {l}) \cup {WithQuantity(l, q)})
    BY <2>4, FS_AddElement
  <2>6. QED
    BY <1>1, <2>1, <2>3, <2>5
<1>4. ASSUME NEW u \in Units, NEW q \in Quantities, AddItem(u, q)
      PROVE  IsFiniteSet(cart') /\ \A k \in cart' : LineOK(k, versions, promos, serverNow)
  <2> DEFINE found == Lookup(u, q)
             same == {l \in cart : SameLine(l, found)}
             added == IF same = {} THEN {found} ELSE {WithQuantity(l, l.qty + q) : l \in same}
  <2>1. /\ Quotable(u) # {} /\ cart' = (cart \ same) \cup added
        /\ \A l \in added : l.qty <= MaxQty
    BY <1>4 DEF AddItem
  <2>2. LineOK(found, versions, promos, serverNow)
    BY <2>1, FoundLine
  <2>3. same \subseteq cart /\ IsFiniteSet(same) /\ IsFiniteSet(cart \ same)
    BY <1>1, FS_Subset
  <2> HIDE DEF found, same
  <2>4. IsFiniteSet(added)
    <3> DEFINE f == [l \in same |-> WithQuantity(l, l.qty + q)]
               image == {WithQuantity(l, l.qty + q) : l \in same}
    <3>1. image = {f[l] : l \in same}
      OBVIOUS
    <3> HIDE DEF f, image
    <3>2. IsFiniteSet(image)
      BY <2>3, <3>1, ImageFinite
    <3>3. IsFiniteSet({found})
      BY FS_Singleton
    <3>4. QED
      BY <3>2, <3>3 DEF image
  <2>5. ASSUME NEW l \in same, same # {}
        PROVE  LineOK(WithQuantity(l, l.qty + q), versions, promos, serverNow)
    <3>1. l \in Line /\ LineOK(l, versions, promos, serverNow)
      BY <1>1, <2>3 DEF LineOK
    <3>2. WithQuantity(l, l.qty + q) \in added
      BY <2>5
    <3>3. WithQuantity(l, l.qty + q).qty <= MaxQty
      BY <2>1, <3>2
    <3>4. WithQuantity(l, l.qty + q).qty = l.qty + q
      BY <3>1 DEF WithQuantity, Line
    <3>5. l.qty \in 1 .. MaxQty /\ q \in 1 .. MaxQty /\ MaxQty \in Nat
      BY <3>1, PricingAssumption DEF Line
    <3>6. l.qty + q \in 1 .. MaxQty
      BY <3>3, <3>4, <3>5
    <3>7. QED
      BY <3>1, <3>6, LineQuantity
  <2>6. \A k \in added : LineOK(k, versions, promos, serverNow)
    BY <2>2, <2>5
  <2> HIDE DEF added
  <2>7. IsFiniteSet((cart \ same) \cup added)
    BY <2>3, <2>4, FS_Union
  <2>8. QED
    BY <1>1, <2>1, <2>6, <2>7
<1>5. QED
  BY <1>2, <1>3, <1>4

LEMMA StandInvInit == ASSUME PricingInit PROVE StandInv
<1>1. /\ serverNow = 0 /\ versions = {} /\ promos = {} /\ cart = {} /\ sales = <<>>
      /\ approval = [s \in Sets |-> NoApproval]
      /\ cache = [prices |-> {}, promos |-> {}, time |-> 0, offset |-> 0]
  BY DEF PricingInit
<1>2. OffersOK /\ DatedOK
  BY <1>1 DEF OffersOK, DatedOK, NoApproval
<1>3. CacheOK(cache, versions, promos, serverNow)
  BY <1>1 DEF CacheOK
<1>4. IsFiniteSet(cart) /\ DOMAIN sales = {}
  BY <1>1, FS_EmptySet
<1>5. QED
  BY <1>1, <1>2, <1>3, <1>4 DEF StandInv, SaleStands

(* A cause stays known: promotions are never withdrawn.                    *)
LEMMA StandsKept ==
  ASSUME SaleStands, promos \subseteq promos',
         \A n \in DOMAIN sales' : sales'[n].verdict = "REFUSED"
           => n \in DOMAIN sales /\ sales'[n] = sales[n]
  PROVE  SaleStands'
<1>1. ASSUME NEW n \in DOMAIN sales', sales'[n].verdict = "REFUSED" PROVE KnownCause(sales[n])'
  <2>1. KnownCause(sales[n]) /\ sales'[n] = sales[n]
    BY <1>1 DEF SaleStands
  <2>2. QED
    BY <2>1 DEF KnownCause
<1>2. QED
  BY <1>1 DEF SaleStands

(* The server refuses for a known cause only.                              *)
LEMMA PushStands ==
  ASSUME PriceInv, SaleInv, StandInv, NEW n \in DOMAIN sales, PushSale(n)
  PROVE  /\ \A k \in DOMAIN sales' : SoldOK(sales'[k], versions, promos, serverNow)
         /\ SaleStands'
<1>1. PICK c : /\ sales' = [sales EXCEPT ![n].verdict = c]
               /\ c = CASE ~Sound(sales[n]) -> "REFUSED"
                        [] Sound(sales[n]) /\ Stale(sales[n]) -> "STALE"
                        [] OTHER -> "ACCEPTED"
  BY DEF PushSale
<1>2. promos' = promos
  BY DEF PushSale, server
<1>3. /\ DOMAIN sales' = DOMAIN sales
      /\ sales'[n] = [sales[n] EXCEPT !.verdict = c]
      /\ \A k \in DOMAIN sales : k # n => sales'[k] = sales[k]
  BY <1>1
<1>4. /\ SaleFields \subseteq DOMAIN sales[n] /\ sales[n].occurred \in Int
      /\ \A k \in DOMAIN sales : SoldOK(sales[k], versions, promos, serverNow)
      /\ OffersOK /\ SaleStands
  BY DEF SaleInv, StandInv
<1>5. SoldOK(sales'[n], versions, promos, serverNow)
  BY <1>3, <1>4, JudgedSold
<1>6. /\ sales'[n].verdict = c /\ sales'[n].items = sales[n].items
      /\ sales'[n].occurred = sales[n].occurred /\ sales'[n].at = sales[n].at
  BY <1>3, <1>4 DEF SaleFields
<1>7. c = "REFUSED" => KnownCause(sales[n])
  <2>1. SUFFICES ASSUME c = "REFUSED" PROVE KnownCause(sales[n])
    OBVIOUS
  <2>2. ~Sound(sales[n])
    BY <1>1, <2>1
  <2>3. QED
    BY <1>4, <2>2, SoundUnlessKnown
<1>8. ASSUME NEW k \in DOMAIN sales', sales'[k].verdict = "REFUSED" PROVE KnownCause(sales[k])'
  <2>1. CASE k = n
    <3>1. KnownCause(sales[n])
      BY <1>6, <1>7, <1>8, <2>1
    <3>2. QED
      BY <1>2, <1>6, <2>1, <3>1 DEF KnownCause
  <2>2. CASE k # n
    <3>1. KnownCause(sales[k]) /\ sales'[k] = sales[k]
      BY <1>3, <1>4, <1>8, <2>2 DEF SaleStands
    <3>2. QED
      BY <1>2, <3>1 DEF KnownCause
  <2>3. QED
    BY <2>1, <2>2
<1>9. SaleStands'
  BY <1>8 DEF SaleStands
<1>10. QED
  BY <1>3, <1>4, <1>5, <1>9

LEMMA StandInvNext ==
  ASSUME PriceInv, SaleInv, StandInv, [PricingNext]_pricingVars
  PROVE  StandInv'
<1>1. /\ Grows(versions, promos, serverNow, versions', promos', serverNow')
      /\ OffersOK' /\ DatedOK'
  BY ServerGrows DEF StandInv
<1>2. CacheOK(cache, versions', promos', serverNow')
  BY <1>1, CacheKept DEF StandInv
<1>3. \A l \in cart : LineOK(l, versions', promos', serverNow')
  BY <1>1, LineKept DEF StandInv
<1>4. \A n \in DOMAIN sales : SoldOK(sales[n], versions', promos', serverNow')
  BY <1>1, SoldKept DEF StandInv
<1>5. IsFiniteSet(cart) /\ SaleStands /\ promos \subseteq promos'
  BY <1>1 DEF StandInv, Grows
<1>6. sales' = sales => SaleStands'
  BY <1>5, StandsKept
<1>7. ASSUME UNCHANGED <<cache, cart, sales>> PROVE StandInv'
  BY <1>1, <1>2, <1>3, <1>4, <1>5, <1>6, <1>7 DEF StandInv
<1>8. ASSUME Synchronise \/ SignIn PROVE StandInv'
  <2>1. /\ cache' \in {Pulled, Bootstrapped}
        /\ UNCHANGED <<versions, promos, serverNow, cart, sales>>
    BY <1>8 DEF Synchronise, SignIn, server
  <2>2. CacheOK(cache', versions, promos, serverNow)
    BY <2>1, SynchronisedCache DEF StandInv
  <2>3. QED
    BY <1>1, <1>3, <1>4, <1>5, <1>6, <2>1, <2>2 DEF StandInv
<1>9. ASSUME \/ \E u \in Units, q \in Quantities : AddItem(u, q)
             \/ \E l \in cart : RemoveLine(l) \/ \E q \in Quantities : SetLineQuantity(l, q)
      PROVE  StandInv'
  <2>1. UNCHANGED <<versions, promos, serverNow, cache, sales>>
    BY <1>9 DEF AddItem, RemoveLine, SetLineQuantity, server
  <2>2. IsFiniteSet(cart') /\ \A l \in cart' : LineOK(l, versions, promos, serverNow)
    BY <1>9, <2>1, CartKept
  <2>3. QED
    BY <1>1, <1>2, <1>4, <1>5, <1>6, <2>1, <2>2 DEF StandInv
<1>10. ASSUME NEW tender \in Tenders, CompleteSale(tender) PROVE StandInv'
  <2>1. UNCHANGED <<versions, promos, serverNow, cache>> /\ cart' = {}
    BY <1>10 DEF CompleteSale, server
  <2>2. \A n \in DOMAIN sales : sales'[n] = sales[n]
    BY <1>10, CompletedSales
  <2>3. \A n \in DOMAIN sales' \ DOMAIN sales :
          SoldOK(sales'[n], versions, promos, serverNow) /\ sales'[n].verdict = "PENDING"
    BY <1>10, CompletedSold
  <2>4. \A n \in DOMAIN sales' : SoldOK(sales'[n], versions', promos', serverNow')
    BY <1>4, <2>1, <2>2, <2>3
  <2>5. SaleStands'
    <3>1. \A n \in DOMAIN sales' : sales'[n].verdict = "REFUSED"
            => n \in DOMAIN sales /\ sales'[n] = sales[n]
      BY <2>2, <2>3
    <3>2. QED
      BY <1>5, <3>1, StandsKept
  <2>6. QED
    BY <1>1, <1>2, <2>1, <2>4, <2>5, FS_EmptySet DEF StandInv
<1>11. ASSUME NEW n \in DOMAIN sales, PushSale(n) PROVE StandInv'
  <2>1. UNCHANGED <<versions, promos, serverNow, cache, cart>>
    BY <1>11 DEF PushSale, server
  <2>2. SaleStands' /\ \A k \in DOMAIN sales' : SoldOK(sales'[k], versions, promos, serverNow)
    BY <1>11, PushStands
  <2>3. QED
    BY <1>1, <1>2, <1>3, <1>5, <2>1, <2>2 DEF StandInv
<1>12. ASSUME NEW s \in Sets,
              \/ CreateProposal(s) \/ SubmitProposal(s) \/ BeginApproval(s)
              \/ \E u \in Units : PublishItem(s, u)
              \/ CommitApproval(s) \/ AbortApproval(s)
       PROVE  UNCHANGED <<cache, cart, sales>>
  BY <1>12 DEF CreateProposal, SubmitProposal, BeginApproval, PublishItem, CommitApproval,
     AbortApproval
<1>13. ASSUME \/ \E m \in Promos : PublishPromotion(m)
              \/ ServerTick \/ \E d \in Jumps : SetClock(d)
       PROVE  UNCHANGED <<cache, cart, sales>>
  BY <1>13 DEF PublishPromotion, ServerTick, SetClock
<1>14. CASE UNCHANGED pricingVars
  BY <1>7, <1>14 DEF pricingVars
<1>15. QED
  BY <1>7, <1>8, <1>9, <1>10, <1>11, <1>12, <1>13, <1>14 DEF PricingNext

(* A sale the device priced by the book is refused only for one of the     *)
(* known causes, however long it took to arrive and whatever was approved, *)
(* scheduled, backdated or published meanwhile.                            *)
THEOREM SalesStand == PricingSpec => []SaleStands
<1>1. PricingInit => StandInv
  BY StandInvInit
<1>2. PriceInv /\ SaleInv /\ StandInv /\ [PricingNext]_pricingVars => StandInv'
  BY StandInvNext
<1>3. StandInv => SaleStands
  BY DEF StandInv
<1>4. QED
  BY <1>1, <1>2, <1>3, SaleFacts, PTL DEF PricingSpec

=============================================================================
