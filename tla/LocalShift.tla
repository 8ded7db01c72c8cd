----------------------------- MODULE LocalShift -----------------------------
(***************************************************************************)
(* The shift a cashier runs on the device: PosShiftCache, PosCashManager   *)
(* and PosSalesManager of packages/local-db over IndexedDB.  Opening and   *)
(* selling check and write in one transaction; a cash movement, the blind  *)
(* count and the closing read the shift first and write in a transaction   *)
(* that does not look at it again, so operations of two tabs interleave    *)
(* between the read and the write.                                         *)
(***************************************************************************)
EXTENDS Integers, Sequences, FiniteSets

CONSTANTS
  Shifts,        \* shift ids
  NoShift,       \* of an unused ledger row or an idle tab
  Events,        \* command ids of sales and cash movements
  NoEvent,       \* of an idle tab
  Tabs,          \* browser tabs of the device
  Counts,        \* amounts a cashier may count
  NoCount,       \* blind_actual_cash = null
  MaxTime,       \* bound: the device's clock
  MaxClosings    \* bound: closing snapshots of one shift

ASSUME LocalShiftAssumption ==
  /\ NoShift \notin Shifts /\ NoEvent \notin Events /\ NoCount \notin Counts
  /\ MaxTime \in Nat /\ MaxClosings \in Nat

VARIABLES
  shifts,      \* the shifts table
  ledger,      \* the cash_movements table, by command
  snapshots,   \* closing snapshots of each shift, in the order written
  op,          \* the operation each tab is in the middle of
  now          \* the trusted clock

vars == <<shifts, ledger, snapshots, op, now>>

Times == 0..MaxTime

(* active is active_context_key: the key is set, or null.                  *)
ShiftRow == [status : {"NONE", "OPEN", "CLOSING", "CLOSED"}, active : {"KEY", "NULL"},
             blind_actual_cash : Counts \cup {NoCount}, opened_at : Times, closed_at : Times]
Movement == [kind : {"NONE", "SALE", "MANUAL"}, shift : Shifts \cup {NoShift},
             occurred_at : Times]
Closing == [counted : SUBSET Events, actual_cash : Counts, created_at : Times]
Operation == [kind : {"NONE", "SALE", "MOVEMENT", "BEGIN", "COMPLETE", "COUNTED"},
              event : Events \cup {NoEvent}, shift : Shifts \cup {NoShift},
              status : {"NONE", "OPEN", "CLOSING"},       \* as read
              blind : Counts \cup {NoCount},              \* as read
              actual : Counts \cup {NoCount}, at : Times, counted : SUBSET Events]

TypeOK ==
  /\ shifts \in [Shifts -> ShiftRow]
  /\ ledger \in [Events -> Movement]
  /\ snapshots \in [Shifts -> Seq(Closing)]
  /\ op \in [Tabs -> Operation]
  /\ now \in Times

Idle == [kind |-> "NONE", event |-> NoEvent, shift |-> NoShift, status |-> "NONE",
         blind |-> NoCount, actual |-> NoCount, at |-> 0, counted |-> {}]

Init ==
  /\ shifts = [s \in Shifts |-> [status |-> "NONE", active |-> "NULL",
                 blind_actual_cash |-> NoCount, opened_at |-> 0, closed_at |-> 0]]
  /\ ledger = [e \in Events |-> [kind |-> "NONE", shift |-> NoShift, occurred_at |-> 0]]
  /\ snapshots = [s \in Shifts |-> <<>>]
  /\ op = [t \in Tabs |-> Idle]
  /\ now = 0

Rows(s) == {e \in Events : ledger[e].kind # "NONE" /\ ledger[e].shift = s}

(* getActiveShift: the row with the context key, unless it is closed.      *)
IsActive(s) == shifts[s].active = "KEY" /\ shifts[s].status \in {"OPEN", "CLOSING"}

Start(t, record) == op' = [op EXCEPT ![t] = record]
Finish(t) == op' = [op EXCEPT ![t] = Idle]

-----------------------------------------------------------------------------
(* The record openShift builds once authority, context and opening cash    *)
(* have passed.                                                            *)
NewShift(at) == [status |-> "OPEN", active |-> "KEY", blind_actual_cash |-> NoCount,
                 opened_at |-> at, closed_at |-> 0]

(* openShift: the check for another active shift and the insert are one    *)
(* transaction.                                                            *)
OpenShift(s) ==
  /\ shifts[s].status = "NONE"
  /\ \A q \in Shifts : shifts[q].active = "NULL"
  /\ shifts' = [shifts EXCEPT ![s] = NewShift(now)]
  /\ UNCHANGED <<ledger, snapshots, op, now>>

(* A sale takes its timestamp, then runs completeSale.  The same command   *)
(* may be submitted again.                                                 *)
StartSale(t, e) ==
  /\ op[t].kind = "NONE"
  /\ ledger[e].kind # "MANUAL"
  /\ \A u \in Tabs : op[u].event # e
  /\ Start(t, [Idle EXCEPT !.kind = "SALE", !.event = e, !.at = now])
  /\ UNCHANGED <<shifts, ledger, snapshots, now>>

(* Faulty: an existing outbox row of the command is not looked for.        *)
AlreadyRecordedIgnored(e) == FALSE

AlreadyRecorded(e) == ledger[e].kind # "NONE"

(* Faulty: a sale is also taken while the shift is being closed.           *)
TakesSalesWhileClosing(s) == shifts[s].status \in {"OPEN", "CLOSING"}

TakesSales(s) == shifts[s].status = "OPEN"

(* The rows of a sale, all written or none: transaction, items, payment,   *)
(* stock, cash movement, audit and outbox.  The cash movement stands for   *)
(* them.                                                                   *)
SaleRows(s, at) == [kind |-> "SALE", shift |-> s, occurred_at |-> at]

(* The transaction of completeSale: a recorded command returns its result, *)
(* a sale needs an OPEN shift, anything else is refused.                   *)
WriteSale(t) ==
  LET e == op[t].event IN
  /\ op[t].kind = "SALE"
  /\ \/ /\ ~AlreadyRecorded(e)
        /\ \E s \in Shifts :
             /\ TakesSales(s)
             /\ ledger' = [ledger EXCEPT ![e] = SaleRows(s, op[t].at)]
     \/ /\ AlreadyRecorded(e) \/ \A s \in Shifts : ~TakesSales(s)
        /\ UNCHANGED ledger
  /\ Finish(t)
  /\ UNCHANGED <<shifts, snapshots, now>>

(* recordCashMovement reads the active shift, which must be OPEN ...       *)
StartMovement(t, e, s) ==
  /\ op[t].kind = "NONE"
  /\ ledger[e].kind = "NONE" /\ \A u \in Tabs : op[u].event # e
  /\ IsActive(s) /\ shifts[s].status = "OPEN"
  /\ Start(t, [Idle EXCEPT !.kind = "MOVEMENT", !.event = e, !.shift = s, !.at = now])
  /\ UNCHANGED <<shifts, ledger, snapshots, now>>

(* ... and adds the movement in a transaction without the shifts table.    *)
WriteMovement(t) ==
  /\ op[t].kind = "MOVEMENT"
  /\ ledger' = [ledger EXCEPT ![op[t].event] =
       [kind |-> "MANUAL", shift |-> op[t].shift, occurred_at |-> op[t].at]]
  /\ Finish(t)
  /\ UNCHANGED <<shifts, snapshots, now>>

-----------------------------------------------------------------------------
(* beginShiftClosing reads the shift and, by what it read, locks the blind *)
(* count.                                                                  *)
StartClosing(t, s, actual) ==
  /\ op[t].kind = "NONE"
  /\ IsActive(s)
  /\ Start(t, [Idle EXCEPT !.kind = "BEGIN", !.shift = s, !.status = shifts[s].status,
                           !.blind = shifts[s].blind_actual_cash, !.actual = actual,
                           !.at = now])
  /\ UNCHANGED <<shifts, ledger, snapshots, now>>

MayLock(o) == o.status = "OPEN" \/ o.blind = NoCount

MarkClosing(t) ==
  LET o == op[t] IN
  /\ o.kind = "BEGIN"
  /\ shifts' = IF MayLock(o)
                 THEN [shifts EXCEPT ![o.shift].status = "CLOSING",
                                     ![o.shift].blind_actual_cash = o.actual]
                 ELSE shifts
  /\ Finish(t)
  /\ UNCHANGED <<ledger, snapshots, now>>

(* completeShiftClosing reads the shift, whose locked count must be the    *)
(* one submitted, then the movements, then writes.                         *)
StartCompletion(t, s, actual) ==
  /\ op[t].kind = "NONE"
  /\ IsActive(s) /\ shifts[s].status = "CLOSING" /\ shifts[s].blind_actual_cash = actual
  /\ Start(t, [Idle EXCEPT !.kind = "COMPLETE", !.shift = s, !.actual = actual, !.at = now])
  /\ UNCHANGED <<shifts, ledger, snapshots, now>>

Counted(s) == Rows(s)

CountMovements(t) ==
  /\ op[t].kind = "COMPLETE"
  /\ Start(t, [op[t] EXCEPT !.kind = "COUNTED", !.counted = Counted(op[t].shift)])
  /\ UNCHANGED <<shifts, ledger, snapshots, now>>

(* Faulty: closed_at is the time of the opening.                           *)
ClosedAtOpening(o) == shifts[o.shift].opened_at

ClosedAt(o) == o.at

WriteClosing(t) ==
  LET o == op[t] IN
  /\ o.kind = "COUNTED"
  /\ Len(snapshots[o.shift]) < MaxClosings
  /\ snapshots' = [snapshots EXCEPT ![o.shift] = Append(@,
       [counted |-> o.counted, actual_cash |-> o.actual, created_at |-> o.at])]
  /\ shifts' = [shifts EXCEPT ![o.shift].status = "CLOSED", ![o.shift].active = "NULL",
                              ![o.shift].closed_at = ClosedAt(o)]
  /\ Finish(t)
  /\ UNCHANGED <<ledger, now>>

(* The tab is closed in the middle of an operation: a transaction that has *)
(* not committed leaves nothing.                                           *)
CloseTab(t) ==
  /\ op[t].kind # "NONE"
  /\ Finish(t)
  /\ UNCHANGED <<shifts, ledger, snapshots, now>>

Tick ==
  /\ now < MaxTime
  /\ now' = now + 1
  /\ UNCHANGED <<shifts, ledger, snapshots, op>>

-----------------------------------------------------------------------------
Next ==
  \/ \E s \in Shifts : OpenShift(s)
  \/ \E t \in Tabs, e \in Events : StartSale(t, e)
  \/ \E t \in Tabs, e \in Events, s \in Shifts : StartMovement(t, e, s)
  \/ \E t \in Tabs, s \in Shifts, actual \in Counts :
       StartClosing(t, s, actual) \/ StartCompletion(t, s, actual)
  \/ \E t \in Tabs : \/ WriteSale(t) \/ WriteMovement(t) \/ MarkClosing(t)
                     \/ CountMovements(t) \/ WriteClosing(t) \/ CloseTab(t)
  \/ Tick

Spec == Init /\ [][Next]_vars

-----------------------------------------------------------------------------
(* Correctness.                                                            *)

Sales(s) == {e \in Rows(s) : ledger[e].kind = "SALE"}

(* The closing of a shift counts every sale of the shift, in whatever tabs *)
(* the sales and the closing run: none slips in between the count and the  *)
(* closing, or after it.                                                   *)
EverySaleCounted == \A s \in Shifts :
  \A i \in 1..Len(snapshots[s]) : Sales(s) \subseteq snapshots[s][i].counted

(* A sale lies before the closing of its shift, so the server never        *)
(* refuses one as SALE_OUTSIDE_SHIFT_WINDOW for being too late.            *)
SaleBeforeClosing == \A s \in Shifts : shifts[s].status = "CLOSED" =>
  \A e \in Sales(s) : ledger[e].occurred_at <= shifts[s].closed_at

(* A recorded fact never changes, however often its command is submitted.  *)
FactsAreFinal ==
  [][/\ \A e \in Events : ledger[e].kind # "NONE" => ledger'[e] = ledger[e]
     /\ \A s \in Shifts : \A i \in 1..Len(snapshots[s]) : snapshots'[s][i] = snapshots[s][i]]_vars
=============================================================================
