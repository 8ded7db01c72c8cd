----------------------------- MODULE CashShift ------------------------------
(***************************************************************************)
(* The server's cash ledger of a shift: cash.shifts, cash.cash_movements,  *)
(* cash.shift_closing_snapshots and cash.shift_reconciliations, as the     *)
(* commands of cash.ts, completeSaleCommand and the refund commands of     *)
(* returns.ts change them.                                                 *)
(*                                                                         *)
(* Each command is one PostgreSQL transaction.  It first locks the shift   *)
(* row (SELECT ... FOR UPDATE), then writes; closing also sums the ledger  *)
(* in between.  Commands arrive from the outbox of an offline device in    *)
(* any order, so a movement may come after the closing of its shift.       *)
(***************************************************************************)
EXTENDS Integers, FiniteSets, FiniteSetsExt

CONSTANTS
  Shifts,        \* shift ids
  NoShift,       \* of an unused ledger row or an idle worker
  Terminals,     \* terminals of the location
  Terminal,      \* Terminal[s]: the terminal shift s is opened on
  Events,        \* ids of the commands that move cash, each executed once
  NoEvent,       \* of an idle worker, or a row that reverses nothing
  Workers,       \* transactions that may be open at the same time
  Amounts,       \* amounts of a movement, in cents
  Counts,        \* opening and counted amounts
  Times          \* timestamps of the device

ASSUME CashShiftAssumption ==
  /\ Amounts \subseteq Nat \ {0}
  /\ Counts \subseteq Nat
  /\ Times \subseteq Nat /\ 0 \in Times
  /\ Terminal \in [Shifts -> Terminals]
  /\ NoShift \notin Shifts /\ NoEvent \notin Events
  /\ IsFiniteSet(Events)

VARIABLES
  shift,           \* rows of cash.shifts
  ledger,          \* rows of cash.cash_movements, by the command that wrote them
  snapshot,        \* rows of cash.shift_closing_snapshots
  reconciliation,  \* expected_cash_delta of the late events, 0 without a row
  exceptions,      \* shifts with a SHIFT_VARIANCE row in audit.business_exceptions
  work             \* the open transaction of each worker

vars == <<shift, ledger, snapshot, reconciliation, exceptions, work>>

Ins   == {"CASH_SALE", "CASH_IN", "CASH_REVERSAL"}
Outs  == {"CASH_OUT", "SAFE_DROP", "CASH_REFUND"}
Types == Ins \cup Outs

ShiftRow == [status : {"NONE", "OPEN", "CLOSED"}, opening_cash : Nat,
             opened_at : Times, closed_at : Times]
Movement == [type : Types \cup {"NONE"}, shift : Shifts \cup {NoShift}, amount : Nat,
             occurred_at : Times, reverses : Events \cup {NoEvent}]
Snapshot == [counted : SUBSET Events, expected_cash : Int, actual_cash : Nat]
Work == [phase : {"IDLE", "LOCKED", "SUMMED"}, op : Types \cup {"CLOSE"},
         shift : Shifts \cup {NoShift}, event : Events \cup {NoEvent}, amount : Nat,
         occurred_at : Times, late : {"YES", "NO"},
         reverses : Events \cup {NoEvent}, counted : SUBSET Events]

TypeOK ==
  /\ shift \in [Shifts -> ShiftRow]
  /\ ledger \in [Events -> Movement]
  /\ snapshot \in [Shifts -> Snapshot]
  /\ reconciliation \in [Events -> Int]
  /\ exceptions \subseteq Shifts
  /\ work \in [Workers -> Work]

NoMovement == [type |-> "NONE", shift |-> NoShift, amount |-> 0, occurred_at |-> 0,
               reverses |-> NoEvent]
Idle == [phase |-> "IDLE", op |-> "CLOSE", shift |-> NoShift, event |-> NoEvent,
         amount |-> 0, occurred_at |-> 0, late |-> "NO", reverses |-> NoEvent,
         counted |-> {}]

Init ==
  /\ shift = [s \in Shifts |-> [status |-> "NONE", opening_cash |-> 0,
                                opened_at |-> 0, closed_at |-> 0]]
  /\ ledger = [e \in Events |-> NoMovement]
  /\ snapshot = [s \in Shifts |-> [counted |-> {}, expected_cash |-> 0, actual_cash |-> 0]]
  /\ reconciliation = [e \in Events |-> 0]
  /\ exceptions = {}
  /\ work = [x \in Workers |-> Idle]

Rows(s) == {e \in Events : ledger[e].type # "NONE" /\ ledger[e].shift = s}

-----------------------------------------------------------------------------
(* openShiftCommand.  shifts_active_terminal_idx allows one OPEN shift per *)
(* terminal; the insert is atomic.                                         *)
OpenShift(s) ==
  /\ shift[s].status = "NONE"
  /\ \A q \in Shifts : Terminal[q] = Terminal[s] => shift[q].status # "OPEN"
  /\ \E cash \in Counts, at \in Times :
       shift' = [shift EXCEPT ![s] = [status |-> "OPEN", opening_cash |-> cash,
                                      opened_at |-> at, closed_at |-> 0]]
  /\ UNCHANGED <<ledger, snapshot, reconciliation, exceptions, work>>

(* Faulty: the shift is read without FOR UPDATE.                           *)
CanLockAnyway(s) == shift[s].status # "NONE"

(* SELECT ... FOR UPDATE of the shift row waits for its holder to end, and *)
(* reads what that one left.                                               *)
CanLock(s) ==
  /\ shift[s].status # "NONE"
  /\ \A x \in Workers : work[x].phase # "IDLE" => work[x].shift # s

(* recordCashMovementCommand accepts a movement for an open shift, and for *)
(* a closed one if it occurred by its closing.                             *)
AcceptsMovement(s, at) ==
  shift[s].status = "CLOSED" => at <= shift[s].closed_at

(* completeSaleCommand: the sale lies in the window of the shift.          *)
AcceptsSale(s, at) ==
  /\ shift[s].opened_at <= at
  /\ shift[s].status = "CLOSED" => at <= shift[s].closed_at

(* completeReturnCommand and requireCashShift only take an open shift.     *)
AcceptsRefund(s) == shift[s].status = "OPEN"

(* A command takes effect once: its id is in no ledger row and in the      *)
(* hands of no other worker.                                               *)
Fresh(e) ==
  /\ ledger[e].type = "NONE"
  /\ \A x \in Workers : work[x].event # e

(* The work of x once it holds the row of shift s and passed its checks.   *)
Locked(x, e, s, type, amount, at, reverses) ==
  work' = [work EXCEPT ![x] =
    [phase |-> "LOCKED", op |-> type, shift |-> s, event |-> e, amount |-> amount,
     occurred_at |-> at, late |-> IF shift[s].status = "CLOSED" THEN "YES" ELSE "NO",
     reverses |-> reverses, counted |-> {}]]

LockMovement(x, e, s, type) ==
  /\ work[x].phase = "IDLE"
  /\ Fresh(e) /\ CanLock(s)
  /\ \E amount \in Amounts, at \in Times :
       /\ CASE type = "CASH_SALE" -> AcceptsSale(s, at)
            [] type = "CASH_REFUND" -> AcceptsRefund(s)
            [] OTHER -> AcceptsMovement(s, at)
       /\ Locked(x, e, s, type, amount, at, NoEvent)
  /\ UNCHANGED <<shift, ledger, snapshot, reconciliation, exceptions>>

(* The reversal of a completed cash refund f; the refund row is locked and *)
(* its status moves to REVERSED, so it happens once.                       *)
LockReversal(x, e, s, f) ==
  /\ work[x].phase = "IDLE"
  /\ Fresh(e) /\ CanLock(s) /\ AcceptsRefund(s)
  /\ ledger[f].type = "CASH_REFUND"
  /\ \A g \in Events : ledger[g].reverses # f
  /\ \A y \in Workers : work[y].reverses # f
  /\ \E at \in Times : Locked(x, e, s, "CASH_REVERSAL", ledger[f].amount, at, f)
  /\ UNCHANGED <<shift, ledger, snapshot, reconciliation, exceptions>>

(* The sign cash_movements.direction gives an amount.                      *)
Signed(type, amount) == IF type \in Ins THEN amount ELSE 0 - amount

(* Faulty: a late event enters the ledger without a reconciliation.        *)
DeltaForgotten(w) == 0

(* expected_cash_delta of the shift_reconciliations row, if one is due.    *)
Delta(w) == IF w.late = "YES" THEN Signed(w.op, w.amount) ELSE 0

(* The cash movement, and for a late event its reconciliation, commit.     *)
WriteMovement(x) ==
  LET w == work[x] IN
  /\ w.phase = "LOCKED" /\ w.op # "CLOSE"
  /\ ledger' = [ledger EXCEPT ![w.event] =
       [type |-> w.op, shift |-> w.shift, amount |-> w.amount,
        occurred_at |-> w.occurred_at, reverses |-> w.reverses]]
  /\ reconciliation' = [reconciliation EXCEPT ![w.event] = Delta(w)]
  /\ work' = [work EXCEPT ![x] = Idle]
  /\ UNCHANGED <<shift, snapshot, exceptions>>

-----------------------------------------------------------------------------
(* closeShiftCommand.                                                      *)

(* Faulty: a closed shift can be closed once more.                         *)
CanCloseAgain(s) == shift[s].status \in {"OPEN", "CLOSED"}

CanClose(s) == shift[s].status = "OPEN"

LockClose(x, s) ==
  /\ work[x].phase = "IDLE"
  /\ CanLock(s) /\ CanClose(s)
  /\ \E actual \in Counts, at \in Times :
       work' = [work EXCEPT ![x] = [Idle EXCEPT !.phase = "LOCKED", !.shift = s,
                                                !.amount = actual, !.occurred_at = at]]
  /\ UNCHANGED <<shift, ledger, snapshot, reconciliation, exceptions>>

(* The ledger rows of the shift, whatever their occurred_at, are summed.   *)
SumLedger(x) ==
  /\ work[x].phase = "LOCKED" /\ work[x].op = "CLOSE"
  /\ work' = [work EXCEPT ![x].phase = "SUMMED", ![x].counted = Rows(work[x].shift)]
  /\ UNCHANGED <<shift, ledger, snapshot, reconciliation, exceptions>>

(* The sign each movement type has in the sum: CASH_REVERSAL is counted    *)
(* among the refunds.                                                      *)
ClosingSigned(type, amount) ==
  IF type \in {"CASH_SALE", "CASH_IN"} THEN amount ELSE 0 - amount

ExpectedCash(opening, rows) ==
  opening + SumFunctionOnSet(
    [e \in rows |-> ClosingSigned(ledger[e].type, ledger[e].amount)], rows)

(* variance_type # MATCHED                                                 *)
Variance(expected, actual) == actual # expected

(* The snapshot, the CLOSED row and, for a variance, its exception commit. *)
WriteClose(x) ==
  LET w == work[x]
      expected == ExpectedCash(shift[w.shift].opening_cash, w.counted) IN
  /\ w.phase = "SUMMED"
  /\ snapshot' = [snapshot EXCEPT ![w.shift] =
       [counted |-> w.counted, expected_cash |-> expected, actual_cash |-> w.amount]]
  /\ shift' = [shift EXCEPT ![w.shift].status = "CLOSED", ![w.shift].closed_at = w.occurred_at]
  /\ exceptions' = IF Variance(expected, w.amount) THEN exceptions \cup {w.shift}
                   ELSE exceptions
  /\ work' = [work EXCEPT ![x] = Idle]
  /\ UNCHANGED <<ledger, reconciliation>>

(* Any command may fail and roll back.                                     *)
Rollback(x) ==
  /\ work[x].phase # "IDLE"
  /\ work' = [work EXCEPT ![x] = Idle]
  /\ UNCHANGED <<shift, ledger, snapshot, reconciliation, exceptions>>

-----------------------------------------------------------------------------
Next ==
  \/ \E s \in Shifts : OpenShift(s)
  \/ \E x \in Workers, e \in Events, s \in Shifts :
       \/ \E type \in Types \ {"CASH_REVERSAL"} : LockMovement(x, e, s, type)
       \/ \E f \in Events : LockReversal(x, e, s, f)
  \/ \E x \in Workers, s \in Shifts : LockClose(x, s)
  \/ \E x \in Workers : WriteMovement(x) \/ SumLedger(x) \/ WriteClose(x) \/ Rollback(x)

Spec == Init /\ [][Next]_vars

-----------------------------------------------------------------------------
(* Correctness.                                                            *)

Closed == {s \in Shifts : shift[s].status = "CLOSED"}
Late(s) == {e \in Rows(s) : reconciliation[e] # 0}

(* Every cash movement of a closed shift is accounted for exactly once: it *)
(* is in the sum of the closing snapshot, or it has a reconciliation row   *)
(* of its own amount, however arrivals and the closing interleave.         *)
EveryRowOnce == \A s \in Closed :
  /\ snapshot[s].counted \cup Late(s) = Rows(s)
  /\ snapshot[s].counted \cap Late(s) = {}
  /\ \A e \in Late(s) : reconciliation[e] = Signed(ledger[e].type, ledger[e].amount)

(* The cash the ledger holds for a shift.                                  *)
LedgerCash(s) ==
  shift[s].opening_cash
    + SumFunctionOnSet([e \in Rows(s) |-> Signed(ledger[e].type, ledger[e].amount)], Rows(s))

(* What the books say the drawer should have held at closing, late events  *)
(* included.                                                               *)
BookedCash(s) ==
  snapshot[s].expected_cash + SumFunctionOnSet(reconciliation, Late(s))

(* Expected cash is derived from the event ledger: for a closed shift the  *)
(* snapshot and its reconciliations give the signed sum of its movements.  *)
(* Stated for shifts in which no refund was reversed: closeShiftCommand    *)
(* subtracts a reversal that the ledger holds as IN (cash.ts:495).         *)
ExpectedFromLedgerNoReversal == \A s \in Closed :
  (\A e \in Rows(s) : ledger[e].type # "CASH_REVERSAL") => BookedCash(s) = LedgerCash(s)

(* A closed shift is an immutable boundary: neither its row nor its        *)
(* snapshot changes again, and no ledger row is rewritten.                 *)
ClosedIsFinal ==
  [][/\ \A s \in Closed : shift'[s] = shift[s] /\ snapshot'[s] = snapshot[s]
     /\ \A e \in Events : ledger[e].type # "NONE" => ledger'[e] = ledger[e]]_vars

=============================================================================
