---------------------------- MODULE LedgerProofs ----------------------------
(***************************************************************************)
(* Theorems about the two ledgers of the server.                           *)
(*                                                                         *)
(* CashShift: every cash movement of a closed shift is accounted for once, *)
(* the books give the signed sum of the ledger, and a closed shift is      *)
(* final, for any number of shifts, movements, workers and amounts.        *)
(*                                                                         *)
(* Costing: costs stay costs, a purchase is posted as it was reviewed, the *)
(* cost of a replaced unit is settled at what it landed at, and, with the  *)
(* exceptions that adjustments make (holes, overtaken), a final cost       *)
(* stands and a shortage is replaced once, for any number of purchases,    *)
(* items, products, quantities, prices and adjustments.                    *)
(***************************************************************************)
EXTENDS CashShift, Costing, FiniteFacts, TLAPS

-----------------------------------------------------------------------------
(* The cash ledger.                                                        *)


Busy(x) == work[x].phase # "IDLE"
Moving(x) == work[x].phase = "LOCKED" /\ work[x].op # "CLOSE"
Closing(x) == Busy(x) /\ work[x].op = "CLOSE"

(* Row locks: no two transactions hold the row of one shift, and no two    *)
(* execute one command.                                                    *)
Exclusive ==
  /\ \A x, y \in Workers : x # y /\ Busy(x) /\ Busy(y) => work[x].shift # work[y].shift
  /\ \A x, y \in Workers : x # y /\ Moving(x) /\ Moving(y) => work[x].event # work[y].event

(* What a transaction found under its lock still holds: a movement is new  *)
(* and knows whether its shift is closed; a closing has an open shift and  *)
(* has summed all its rows.                                                *)
WorkOK == \A x \in Workers :
  /\ Busy(x) => work[x].shift \in Shifts /\ shift[work[x].shift].status # "NONE"
  /\ Moving(x) =>
       /\ work[x].event \in Events /\ ledger[work[x].event].type = "NONE"
       /\ work[x].amount > 0
       /\ work[x].late = "YES" <=> shift[work[x].shift].status = "CLOSED"
  /\ Closing(x) => shift[work[x].shift].status = "OPEN"
  /\ work[x].phase = "SUMMED" =>
       work[x].op = "CLOSE" /\ work[x].counted = Rows(work[x].shift)

(* Movements have an amount, and what is not a movement corrects nothing.  *)
LedgerOK == \A e \in Events :
  /\ ledger[e].type # "NONE" => ledger[e].amount > 0
  /\ ledger[e].type = "NONE" => reconciliation[e] = 0

(* A shift that is not closed has no late movement.                        *)
NoneLate == \A s \in Shifts : shift[s].status # "CLOSED" =>
  \A e \in Rows(s) : reconciliation[e] = 0

(* The snapshot still holds the sum it was closed with.                    *)
SnapshotOK == \A s \in Closed :
  /\ snapshot[s].counted \subseteq Rows(s)
  /\ snapshot[s].expected_cash = ExpectedCash(shift[s].opening_cash, snapshot[s].counted)

IInv ==
  /\ TypeOK /\ Exclusive /\ WorkOK
  /\ LedgerOK /\ NoneLate /\ EveryRowOnce /\ SnapshotOK

-----------------------------------------------------------------------------
(* Sums over ledger rows are integers.                                     *)
LEMMA RowsFinite ==
  ASSUME NEW R \in SUBSET Events
  PROVE  IsFiniteSet(R)
BY CashShiftAssumption, FS_Subset

LEMMA ExpectedCashInt ==
  ASSUME TypeOK, NEW opening \in Nat, NEW R \in SUBSET Events
  PROVE  ExpectedCash(opening, R) \in Int
<1> DEFINE f == [e \in R |-> ClosingSigned(ledger[e].type, ledger[e].amount)]
<1>1. \A e \in R : f[e] \in Int
  <2> SUFFICES ASSUME NEW e \in R PROVE f[e] \in Int
    OBVIOUS
  <2>1. ledger[e] \in Movement
    BY DEF TypeOK
  <2>2. ledger[e].amount \in Nat
    BY <2>1 DEF Movement
  <2>3. QED
    BY <2>2 DEF ClosingSigned
<1>2. SumFunctionOnSet(f, R) \in Int
  BY <1>1, RowsFinite, SumInt
<1>3. QED
  BY <1>2 DEF ExpectedCash

(* A transaction that has its lock.                                        *)
LEMMA LockedWork ==
  ASSUME TypeOK, NEW x \in Workers, NEW e \in Events, NEW s \in Shifts, NEW type \in Types,
         NEW amount \in Nat, NEW at \in Times, NEW f \in Events \cup {NoEvent},
         Locked(x, e, s, type, amount, at, f)
  PROVE  /\ work' \in [Workers -> Work]
         /\ work'[x].phase = "LOCKED" /\ work'[x].op = type /\ work'[x].shift = s
         /\ work'[x].event = e /\ work'[x].amount = amount
         /\ work'[x].late = "YES" <=> shift[s].status = "CLOSED"
         /\ \A y \in Workers : y # x => work'[y] = work[y]
<1>1. [phase |-> "LOCKED", op |-> type, shift |-> s, event |-> e, amount |-> amount,
       occurred_at |-> at, late |-> IF shift[s].status = "CLOSED" THEN "YES" ELSE "NO",
       reverses |-> f, counted |-> {}] \in Work
  BY DEF Work
<1>2. QED
  BY <1>1 DEF Locked, TypeOK

LEMMA MovementLocked ==
  ASSUME TypeOK, LedgerOK, NEW x \in Workers, NEW e \in Events, NEW s \in Shifts,
         \/ \E type \in Types \ {"CASH_REVERSAL"} : LockMovement(x, e, s, type)
         \/ \E f \in Events : LockReversal(x, e, s, f)
  PROVE  /\ \E type \in Types, amount \in Nat \ {0}, at \in Times,
                f \in Events \cup {NoEvent} : Locked(x, e, s, type, amount, at, f)
         /\ ~Busy(x) /\ Fresh(e) /\ CanLock(s)
         /\ UNCHANGED <<shift, ledger, snapshot, reconciliation, exceptions>>
<1>1. CASE \E type \in Types \ {"CASH_REVERSAL"} : LockMovement(x, e, s, type)
  <2>1. PICK type \in Types : LockMovement(x, e, s, type)
    BY <1>1
  <2>2. \E amount \in Amounts, at \in Times : Locked(x, e, s, type, amount, at, NoEvent)
    BY <2>1 DEF LockMovement
  <2>3. QED
    BY <2>1, <2>2, CashShiftAssumption DEF LockMovement, Busy
<1>2. CASE \E f \in Events : LockReversal(x, e, s, f)
  <2>1. PICK f \in Events : LockReversal(x, e, s, f)
    BY <1>2
  <2>2. ledger[f].type = "CASH_REFUND" /\ ledger[f] \in Movement
    BY <2>1 DEF LockReversal, TypeOK
  <2>3. ledger[f].amount \in Nat \ {0}
    BY <2>2 DEF LedgerOK, Movement
  <2>4. \E at \in Times : Locked(x, e, s, "CASH_REVERSAL", ledger[f].amount, at, f)
    BY <2>1 DEF LockReversal
  <2>5. "CASH_REVERSAL" \in Types
    BY DEF Types, Ins
  <2>6. QED
    BY <2>1, <2>3, <2>4, <2>5 DEF LockReversal, Busy
<1>3. QED
  BY <1>1, <1>2

LEMMA IdleWork == Idle \in Work /\ Idle.phase = "IDLE"
BY CashShiftAssumption DEF Idle, Work

(* The step of closing a shift, spelled out.                               *)
LEMMA CloseLocked ==
  ASSUME TypeOK, NEW x \in Workers, NEW s \in Shifts, LockClose(x, s)
  PROVE  /\ work' \in [Workers -> Work]
         /\ work'[x].phase = "LOCKED" /\ work'[x].op = "CLOSE" /\ work'[x].shift = s
         /\ \A y \in Workers : y # x => work'[y] = work[y]
<1>1. PICK actual \in Counts, at \in Times :
        work' = [work EXCEPT ![x] = [Idle EXCEPT !.phase = "LOCKED", !.shift = s,
                                                 !.amount = actual, !.occurred_at = at]]
  BY DEF LockClose
<1>2. [Idle EXCEPT !.phase = "LOCKED", !.shift = s, !.amount = actual, !.occurred_at = at]
        \in Work
  BY CashShiftAssumption DEF Idle, Work
<1>3. QED
  BY <1>1, <1>2 DEF TypeOK, Idle

(* Every step keeps the types.                                             *)
LEMMA TypeStep ==
  ASSUME TypeOK, WorkOK, LedgerOK, [Next]_vars
  PROVE  TypeOK'
<1> USE CashShiftAssumption
<1>1. ASSUME NEW s \in Shifts, OpenShift(s)
      PROVE  TypeOK'
  <2>1. PICK cash \in Counts, at \in Times :
          shift' = [shift EXCEPT ![s] = [status |-> "OPEN", opening_cash |-> cash,
                                         opened_at |-> at, closed_at |-> 0]]
    BY <1>1 DEF OpenShift
  <2>2. [status |-> "OPEN", opening_cash |-> cash, opened_at |-> at, closed_at |-> 0]
          \in ShiftRow
    BY DEF ShiftRow
  <2>3. QED
    BY <1>1, <2>1, <2>2 DEF OpenShift, TypeOK
<1>2. ASSUME NEW x \in Workers, NEW e \in Events, NEW s \in Shifts,
             \/ \E type \in Types \ {"CASH_REVERSAL"} : LockMovement(x, e, s, type)
             \/ \E f \in Events : LockReversal(x, e, s, f)
      PROVE  TypeOK'
  <2>1. work' \in [Workers -> Work]
    BY <1>2, MovementLocked, LockedWork
  <2>2. UNCHANGED <<shift, ledger, snapshot, reconciliation, exceptions>>
    BY <1>2, MovementLocked
  <2>3. QED
    BY <2>1, <2>2 DEF TypeOK
<1>3. ASSUME NEW x \in Workers, NEW s \in Shifts, LockClose(x, s)
      PROVE  TypeOK'
  BY <1>3, CloseLocked DEF LockClose, TypeOK
<1>4. ASSUME NEW x \in Workers, WriteMovement(x)
      PROVE  TypeOK'
  <2>1. work[x] \in Work /\ work[x].event \in Events /\ work[x].op \in Types
    BY <1>4 DEF TypeOK, WorkOK, WriteMovement, Work, Moving
  <2>2. [type |-> work[x].op, shift |-> work[x].shift, amount |-> work[x].amount,
         occurred_at |-> work[x].occurred_at, reverses |-> work[x].reverses] \in Movement
    BY <2>1 DEF Work, Movement
  <2>3. Delta(work[x]) \in Int
    BY <2>1 DEF Delta, Signed, Work
  <2>4. ledger' \in [Events -> Movement]
    BY <1>4, <2>1, <2>2 DEF WriteMovement, TypeOK
  <2>5. reconciliation' \in [Events -> Int]
    BY <1>4, <2>1, <2>3 DEF WriteMovement, TypeOK
  <2>6. work' \in [Workers -> Work]
    BY <1>4, IdleWork DEF WriteMovement, TypeOK
  <2>7. QED
    BY <1>4, <2>4, <2>5, <2>6 DEF WriteMovement, TypeOK
<1>5. ASSUME NEW x \in Workers, SumLedger(x)
      PROVE  TypeOK'
  <2>1. work[x] \in Work /\ Rows(work[x].shift) \subseteq Events
    BY DEF TypeOK, Rows
  <2>2. [work[x] EXCEPT !.phase = "SUMMED", !.counted = Rows(work[x].shift)] \in Work
    BY <2>1 DEF Work
  <2>3. work' \in [Workers -> Work]
    BY <1>5, <2>2 DEF SumLedger, TypeOK
  <2>4. QED
    BY <1>5, <2>3 DEF SumLedger, TypeOK
<1>6. ASSUME NEW x \in Workers, WriteClose(x)
      PROVE  TypeOK'
  <2> DEFINE w == work[x]
             expected == ExpectedCash(shift[w.shift].opening_cash, w.counted)
  <2>1. w \in Work /\ w.shift \in Shifts
    BY <1>6 DEF TypeOK, WorkOK, WriteClose, Busy
  <2>2. shift[w.shift] \in ShiftRow /\ w.counted \in SUBSET Events
    BY <2>1 DEF TypeOK, Work
  <2>3. expected \in Int
    BY <2>2, ExpectedCashInt DEF ShiftRow
  <2> HIDE DEF expected
  <2>4. [counted |-> w.counted, expected_cash |-> expected, actual_cash |-> w.amount]
          \in Snapshot
    BY <2>1, <2>3 DEF Snapshot, Work
  <2>5. [shift[w.shift] EXCEPT !.status = "CLOSED", !.closed_at = w.occurred_at] \in ShiftRow
    BY <2>1, <2>2 DEF ShiftRow, Work
  <2>6. snapshot' \in [Shifts -> Snapshot]
    BY <1>6, <2>1, <2>4 DEF WriteClose, TypeOK, expected
  <2>7. shift' \in [Shifts -> ShiftRow]
    BY <1>6, <2>1, <2>5 DEF WriteClose, TypeOK
  <2>8. work' \in [Workers -> Work] /\ exceptions' \subseteq Shifts
    BY <1>6, <2>1, IdleWork DEF WriteClose, TypeOK
  <2>9. QED
    BY <1>6, <2>6, <2>7, <2>8 DEF WriteClose, TypeOK
<1>7. ASSUME NEW x \in Workers, Rollback(x)
      PROVE  TypeOK'
  BY <1>7, IdleWork DEF Rollback, TypeOK
<1>8. CASE UNCHANGED vars
  BY <1>8 DEF vars, TypeOK
<1>9. QED
  BY <1>1, <1>2, <1>3, <1>4, <1>5, <1>6, <1>7, <1>8 DEF Next

-----------------------------------------------------------------------------
(* What WriteMovement does to the ledger: one new row of one shift.        *)
LEMMA RowsAfterMovement ==
  ASSUME TypeOK, WorkOK, NEW x \in Workers, WriteMovement(x)
  PROVE  /\ work[x].event \in Events /\ work[x].shift \in Shifts
         /\ ledger[work[x].event].type = "NONE"
         /\ ledger'[work[x].event].type = work[x].op /\ work[x].op \in Types
         /\ ledger'[work[x].event].amount = work[x].amount /\ work[x].amount \in Nat \ {0}
         /\ ledger'[work[x].event].shift = work[x].shift
         /\ reconciliation'[work[x].event] = Delta(work[x])
         /\ \A e \in Events : e # work[x].event =>
              ledger'[e] = ledger[e] /\ reconciliation'[e] = reconciliation[e]
         /\ \A s \in Shifts : Rows(s)' =
              IF s = work[x].shift THEN Rows(s) \cup {work[x].event} ELSE Rows(s)
<1>1. work[x] \in Work /\ Moving(x) /\ Busy(x)
  BY DEF TypeOK, WriteMovement, Moving, Busy
<1>2. /\ work[x].event \in Events /\ work[x].shift \in Shifts
      /\ ledger[work[x].event].type = "NONE" /\ work[x].amount > 0
      /\ work[x].op \in Types /\ work[x].amount \in Nat \ {0}
  BY <1>1 DEF WorkOK, Work, Moving
<1>3. /\ ledger'[work[x].event] = [type |-> work[x].op, shift |-> work[x].shift,
           amount |-> work[x].amount, occurred_at |-> work[x].occurred_at,
           reverses |-> work[x].reverses]
      /\ reconciliation'[work[x].event] = Delta(work[x])
      /\ \A e \in Events : e # work[x].event =>
           ledger'[e] = ledger[e] /\ reconciliation'[e] = reconciliation[e]
  BY <1>2 DEF WriteMovement, TypeOK
<1>4. work[x].op # "NONE"
  BY <1>2 DEF Types, Ins, Outs
<1>5. \A s \in Shifts : Rows(s)' =
        IF s = work[x].shift THEN Rows(s) \cup {work[x].event} ELSE Rows(s)
  BY <1>2, <1>3, <1>4 DEF Rows
<1>6. QED
  BY <1>2, <1>3, <1>5

(* What WriteClose does: the row of one open shift.                        *)
LEMMA ShiftAfterClose ==
  ASSUME TypeOK, WorkOK, NEW x \in Workers, WriteClose(x)
  PROVE  /\ work[x].shift \in Shifts /\ shift[work[x].shift].status = "OPEN"
         /\ work[x].counted = Rows(work[x].shift)
         /\ shift'[work[x].shift].status = "CLOSED"
         /\ shift'[work[x].shift].opening_cash = shift[work[x].shift].opening_cash
         /\ snapshot'[work[x].shift].counted = work[x].counted
         /\ snapshot'[work[x].shift].expected_cash
              = ExpectedCash(shift[work[x].shift].opening_cash, work[x].counted)
         /\ \A s \in Shifts : s # work[x].shift =>
              shift'[s] = shift[s] /\ snapshot'[s] = snapshot[s]
<1>1. work[x].shift \in Shifts /\ work[x].counted = Rows(work[x].shift)
        /\ shift[work[x].shift].status = "OPEN"
  BY DEF WorkOK, WriteClose, Busy, Closing
<1>2. shift[work[x].shift] \in ShiftRow
  BY <1>1 DEF TypeOK
<1>3. /\ shift' = [shift EXCEPT ![work[x].shift].status = "CLOSED",
                                ![work[x].shift].closed_at = work[x].occurred_at]
      /\ snapshot' = [snapshot EXCEPT ![work[x].shift] =
           [counted |-> work[x].counted,
            expected_cash |-> ExpectedCash(shift[work[x].shift].opening_cash, work[x].counted),
            actual_cash |-> work[x].amount]]
  BY DEF WriteClose
<1>4. /\ shift'[work[x].shift].status = "CLOSED"
      /\ shift'[work[x].shift].opening_cash = shift[work[x].shift].opening_cash
      /\ \A s \in Shifts : s # work[x].shift => shift'[s] = shift[s]
  BY <1>1, <1>2, <1>3 DEF TypeOK, ShiftRow
<1>5. /\ snapshot'[work[x].shift].counted = work[x].counted
      /\ snapshot'[work[x].shift].expected_cash
           = ExpectedCash(shift[work[x].shift].opening_cash, work[x].counted)
      /\ \A s \in Shifts : s # work[x].shift => snapshot'[s] = snapshot[s]
  BY <1>1, <1>3 DEF TypeOK
<1>6. QED
  BY <1>1, <1>4, <1>5

LEMMA ShiftAfterOpen ==
  ASSUME TypeOK, NEW s \in Shifts, OpenShift(s)
  PROVE  /\ shift[s].status = "NONE" /\ shift'[s].status = "OPEN"
         /\ \A q \in Shifts : q # s => shift'[q] = shift[q]
BY DEF OpenShift, TypeOK

(* A step that leaves the ledger alone leaves the rows of each shift.      *)
LEMMA SameRows ==
  ASSUME UNCHANGED ledger
  PROVE  \A s : Rows(s)' = Rows(s)
BY DEF Rows

(* The work of x ends, and that of the others goes on.                     *)
LEMMA WorkAfterEnd ==
  ASSUME TypeOK, NEW x \in Workers, WriteMovement(x) \/ WriteClose(x) \/ Rollback(x)
  PROVE  /\ work'[x] = Idle /\ ~Busy(x)'
         /\ \A y \in Workers : y # x => work'[y] = work[y]
BY IdleWork DEF WriteMovement, WriteClose, Rollback, TypeOK, Busy

LEMMA WorkAfterSum ==
  ASSUME TypeOK, NEW x \in Workers, SumLedger(x)
  PROVE  /\ work[x].phase = "LOCKED" /\ work[x].op = "CLOSE"
         /\ work'[x].phase = "SUMMED" /\ work'[x].op = "CLOSE"
         /\ work'[x].shift = work[x].shift /\ work'[x].counted = Rows(work[x].shift)
         /\ \A y \in Workers : y # x => work'[y] = work[y]
<1>1. work[x] \in Work
  BY DEF TypeOK
<1>2. QED
  BY <1>1 DEF SumLedger, TypeOK, Work

-----------------------------------------------------------------------------
(* A step keeps the locks exclusive.                                       *)
LEMMA ExclusiveStep ==
  ASSUME TypeOK, Exclusive, LedgerOK, [Next]_vars
  PROVE  Exclusive'
<1>1. ASSUME NEW s \in Shifts, OpenShift(s)
      PROVE  Exclusive'
  BY <1>1 DEF OpenShift, Exclusive, Busy, Moving
<1>2. ASSUME NEW x \in Workers, NEW e \in Events, NEW s \in Shifts,
             \/ \E type \in Types \ {"CASH_REVERSAL"} : LockMovement(x, e, s, type)
             \/ \E f \in Events : LockReversal(x, e, s, f)
      PROVE  Exclusive'
  <2>1. /\ work'[x].shift = s /\ work'[x].event = e
        /\ \A y \in Workers : y # x => work'[y] = work[y]
    BY <1>2, MovementLocked, LockedWork
  <2>2. \A y \in Workers : work[y].event # e /\ (Busy(y) => work[y].shift # s)
    BY <1>2, MovementLocked DEF Fresh, CanLock, Busy
  <2>3. QED
    BY <2>1, <2>2 DEF Exclusive, Busy, Moving
<1>3. ASSUME NEW x \in Workers, NEW s \in Shifts, LockClose(x, s)
      PROVE  Exclusive'
  <2>1. \A y \in Workers : Busy(y) => work[y].shift # s
    BY <1>3 DEF LockClose, CanLock, Busy
  <2>2. QED
    BY <1>3, <2>1, CloseLocked DEF Exclusive, Busy, Moving
<1>4. ASSUME NEW x \in Workers, WriteMovement(x) \/ WriteClose(x) \/ Rollback(x)
      PROVE  Exclusive'
  BY <1>4, WorkAfterEnd DEF Exclusive, Busy, Moving
<1>5. ASSUME NEW x \in Workers, SumLedger(x)
      PROVE  Exclusive'
  BY <1>5, WorkAfterSum DEF Exclusive, Busy, Moving
<1>6. CASE UNCHANGED vars
  BY <1>6 DEF vars, Exclusive, Busy, Moving
<1>7. QED
  BY <1>1, <1>2, <1>3, <1>4, <1>5, <1>6 DEF Next

(* What a transaction read under its lock stays true until it ends.        *)
LEMMA WorkStep ==
  ASSUME TypeOK, Exclusive, WorkOK, LedgerOK, [Next]_vars
  PROVE  WorkOK'
<1> USE DEF WorkOK, Busy, Moving, Closing
<1>1. ASSUME NEW s \in Shifts, OpenShift(s)
      PROVE  WorkOK'
  <2>1. UNCHANGED <<ledger, work>>
    BY <1>1 DEF OpenShift
  <2>2. QED
    BY <1>1, <2>1, ShiftAfterOpen, SameRows
<1>2. ASSUME NEW x \in Workers, NEW e \in Events, NEW s \in Shifts,
             \/ \E type \in Types \ {"CASH_REVERSAL"} : LockMovement(x, e, s, type)
             \/ \E f \in Events : LockReversal(x, e, s, f)
      PROVE  WorkOK'
  <2>1. PICK type \in Types, amount \in Nat \ {0}, at \in Times, f \in Events \cup {NoEvent} :
          Locked(x, e, s, type, amount, at, f)
    BY <1>2, MovementLocked
  <2>2. /\ work'[x].phase = "LOCKED" /\ work'[x].op = type /\ work'[x].shift = s
        /\ work'[x].event = e /\ work'[x].amount > 0
        /\ work'[x].late = "YES" <=> shift[s].status = "CLOSED"
        /\ \A y \in Workers : y # x => work'[y] = work[y]
    BY <2>1, LockedWork
  <2>3. /\ UNCHANGED <<shift, ledger>>
        /\ ledger[e].type = "NONE" /\ shift[s].status # "NONE"
    BY <1>2, MovementLocked DEF Fresh, CanLock
  <2>4. type # "CLOSE"
    BY DEF Types, Ins, Outs
  <2>5. QED
    BY <2>2, <2>3, <2>4, SameRows
<1>3. ASSUME NEW x \in Workers, NEW s \in Shifts, LockClose(x, s)
      PROVE  WorkOK'
  <2>1. UNCHANGED <<shift, ledger>> /\ shift[s].status = "OPEN"
    BY <1>3 DEF LockClose, CanClose
  <2>2. QED
    BY <1>3, <2>1, CloseLocked, SameRows
<1>4. ASSUME NEW x \in Workers, WriteMovement(x)
      PROVE  WorkOK'
  <2>1. UNCHANGED shift /\ Moving(x) /\ Busy(x)
    BY <1>4 DEF WriteMovement
  <2>2. \A y \in Workers : y # x /\ Busy(y) =>
          work[y].shift # work[x].shift /\ (Moving(y) => work[y].event # work[x].event)
    BY <2>1 DEF Exclusive
  <2>3. QED
    BY <1>4, <2>1, <2>2, WorkAfterEnd, RowsAfterMovement, IdleWork
<1>5. ASSUME NEW x \in Workers, SumLedger(x)
      PROVE  WorkOK'
  <2>1. UNCHANGED <<shift, ledger>>
    BY <1>5 DEF SumLedger
  <2>2. QED
    BY <1>5, <2>1, WorkAfterSum, SameRows
<1>6. ASSUME NEW x \in Workers, WriteClose(x)
      PROVE  WorkOK'
  <2>1. UNCHANGED ledger /\ Busy(x)
    BY <1>6 DEF WriteClose
  <2>2. \A y \in Workers : y # x /\ Busy(y) => work[y].shift # work[x].shift
    BY <2>1 DEF Exclusive
  <2>3. QED
    BY <1>6, <2>1, <2>2, WorkAfterEnd, ShiftAfterClose, SameRows
<1>7. ASSUME NEW x \in Workers, Rollback(x)
      PROVE  WorkOK'
  <2>1. UNCHANGED <<shift, ledger>>
    BY <1>7 DEF Rollback
  <2>2. QED
    BY <1>7, <2>1, WorkAfterEnd, SameRows
<1>8. CASE UNCHANGED vars
  <2>1. UNCHANGED <<shift, ledger, work>>
    BY <1>8 DEF vars
  <2>2. QED
    BY <2>1, SameRows
<1>9. QED
  BY <1>1, <1>2, <1>3, <1>4, <1>5, <1>6, <1>7, <1>8 DEF Next

-----------------------------------------------------------------------------
(* A step opens a shift, writes a movement, closes a shift, or leaves the  *)
(* books alone.                                                            *)
LEMMA BookSteps ==
  ASSUME TypeOK, LedgerOK, [Next]_vars
  PROVE  \/ \E s \in Shifts : OpenShift(s)
         \/ \E x \in Workers : WriteMovement(x) \/ WriteClose(x)
         \/ UNCHANGED <<shift, ledger, snapshot, reconciliation>>
<1>1. ASSUME NEW x \in Workers, NEW e \in Events, NEW s \in Shifts,
             \/ \E type \in Types \ {"CASH_REVERSAL"} : LockMovement(x, e, s, type)
             \/ \E f \in Events : LockReversal(x, e, s, f)
      PROVE  UNCHANGED <<shift, ledger, snapshot, reconciliation>>
  BY <1>1, MovementLocked
<1>2. ASSUME NEW x \in Workers, SumLedger(x) \/ Rollback(x) \/ \E s \in Shifts : LockClose(x, s)
      PROVE  UNCHANGED <<shift, ledger, snapshot, reconciliation>>
  BY <1>2 DEF SumLedger, Rollback, LockClose
<1>3. CASE UNCHANGED vars
  BY <1>3 DEF vars
<1>4. QED
  BY <1>1, <1>2, <1>3 DEF Next

LEMMA LedgerStep ==
  ASSUME TypeOK, WorkOK, LedgerOK, [Next]_vars
  PROVE  LedgerOK'
<1>1. ASSUME NEW x \in Workers, WriteMovement(x)
      PROVE  LedgerOK'
  <2>1. work[x].op # "NONE" /\ ledger'[work[x].event].amount > 0
    BY <1>1, RowsAfterMovement DEF Types, Ins, Outs
  <2>2. QED
    BY <1>1, <2>1, RowsAfterMovement DEF LedgerOK
<1>2. ASSUME UNCHANGED <<ledger, reconciliation>>
      PROVE  LedgerOK'
  BY <1>2 DEF LedgerOK
<1>3. QED
  BY <1>1, <1>2, BookSteps DEF OpenShift, WriteClose

(* The delta of a late movement is its signed amount, which is not 0.      *)
LEMMA DeltaValue ==
  ASSUME TypeOK, WorkOK, NEW x \in Workers, WriteMovement(x)
  PROVE  IF shift[work[x].shift].status = "CLOSED"
         THEN Delta(work[x]) = Signed(work[x].op, work[x].amount) /\ Delta(work[x]) # 0
         ELSE Delta(work[x]) = 0
<1>1. work[x].amount \in Nat \ {0}
  BY RowsAfterMovement
<1>2. work[x].late = "YES" <=> shift[work[x].shift].status = "CLOSED"
  BY DEF WorkOK, Moving, WriteMovement
<1>3. QED
  BY <1>1, <1>2 DEF Delta, Signed

LEMMA NoneLateStep ==
  ASSUME TypeOK, WorkOK, LedgerOK, NoneLate, [Next]_vars
  PROVE  NoneLate'
<1>1. ASSUME NEW s \in Shifts, OpenShift(s)
      PROVE  NoneLate'
  <2>1. UNCHANGED <<ledger, reconciliation>>
    BY <1>1 DEF OpenShift
  <2>2. \A q \in Shifts : shift'[q].status # "CLOSED" => shift[q].status # "CLOSED"
    BY <1>1, ShiftAfterOpen
  <2>3. QED
    BY <2>1, <2>2, SameRows DEF NoneLate
<1>2. ASSUME NEW x \in Workers, WriteMovement(x)
      PROVE  NoneLate'
  <2>1. UNCHANGED shift
    BY <1>2 DEF WriteMovement
  <2>2. SUFFICES ASSUME NEW s \in Shifts, shift[s].status # "CLOSED", NEW e \in Rows(s)'
                 PROVE  reconciliation'[e] = 0
    BY <2>1 DEF NoneLate
  <2>3. CASE e = work[x].event
    <3>1. s = work[x].shift
      BY <1>2, <2>2, <2>3, RowsAfterMovement DEF Rows
    <3>2. QED
      BY <1>2, <2>2, <2>3, <3>1, RowsAfterMovement, DeltaValue
  <2>4. CASE e # work[x].event
    <3>1. e \in Rows(s) /\ e \in Events
      BY <1>2, <2>2, <2>4, RowsAfterMovement DEF Rows
    <3>2. QED
      BY <1>2, <2>2, <2>4, <3>1, RowsAfterMovement DEF NoneLate
  <2>5. QED
    BY <2>3, <2>4
<1>3. ASSUME NEW x \in Workers, WriteClose(x)
      PROVE  NoneLate'
  <2>1. UNCHANGED <<ledger, reconciliation>>
    BY <1>3 DEF WriteClose
  <2>2. \A q \in Shifts : shift'[q].status # "CLOSED" => shift[q].status # "CLOSED"
    BY <1>3, ShiftAfterClose
  <2>3. QED
    BY <2>1, <2>2, SameRows DEF NoneLate
<1>4. ASSUME UNCHANGED <<shift, ledger, reconciliation>>
      PROVE  NoneLate'
  BY <1>4, SameRows DEF NoneLate
<1>5. QED
  BY <1>1, <1>2, <1>3, <1>4, BookSteps

-----------------------------------------------------------------------------
(* EveryRowOnce of one shift.                                              *)
RowsOnce(s) ==
  /\ snapshot[s].counted \cup Late(s) = Rows(s)
  /\ snapshot[s].counted \cap Late(s) = {}
  /\ \A e \in Late(s) : reconciliation[e] = Signed(ledger[e].type, ledger[e].amount)

LEMMA RowsOnceAll == EveryRowOnce <=> \A s \in Closed : RowsOnce(s)
BY DEF EveryRowOnce, RowsOnce

LEMMA EveryRowOnceStep ==
  ASSUME TypeOK, WorkOK, LedgerOK, NoneLate, EveryRowOnce, [Next]_vars
  PROVE  EveryRowOnce'
<1>1. \A s \in Shifts : shift[s].status = "CLOSED" => RowsOnce(s)
  BY RowsOnceAll DEF Closed
<1>2. SUFFICES ASSUME NEW s \in Shifts, shift'[s].status = "CLOSED" PROVE RowsOnce(s)'
  BY DEF EveryRowOnce, RowsOnce, Closed
<1>3. ASSUME NEW q \in Shifts, OpenShift(q)
      PROVE  RowsOnce(s)'
  <2>1. UNCHANGED <<ledger, snapshot, reconciliation>>
    BY <1>3 DEF OpenShift
  <2>2. s # q /\ shift[s].status = "CLOSED"
    BY <1>2, <1>3, ShiftAfterOpen
  <2>3. QED
    BY <1>1, <2>1, <2>2 DEF RowsOnce, Late, Rows
<1>4. ASSUME NEW x \in Workers, WriteMovement(x)
      PROVE  RowsOnce(s)'
  <2> DEFINE e == work[x].event
  <2>1. UNCHANGED <<shift, snapshot>>
    BY <1>4 DEF WriteMovement
  <2>2. RowsOnce(s) /\ shift[s].status = "CLOSED"
    BY <1>1, <1>2, <2>1
  <2>3. e \in Events /\ e \notin Rows(s) /\ \A d \in Rows(s) : d \in Events /\ d # e
    BY <1>4, RowsAfterMovement DEF Rows
  <2>4. \A d \in Rows(s) : ledger'[d] = ledger[d] /\ reconciliation'[d] = reconciliation[d]
    BY <1>4, <2>3, RowsAfterMovement
  <2>5. CASE s = work[x].shift
    <3>1. Rows(s)' = Rows(s) \cup {e}
      BY <1>4, <2>5, RowsAfterMovement
    <3>2. /\ reconciliation'[e] # 0
          /\ reconciliation'[e] = Signed(ledger'[e].type, ledger'[e].amount)
      BY <1>4, <2>2, <2>5, RowsAfterMovement, DeltaValue
    <3>3. Late(s)' = Late(s) \cup {e}
      BY <2>4, <3>1, <3>2 DEF Late
    <3>4. QED
      BY <2>1, <2>2, <2>3, <2>4, <3>1, <3>2, <3>3 DEF RowsOnce, Late
  <2>6. CASE s # work[x].shift
    <3>1. Rows(s)' = Rows(s)
      BY <1>4, <2>6, RowsAfterMovement
    <3>2. Late(s)' = Late(s)
      BY <2>4, <3>1 DEF Late
    <3>3. QED
      BY <2>1, <2>2, <2>4, <3>1, <3>2 DEF RowsOnce, Late
  <2>7. QED
    BY <2>5, <2>6
<1>5. ASSUME NEW x \in Workers, WriteClose(x)
      PROVE  RowsOnce(s)'
  <2>1. UNCHANGED <<ledger, reconciliation>>
    BY <1>5 DEF WriteClose
  <2>2. Rows(s)' = Rows(s) /\ Late(s)' = Late(s)
    BY <2>1 DEF Rows, Late
  <2>3. CASE s = work[x].shift
    <3>1. Late(s) = {}
      BY <1>5, <2>3, ShiftAfterClose DEF NoneLate, Late
    <3>2. QED
      BY <1>5, <2>2, <2>3, <3>1, ShiftAfterClose DEF RowsOnce
  <2>4. CASE s # work[x].shift
    <3>1. shift[s].status = "CLOSED" /\ snapshot'[s] = snapshot[s]
      BY <1>2, <1>5, <2>4, ShiftAfterClose
    <3>2. QED
      BY <1>1, <2>1, <2>2, <3>1 DEF RowsOnce
  <2>5. QED
    BY <2>3, <2>4
<1>6. ASSUME UNCHANGED <<shift, ledger, snapshot, reconciliation>>
      PROVE  RowsOnce(s)'
  BY <1>1, <1>2, <1>6 DEF RowsOnce, Late, Rows
<1>7. QED
  BY <1>3, <1>4, <1>5, <1>6, BookSteps

-----------------------------------------------------------------------------
(* The sum of a closed shift stays the one it was closed with.              *)
LEMMA SnapshotStep ==
  ASSUME TypeOK, WorkOK, LedgerOK, SnapshotOK, [Next]_vars
  PROVE  SnapshotOK'
<1> DEFINE Good(s) ==
      /\ snapshot[s].counted \subseteq Rows(s)
      /\ snapshot[s].expected_cash = ExpectedCash(shift[s].opening_cash, snapshot[s].counted)
<1>1. \A s \in Shifts : shift[s].status = "CLOSED" => Good(s)
  BY DEF SnapshotOK, Closed
<1>2. SUFFICES ASSUME NEW s \in Shifts, shift'[s].status = "CLOSED" PROVE Good(s)'
  BY DEF SnapshotOK, Closed
<1>3. shift[s].opening_cash \in Nat /\ Rows(s) \in SUBSET Events
  BY DEF TypeOK, ShiftRow, Rows
<1>4. ASSUME shift[s].status = "CLOSED", shift'[s] = shift[s], snapshot'[s] = snapshot[s],
             Rows(s) \subseteq Rows(s)', \A e \in Rows(s) : ledger'[e] = ledger[e]
      PROVE  Good(s)'
  <2>1. Good(s)
    BY <1>1, <1>4
  <2>2. ExpectedCash(shift[s].opening_cash, snapshot[s].counted)'
          = ExpectedCash(shift[s].opening_cash, snapshot[s].counted)
    <3>1. snapshot[s].counted \in SUBSET Events
      BY <2>1, <1>3
    <3>2. \A e \in snapshot[s].counted : ledger'[e] = ledger[e]
      BY <2>1, <1>4
    <3>3. [e \in snapshot[s].counted |-> ClosingSigned(ledger'[e].type, ledger'[e].amount)]
            = [e \in snapshot[s].counted |-> ClosingSigned(ledger[e].type, ledger[e].amount)]
      BY <3>2
    <3>4. QED
      BY <1>4, <3>3 DEF ExpectedCash, ClosingSigned
  <2>3. QED
    BY <1>4, <2>1, <2>2
<1>5. ASSUME NEW q \in Shifts, OpenShift(q)
      PROVE  Good(s)'
  <2>1. UNCHANGED <<ledger, snapshot>>
    BY <1>5 DEF OpenShift
  <2>2. QED
    BY <1>2, <1>4, <1>5, <2>1, ShiftAfterOpen, SameRows
<1>6. ASSUME NEW x \in Workers, WriteMovement(x)
      PROVE  Good(s)'
  <2>1. UNCHANGED <<shift, snapshot>>
    BY <1>6 DEF WriteMovement
  <2>2. Rows(s) \subseteq Rows(s)' /\ \A e \in Rows(s) : ledger'[e] = ledger[e]
    BY <1>6, RowsAfterMovement DEF Rows
  <2>3. QED
    BY <1>2, <1>4, <2>1, <2>2
<1>7. ASSUME NEW x \in Workers, WriteClose(x)
      PROVE  Good(s)'
  <2>1. UNCHANGED ledger /\ Rows(s)' = Rows(s)
    BY <1>7 DEF WriteClose, Rows
  <2>2. CASE s = work[x].shift
    <3>1. /\ snapshot'[s].counted = Rows(s)
          /\ snapshot'[s].expected_cash = ExpectedCash(shift[s].opening_cash, Rows(s))
          /\ shift'[s].opening_cash = shift[s].opening_cash
      BY <1>7, <2>2, ShiftAfterClose
    <3>2. QED
      BY <2>1, <3>1 DEF ExpectedCash, ClosingSigned
  <2>3. CASE s # work[x].shift
    BY <1>2, <1>4, <1>7, <2>1, <2>3, ShiftAfterClose
  <2>4. QED
    BY <2>2, <2>3
<1>8. ASSUME UNCHANGED <<shift, ledger, snapshot, reconciliation>>
      PROVE  Good(s)'
  BY <1>2, <1>4, <1>8, SameRows
<1>9. QED
  BY <1>5, <1>6, <1>7, <1>8, BookSteps

-----------------------------------------------------------------------------
LEMMA IInvInit == Init => IInv
<1> SUFFICES ASSUME Init PROVE IInv
  OBVIOUS
<1> USE CashShiftAssumption
<1>1. TypeOK
  <2>1. NoMovement \in Movement
    BY DEF NoMovement, Movement
  <2>2. [status |-> "NONE", opening_cash |-> 0, opened_at |-> 0, closed_at |-> 0] \in ShiftRow
    BY DEF ShiftRow
  <2>3. [counted |-> {}, expected_cash |-> 0, actual_cash |-> 0] \in Snapshot
    BY DEF Snapshot
  <2>4. QED
    BY <2>1, <2>2, <2>3, IdleWork DEF Init, TypeOK
<1>2. \A x \in Workers : ~Busy(x)
  BY IdleWork DEF Init, Busy
<1>3. Exclusive /\ WorkOK
  BY <1>2 DEF Exclusive, WorkOK, Busy, Moving, Closing
<1>4. \A e \in Events : ledger[e].type = "NONE" /\ reconciliation[e] = 0
  BY DEF Init, NoMovement
<1>5. Closed = {}
  BY DEF Init, Closed
<1>6. LedgerOK /\ NoneLate
  BY <1>4 DEF LedgerOK, NoneLate, Rows
<1>7. EveryRowOnce /\ SnapshotOK
  BY <1>5 DEF EveryRowOnce, SnapshotOK
<1>8. QED
  BY <1>1, <1>3, <1>6, <1>7 DEF IInv

LEMMA IInvStep == IInv /\ [Next]_vars => IInv'
BY TypeStep, ExclusiveStep, WorkStep, LedgerStep, NoneLateStep, EveryRowOnceStep, SnapshotStep
   DEF IInv

LEMMA IInvAlways == Spec => []IInv
BY IInvInit, IInvStep, PTL DEF Spec

(* Every cash movement of a closed shift is in the sum of its closing or   *)
(* has a reconciliation of its own amount, and not both, for any number of *)
(* concurrent commands and in whatever order they arrive.                  *)
THEOREM EveryRowAccountedOnce == Spec => []EveryRowOnce
BY IInvAlways, PTL DEF IInv

(* The books of one closed shift.                                          *)
LEMMA BooksOfShift ==
  ASSUME IInv, NEW s \in Closed, \A e \in Rows(s) : ledger[e].type # "CASH_REVERSAL"
  PROVE  BookedCash(s) = LedgerCash(s)
<1> DEFINE counted == snapshot[s].counted
           late == Late(s)
           signed == [e \in Rows(s) |-> Signed(ledger[e].type, ledger[e].amount)]
           closing == [e \in counted |-> ClosingSigned(ledger[e].type, ledger[e].amount)]
<1>1. s \in Shifts /\ shift[s].opening_cash \in Nat
  BY DEF IInv, TypeOK, Closed, ShiftRow
<1>2. /\ counted \cup late = Rows(s) /\ counted \cap late = {}
      /\ \A e \in late : reconciliation[e] = Signed(ledger[e].type, ledger[e].amount)
  BY DEF IInv, EveryRowOnce
<1>3. IsFiniteSet(counted) /\ IsFiniteSet(late)
  <2>1. Rows(s) \subseteq Events
    BY DEF Rows
  <2>2. QED
    BY <1>2, <2>1, RowsFinite
<1>4. \A e \in Rows(s) : /\ ledger[e].type \in Types /\ ledger[e].amount \in Nat
                         /\ signed[e] \in Int
                         /\ ClosingSigned(ledger[e].type, ledger[e].amount) = signed[e]
  <2> SUFFICES ASSUME NEW e \in Rows(s)
               PROVE  /\ ledger[e].type \in Types /\ ledger[e].amount \in Nat
                      /\ signed[e] \in Int
                      /\ ClosingSigned(ledger[e].type, ledger[e].amount) = signed[e]
    OBVIOUS
  <2>1. ledger[e] \in Movement /\ ledger[e].type # "NONE" /\ ledger[e].type # "CASH_REVERSAL"
    BY DEF IInv, TypeOK, Rows
  <2>2. ledger[e].type \in Types /\ ledger[e].amount \in Nat
    BY <2>1 DEF Movement
  <2>3. QED
    BY <2>1, <2>2 DEF Signed, ClosingSigned, Types, Ins, Outs
<1>5. SumFunctionOnSet(closing, counted) = SumFunctionOnSet(signed, counted)
  <2>1. \A e \in counted : closing[e] \in Int /\ closing[e] = signed[e]
    BY <1>2, <1>4
  <2> HIDE DEF closing, signed
  <2>2. QED
    BY <1>3, <2>1, SumSame
<1>6. SumFunctionOnSet(reconciliation, late) = SumFunctionOnSet(signed, late)
  <2>1. \A e \in late : reconciliation[e] \in Int /\ reconciliation[e] = signed[e]
    BY <1>2, <1>4
  <2> HIDE DEF signed
  <2>2. QED
    BY <1>3, <2>1, SumSame
<1>7. SumFunctionOnSet(signed, Rows(s))
        = SumFunctionOnSet(signed, counted) + SumFunctionOnSet(signed, late)
  <2>1. \A e \in counted \cup late : signed[e] \in Int
    BY <1>2, <1>4
  <2> HIDE DEF signed, counted, late
  <2>2. QED
    BY <1>2, <1>3, <2>1, SumUnion
<1>8. SumFunctionOnSet(signed, counted) \in Int /\ SumFunctionOnSet(signed, late) \in Int
  <2>1. \A e \in counted \cup late : signed[e] \in Int
    BY <1>2, <1>4
  <2> HIDE DEF signed, counted, late
  <2>2. QED
    BY <1>3, <2>1, SumInt
<1>9. snapshot[s].expected_cash = shift[s].opening_cash + SumFunctionOnSet(closing, counted)
  BY DEF IInv, SnapshotOK, ExpectedCash
<1>10. /\ LedgerCash(s) = shift[s].opening_cash + SumFunctionOnSet(signed, Rows(s))
       /\ BookedCash(s) = snapshot[s].expected_cash + SumFunctionOnSet(reconciliation, late)
  BY DEF LedgerCash, BookedCash
<1> HIDE DEF signed, closing, counted, late
<1>11. QED
  BY <1>1, <1>5, <1>6, <1>7, <1>8, <1>9, <1>10

(* What the books say a closed drawer should hold is what its movements    *)
(* add up to, unless a refund was reversed in it.                          *)
THEOREM ExpectedCashFromLedger == Spec => []ExpectedFromLedgerNoReversal
<1>1. IInv => ExpectedFromLedgerNoReversal
  BY BooksOfShift DEF ExpectedFromLedgerNoReversal
<1>2. QED
  BY <1>1, IInvAlways, PTL

(* Neither the row nor the snapshot of a closed shift changes, and no      *)
(* movement is rewritten.                                                  *)
THEOREM ClosedShiftIsFinal == Spec => ClosedIsFinal
<1> DEFINE Final ==
      /\ \A s \in Closed : shift'[s] = shift[s] /\ snapshot'[s] = snapshot[s]
      /\ \A e \in Events : ledger[e].type # "NONE" => ledger'[e] = ledger[e]
<1>1. ASSUME IInv, [Next]_vars
      PROVE  Final
  <2>1. TypeOK /\ WorkOK /\ LedgerOK
    BY <1>1 DEF IInv
  <2>2. ASSUME NEW s \in Shifts, OpenShift(s)
        PROVE  Final
    BY <2>1, <2>2, ShiftAfterOpen DEF OpenShift, Closed
  <2>3. ASSUME NEW x \in Workers, WriteMovement(x)
        PROVE  Final
    BY <2>1, <2>3, RowsAfterMovement DEF WriteMovement, Closed
  <2>4. ASSUME NEW x \in Workers, WriteClose(x)
        PROVE  Final
    BY <2>1, <2>4, ShiftAfterClose DEF WriteClose, Closed
  <2>5. QED
    BY <1>1, <2>1, <2>2, <2>3, <2>4, BookSteps
<1>2. IInv /\ [Next]_vars => [Final]_vars
  BY <1>1
<1>3. QED
  BY <1>2, IInvAlways, PTL DEF Spec, ClosedIsFinal

-----------------------------------------------------------------------------
(* The stock ledger and the cost of goods.                                 *)

(* The stock of product x after the first n of the movements L.            *)
Book(L, n, x) ==
  Opening[x] + SumFunctionOnSet([j \in {j \in 1 .. n : L[j].product = x} |-> L[j].delta],
                                {j \in 1 .. n : L[j].product = x})

(* By how much the movement at k pushed it further below zero.             *)
NegativeIn(L, k) ==
  LET after == Book(L, k, L[k].product)
  IN Greatest(0, Greatest(-after, 0) - Greatest(-(after - L[k].delta), 0))

SalesIn(L, x) == {k \in 1 .. Len(L) : L[k].kind = "SALE" /\ L[k].product = x}

(* Shortage dug by the sales at and after k.                               *)
DugFrom(L, x, k) ==
  SumFunctionOnSet([j \in {j \in SalesIn(L, x) : j >= k} |-> NegativeIn(L, j)],
                   {j \in SalesIn(L, x) : j >= k})

Deficit(q) == Greatest(-q, 0)

(* Units a sale has been given by receipts.                                *)
GivenTo(R, k) ==
  SumFunctionOnSet([r \in {r \in R : r.sale = k} |-> r.qty], {r \in R : r.sale = k})

BookOK == \A x \in Products : balance[x] = Book(movements, Len(movements), x)

PurchaseOK ==
  /\ \A p \in Purchases : purchase[p].status = "NONE" => purchase[p].version = 0
  /\ \A p \in Purchases : invoice[p].version <= purchase[p].version
  /\ \A p \in Purchases : invoice[p].lines \subseteq ItemsOf(p) \X Prices
  /\ \A i \in Items : line[i].landed # NoCost => purchase[Of[i]].status = "POSTED"

ReadingOK ==
  \A i \in Items : reading[i].product # NoCost =>
    /\ reading[i].product = Product[i]
    /\ purchase[Of[i]].status \notin {"NONE", "POSTED"}
    /\ purchase[Of[i]].version < MaxVersion
    /\ \A j \in Items : reading[j].product # NoCost /\ Of[j] = Of[i] => j = i
    /\ reading[i].qty < 0 =>
         /\ reading[i].qty = balance[Product[i]] /\ HasRows(Product[i])
         /\ \A j \in Items : reading[j].product = Product[i] => j = i

SeenOK ==
  \A p \in Purchases :
    /\ seen[p].version <= purchase[p].version
    /\ seen[p].version = purchase[p].version =>
         seen[p].invoice = invoice[p] /\ seen[p].received = ReceivedQty(p)

MovementsOK ==
  \A k \in 1 .. Len(movements) :
    /\ movements[k].kind = "SALE" /\ movements[k].status = "FINAL"
       /\ movements[k].product \notin overtaken =>
         Book(movements, k, movements[k].product) >= 0
    /\ movements[k].kind = "NONE" => movements[k].delta = 0
    /\ movements[k].kind = "PURCHASE_RECEIPT" <=> movements[k].item \in Items
    /\ movements[k].kind = "SALE" => movements[k].delta <= 0
    /\ movements[k].kind \in {"PURCHASE_RECEIPT", "CUSTOMER_RETURN"} => movements[k].delta >= 0

(* A sale of the ledger L that a receipt may have been given to: it pushed *)
(* the stock below zero, or its product is in the set O, so that the       *)
(* ledger may show another quantity than the sale saw.                     *)
Short(L, k, O) == NegativeIn(L, k) > 0 \/ L[k].product \in O

ReplacedOK ==
  /\ IsFiniteSet(replaced)
  /\ \A r \in replaced :
       /\ r.sale \in 1 .. Len(movements) /\ r.receipt \in 1 .. Len(movements)
       /\ movements[r.sale].kind = "SALE" /\ movements[r.receipt].item \in Items
       /\ Short(movements, r.sale, overtaken)
  /\ \A r, s \in replaced : r.sale = s.sale /\ r.receipt = s.receipt => r = s

CogsOK ==
  /\ IsFiniteSet(cogs)
  /\ \A c \in cogs :
       /\ \E r \in replaced : r.sale = c.sale /\ r.receipt = c.receipt /\ r.qty = c.qty
       /\ c.role = "PROVISIONAL" => c.delta = (c.unit - Value(movements[c.sale].unit)) * c.qty
       /\ c.role = "FINAL_DELTA" => line[movements[c.receipt].item].landed # NoCost
  /\ \A c, d \in cogs : c.sale = d.sale /\ c.receipt = d.receipt /\ c.role = d.role => c = d

(* An adjustment under way holds an empty row of the ledger of its own.    *)
AdjustingOK ==
  /\ \A a \in adjusting :
       /\ a.at \in 1 .. Len(movements)
       /\ movements[a.at].kind = "NONE" /\ movements[a.at].product = a.product
  /\ \A a, b \in adjusting : a.at = b.at => a = b

(* The present deficit is not more than what sales dug and receipts have   *)
(* not filled, counted from any sale that got something.                   *)
TailOK ==
  \A x \in Products : x \notin holes \cup overtaken =>
    /\ Deficit(balance[x]) <= DugFrom(movements, x, 1)
    /\ \A k \in SalesIn(movements, x) :
         /\ GivenTo(replaced, k) <= NegativeIn(movements, k)
         /\ GivenTo(replaced, k) = 0
            \/ GivenTo(replaced, k) <= DugFrom(movements, x, k) - Deficit(balance[x])
-----------------------------------------------------------------------------
(* Arithmetic.                                                             *)

LEMMA Money8Nat ==
  ASSUME NEW n \in Nat, NEW d \in Nat \ {0}
  PROVE  Money8(n, d) \in Nat
<1>1. 2 * n + d \in Nat /\ 2 * d \in Nat /\ 2 * d > 0
  OBVIOUS
<1>2. PICK a \in Nat, b \in Nat : a = 2 * n + d /\ b = 2 * d /\ b > 0
  BY <1>1
<1>3. a \div b \in Nat
  BY <1>2
<1>4. QED
  BY <1>2, <1>3 DEF Money8

LEMMA Extremes ==
  ASSUME NEW a \in Int, NEW b \in Int
  PROVE  /\ Least(a, b) \in Int /\ Least(a, b) <= a /\ Least(a, b) <= b
         /\ Least(a, b) = a \/ Least(a, b) = b
         /\ Greatest(a, b) \in Int /\ a <= Greatest(a, b) /\ b <= Greatest(a, b)
         /\ Greatest(a, b) = a \/ Greatest(a, b) = b
BY DEF Least, Greatest

LEMMA DeficitNat ==
  ASSUME NEW q \in Int
  PROVE  /\ Deficit(q) \in Nat /\ (q >= 0 => Deficit(q) = 0) /\ (q <= 0 => Deficit(q) = -q)
BY DEF Deficit, Greatest

-----------------------------------------------------------------------------
(* A movement is appended.                                                 *)

LEMMA Appended ==
  ASSUME NEW L \in Seq(StockMovement), NEW m \in StockMovement
  PROVE  /\ Append(L, m) \in Seq(StockMovement) /\ Len(L) \in Nat
         /\ Len(Append(L, m)) = Len(L) + 1
         /\ \A k \in 1 .. Len(L) : Append(L, m)[k] = L[k]
         /\ Append(L, m)[Len(L) + 1] = m
OBVIOUS

LEMMA MovementTyped ==
  ASSUME NEW L \in Seq(StockMovement), NEW k \in 1 .. Len(L)
  PROVE  /\ L[k] \in StockMovement /\ k \in Nat
         /\ L[k].delta \in Int /\ L[k].product \in Products /\ L[k].unit \in Cost
<1>1. L[k] \in StockMovement
  OBVIOUS
<1>2. k \in Nat
  OBVIOUS
<1>3. QED
  BY <1>1, <1>2 DEF StockMovement

LEMMA BookTerms ==
  ASSUME NEW L \in Seq(StockMovement), NEW n \in 0 .. Len(L), NEW x,
         NEW S, S = {j \in 1 .. n : L[j].product = x}
  PROVE  /\ IsFiniteSet(S) /\ \A j \in S : j \in 1 .. Len(L) /\ L[j].delta \in Int
<1>1. n \in Nat /\ Len(L) \in Nat /\ n <= Len(L)
  OBVIOUS
<1>2. S \subseteq 1 .. n /\ IsFiniteSet(1 .. n)
  BY <1>1, FS_Interval
<1>3. IsFiniteSet(S)
  BY <1>2, FS_Subset
<1>4. \A j \in S : j \in 1 .. Len(L)
  BY <1>1
<1>5. QED
  BY <1>3, <1>4, MovementTyped

LEMMA BookInt ==
  ASSUME NEW L \in Seq(StockMovement), NEW n \in 0 .. Len(L), NEW x \in Products
  PROVE  Book(L, n, x) \in Int
<1> DEFINE S == {j \in 1 .. n : L[j].product = x}
           f == [j \in S |-> L[j].delta]
<1>1. IsFiniteSet(S) /\ \A j \in S : f[j] \in Int
  BY BookTerms
<1>2. SumFunctionOnSet(f, S) \in Int
  <2> HIDE DEF S, f
  <2>1. QED BY <1>1, SumInt
<1>3. Opening[x] \in Int
  BY CostingAssumption
<1>4. QED
  BY <1>2, <1>3 DEF Book

LEMMA BookStable ==
  ASSUME NEW L \in Seq(StockMovement), NEW m \in StockMovement, NEW n \in 0 .. Len(L), NEW x
  PROVE  Book(Append(L, m), n, x) = Book(L, n, x)
<1> DEFINE S == {j \in 1 .. n : L[j].product = x}
           T == {j \in 1 .. n : Append(L, m)[j].product = x}
<1>1. \A j \in 1 .. n : Append(L, m)[j] = L[j]
  BY Appended
<1>2. S = T
  BY <1>1
<1>3. [j \in S |-> L[j].delta] = [j \in T |-> Append(L, m)[j].delta]
  BY <1>1, <1>2
<1>4. QED
  BY <1>2, <1>3 DEF Book

LEMMA BookNext ==
  ASSUME NEW L \in Seq(StockMovement), NEW m \in StockMovement, NEW x \in Products
  PROVE  Book(Append(L, m), Len(L) + 1, x)
           = Book(L, Len(L), x) + (IF m.product = x THEN m.delta ELSE 0)
<1> DEFINE n == Len(L)
           M == Append(L, m)
           S == {j \in 1 .. n : L[j].product = x}
           T == {j \in 1 .. n + 1 : M[j].product = x}
           f == [j \in S |-> L[j].delta]
           g == [j \in T |-> M[j].delta]
<1>1. /\ n \in Nat /\ M \in Seq(StockMovement) /\ Len(M) = n + 1 /\ M[n + 1] = m
      /\ \A j \in 1 .. n : M[j] = L[j]
  BY Appended
<1>2. IsFiniteSet(S) /\ \A j \in S : f[j] \in Int
  <2>1. n \in 0 .. Len(L)
    BY <1>1
  <2>2. IsFiniteSet(S) /\ \A j \in S : L[j].delta \in Int
    BY <2>1, BookTerms
  <2>3. QED
    BY <2>2
<1>3. n + 1 \notin S /\ m.delta \in Int /\ Opening[x] \in Int
  BY <1>1, CostingAssumption DEF StockMovement
<1>4. \A j \in S : j \in T /\ g[j] = f[j]
  BY <1>1
<1>5. CASE m.product = x
  <2>1. T = S \cup {n + 1} /\ g[n + 1] = m.delta
    BY <1>1, <1>5
  <2> HIDE DEF n, M, S, T, f, g
  <2>2. SumFunctionOnSet(g, S) = SumFunctionOnSet(f, S)
    BY <1>2, <1>4, SumSame
  <2>3. \A j \in S \cup {n + 1} : g[j] \in Int
    BY <1>2, <1>3, <1>4, <2>1
  <2>4. SumFunctionOnSet(g, T) = m.delta + SumFunctionOnSet(f, S)
    <3>1. PICK y : y = n + 1
      OBVIOUS
    <3>2. y \notin S /\ T = S \cup {y} /\ g[y] = m.delta /\ \A j \in S \cup {y} : g[j] \in Int
      BY <1>3, <2>1, <2>3, <3>1
    <3>3. SumFunctionOnSet(g, S \cup {y}) = g[y] + SumFunctionOnSet(g, S)
      BY <1>2, <3>2, SumAdd
    <3>4. QED
      BY <2>2, <3>2, <3>3
  <2>5. SumFunctionOnSet(f, S) \in Int
    BY <1>2, SumInt
  <2>6. Opening[x] + SumFunctionOnSet(g, T)
          = (Opening[x] + SumFunctionOnSet(f, S)) + m.delta
    BY <1>3, <2>4, <2>5
  <2>7. QED
    BY <1>5, <2>6 DEF Book, n, M, S, T, f, g
<1>6. CASE m.product # x
  <2>1. T = S
    BY <1>1, <1>6
  <2>2. g = f
    BY <1>1, <2>1
  <2>3. SumFunctionOnSet(f, S) \in Int
    <3> HIDE DEF n, M, S, T, f, g
    <3>1. QED BY <1>2, SumInt
  <2>4. Opening[x] + SumFunctionOnSet(g, T) = (Opening[x] + SumFunctionOnSet(f, S)) + 0
    <3> HIDE DEF n, M, S, T, f, g
    <3>1. QED BY <1>3, <2>1, <2>2, <2>3
  <2>5. QED
    BY <1>6, <2>4 DEF Book
<1>7. QED
  BY <1>5, <1>6

LEMMA NegativeNat ==
  ASSUME NEW L \in Seq(StockMovement), NEW k \in 1 .. Len(L)
  PROVE  /\ NegativeIn(L, k) \in Nat
         /\ NegativeIn(L, k) > 0 => Book(L, k, L[k].product) < 0
<1>1. k \in 0 .. Len(L) /\ L[k].product \in Products /\ L[k].delta \in Int
  BY MovementTyped
<1>2. PICK a \in Int, d \in Int : a = Book(L, k, L[k].product) /\ d = L[k].delta
  BY <1>1, BookInt
<1>3. NegativeIn(L, k) = Greatest(0, Greatest(-a, 0) - Greatest(-(a - d), 0))
  BY <1>2 DEF NegativeIn
<1>4. QED
  BY <1>2, <1>3 DEF Greatest

LEMMA NegativeStable ==
  ASSUME NEW L \in Seq(StockMovement), NEW m \in StockMovement, NEW k \in 1 .. Len(L)
  PROVE  NegativeIn(Append(L, m), k) = NegativeIn(L, k)
<1>1. Append(L, m)[k] = L[k] /\ k \in 0 .. Len(L)
  BY Appended
<1>2. Book(Append(L, m), k, L[k].product) = Book(L, k, L[k].product)
  BY <1>1, BookStable
<1>3. QED
  BY <1>1, <1>2 DEF NegativeIn

(* A sale digs exactly by how much it increases the deficit.               *)
LEMMA NegativeOfSale ==
  ASSUME NEW a \in Int, NEW d \in Int, d <= 0
  PROVE  Greatest(0, Greatest(-a, 0) - Greatest(-(a - d), 0)) = Deficit(a) - Deficit(a - d)
BY DEF Greatest, Deficit


-----------------------------------------------------------------------------
(* What sales have dug.                                                    *)

LEMMA SalesFinite ==
  ASSUME NEW L \in Seq(StockMovement), NEW x, NEW S \in SUBSET SalesIn(L, x)
  PROVE  /\ IsFiniteSet(S) /\ \A j \in S : j \in 1 .. Len(L) /\ NegativeIn(L, j) \in Nat
<1>1. Len(L) \in Nat /\ S \subseteq 1 .. Len(L)
  BY DEF SalesIn
<1>2. IsFiniteSet(1 .. Len(L))
  BY <1>1, FS_Interval
<1>3. IsFiniteSet(S)
  BY <1>1, <1>2, FS_Subset
<1>4. QED
  BY <1>1, <1>3, NegativeNat

LEMMA SalesNext ==
  ASSUME NEW L \in Seq(StockMovement), NEW m \in StockMovement, NEW x
  PROVE  /\ m.kind = "SALE" /\ m.product = x =>
              SalesIn(Append(L, m), x) = SalesIn(L, x) \cup {Len(L) + 1}
         /\ ~(m.kind = "SALE" /\ m.product = x) => SalesIn(Append(L, m), x) = SalesIn(L, x)
<1>1. PICK n : n = Len(L)
  OBVIOUS
<1>2. PICK M : M = Append(L, m)
  OBVIOUS
<1>3. n \in Nat /\ Len(M) = n + 1 /\ M[n + 1] = m /\ \A k \in 1 .. n : M[k] = L[k]
  BY <1>1, <1>2, Appended
<1>4. 1 .. n + 1 = (1 .. n) \cup {n + 1} /\ n + 1 \notin 1 .. n
  BY <1>3
<1>5. ASSUME NEW k
      PROVE  k \in SalesIn(M, x) <=>
               \/ k \in SalesIn(L, x)
               \/ k = n + 1 /\ m.kind = "SALE" /\ m.product = x
  BY <1>1, <1>3, <1>4 DEF SalesIn
<1>6. QED
  BY <1>1, <1>2, <1>5

(* Shortage dug by a set of sales.                                         *)
Dug(L, S) == SumFunctionOnSet([j \in S |-> NegativeIn(L, j)], S)

LEMMA DugNat ==
  ASSUME NEW L \in Seq(StockMovement), NEW x, NEW S \in SUBSET SalesIn(L, x)
  PROVE  Dug(L, S) \in Nat
<1> DEFINE f == [j \in S |-> NegativeIn(L, j)]
<1>1. IsFiniteSet(S) /\ \A j \in S : f[j] \in Nat
  BY SalesFinite
<1> HIDE DEF f
<1>2. SumFunctionOnSet(f, S) \in Nat
  BY <1>1, SumNat
<1>3. QED
  BY <1>2 DEF Dug, f

LEMMA DugOne ==
  ASSUME NEW L \in Seq(StockMovement), NEW x, NEW S \in SUBSET SalesIn(L, x),
         NEW y \in SalesIn(L, x), y \notin S
  PROVE  Dug(L, S \cup {y}) = NegativeIn(L, y) + Dug(L, S)
<1> DEFINE T == S \cup {y}
           f == [j \in T |-> NegativeIn(L, j)]
           g == [j \in S |-> NegativeIn(L, j)]
<1>1. T \in SUBSET SalesIn(L, x)
  OBVIOUS
<1>2. IsFiniteSet(S) /\ \A j \in T : NegativeIn(L, j) \in Nat
  BY <1>1, SalesFinite
<1>3. /\ \A j \in S \cup {y} : f[j] \in Int
      /\ \A j \in S : f[j] \in Int /\ f[j] = g[j]
      /\ f[y] = NegativeIn(L, y)
  BY <1>2
<1>4. Dug(L, T) = SumFunctionOnSet(f, S \cup {y}) /\ Dug(L, S) = SumFunctionOnSet(g, S)
  BY DEF Dug
<1> HIDE DEF T, f, g
<1>5. SumFunctionOnSet(f, S \cup {y}) = f[y] + SumFunctionOnSet(f, S)
  BY <1>2, <1>3, SumAdd
<1>6. SumFunctionOnSet(f, S) = SumFunctionOnSet(g, S)
  BY <1>2, <1>3, SumSame
<1>7. QED
  BY <1>3, <1>4, <1>5, <1>6 DEF T

LEMMA DugStable ==
  ASSUME NEW L \in Seq(StockMovement), NEW m \in StockMovement, NEW x,
         NEW S \in SUBSET SalesIn(L, x)
  PROVE  Dug(Append(L, m), S) = Dug(L, S)
<1>1. \A j \in S : j \in 1 .. Len(L)
  BY SalesFinite
<1>2. [j \in S |-> NegativeIn(Append(L, m), j)] = [j \in S |-> NegativeIn(L, j)]
  BY <1>1, NegativeStable
<1>3. QED
  BY <1>2 DEF Dug

LEMMA DugFromIs ==
  \A L, x, k : DugFrom(L, x, k) = Dug(L, {j \in SalesIn(L, x) : j >= k})
BY DEF DugFrom, Dug

LEMMA DugFromNat ==
  ASSUME NEW L \in Seq(StockMovement), NEW x, NEW k
  PROVE  DugFrom(L, x, k) \in Nat
<1>1. {j \in SalesIn(L, x) : j >= k} \in SUBSET SalesIn(L, x)
  OBVIOUS
<1>2. QED
  BY <1>1, DugNat, DugFromIs

(* The shortage dug from k on is that of k, if it is a sale, and the rest. *)
LEMMA DugFromSplit ==
  ASSUME NEW L \in Seq(StockMovement), NEW x, NEW k \in Nat
  PROVE  /\ k \in SalesIn(L, x) => DugFrom(L, x, k) = DugFrom(L, x, k + 1) + NegativeIn(L, k)
         /\ k \notin SalesIn(L, x) => DugFrom(L, x, k) = DugFrom(L, x, k + 1)
<1> DEFINE S == {j \in SalesIn(L, x) : j >= k + 1}
           T == {j \in SalesIn(L, x) : j >= k}
<1>1. \A j \in SalesIn(L, x) : j \in Nat
  BY DEF SalesIn
<1>2. S \in SUBSET SalesIn(L, x) /\ k \notin S
  BY <1>1
<1>3. Dug(L, S) \in Nat
  <2> HIDE DEF S
  <2>1. QED BY <1>2, DugNat
<1>4. CASE k \in SalesIn(L, x)
  <2>1. T = S \cup {k}
    <3>1. \A j \in SalesIn(L, x) : j >= k <=> j >= k + 1 \/ j = k
      BY <1>1
    <3>2. QED
      BY <1>4, <3>1
  <2>2. NegativeIn(L, k) \in Nat
    BY <1>4, SalesFinite
  <2>3. Dug(L, S \cup {k}) = NegativeIn(L, k) + Dug(L, S)
    <3> HIDE DEF S
    <3>1. QED BY <1>2, <1>4, DugOne
  <2>4. DugFrom(L, x, k) = Dug(L, S \cup {k}) /\ DugFrom(L, x, k + 1) = Dug(L, S)
    BY <2>1, DugFromIs
  <2>5. QED
    BY <1>3, <1>4, <2>2, <2>3, <2>4
<1>5. CASE k \notin SalesIn(L, x)
  <2>1. T = S
    BY <1>1, <1>5
  <2>2. DugFrom(L, x, k) = Dug(L, S) /\ DugFrom(L, x, k + 1) = Dug(L, S)
    BY <2>1, DugFromIs
  <2>3. QED
    BY <1>3, <1>5, <2>2
<1>6. QED
  BY <1>4, <1>5

(* A movement that is no sale of x digs nothing, a sale digs for itself.   *)
LEMMA DugFromNext ==
  ASSUME NEW L \in Seq(StockMovement), NEW m \in StockMovement, NEW x, NEW k \in 1 .. Len(L) + 1
  PROVE  /\ m.kind = "SALE" /\ m.product = x =>
              /\ DugFrom(Append(L, m), x, k)
                   = DugFrom(L, x, k) + NegativeIn(Append(L, m), Len(L) + 1)
              /\ NegativeIn(Append(L, m), Len(L) + 1) \in Nat
         /\ ~(m.kind = "SALE" /\ m.product = x) => DugFrom(Append(L, m), x, k) = DugFrom(L, x, k)
<1>1. PICK M : M = Append(L, m)
  OBVIOUS
<1>2. PICK n : n = Len(L)
  OBVIOUS
<1>3. n \in Nat /\ M \in Seq(StockMovement) /\ k \in Nat /\ k <= n + 1
  BY <1>1, <1>2, Appended
<1> DEFINE S == {j \in SalesIn(L, x) : j >= k}
           T == {j \in SalesIn(M, x) : j >= k}
<1>4. S \in SUBSET SalesIn(L, x) /\ n + 1 \notin S
  BY <1>2, <1>3 DEF SalesIn
<1>5. Dug(M, S) = Dug(L, S) /\ Dug(L, S) \in Nat
  <2> HIDE DEF S
  <2>1. QED BY <1>1, <1>4, DugStable, DugNat
<1>6. DugFrom(L, x, k) = Dug(L, S) /\ DugFrom(M, x, k) = Dug(M, T)
  BY DugFromIs
<1>7. CASE m.kind = "SALE" /\ m.product = x
  <2>1. SalesIn(M, x) = SalesIn(L, x) \cup {n + 1}
    BY <1>1, <1>2, <1>7, SalesNext
  <2>2. T = S \cup {n + 1} /\ S \in SUBSET SalesIn(M, x) /\ n + 1 \in SalesIn(M, x)
    BY <1>3, <2>1
  <2>3. NegativeIn(M, n + 1) \in Nat
    BY <1>3, <2>2, SalesFinite
  <2>4. Dug(M, S \cup {n + 1}) = NegativeIn(M, n + 1) + Dug(M, S)
    <3> HIDE DEF S, T
    <3>1. PICK y : y = n + 1
      OBVIOUS
    <3>2. QED BY <1>3, <1>4, <2>2, <3>1, DugOne
  <2>5. DugFrom(M, x, k) = DugFrom(L, x, k) + NegativeIn(M, n + 1)
    <3> HIDE DEF S, T
    <3>1. QED BY <1>5, <1>6, <2>2, <2>3, <2>4
  <2>6. QED
    BY <1>1, <1>2, <1>7, <2>3, <2>5
<1>8. CASE ~(m.kind = "SALE" /\ m.product = x)
  <2>1. SalesIn(M, x) = SalesIn(L, x)
    BY <1>1, <1>8, SalesNext
  <2>2. T = S
    BY <2>1
  <2>3. QED
    BY <1>1, <1>5, <1>6, <1>8, <2>2
<1>9. QED
  BY <1>7, <1>8

(* The newest sale digs by how much it increases the deficit.              *)
LEMMA NegativeNew ==
  ASSUME NEW L \in Seq(StockMovement), NEW m \in StockMovement, m.delta <= 0
  PROVE  NegativeIn(Append(L, m), Len(L) + 1)
           = Deficit(Book(L, Len(L), m.product) + m.delta) - Deficit(Book(L, Len(L), m.product))
<1>1. m.product \in Products /\ m.delta \in Int
  BY DEF StockMovement
<1>2. PICK a \in Int, d \in Int : a = Book(L, Len(L), m.product) /\ d = m.delta
  <2>1. Len(L) \in 0 .. Len(L)
    OBVIOUS
  <2>2. QED
    BY <1>1, <2>1, BookInt
<1>3. Book(Append(L, m), Len(L) + 1, m.product) = a + d
  BY <1>1, <1>2, BookNext
<1>4. Append(L, m)[Len(L) + 1] = m
  BY Appended
<1>5. NegativeIn(Append(L, m), Len(L) + 1)
        = Greatest(0, Greatest(-(a + d), 0) - Greatest(-((a + d) - d), 0))
  BY <1>2, <1>3, <1>4 DEF NegativeIn
<1>6. a + d \in Int /\ (a + d) - d = a
  BY <1>2
<1>7. d <= 0
  BY <1>2
<1>8. Greatest(0, Greatest(-(a + d), 0) - Greatest(-((a + d) - d), 0))
        = Deficit(a + d) - Deficit((a + d) - d)
  BY <1>6, <1>7, NegativeOfSale
<1>9. QED
  BY <1>2, <1>5, <1>6, <1>8

-----------------------------------------------------------------------------
(* Quantities received.                                                    *)

LEMMA TypedState ==
  ASSUME CostingTypeOK
  PROVE  /\ movements \in Seq(StockMovement) /\ Len(movements) \in Nat /\ Len(movements) <= MaxLedger
         /\ \A k \in 1 .. Len(movements) :
              /\ movements[k] \in StockMovement
              /\ movements[k].delta \in Int /\ movements[k].product \in Products
              /\ movements[k].unit \in Cost
         /\ \A x \in Products : balance[x] \in Int
<1>1. movements \in Seq(StockMovement) /\ Len(movements) <= MaxLedger
  BY DEF CostingTypeOK
<1>2. Len(movements) \in Nat
  BY <1>1
<1>3. \A x \in Products : balance[x] \in Int
  BY DEF CostingTypeOK
<1>4. QED
  BY <1>1, <1>2, <1>3, MovementTyped

LEMMA ReceiptsFinite ==
  ASSUME CostingTypeOK, NEW i
  PROVE  IsFiniteSet(Receipts(i)) /\ Receipts(i) \subseteq 1 .. Len(movements)
<1>1. Len(movements) \in Nat
  BY TypedState
<1>2. Receipts(i) \subseteq 1 .. Len(movements)
  BY DEF Receipts
<1>3. IsFiniteSet(1 .. Len(movements))
  BY <1>1, FS_Interval
<1>4. QED
  BY <1>2, <1>3, FS_Subset

LEMMA ReceiptDelta ==
  ASSUME CostingTypeOK, MovementsOK, NEW i \in Items, NEW k \in Receipts(i)
  PROVE  /\ k \in 1 .. Len(movements) /\ movements[k].delta \in Nat
         /\ movements[k].kind = "PURCHASE_RECEIPT"
<1>1. k \in 1 .. Len(movements) /\ movements[k].item = i
  BY DEF Receipts
<1>2. movements[k].kind = "PURCHASE_RECEIPT"
  BY <1>1 DEF MovementsOK
<1>3. movements[k].delta >= 0
  BY <1>1, <1>2 DEF MovementsOK
<1>4. movements[k].delta \in Int
  BY <1>1, TypedState
<1>5. QED
  BY <1>1, <1>2, <1>3, <1>4

LEMMA PhysicalNat ==
  ASSUME CostingTypeOK, MovementsOK, NEW i \in Items
  PROVE  PhysicalQty(i) \in Nat
<1> DEFINE S == Receipts(i)
           f == [k \in S |-> movements[k].delta]
<1>1. IsFiniteSet(S) /\ \A k \in S : f[k] \in Nat
  BY ReceiptsFinite, ReceiptDelta
<1>2. PhysicalQty(i) = SumFunctionOnSet(f, S)
  BY DEF PhysicalQty, Total
<1> HIDE DEF S, f
<1>3. QED
  BY <1>1, <1>2, SumNat

LEMMA ReceivedNat ==
  ASSUME CostingTypeOK, MovementsOK, NEW p \in Purchases
  PROVE  ReceivedQty(p) \in Nat
<1> DEFINE S == ItemsOf(p)
           f == [i \in S |-> PhysicalQty(i)]
<1>1. S \subseteq Items
  BY DEF ItemsOf
<1>2. IsFiniteSet(S)
  BY <1>1, CostingAssumption, FS_Subset
<1>3. \A i \in S : f[i] \in Nat
  BY <1>1, PhysicalNat
<1>4. ReceivedQty(p) = SumFunctionOnSet(f, S)
  BY DEF ReceivedQty, Total
<1> HIDE DEF S, f
<1>5. QED
  BY <1>2, <1>3, <1>4, SumNat

(* A movement that receives nothing of item i changes nothing of it.       *)
LEMMA PhysicalKept ==
  ASSUME CostingTypeOK, NEW m \in StockMovement, movements' = Append(movements, m),
         NEW i, m.item # i
  PROVE  PhysicalQty(i)' = PhysicalQty(i) /\ Receipts(i)' = Receipts(i)
<1>1. PICK n : n = Len(movements)
  OBVIOUS
<1>2. /\ n \in Nat /\ Len(movements') = n + 1 /\ movements'[n + 1] = m
      /\ \A k \in 1 .. n : movements'[k] = movements[k]
  BY <1>1, TypedState, Appended
<1>3. \A k \in 1 .. n + 1 : k \in 1 .. n \/ k = n + 1
  BY <1>2
<1>4. \A k \in 1 .. n : k \in 1 .. n + 1
  BY <1>2
<1>5. {k \in 1 .. n + 1 : movements'[k].item = i} = {k \in 1 .. n : movements[k].item = i}
  BY <1>2, <1>3, <1>4
<1>6. Receipts(i)' = Receipts(i)
  BY <1>1, <1>2, <1>5 DEF Receipts
<1>7. \A k \in Receipts(i) : movements'[k] = movements[k]
  BY <1>1, <1>2 DEF Receipts
<1>8. [k \in Receipts(i)' |-> movements'[k].delta] = [k \in Receipts(i) |-> movements[k].delta]
  BY <1>6, <1>7
<1>9. QED
  BY <1>6, <1>8 DEF PhysicalQty, Total

LEMMA ReceivedKept ==
  ASSUME CostingTypeOK, NEW m \in StockMovement, movements' = Append(movements, m),
         NEW p, m.item \notin ItemsOf(p)
  PROVE  ReceivedQty(p)' = ReceivedQty(p)
<1>1. \A i \in ItemsOf(p) : PhysicalQty(i)' = PhysicalQty(i)
  BY PhysicalKept
<1>2. [i \in ItemsOf(p) |-> PhysicalQty(i)'] = [i \in ItemsOf(p) |-> PhysicalQty(i)]
  BY <1>1
<1>3. QED
  BY <1>2 DEF ReceivedQty, Total, ItemsOf

LEMMA ReceivedSame ==
  ASSUME movements' = movements, NEW p
  PROVE  ReceivedQty(p)' = ReceivedQty(p)
BY DEF ReceivedQty, Total, ItemsOf, PhysicalQty, Receipts

-----------------------------------------------------------------------------
(* The replacements of a receipt.                                          *)

LEMMA NegativeIs ==
  ASSUME NEW k
  PROVE  NegativeQuantity(k) = NegativeIn(movements, k)
BY DEF NegativeQuantity, QuantityAfter, NegativeIn, Book, Total

LEMMA SalesAre ==
  ASSUME NEW x
  PROVE  Entries("SALE", x) = SalesIn(movements, x)
BY DEF Entries, SalesIn

LEMMA TailIs ==
  ASSUME CostingTypeOK, NEW x, NEW old \in Int, NEW k \in SalesIn(movements, x)
  PROVE  /\ UnresolvedTail(x, old, k)
              = Least(NegativeIn(movements, k), Greatest(0, -old - DugFrom(movements, x, k + 1)))
         /\ UnresolvedTail(x, old, k) \in Nat
<1> DEFINE S == {j \in SalesIn(movements, x) : j > k}
<1>1. movements \in Seq(StockMovement)
  BY TypedState
<1>2. \A j \in SalesIn(movements, x) : j \in Nat
  BY <1>1 DEF SalesIn
<1>3. S = {j \in SalesIn(movements, x) : j >= k + 1}
  BY <1>2
<1>4. [j \in S |-> NegativeQuantity(j)] = [j \in S |-> NegativeIn(movements, j)]
  BY NegativeIs
<1>5. Total(S, NegativeQuantity) = DugFrom(movements, x, k + 1)
  BY <1>3, <1>4, DugFromIs DEF Total, Dug
<1>6. {j \in Entries("SALE", x) : j > k} = S
  BY SalesAre
<1>7. UnresolvedTail(x, old, k)
        = Least(NegativeIn(movements, k), Greatest(0, -old - DugFrom(movements, x, k + 1)))
  BY <1>5, <1>6, NegativeIs DEF UnresolvedTail
<1>8. NegativeIn(movements, k) \in Nat
  BY <1>1, SalesFinite
<1>9. DugFrom(movements, x, k + 1) \in Nat
  BY <1>1, DugFromNat
<1>10. QED
  BY <1>7, <1>8, <1>9 DEF Least, Greatest

(* The open shortage of the sales before k.                                *)
OpenBefore(x, old, k) ==
  SumFunctionOnSet([j \in {j \in SalesIn(movements, x) : j < k} |-> UnresolvedTail(x, old, j)],
                   {j \in SalesIn(movements, x) : j < k})

LEMMA OpenNat ==
  ASSUME CostingTypeOK, NEW x, NEW old \in Int, NEW k
  PROVE  OpenBefore(x, old, k) \in Nat
<1> DEFINE S == {j \in SalesIn(movements, x) : j < k}
           f == [j \in S |-> UnresolvedTail(x, old, j)]
<1>1. S \in SUBSET SalesIn(movements, x)
  OBVIOUS
<1>2. IsFiniteSet(S)
  BY <1>1, TypedState, SalesFinite
<1>3. \A j \in S : f[j] \in Nat
  BY TailIs
<1>4. OpenBefore(x, old, k) = SumFunctionOnSet(f, S)
  BY DEF OpenBefore
<1> HIDE DEF S, f
<1>5. QED
  BY <1>2, <1>3, <1>4, SumNat

LEMMA OpenSplit ==
  ASSUME CostingTypeOK, NEW x, NEW old \in Int, NEW k \in Nat
  PROVE  /\ k \in SalesIn(movements, x) =>
              OpenBefore(x, old, k + 1) = OpenBefore(x, old, k) + UnresolvedTail(x, old, k)
         /\ k \notin SalesIn(movements, x) => OpenBefore(x, old, k + 1) = OpenBefore(x, old, k)
<1> DEFINE S == {j \in SalesIn(movements, x) : j < k}
           T == {j \in SalesIn(movements, x) : j < k + 1}
           f == [j \in S |-> UnresolvedTail(x, old, j)]
           g == [j \in T |-> UnresolvedTail(x, old, j)]
<1>1. \A j \in SalesIn(movements, x) : j \in Nat
  BY TypedState DEF SalesIn
<1>2. \A j \in SalesIn(movements, x) : j < k + 1 <=> j < k \/ j = k
  BY <1>1
<1>3. S \in SUBSET SalesIn(movements, x) /\ k \notin S
  BY <1>1
<1>4. IsFiniteSet(S)
  BY <1>3, TypedState, SalesFinite
<1>5. \A j \in SalesIn(movements, x) : UnresolvedTail(x, old, j) \in Nat
  BY TailIs
<1>6. OpenBefore(x, old, k) = SumFunctionOnSet(f, S) /\ OpenBefore(x, old, k + 1) = SumFunctionOnSet(g, T)
  BY DEF OpenBefore
<1>7. OpenBefore(x, old, k) \in Nat
  BY OpenNat
<1>8. CASE k \in SalesIn(movements, x)
  <2>1. T = S \cup {k}
    BY <1>2, <1>8
  <2>2. /\ \A j \in S \cup {k} : g[j] \in Int
        /\ \A j \in S : g[j] \in Int /\ g[j] = f[j]
        /\ g[k] = UnresolvedTail(x, old, k) /\ g[k] \in Nat
    BY <1>5, <1>8, <2>1
  <2> HIDE DEF S, T, f, g
  <2>3. SumFunctionOnSet(g, S \cup {k}) = g[k] + SumFunctionOnSet(g, S)
    BY <1>3, <1>4, <2>2, SumAdd
  <2>4. SumFunctionOnSet(g, S) = SumFunctionOnSet(f, S)
    BY <1>4, <2>2, SumSame
  <2>5. OpenBefore(x, old, k + 1) = OpenBefore(x, old, k) + g[k]
    BY <1>6, <1>7, <2>1, <2>2, <2>3, <2>4
  <2>6. QED
    BY <1>8, <2>2, <2>5
<1>9. CASE k \notin SalesIn(movements, x)
  <2>1. T = S
    BY <1>2, <1>9
  <2>2. QED
    BY <1>6, <1>9, <2>1
<1>10. QED
  BY <1>8, <1>9

(* If sales dug at least the present deficit, the sales before k have open *)
(* what the later ones cannot account for.                                 *)
LEMMA OpenEnough ==
  ASSUME CostingTypeOK, NEW x, NEW old \in Int, -old <= DugFrom(movements, x, 1),
         NEW k \in Nat \ {0}
  PROVE  OpenBefore(x, old, k) >= -old - DugFrom(movements, x, k)
<1> DEFINE Holds(n) == OpenBefore(x, old, n + 1) >= -old - DugFrom(movements, x, n + 1)
           B == {n \in Nat : Holds(n)}
<1>1. \A n \in Nat : OpenBefore(x, old, n) \in Nat /\ DugFrom(movements, x, n) \in Nat
  BY TypedState, OpenNat, DugFromNat
<1>2. 0 \in B
  <2>1. Holds(0)
    BY <1>1
  <2>2. QED
    BY <2>1
<1>3. ASSUME NEW n \in Nat, n \in B
      PROVE  n + 1 \in B
  <2>1. PICK j \in Nat : j = n + 1
    OBVIOUS
  <2>2. OpenBefore(x, old, j) >= -old - DugFrom(movements, x, j)
    BY <1>3, <2>1
  <2>3. OpenBefore(x, old, j + 1) >= -old - DugFrom(movements, x, j + 1)
    <3>1. /\ OpenBefore(x, old, j) \in Nat /\ OpenBefore(x, old, j + 1) \in Nat
          /\ DugFrom(movements, x, j) \in Nat /\ DugFrom(movements, x, j + 1) \in Nat
      BY <1>1
    <3>2. CASE j \in SalesIn(movements, x)
      <4>1. OpenBefore(x, old, j + 1) = OpenBefore(x, old, j) + UnresolvedTail(x, old, j)
        BY <3>2, OpenSplit
      <4>2. DugFrom(movements, x, j) = DugFrom(movements, x, j + 1) + NegativeIn(movements, j)
        BY <3>2, TypedState, DugFromSplit
      <4>3. NegativeIn(movements, j) \in Nat
        BY <3>2, TypedState, SalesFinite
      <4>4. UnresolvedTail(x, old, j)
              = Least(NegativeIn(movements, j), Greatest(0, -old - DugFrom(movements, x, j + 1)))
        BY <3>2, TailIs
      <4>5. QED
        BY <2>2, <3>1, <4>1, <4>2, <4>3, <4>4 DEF Least, Greatest
    <3>3. CASE j \notin SalesIn(movements, x)
      <4>1. OpenBefore(x, old, j + 1) = OpenBefore(x, old, j)
        BY <3>3, OpenSplit
      <4>2. DugFrom(movements, x, j) = DugFrom(movements, x, j + 1)
        BY <3>3, TypedState, DugFromSplit
      <4>3. QED
        BY <2>2, <4>1, <4>2
    <3>4. QED
      BY <3>2, <3>3
  <2>4. QED
    BY <2>1, <2>3
<1>4. Nat \subseteq B
  <2> HIDE DEF B
  <2>1. QED BY <1>2, <1>3, NaturalsIn
<1>5. k - 1 \in Nat /\ (k - 1) + 1 = k
  OBVIOUS
<1>6. QED
  BY <1>4, <1>5

LEMMA AllocatedIs ==
  ASSUME CostingTypeOK, NEW x, NEW old \in Int, NEW qty \in Nat, NEW k \in SalesIn(movements, x)
  PROVE  /\ Allocated(x, old, k, qty)
              = Least(UnresolvedTail(x, old, k),
                      Greatest(0, Least(qty, -old) - OpenBefore(x, old, k)))
         /\ Allocated(x, old, k, qty) \in Nat
         /\ Allocated(x, old, k, qty) <= NegativeIn(movements, k)
<1>1. Total({j \in Entries("SALE", x) : j < k}, LAMBDA j : UnresolvedTail(x, old, j))
        = OpenBefore(x, old, k)
  BY SalesAre DEF Total, OpenBefore
<1>2. Allocated(x, old, k, qty)
        = Least(UnresolvedTail(x, old, k),
                Greatest(0, Least(qty, -old) - OpenBefore(x, old, k)))
  BY <1>1 DEF Allocated
<1>3. UnresolvedTail(x, old, k) \in Nat /\ OpenBefore(x, old, k) \in Nat
  BY TailIs, OpenNat
<1>4. NegativeIn(movements, k) \in Nat /\ DugFrom(movements, x, k + 1) \in Nat
  BY TypedState, SalesFinite, DugFromNat
<1>5. UnresolvedTail(x, old, k) <= NegativeIn(movements, k)
  <2>1. UnresolvedTail(x, old, k)
          = Least(NegativeIn(movements, k), Greatest(0, -old - DugFrom(movements, x, k + 1)))
    BY TailIs
  <2>2. QED
    BY <1>4, <2>1 DEF Least, Greatest
<1>6. Allocated(x, old, k, qty) \in Nat /\ Allocated(x, old, k, qty) <= UnresolvedTail(x, old, k)
  BY <1>2, <1>3 DEF Least, Greatest
<1>7. QED
  BY <1>2, <1>3, <1>4, <1>5, <1>6

LEMMA ReplacementsAre ==
  ASSUME CostingTypeOK, NEW x, NEW old \in Int, NEW qty \in Nat
  PROVE  /\ IsFiniteSet(Replacements(x, old, qty))
         /\ \A r \in Replacements(x, old, qty) :
              /\ old < 0 /\ r.sale \in SalesIn(movements, x)
              /\ r = [sale |-> r.sale, receipt |-> Len(movements) + 1, qty |-> r.qty]
              /\ r.receipt = Len(movements) + 1
              /\ r.qty = Allocated(x, old, r.sale, qty) /\ r.qty \in Nat \ {0}
              /\ NegativeIn(movements, r.sale) > 0
<1> DEFINE K == {k \in Entries("SALE", x) : Allocated(x, old, k, qty) > 0}
           F(k) == [sale |-> k, receipt |-> Len(movements) + 1, qty |-> Allocated(x, old, k, qty)]
<1>1. K \in SUBSET SalesIn(movements, x)
  BY SalesAre
<1>2. IsFiniteSet(K)
  <2> HIDE DEF K
  <2>1. QED BY <1>1, TypedState, SalesFinite
<1>3. IsFiniteSet({F(k) : k \in K})
  <2> DEFINE g == [k \in K |-> F(k)]
  <2>1. {g[k] : k \in K} = {F(k) : k \in K}
    OBVIOUS
  <2> HIDE DEF K, F, g
  <2>2. QED BY <1>2, <2>1, ImageFinite
<1>4. CASE old >= 0
  <2>1. Replacements(x, old, qty) = {}
    BY <1>4 DEF Replacements
  <2>2. QED
    BY <2>1, FS_EmptySet
<1>5. CASE old < 0
  <2>1. Replacements(x, old, qty) = {F(k) : k \in K}
    BY <1>5 DEF Replacements
  <2>2. ASSUME NEW r \in Replacements(x, old, qty)
        PROVE  /\ old < 0 /\ r.sale \in SalesIn(movements, x)
               /\ r = [sale |-> r.sale, receipt |-> Len(movements) + 1, qty |-> r.qty]
               /\ r.receipt = Len(movements) + 1
               /\ r.qty = Allocated(x, old, r.sale, qty) /\ r.qty \in Nat \ {0}
               /\ NegativeIn(movements, r.sale) > 0
    <3>1. PICK k \in K : r = F(k)
      BY <2>1, <2>2
    <3>2. k \in SalesIn(movements, x) /\ Allocated(x, old, k, qty) > 0
      BY <1>1, <3>1
    <3>3. r.sale = k /\ r.receipt = Len(movements) + 1 /\ r.qty = Allocated(x, old, k, qty)
      BY <3>1
    <3>4. Allocated(x, old, k, qty) \in Nat /\ Allocated(x, old, k, qty) <= NegativeIn(movements, k)
      BY <3>2, AllocatedIs
    <3>5. NegativeIn(movements, k) \in Nat
      BY <3>2, TypedState, SalesFinite
    <3>6. NegativeIn(movements, k) > 0 /\ Allocated(x, old, k, qty) \in Nat \ {0}
      BY <3>2, <3>4, <3>5
    <3>7. r = [sale |-> r.sale, receipt |-> Len(movements) + 1, qty |-> r.qty]
      BY <3>1, <3>3
    <3>8. QED
      BY <1>5, <3>2, <3>3, <3>6, <3>7
  <2>3. QED
    BY <1>3, <2>1, <2>2
<1>6. QED
  BY <1>4, <1>5

(* A sale that gets something gets it in one row.                          *)
LEMMA ReplacementOf ==
  ASSUME CostingTypeOK, NEW x, NEW old \in Int, old < 0, NEW qty \in Nat,
         NEW k \in SalesIn(movements, x), Allocated(x, old, k, qty) > 0
  PROVE  {r \in Replacements(x, old, qty) : r.sale = k} =
           {[sale |-> k, receipt |-> Len(movements) + 1, qty |-> Allocated(x, old, k, qty)]}
<1> DEFINE s == [sale |-> k, receipt |-> Len(movements) + 1, qty |-> Allocated(x, old, k, qty)]
<1>1. s \in Replacements(x, old, qty) /\ s.sale = k
  BY SalesAre DEF Replacements
<1>2. \A r \in Replacements(x, old, qty) : r.sale = k => r = s
  BY ReplacementsAre
<1>3. QED
  BY <1>1, <1>2

-----------------------------------------------------------------------------
(* What a sale has been given.                                             *)

LEMMA GivenNat ==
  ASSUME NEW R, IsFiniteSet(R), \A r \in R : r.qty \in Nat, NEW k
  PROVE  GivenTo(R, k) \in Nat
<1> DEFINE S == {r \in R : r.sale = k}
           f == [r \in S |-> r.qty]
<1>1. IsFiniteSet(S)
  <2>1. S \subseteq R
    OBVIOUS
  <2>2. QED
    BY <2>1, FS_Subset
<1>2. \A r \in S : f[r] \in Nat
  OBVIOUS
<1>3. GivenTo(R, k) = SumFunctionOnSet(f, S)
  BY DEF GivenTo
<1> HIDE DEF S, f
<1>4. QED
  BY <1>1, <1>2, <1>3, SumNat

LEMMA GivenNothing ==
  ASSUME NEW R, NEW k, \A r \in R : r.sale # k
  PROVE  GivenTo(R, k) = 0
<1>1. {r \in R : r.sale = k} = {}
  OBVIOUS
<1>2. QED
  BY <1>1, SumEmpty DEF GivenTo

(* Of the rows Q, sale k gets the row s, which is not among the rows R.    *)
Gets(R, Q, k, s) ==
  /\ IsFiniteSet(R) /\ \A r \in R : r.qty \in Nat
  /\ s \in Q /\ s \notin R /\ s.sale = k /\ s.qty \in Nat
  /\ \A r \in Q : r.sale = k => r = s

LEMMA GivenMore ==
  ASSUME NEW R, NEW Q, NEW k, NEW s, Gets(R, Q, k, s)
  PROVE  GivenTo(R \cup Q, k) = GivenTo(R, k) + s.qty
<1> USE DEF Gets
<1> DEFINE S == {r \in R : r.sale = k}
           T == {r \in R \cup Q : r.sale = k}
           f == [r \in S |-> r.qty]
           g == [r \in T |-> r.qty]
<1>1. T = S \cup {s} /\ s \notin S
  OBVIOUS
<1>2. IsFiniteSet(S)
  <2>1. S \subseteq R
    OBVIOUS
  <2>2. QED
    BY <2>1, FS_Subset
<1>3. \A r \in S \cup {s} : g[r] \in Int
  BY <1>1
<1>4. \A r \in S : g[r] \in Int /\ g[r] = f[r]
  BY <1>1
<1>5. g[s] = s.qty
  BY <1>1
<1>6. GivenTo(R, k) = SumFunctionOnSet(f, S) /\ GivenTo(R \cup Q, k) = SumFunctionOnSet(g, T)
  BY DEF GivenTo
<1>7. GivenTo(R, k) \in Nat
  BY GivenNat
<1> HIDE DEF S, T, f, g
<1>8. SumFunctionOnSet(g, S \cup {s}) = g[s] + SumFunctionOnSet(g, S)
  BY <1>1, <1>2, <1>3, SumAdd
<1>9. SumFunctionOnSet(g, S) = SumFunctionOnSet(f, S)
  BY <1>2, <1>4, SumSame
<1>10. QED
  BY <1>1, <1>5, <1>6, <1>7, <1>8, <1>9

LEMMA GivenSame ==
  ASSUME NEW R, NEW Q, NEW k, \A r \in Q : r.sale # k
  PROVE  GivenTo(R \cup Q, k) = GivenTo(R, k)
<1>1. {r \in R \cup Q : r.sale = k} = {r \in R : r.sale = k}
  OBVIOUS
<1>2. QED
  BY <1>1 DEF GivenTo

-----------------------------------------------------------------------------
(* One movement is recorded.                                               *)

LEMMA RecordedBook ==
  ASSUME CostingTypeOK, BookOK, Room, NEW m \in StockMovement,
         movements' = Append(movements, m),
         balance' = [balance EXCEPT ![m.product] = balance[m.product] + m.delta]
  PROVE  /\ BookOK' /\ movements' \in Seq(StockMovement) /\ Len(movements') <= MaxLedger
         /\ Len(movements') = Len(movements) + 1
         /\ balance' \in [Products -> Int]
         /\ \A x \in Products : balance'[x] = balance[x] + (IF m.product = x THEN m.delta ELSE 0)
<1>1. /\ movements' \in Seq(StockMovement) /\ Len(movements') = Len(movements) + 1
      /\ Len(movements) \in Nat
  BY TypedState, Appended
<1>2. MaxLedger \in Nat
  BY CostingAssumption
<1>3. Len(movements') <= MaxLedger
  BY <1>1, <1>2 DEF Room
<1>4. m.delta \in Int /\ m.product \in Products
  BY DEF StockMovement
<1>5. balance \in [Products -> Int]
  BY DEF CostingTypeOK
<1>6. balance[m.product] + m.delta \in Int
  BY <1>4, <1>5
<1>7. balance' \in [Products -> Int]
  BY <1>5, <1>6
<1>8. \A x \in Products : balance'[x] = balance[x] + (IF m.product = x THEN m.delta ELSE 0)
  <2> TAKE x \in Products
  <2>1. balance[x] \in Int
    BY <1>5
  <2>2. CASE m.product = x
    BY <1>4, <1>5, <2>2
  <2>3. CASE m.product # x
    BY <1>4, <1>5, <2>1, <2>3
  <2>4. QED
    BY <2>2, <2>3
<1>9. BookOK'
  <2> SUFFICES ASSUME NEW x \in Products
               PROVE  balance'[x] = Book(movements', Len(movements'), x)
    BY DEF BookOK
  <2>1. balance[x] = Book(movements, Len(movements), x)
    BY DEF BookOK
  <2>2. Book(movements', Len(movements) + 1, x)
          = Book(movements, Len(movements), x) + (IF m.product = x THEN m.delta ELSE 0)
    BY TypedState, BookNext
  <2>3. balance'[x] = balance[x] + (IF m.product = x THEN m.delta ELSE 0)
    BY <1>8
  <2>4. QED
    BY <1>1, <2>1, <2>2, <2>3
<1>10. QED
  BY <1>1, <1>3, <1>7, <1>8, <1>9

(* What may be said of a new movement.                                     *)
Sound(m) ==
  /\ m.kind = "SALE" /\ m.status = "FINAL" => balance[m.product] + m.delta >= 0
  /\ m.kind = "NONE" => m.delta = 0
  /\ m.kind = "PURCHASE_RECEIPT" <=> m.item \in Items
  /\ m.kind = "SALE" => m.delta <= 0
  /\ m.kind \in {"PURCHASE_RECEIPT", "CUSTOMER_RETURN"} => m.delta >= 0

LEMMA RecordedMovements ==
  ASSUME CostingTypeOK, BookOK, MovementsOK, NEW m \in StockMovement, Sound(m),
         movements' = Append(movements, m), overtaken' = overtaken
  PROVE  MovementsOK'
<1>1. PICK n : n = Len(movements)
  OBVIOUS
<1>2. /\ n \in Nat /\ Len(movements') = n + 1 /\ movements'[n + 1] = m
      /\ \A k \in 1 .. n : movements'[k] = movements[k]
  BY <1>1, TypedState, Appended
<1> SUFFICES ASSUME NEW k \in 1 .. n + 1
             PROVE  /\ movements'[k].kind = "SALE" /\ movements'[k].status = "FINAL"
                       /\ movements'[k].product \notin overtaken =>
                         Book(movements', k, movements'[k].product) >= 0
                    /\ movements'[k].kind = "NONE" => movements'[k].delta = 0
                    /\ movements'[k].kind = "PURCHASE_RECEIPT" <=> movements'[k].item \in Items
                    /\ movements'[k].kind = "SALE" => movements'[k].delta <= 0
                    /\ movements'[k].kind \in {"PURCHASE_RECEIPT", "CUSTOMER_RETURN"} =>
                         movements'[k].delta >= 0
  BY <1>2 DEF MovementsOK
<1>3. CASE k \in 1 .. n
  <2>1. movements'[k] = movements[k] /\ k \in 0 .. n
    BY <1>2, <1>3
  <2>2. Book(movements', k, movements[k].product) = Book(movements, k, movements[k].product)
    BY <1>1, <2>1, TypedState, BookStable
  <2>3. QED
    BY <1>1, <1>3, <2>1, <2>2 DEF MovementsOK
<1>4. CASE k = n + 1
  <2>1. movements'[k] = m /\ m.product \in Products /\ m.delta \in Int
    BY <1>2, <1>4 DEF StockMovement
  <2>2. Book(movements', n + 1, m.product) = Book(movements, n, m.product) + m.delta
    BY <1>1, <2>1, TypedState, BookNext
  <2>3. Book(movements, n, m.product) = balance[m.product]
    BY <1>1, <2>1 DEF BookOK
  <2>4. QED
    BY <1>4, <2>1, <2>2, <2>3 DEF Sound
<1>5. QED
  BY <1>2, <1>3, <1>4

(* The rows that stand for earlier replacements still mean the same.       *)
LEMMA ReplacedKept ==
  ASSUME CostingTypeOK, ReplacedOK, NEW m \in StockMovement, movements' = Append(movements, m),
         overtaken' = overtaken, NEW r \in replaced
  PROVE  /\ r.sale \in 1 .. Len(movements) /\ r.receipt \in 1 .. Len(movements)
         /\ r.sale \in 1 .. Len(movements') /\ r.receipt \in 1 .. Len(movements')
         /\ movements'[r.sale] = movements[r.sale] /\ movements'[r.receipt] = movements[r.receipt]
         /\ movements'[r.sale].kind = "SALE" /\ movements'[r.receipt].item \in Items
         /\ Short(movements', r.sale, overtaken')
         /\ r.receipt # Len(movements) + 1
<1>1. PICK n : n = Len(movements)
  OBVIOUS
<1>2. /\ n \in Nat /\ Len(movements') = n + 1
      /\ \A k \in 1 .. n : movements'[k] = movements[k]
  BY <1>1, TypedState, Appended
<1>3. /\ r.sale \in 1 .. n /\ r.receipt \in 1 .. n
      /\ movements[r.sale].kind = "SALE" /\ movements[r.receipt].item \in Items
      /\ Short(movements, r.sale, overtaken)
  BY <1>1 DEF ReplacedOK
<1>4. NegativeIn(movements', r.sale) = NegativeIn(movements, r.sale)
  BY <1>1, <1>3, TypedState, NegativeStable
<1>5. \A k \in 1 .. n : k \in 1 .. n + 1 /\ k # n + 1
  BY <1>2
<1>6. QED
  BY <1>1, <1>2, <1>3, <1>4, <1>5 DEF Short

LEMMA RecordedReplaced ==
  ASSUME CostingTypeOK, ReplacedOK, NEW m \in StockMovement, movements' = Append(movements, m),
         UNCHANGED <<replaced, overtaken>>
  PROVE  ReplacedOK'
<1>1. \A r \in replaced :
        /\ r.sale \in 1 .. Len(movements') /\ r.receipt \in 1 .. Len(movements')
        /\ movements'[r.sale].kind = "SALE" /\ movements'[r.receipt].item \in Items
        /\ Short(movements', r.sale, overtaken')
  BY ReplacedKept
<1>2. QED
  BY <1>1 DEF ReplacedOK, Short

LEMMA RecordedAdjusting ==
  ASSUME CostingTypeOK, AdjustingOK, NEW m \in StockMovement, movements' = Append(movements, m),
         adjusting' = adjusting
  PROVE  AdjustingOK'
<1>1. PICK n : n = Len(movements)
  OBVIOUS
<1>2. /\ n \in Nat /\ Len(movements') = n + 1
      /\ \A k \in 1 .. n : movements'[k] = movements[k]
  BY <1>1, TypedState, Appended
<1>3. \A k \in 1 .. n : k \in 1 .. n + 1
  BY <1>2
<1>4. QED
  BY <1>1, <1>2, <1>3 DEF AdjustingOK

(* The corrections of the pair of a sale and a receipt.                    *)
CogsOf(C, s, t) == {c \in C : c.sale = s /\ c.receipt = t}
Corrected(C, s, t) ==
  SumFunctionOnSet([c \in CogsOf(C, s, t) |-> c.delta], CogsOf(C, s, t))

LEMMA CogsSettledIs ==
  CogsSettled <=>
    \A r \in replaced :
      line[movements[r.receipt].item].landed # NoCost =>
        Value(movements[r.sale].unit) * r.qty + Corrected(cogs, r.sale, r.receipt)
          = line[movements[r.receipt].item].landed * r.qty
BY DEF CogsSettled, Total, Corrected, CogsOf

LEMMA CogsSettledNext ==
  CogsSettled' <=>
    \A r \in replaced' :
      line'[movements'[r.receipt].item].landed # NoCost =>
        Value(movements'[r.sale].unit) * r.qty + Corrected(cogs', r.sale, r.receipt)
          = line'[movements'[r.receipt].item].landed * r.qty
BY DEF CogsSettled, Total, Corrected, CogsOf, Value

LEMMA RecordedCogs ==
  ASSUME CostingTypeOK, ReplacedOK, CogsOK, CogsSettled,
         NEW m \in StockMovement, movements' = Append(movements, m),
         UNCHANGED <<replaced, cogs, line, overtaken>>
  PROVE  CogsOK' /\ CogsSettled'
<1>1. \A r \in replaced : /\ movements'[r.sale] = movements[r.sale]
                          /\ movements'[r.receipt] = movements[r.receipt]
  BY ReplacedKept
<1>2. \A c \in cogs : /\ movements'[c.sale] = movements[c.sale]
                      /\ movements'[c.receipt] = movements[c.receipt]
  BY <1>1 DEF CogsOK
<1>3. CogsOK'
  BY <1>2 DEF CogsOK, Value
<1>4. CogsSettled'
  BY <1>1, CogsSettledIs, CogsSettledNext
<1>5. QED
  BY <1>3, <1>4

LEMMA RowsStay ==
  ASSUME CostingTypeOK, NEW m \in StockMovement, movements' = Append(movements, m),
         NEW x, HasRows(x)
  PROVE  HasRows(x)'
<1>1. PICK n : n = Len(movements)
  OBVIOUS
<1>2. /\ n \in Nat /\ Len(movements') = n + 1
      /\ \A k \in 1 .. n : movements'[k] = movements[k]
  BY <1>1, TypedState, Appended
<1>3. \A k \in 1 .. n : k \in 1 .. n + 1
  BY <1>2
<1>4. QED
  BY <1>1, <1>2, <1>3 DEF HasRows

LEMMA RecordedReading ==
  ASSUME CostingTypeOK, BookOK, ReadingOK, Room, NEW m \in StockMovement,
         movements' = Append(movements, m),
         balance' = [balance EXCEPT ![m.product] = balance[m.product] + m.delta],
         RowsFree(m.product) \/ m.delta = 0, UNCHANGED <<purchase, reading>>
  PROVE  ReadingOK'
<1> SUFFICES ASSUME NEW i \in Items, reading[i].product # NoCost
             PROVE  /\ reading[i].product = Product[i]
                    /\ purchase[Of[i]].status \notin {"NONE", "POSTED"}
                    /\ purchase[Of[i]].version < MaxVersion
                    /\ \A j \in Items : reading[j].product # NoCost /\ Of[j] = Of[i] => j = i
                    /\ reading[i].qty < 0 =>
                         /\ reading[i].qty = balance'[Product[i]] /\ HasRows(Product[i])'
                         /\ \A j \in Items : reading[j].product = Product[i] => j = i
  BY DEF ReadingOK
<1>1. /\ reading[i].product = Product[i]
      /\ purchase[Of[i]].status \notin {"NONE", "POSTED"}
      /\ purchase[Of[i]].version < MaxVersion
      /\ \A j \in Items : reading[j].product # NoCost /\ Of[j] = Of[i] => j = i
      /\ reading[i].qty < 0 =>
           /\ reading[i].qty = balance[Product[i]] /\ HasRows(Product[i])
           /\ \A j \in Items : reading[j].product = Product[i] => j = i
  BY DEF ReadingOK
<1>2. ASSUME reading[i].qty < 0
      PROVE  reading[i].qty = balance'[Product[i]] /\ HasRows(Product[i])'
  <2>1. HasRows(Product[i])'
    BY <1>1, <1>2, RowsStay
  <2>2. m.product # Product[i] \/ m.delta = 0
    BY <1>1, <1>2 DEF RowsFree
  <2>3. Product[i] \in Products /\ m.product \in Products
    BY CostingAssumption DEF StockMovement
  <2>4. balance'[Product[i]] = balance[Product[i]]
    BY <2>2, <2>3 DEF CostingTypeOK
  <2>5. QED
    BY <1>1, <1>2, <2>1, <2>4
<1>3. QED
  BY <1>1, <1>2

LEMMA RecordedSeen ==
  ASSUME CostingTypeOK, SeenOK, NEW m \in StockMovement, m.item \notin Items,
         movements' = Append(movements, m), UNCHANGED <<purchase, invoice, seen>>
  PROVE  SeenOK'
<1>1. \A p \in Purchases : ReceivedQty(p)' = ReceivedQty(p)
  BY ReceivedKept DEF ItemsOf
<1>2. QED
  BY <1>1 DEF SeenOK

-----------------------------------------------------------------------------
(* The invariant.                                                          *)
CostInv ==
  /\ CostingTypeOK /\ BookOK /\ PurchaseOK /\ ReadingOK /\ SeenOK /\ MovementsOK
  /\ ReplacedOK /\ CogsOK /\ CogsSettled /\ AdjustingOK

(* The step records m, which is not a receipt.                             *)
Records(m) ==
  /\ m \in StockMovement /\ Sound(m) /\ m.item \notin Items
  /\ Room /\ (RowsFree(m.product) \/ m.delta = 0)
  /\ movements' = Append(movements, m)
  /\ balance' = [balance EXCEPT ![m.product] = balance[m.product] + m.delta]

LEMMA OtherMovement ==
  ASSUME CostInv, NEW m, Records(m), cost' \in [Products -> [mwa : Cost, status : {"FINAL", "PROVISIONAL"}]],
         exempt' \subseteq Products, AdjustingOK',
         adjusting' \subseteq [at : 1 .. MaxLedger, product : Products, delta : Adjustments],
         UNCHANGED <<purchase, invoice, line, replaced, cogs, reading, seen, holes, overtaken>>
  PROVE  CostInv'
<1> USE DEF CostInv, Records
<1>1. /\ BookOK' /\ movements' \in Seq(StockMovement) /\ Len(movements') <= MaxLedger
      /\ balance' \in [Products -> Int]
  BY RecordedBook
<1>2. CostingTypeOK'
  BY <1>1 DEF CostingTypeOK
<1>3. PurchaseOK'
  BY DEF PurchaseOK, ItemsOf
<1>4. ReadingOK'
  BY RecordedReading
<1>5. SeenOK'
  BY RecordedSeen
<1>6. MovementsOK'
  BY RecordedMovements
<1>7. ReplacedOK'
  BY RecordedReplaced
<1>8. CogsOK' /\ CogsSettled'
  BY RecordedCogs
<1>9. QED
  BY <1>1, <1>2, <1>3, <1>4, <1>5, <1>6, <1>7, <1>8

LEMMA CostTyped ==
  ASSUME CostingTypeOK, NEW x \in Products
  PROVE  cost[x].mwa \in Cost /\ cost[x].status \in {"FINAL", "PROVISIONAL"}
BY DEF CostingTypeOK

LEMMA SaleRecords ==
  ASSUME CostInv, NEW x \in Products, NEW q \in SaleQty, SellGoods(x, q)
  PROVE  \E m : Records(m) /\ m.kind = "SALE"
<1> USE DEF CostInv
<1>1. PICK m : m = SaleEntry(x, q)
  OBVIOUS
<1>2. q \in Nat \ {0} /\ -q \in Int /\ MaxLedger \in Nat
  BY CostingAssumption
<1>3. SaleCostStatus(x, q) \in {"FINAL", "PROVISIONAL", "COST_PENDING"}
  BY DEF SaleCostStatus
<1>4. m \in StockMovement
  BY <1>1, <1>2, <1>3, CostTyped DEF SaleEntry, StockMovement
<1>5. /\ m.kind = "SALE" /\ m.product = x /\ m.delta = -q /\ m.status = SaleCostStatus(x, q)
      /\ m.item = NoCost
  BY <1>1 DEF SaleEntry
<1>6. balance[x] \in Int
  BY TypedState
<1>7. Sound(m)
  <2>1. m.status = "FINAL" => balance[x] - q >= 0
    BY <1>2, <1>5, <1>6 DEF SaleCostStatus
  <2>2. m.item \notin Items
    BY <1>5, CostingAssumption
  <2>3. QED
    BY <1>2, <1>5, <1>6, <2>1, <2>2 DEF Sound
<1>8. balance' = [balance EXCEPT ![m.product] = balance[m.product] + m.delta]
  <2>1. balance[x] - q = balance[x] + m.delta
    BY <1>2, <1>5, <1>6
  <2>2. QED
    BY <1>5, <2>1 DEF SellGoods
<1>9. m.item \notin Items
  BY <1>5, CostingAssumption
<1>10. Room /\ movements' = Append(movements, m) /\ RowsFree(m.product)
  BY <1>1, <1>5 DEF SellGoods
<1>11. QED
  BY <1>4, <1>5, <1>7, <1>8, <1>9, <1>10 DEF Records

LEMMA SellStep ==
  ASSUME CostInv, NEW x \in Products, NEW q \in SaleQty, SellGoods(x, q)
  PROVE  CostInv'
<1>1. PICK m : Records(m)
  BY SaleRecords
<1>2. UNCHANGED <<purchase, invoice, line, cost, replaced, cogs, reading, seen, exempt,
                  adjusting, holes, overtaken>>
  BY DEF SellGoods
<1>3. /\ cost' \in [Products -> [mwa : Cost, status : {"FINAL", "PROVISIONAL"}]]
      /\ exempt' \subseteq Products
      /\ adjusting' \subseteq [at : 1 .. MaxLedger, product : Products, delta : Adjustments]
  BY <1>2 DEF CostInv, CostingTypeOK
<1>4. AdjustingOK'
  BY <1>1, <1>2, RecordedAdjusting DEF CostInv, Records
<1>5. QED
  BY <1>1, <1>2, <1>3, <1>4, OtherMovement

-----------------------------------------------------------------------------
(* A stock adjustment: its empty row is appended and later filled in.      *)

LEMMA BeginRecords ==
  ASSUME CostInv, NEW x \in Products, NEW d \in Adjustments, BeginAdjustment(x, d)
  PROVE  \E m : /\ Records(m) /\ m.delta = 0 /\ m.kind = "NONE" /\ m.product = x
<1> USE DEF CostInv
<1>1. PICK m : m = [kind |-> "NONE", product |-> x, delta |-> 0, unit |-> NoCost,
                    status |-> "FINAL", accepted |-> 0, item |-> NoCost, of |-> 0]
  OBVIOUS
<1>2. MaxLedger \in Nat /\ NoCost \in Cost /\ 0 \in 0 .. MaxLedger
  BY CostingAssumption DEF Cost
<1>3. m \in StockMovement
  BY <1>1, <1>2 DEF StockMovement
<1>4. m.kind = "NONE" /\ m.product = x /\ m.delta = 0 /\ m.item = NoCost
  BY <1>1
<1>5. m.item \notin Items
  BY <1>4, CostingAssumption
<1>6. Sound(m)
  BY <1>4, <1>5 DEF Sound
<1>7. Room /\ movements' = Append(movements, m) /\ balance' = balance
  BY <1>1 DEF BeginAdjustment
<1>8. balance' = [balance EXCEPT ![m.product] = balance[m.product] + m.delta]
  <2>1. balance[x] \in Int /\ balance \in [Products -> Int]
    BY DEF CostingTypeOK
  <2>2. balance[x] + m.delta = balance[x]
    BY <1>4, <2>1
  <2>3. [balance EXCEPT ![x] = balance[x]] = balance
    BY <2>1
  <2>4. QED
    BY <1>4, <1>7, <2>2, <2>3
<1>9. QED
  BY <1>3, <1>4, <1>5, <1>6, <1>7, <1>8 DEF Records

LEMMA BeginStep ==
  ASSUME CostInv, NEW x \in Products, NEW d \in Adjustments, BeginAdjustment(x, d)
  PROVE  CostInv'
<1> USE DEF CostInv
<1>1. PICK m : Records(m) /\ m.kind = "NONE" /\ m.product = x
  BY BeginRecords
<1>2. UNCHANGED <<purchase, invoice, line, cost, replaced, cogs, reading, seen, exempt, holes,
                  overtaken>>
  BY DEF BeginAdjustment
<1>3. PICK n : n = Len(movements)
  OBVIOUS
<1>4. PICK a : a = [at |-> n + 1, product |-> x, delta |-> d]
  OBVIOUS
<1>5. adjusting' = adjusting \cup {a} /\ a.at = n + 1 /\ a.product = x
  BY <1>3, <1>4 DEF BeginAdjustment
<1>6. /\ n \in Nat /\ Len(movements') = n + 1 /\ movements'[n + 1] = m /\ n < MaxLedger
      /\ MaxLedger \in Nat /\ \A k \in 1 .. n : movements'[k] = movements[k]
  BY <1>1, <1>3, TypedState, Appended, CostingAssumption DEF Records, Room
<1>7. n + 1 \in 1 .. MaxLedger /\ n + 1 \in 1 .. n + 1
  BY <1>6
<1>8. \A k \in 1 .. n : k \in 1 .. n + 1 /\ k # n + 1
  BY <1>6
<1>9. AdjustingOK'
  <2>1. \A b \in adjusting :
          /\ b.at \in 1 .. n /\ movements[b.at].kind = "NONE"
          /\ movements[b.at].product = b.product
    BY <1>3 DEF AdjustingOK
  <2>2. \A b \in adjusting' :
          /\ b.at \in 1 .. Len(movements')
          /\ movements'[b.at].kind = "NONE" /\ movements'[b.at].product = b.product
    BY <1>1, <1>5, <1>6, <1>7, <1>8, <2>1
  <2>3. \A b, c \in adjusting' : b.at = c.at => b = c
    BY <1>5, <1>8, <2>1 DEF AdjustingOK
  <2>4. QED
    BY <2>2, <2>3 DEF AdjustingOK
<1>10. adjusting' \subseteq [at : 1 .. MaxLedger, product : Products, delta : Adjustments]
  BY <1>4, <1>5, <1>7 DEF CostingTypeOK
<1>11. /\ cost' \in [Products -> [mwa : Cost, status : {"FINAL", "PROVISIONAL"}]]
       /\ exempt' \subseteq Products
  BY <1>2 DEF CostingTypeOK
<1>12. QED
  BY <1>1, <1>2, <1>9, <1>10, <1>11, OtherMovement

(* M is the ledger L with its empty row k filled in by an adjustment m.    *)
Filled(L, k, m, M) ==
  /\ L \in Seq(StockMovement) /\ k \in 1 .. Len(L) /\ m \in StockMovement
  /\ L[k].kind = "NONE" /\ L[k].delta = 0 /\ L[k].product = m.product
  /\ m.kind = "ADJUSTMENT"
  /\ M = [L EXCEPT ![k] = m]

LEMMA FilledRows ==
  ASSUME NEW L, NEW k, NEW m, NEW M, Filled(L, k, m, M)
  PROVE  /\ M \in Seq(StockMovement) /\ Len(M) = Len(L) /\ Len(L) \in Nat /\ M[k] = m
         /\ \A j \in 1 .. Len(L) : (j # k => M[j] = L[j]) /\ M[j].product = L[j].product
<1> USE DEF Filled
<1>1. M \in Seq(StockMovement) /\ Len(M) = Len(L) /\ Len(L) \in Nat
  OBVIOUS
<1>2. M[k] = m /\ \A j \in 1 .. Len(L) : j # k => M[j] = L[j]
  OBVIOUS
<1>3. QED
  BY <1>1, <1>2

LEMMA FilledBook ==
  ASSUME NEW L, NEW k, NEW m, NEW M, Filled(L, k, m, M),
         NEW n \in 0 .. Len(L), NEW x \in Products
  PROVE  Book(M, n, x) = Book(L, n, x) + (IF m.product = x /\ k <= n THEN m.delta ELSE 0)
<1> DEFINE S == {j \in 1 .. n : L[j].product = x}
           T == {j \in 1 .. n : M[j].product = x}
           f == [j \in S |-> L[j].delta]
           g == [j \in S |-> M[j].delta]
<1>1. /\ M \in Seq(StockMovement) /\ Len(M) = Len(L) /\ Len(L) \in Nat /\ M[k] = m
      /\ \A j \in 1 .. Len(L) : (j # k => M[j] = L[j]) /\ M[j].product = L[j].product
      /\ L \in Seq(StockMovement) /\ k \in 1 .. Len(L) /\ L[k].delta = 0
      /\ L[k].product = m.product /\ m \in StockMovement
  BY FilledRows DEF Filled
<1>2. n \in Nat /\ \A j \in 1 .. n : j \in 1 .. Len(L)
  BY <1>1
<1>3. S = T
  BY <1>1, <1>2
<1>4. IsFiniteSet(S) /\ \A j \in S : L[j].delta \in Int
  <2>1. L \in Seq(StockMovement) /\ n \in 0 .. Len(L)
    BY <1>1
  <2>2. QED
    BY <2>1, BookTerms
<1>5. \A j \in T : M[j].delta \in Int
  <2>1. M \in Seq(StockMovement) /\ n \in 0 .. Len(M)
    BY <1>1
  <2>2. QED
    BY <2>1, BookTerms
<1>6. \A j \in S : f[j] \in Int /\ g[j] \in Int
  BY <1>3, <1>4, <1>5
<1>7. \A j \in S \ {k} : f[j] = g[j]
  BY <1>1, <1>2
<1>8. /\ Book(L, n, x) = Opening[x] + SumFunctionOnSet(f, S)
      /\ Book(M, n, x) = Opening[x] + SumFunctionOnSet(g, S)
  BY <1>3 DEF Book
<1>9. m.delta \in Int /\ Opening[x] \in Int
  BY <1>1, CostingAssumption DEF StockMovement
<1>10. SumFunctionOnSet(f, S) \in Int
  <2> HIDE DEF S, f
  <2>1. QED BY <1>4, <1>6, SumInt
<1>11. CASE m.product = x /\ k <= n
  <2>1. k \in S /\ f[k] = 0 /\ g[k] = m.delta
    BY <1>1, <1>2, <1>11
  <2> HIDE DEF S, T, f, g
  <2>2. SumFunctionOnSet(g, S) = (SumFunctionOnSet(f, S) - f[k]) + g[k]
    BY <1>4, <1>6, <1>7, <2>1, SumUpdate
  <2>3. QED
    BY <1>8, <1>9, <1>10, <1>11, <2>1, <2>2
<1>12. CASE ~(m.product = x /\ k <= n)
  <2>1. k \notin S
    BY <1>1, <1>2, <1>12
  <2>2. f = g
    BY <1>7, <2>1
  <2> HIDE DEF S, T, f, g
  <2>3. QED
    BY <1>8, <1>9, <1>10, <1>12, <2>2
<1>13. QED
  BY <1>11, <1>12

(* Rows before the one filled in, and those of other products, see no      *)
(* other quantity than before.                                             *)
LEMMA FilledBefore ==
  ASSUME NEW L, NEW k, NEW m, NEW M, Filled(L, k, m, M), NEW j \in 1 .. Len(L),
         j < k \/ (j # k /\ L[j].product # m.product)
  PROVE  /\ Book(M, j, L[j].product) = Book(L, j, L[j].product)
         /\ NegativeIn(M, j) = NegativeIn(L, j) /\ M[j] = L[j]
<1>1. L \in Seq(StockMovement) /\ k \in 1 .. Len(L) /\ Len(L) \in Nat
  BY DEF Filled
<1>2. j \in 0 .. Len(L) /\ j # k /\ ~(m.product = L[j].product /\ k <= j)
  BY <1>1
<1>3. M[j] = L[j]
  BY <1>2, FilledRows
<1>4. PICK x \in Products : x = L[j].product
  BY <1>1, MovementTyped
<1>5. Book(M, j, x) = Book(L, j, x) + 0
  BY <1>2, <1>4, FilledBook
<1>6. Book(L, j, x) \in Int
  BY <1>1, <1>2, BookInt
<1>7. Book(M, j, x) = Book(L, j, x)
  BY <1>5, <1>6
<1>8. QED
  BY <1>3, <1>4, <1>7 DEF NegativeIn

(* What the proof of a finished adjustment works with.                     *)
LEMMA FinishFacts ==
  ASSUME CostInv, NEW a \in adjusting, FinishAdjustment(a)
  PROVE  \E m : /\ Filled(movements, a.at, m, movements')
                /\ m.product = a.product /\ m.delta = a.delta /\ m.item \notin Items
                /\ balance' = [balance EXCEPT ![m.product] = balance[m.product] + m.delta]
                /\ RowsFree(m.product)
<1> USE DEF CostInv
<1>1. a \in [at : 1 .. MaxLedger, product : Products, delta : Adjustments]
  BY DEF CostingTypeOK
<1>2. a.product \in Products /\ a.delta \in Int
  BY <1>1, CostingAssumption
<1>3. PICK x \in Products : x = a.product
  BY <1>2
<1>4. PICK m : m = [kind |-> "ADJUSTMENT", product |-> x, delta |-> a.delta, unit |-> cost[x].mwa,
                    status |-> "FINAL", accepted |-> 0, item |-> NoCost, of |-> 0]
  OBVIOUS
<1>5. MaxLedger \in Nat /\ 0 \in 0 .. MaxLedger /\ NoCost \notin Items
  BY CostingAssumption
<1>6. m \in StockMovement
  BY <1>2, <1>4, <1>5, CostTyped DEF StockMovement
<1>7. m.kind = "ADJUSTMENT" /\ m.product = x /\ m.delta = a.delta /\ m.item = NoCost
  BY <1>4
<1>8. /\ a.at \in 1 .. Len(movements) /\ movements[a.at].kind = "NONE"
      /\ movements[a.at].product = x
  BY <1>3 DEF AdjustingOK
<1>9. movements[a.at].delta = 0
  BY <1>8 DEF MovementsOK
<1>10. /\ movements' = [movements EXCEPT ![a.at] = m] /\ RowsFree(x)
       /\ balance' = [balance EXCEPT ![x] = balance[x] + a.delta]
  BY <1>3, <1>4 DEF FinishAdjustment
<1>11. Filled(movements, a.at, m, movements')
  BY <1>6, <1>7, <1>8, <1>9, <1>10, TypedState DEF Filled
<1>12. QED
  BY <1>3, <1>5, <1>7, <1>10, <1>11

(* No receipt is touched.                                                  *)
LEMMA FilledReceived ==
  ASSUME CostInv, NEW k, NEW m, Filled(movements, k, m, movements'), m.item \notin Items,
         NEW p \in Purchases
  PROVE  ReceivedQty(p)' = ReceivedQty(p)
<1> USE DEF CostInv
<1>1. PICK n : n = Len(movements)
  OBVIOUS
<1>2. /\ Len(movements') = n /\ movements'[k] = m /\ k \in 1 .. n
      /\ \A j \in 1 .. n : j # k => movements'[j] = movements[j]
      /\ movements[k].kind = "NONE"
  BY <1>1, FilledRows DEF Filled
<1>3. movements[k].item \notin Items
  BY <1>1, <1>2 DEF MovementsOK
<1>4. ASSUME NEW i \in Items
      PROVE  PhysicalQty(i)' = PhysicalQty(i)
  <2>1. {j \in 1 .. n : movements'[j].item = i} = {j \in 1 .. n : movements[j].item = i}
    BY <1>2, <1>3, <1>4
  <2>2. Receipts(i)' = Receipts(i)
    BY <1>1, <1>2, <2>1 DEF Receipts
  <2>3. \A j \in Receipts(i) : movements'[j] = movements[j]
    BY <1>1, <1>2, <1>3, <1>4 DEF Receipts
  <2>4. [j \in Receipts(i)' |-> movements'[j].delta] = [j \in Receipts(i) |-> movements[j].delta]
    BY <2>2, <2>3
  <2>5. QED
    BY <2>2, <2>4 DEF PhysicalQty, Total
<1>5. \A i \in ItemsOf(p) : PhysicalQty(i)' = PhysicalQty(i)
  BY <1>4 DEF ItemsOf
<1>6. [i \in ItemsOf(p) |-> PhysicalQty(i)'] = [i \in ItemsOf(p) |-> PhysicalQty(i)]
  BY <1>5
<1>7. QED
  BY <1>6 DEF ReceivedQty, Total, ItemsOf

LEMMA FilledRowsStay ==
  ASSUME NEW k, NEW m, Filled(movements, k, m, movements'), NEW x, HasRows(x)
  PROVE  HasRows(x)'
<1>1. /\ Len(movements') = Len(movements) /\ movements[k].kind = "NONE"
      /\ \A j \in 1 .. Len(movements) : j # k => movements'[j] = movements[j]
  BY FilledRows DEF Filled
<1>2. QED
  BY <1>1 DEF HasRows

LEMMA FinishReading ==
  ASSUME CostInv, NEW k, NEW m, Filled(movements, k, m, movements'),
         balance' = [balance EXCEPT ![m.product] = balance[m.product] + m.delta],
         RowsFree(m.product), UNCHANGED <<purchase, reading>>
  PROVE  ReadingOK'
<1> USE DEF CostInv
<1> SUFFICES ASSUME NEW i \in Items, reading[i].product # NoCost
             PROVE  /\ reading[i].product = Product[i]
                    /\ purchase[Of[i]].status \notin {"NONE", "POSTED"}
                    /\ purchase[Of[i]].version < MaxVersion
                    /\ \A j \in Items : reading[j].product # NoCost /\ Of[j] = Of[i] => j = i
                    /\ reading[i].qty < 0 =>
                         /\ reading[i].qty = balance'[Product[i]] /\ HasRows(Product[i])'
                         /\ \A j \in Items : reading[j].product = Product[i] => j = i
  BY DEF ReadingOK
<1>1. /\ reading[i].product = Product[i]
      /\ purchase[Of[i]].status \notin {"NONE", "POSTED"}
      /\ purchase[Of[i]].version < MaxVersion
      /\ \A j \in Items : reading[j].product # NoCost /\ Of[j] = Of[i] => j = i
      /\ reading[i].qty < 0 =>
           /\ reading[i].qty = balance[Product[i]] /\ HasRows(Product[i])
           /\ \A j \in Items : reading[j].product = Product[i] => j = i
  BY DEF ReadingOK
<1>2. ASSUME reading[i].qty < 0
      PROVE  reading[i].qty = balance'[Product[i]] /\ HasRows(Product[i])'
  <2>1. HasRows(Product[i])'
    BY <1>1, <1>2, FilledRowsStay
  <2>2. m.product # Product[i]
    BY <1>1, <1>2 DEF RowsFree
  <2>3. Product[i] \in Products /\ m.product \in Products
    BY CostingAssumption DEF StockMovement, Filled
  <2>4. balance'[Product[i]] = balance[Product[i]]
    BY <2>2, <2>3 DEF CostingTypeOK
  <2>5. QED
    BY <1>1, <1>2, <2>1, <2>4
<1>3. QED
  BY <1>1, <1>2

LEMMA FinishBook ==
  ASSUME CostInv, NEW k, NEW m, Filled(movements, k, m, movements'),
         balance' = [balance EXCEPT ![m.product] = balance[m.product] + m.delta]
  PROVE  /\ BookOK' /\ balance' \in [Products -> Int]
         /\ \A x \in Products : balance'[x] = balance[x] + (IF m.product = x THEN m.delta ELSE 0)
<1> USE DEF CostInv
<1>1. m.delta \in Int /\ m.product \in Products /\ balance \in [Products -> Int]
  BY DEF Filled, StockMovement, CostingTypeOK
<1>2. balance[m.product] + m.delta \in Int
  BY <1>1
<1>3. balance' \in [Products -> Int]
  BY <1>1, <1>2
<1>4. ASSUME NEW x \in Products
      PROVE  balance'[x] = balance[x] + (IF m.product = x THEN m.delta ELSE 0)
  <2>1. balance[x] \in Int
    BY <1>1
  <2>2. CASE m.product = x
    BY <1>1, <2>2
  <2>3. CASE m.product # x
    BY <1>1, <2>1, <2>3
  <2>4. QED
    BY <2>2, <2>3
<1>5. ASSUME NEW x \in Products
      PROVE  balance'[x] = Book(movements', Len(movements'), x)
  <2>1. Len(movements') = Len(movements) /\ Len(movements) \in Nat
    BY FilledRows
  <2>2. Len(movements) \in 0 .. Len(movements) /\ k <= Len(movements)
    BY <2>1 DEF Filled
  <2>3. Book(movements', Len(movements), x)
          = Book(movements, Len(movements), x) + (IF m.product = x THEN m.delta ELSE 0)
    BY <2>2, FilledBook
  <2>4. balance[x] = Book(movements, Len(movements), x)
    BY DEF BookOK
  <2>5. QED
    BY <1>4, <2>1, <2>3, <2>4
<1>6. QED
  BY <1>3, <1>4, <1>5 DEF BookOK

LEMMA FinishStep ==
  ASSUME CostInv, NEW a \in adjusting, FinishAdjustment(a)
  PROVE  CostInv'
<1> USE DEF CostInv
<1>1. PICK m : /\ Filled(movements, a.at, m, movements')
               /\ m.product = a.product /\ m.delta = a.delta /\ m.item \notin Items
               /\ balance' = [balance EXCEPT ![m.product] = balance[m.product] + m.delta]
               /\ RowsFree(m.product)
  BY FinishFacts
<1>2. PICK n : n = Len(movements)
  OBVIOUS
<1>3. /\ movements' \in Seq(StockMovement) /\ Len(movements') = n /\ n \in Nat
      /\ movements'[a.at] = m /\ a.at \in 1 .. n /\ movements[a.at].kind = "NONE"
      /\ m.kind = "ADJUSTMENT" /\ m.product \in Products
      /\ \A j \in 1 .. n : j # a.at => movements'[j] = movements[j]
  BY <1>1, <1>2, FilledRows DEF Filled, StockMovement
<1>4. /\ UNCHANGED <<purchase, invoice, line, cost, replaced, cogs, reading, seen, exempt>>
      /\ adjusting' = adjusting \ {a}
      /\ holes' = holes \/ holes' = holes \cup {m.product}
      /\ overtaken' = overtaken \/ overtaken' = overtaken \cup {m.product}
      /\ (\E k \in SalesIn(movements, m.product) : k > a.at) => m.product \in overtaken'
  BY <1>1, SalesAre DEF FinishAdjustment
<1>5. BookOK' /\ balance' \in [Products -> Int]
  BY <1>1, FinishBook
<1>6. CostingTypeOK'
  BY <1>2, <1>3, <1>4, <1>5 DEF CostingTypeOK
<1>7. PurchaseOK'
  BY <1>4 DEF PurchaseOK, ItemsOf
<1>8. ReadingOK'
  BY <1>1, <1>4, FinishReading
<1>9. SeenOK'
  <2>1. \A p \in Purchases : ReceivedQty(p)' = ReceivedQty(p)
    BY <1>1, FilledReceived
  <2>2. QED
    BY <1>4, <2>1 DEF SeenOK
<1>10. ASSUME NEW j \in 1 .. n, movements[j].kind = "SALE",
              movements[j].product \notin overtaken'
       PROVE  /\ Book(movements', j, movements[j].product)
                   = Book(movements, j, movements[j].product)
              /\ NegativeIn(movements', j) = NegativeIn(movements, j)
  <2>1. j # a.at
    BY <1>3, <1>10
  <2>2. movements[j].product = m.product => ~(j > a.at)
    BY <1>2, <1>4, <1>10 DEF SalesIn
  <2>3. j < a.at \/ (j # a.at /\ movements[j].product # m.product)
    BY <1>3, <2>1, <2>2
  <2>4. QED
    BY <1>1, <1>2, <2>3, FilledBefore
<1>11. MovementsOK'
  <2> SUFFICES ASSUME NEW j \in 1 .. n
               PROVE  /\ movements'[j].kind = "SALE" /\ movements'[j].status = "FINAL"
                         /\ movements'[j].product \notin overtaken' =>
                           Book(movements', j, movements'[j].product) >= 0
                      /\ movements'[j].kind = "NONE" => movements'[j].delta = 0
                      /\ movements'[j].kind = "PURCHASE_RECEIPT" <=> movements'[j].item \in Items
                      /\ movements'[j].kind = "SALE" => movements'[j].delta <= 0
                      /\ movements'[j].kind \in {"PURCHASE_RECEIPT", "CUSTOMER_RETURN"} =>
                           movements'[j].delta >= 0
    BY <1>3 DEF MovementsOK
  <2>1. CASE j = a.at
    BY <1>1, <1>3, <2>1
  <2>2. CASE j # a.at
    <3>1. movements'[j] = movements[j]
      BY <1>3, <2>2
    <3>2. movements[j].product \notin overtaken' => movements[j].product \notin overtaken
      BY <1>4
    <3>3. QED
      BY <1>2, <1>10, <3>1, <3>2 DEF MovementsOK
  <2>3. QED
    BY <2>1, <2>2
<1>12. \A r \in replaced :
         /\ r.sale \in 1 .. n /\ r.receipt \in 1 .. n
         /\ movements'[r.sale] = movements[r.sale] /\ movements'[r.receipt] = movements[r.receipt]
         /\ movements[r.sale].kind = "SALE" /\ movements[r.receipt].item \in Items
         /\ Short(movements, r.sale, overtaken)
  <2> TAKE r \in replaced
  <2>1. /\ r.sale \in 1 .. n /\ r.receipt \in 1 .. n
        /\ movements[r.sale].kind = "SALE" /\ movements[r.receipt].item \in Items
        /\ Short(movements, r.sale, overtaken)
    BY <1>2 DEF ReplacedOK
  <2>2. r.sale # a.at /\ r.receipt # a.at
    BY <1>2, <1>3, <2>1 DEF MovementsOK
  <2>3. QED
    BY <1>3, <2>1, <2>2
<1>13. ReplacedOK'
  <2>1. \A r \in replaced : Short(movements', r.sale, overtaken')
    <3> TAKE r \in replaced
    <3>1. CASE movements[r.sale].product \in overtaken'
      BY <1>12, <3>1 DEF Short
    <3>2. CASE movements[r.sale].product \notin overtaken'
      <4>1. NegativeIn(movements', r.sale) = NegativeIn(movements, r.sale)
        BY <1>10, <1>12, <3>2
      <4>2. NegativeIn(movements, r.sale) > 0
        BY <1>4, <1>12, <3>2 DEF Short
      <4>3. QED
        BY <4>1, <4>2 DEF Short
    <3>3. QED
      BY <3>1, <3>2
  <2>2. QED
    BY <1>3, <1>4, <1>12, <2>1 DEF ReplacedOK, Short
<1>14. \A c \in cogs : /\ movements'[c.sale] = movements[c.sale]
                       /\ movements'[c.receipt] = movements[c.receipt]
  BY <1>12 DEF CogsOK
<1>15. CogsOK'
  BY <1>4, <1>14 DEF CogsOK, Value
<1>16. CogsSettled'
  BY <1>4, <1>12, CogsSettledIs, CogsSettledNext
<1>17. AdjustingOK'
  <2>1. \A b \in adjusting' : b \in adjusting /\ b.at # a.at
    BY <1>4 DEF AdjustingOK
  <2>2. QED
    BY <1>2, <1>3, <2>1 DEF AdjustingOK
<1>18. QED
  BY <1>5, <1>6, <1>7, <1>8, <1>9, <1>11, <1>13, <1>15, <1>16, <1>17

-----------------------------------------------------------------------------
(* A restocked return.                                                     *)

(* An average of two costs is a cost.                                      *)
LEMMA AverageNat ==
  ASSUME NEW a \in Int, a > 0, NEW c \in Nat, NEW q \in Nat, NEW u \in Nat
  PROVE  Money8(a * c + q * u, a + q) \in Nat
<1>1. PICK b \in Nat \ {0} : b = a
  OBVIOUS
<1>2. b * c \in Nat /\ q * u \in Nat
  OBVIOUS
<1>3. b * c + q * u \in Nat /\ b + q \in Nat \ {0}
  BY <1>2
<1>4. QED
  BY <1>1, <1>3, Money8Nat

LEMMA ReturnRecords ==
  ASSUME CostInv, NEW k \in 1 .. Len(movements), NEW q \in SaleQty, RestockReturn(k, q)
  PROVE  \E m : Records(m) /\ m.delta >= 0
<1> USE DEF CostInv
<1>1. PICK s : s = movements[k]
  OBVIOUS
<1>2. s \in StockMovement /\ Len(movements) <= MaxLedger /\ Len(movements) \in Nat
  BY <1>1, TypedState
<1>3. /\ s.product \in Products /\ s.unit \in Cost
      /\ s.status \in {"FINAL", "PROVISIONAL", "COST_PENDING"}
  BY <1>2 DEF StockMovement
<1>4. PICK x \in Products : x = s.product
  BY <1>3
<1>5. PICK m : m = [kind |-> "CUSTOMER_RETURN", product |-> x, delta |-> q, unit |-> s.unit,
                    status |-> s.status, accepted |-> 0, item |-> NoCost, of |-> k]
  OBVIOUS
<1>6. q \in Nat \ {0} /\ q \in Int /\ MaxLedger \in Nat
  BY CostingAssumption
<1>7. k \in 0 .. MaxLedger
  BY <1>2, <1>6
<1>8. m \in StockMovement
  BY <1>3, <1>5, <1>6, <1>7 DEF StockMovement
<1>9. m.kind = "CUSTOMER_RETURN" /\ m.product = x /\ m.delta = q /\ m.item = NoCost
  BY <1>5
<1>10. m.item \notin Items
  BY <1>9, CostingAssumption
<1>11. Sound(m)
  BY <1>6, <1>9, <1>10 DEF Sound
<1>12. /\ Room /\ movements' = Append(movements, m) /\ RowsFree(m.product)
       /\ balance' = [balance EXCEPT ![m.product] = balance[m.product] + m.delta]
  BY <1>1, <1>4, <1>5, <1>9 DEF RestockReturn
<1>13. Records(m)
  BY <1>8, <1>10, <1>11, <1>12 DEF Records
<1>14. m.delta >= 0
  BY <1>6, <1>9
<1>15. QED
  BY <1>13, <1>14

LEMMA ReturnStep ==
  ASSUME CostInv, NEW k \in 1 .. Len(movements), NEW q \in SaleQty, RestockReturn(k, q)
  PROVE  CostInv'
<1> USE DEF CostInv
<1>1. PICK s : s = movements[k]
  OBVIOUS
<1>2. s \in StockMovement
  BY <1>1, TypedState
<1>3. /\ s.product \in Products /\ s.unit \in Cost
      /\ s.status \in {"FINAL", "PROVISIONAL", "COST_PENDING"}
  BY <1>2 DEF StockMovement
<1>4. PICK x \in Products : x = s.product
  BY <1>3
<1>5. PICK m : Records(m)
  BY ReturnRecords
<1>6. q \in Nat
  BY CostingAssumption
<1>7. exempt' \subseteq Products
  <2>1. exempt' = exempt \/ exempt' = exempt \cup {x}
    BY <1>1, <1>4 DEF RestockReturn
  <2>2. QED
    BY <2>1 DEF CostingTypeOK
<1>8. cost' \in [Products -> [mwa : Cost, status : {"FINAL", "PROVISIONAL"}]]
  <2>1. cost \in [Products -> [mwa : Cost, status : {"FINAL", "PROVISIONAL"}]]
    BY DEF CostingTypeOK
  <2>2. CASE ~(s.unit # NoCost /\ s.status # "COST_PENDING")
    <3>1. cost' = cost
      BY <1>1, <2>2 DEF RestockReturn
    <3>2. QED
      BY <2>1, <3>1
  <2>3. CASE s.unit # NoCost /\ s.status # "COST_PENDING"
    <3>1. s.unit \in Nat /\ s.status \in {"FINAL", "PROVISIONAL"}
      BY <1>3, <2>3 DEF Cost
    <3>2. PICK u : u = IF balance[x] > 0 /\ cost[x].mwa # NoCost
                       THEN Money8(balance[x] * cost[x].mwa + q * s.unit, balance[x] + q)
                       ELSE s.unit
      OBVIOUS
    <3>3. cost' = [cost EXCEPT ![x] = [mwa |-> u, status |-> s.status]]
      BY <1>1, <1>4, <2>1, <2>3, <3>2 DEF RestockReturn
    <3>4. balance[x] \in Int /\ cost[x].mwa \in Cost
      BY TypedState, CostTyped
    <3>5. u \in Nat
      <4>1. CASE balance[x] > 0 /\ cost[x].mwa # NoCost
        <5>1. cost[x].mwa \in Nat
          BY <3>4, <4>1 DEF Cost
        <5>2. Money8(balance[x] * cost[x].mwa + q * s.unit, balance[x] + q) \in Nat
          BY <1>6, <3>1, <3>4, <4>1, <5>1, AverageNat
        <5>3. QED
          BY <3>2, <4>1, <5>2
      <4>2. CASE ~(balance[x] > 0 /\ cost[x].mwa # NoCost)
        BY <3>1, <3>2, <4>2
      <4>3. QED
        BY <4>1, <4>2
    <3>6. [mwa |-> u, status |-> s.status] \in [mwa : Cost, status : {"FINAL", "PROVISIONAL"}]
      BY <3>1, <3>5 DEF Cost
    <3>7. QED
      BY <2>1, <3>3, <3>6
  <2>4. QED
    BY <2>2, <2>3
<1>9. UNCHANGED <<purchase, invoice, line, replaced, cogs, reading, seen, adjusting, holes,
                  overtaken>>
  BY DEF RestockReturn
<1>10. AdjustingOK'
  BY <1>5, <1>9, RecordedAdjusting DEF Records
<1>11. adjusting' \subseteq [at : 1 .. MaxLedger, product : Products, delta : Adjustments]
  BY <1>9 DEF CostingTypeOK
<1>12. QED
  BY <1>5, <1>7, <1>8, <1>9, <1>10, <1>11, OtherMovement

-----------------------------------------------------------------------------
(* The steps that move no stock.                                           *)

LEMMA NothingMoved ==
  ASSUME CostInv, UNCHANGED <<movements, balance, replaced, overtaken>>,
         adjusting' \subseteq adjusting
  PROVE  BookOK' /\ MovementsOK' /\ ReplacedOK' /\ AdjustingOK'
<1>1. BookOK'
  BY DEF CostInv, BookOK
<1>2. MovementsOK'
  BY DEF CostInv, MovementsOK
<1>3. ReplacedOK'
  BY DEF CostInv, ReplacedOK, Short
<1>4. AdjustingOK'
  BY DEF CostInv, AdjustingOK
<1>5. QED
  BY <1>1, <1>2, <1>3, <1>4

LEMMA NothingSettled ==
  ASSUME CostInv, UNCHANGED <<movements, replaced, cogs>>,
         \A i \in Items : line'[i].landed = line[i].landed
  PROVE  CogsOK' /\ CogsSettled'
<1>1. \A r \in replaced : movements[r.receipt].item \in Items
  BY DEF CostInv, ReplacedOK
<1>2. \A c \in cogs : movements[c.receipt].item \in Items
  BY <1>1 DEF CostInv, CogsOK
<1>3. CogsOK'
  BY <1>2 DEF CostInv, CogsOK, Value
<1>4. CogsSettled'
  BY <1>1, CogsSettledIs, CogsSettledNext DEF CostInv
<1>5. QED
  BY <1>3, <1>4

LEMMA AbandonStep ==
  ASSUME CostInv, NEW a \in adjusting, AbandonAdjustment(a)
  PROVE  CostInv'
<1> USE DEF CostInv
<1>1. /\ UNCHANGED <<purchase, invoice, line, movements, balance, cost, replaced, cogs, reading,
                     seen, exempt, holes, overtaken>>
      /\ adjusting' \subseteq adjusting
  BY DEF AbandonAdjustment
<1>2. CostingTypeOK'
  BY <1>1 DEF CostingTypeOK
<1>3. BookOK' /\ MovementsOK' /\ ReplacedOK' /\ AdjustingOK' /\ CogsOK' /\ CogsSettled'
  BY <1>1, NothingMoved, NothingSettled
<1>4. PurchaseOK' /\ ReadingOK'
  BY <1>1 DEF PurchaseOK, ItemsOf, ReadingOK, HasRows
<1>5. SeenOK'
  BY <1>1, ReceivedSame DEF SeenOK
<1>6. QED
  BY <1>2, <1>3, <1>4, <1>5

LEMMA PurchaseTyped ==
  ASSUME CostingTypeOK, NEW p \in Purchases
  PROVE  /\ purchase[p] \in Purchase /\ purchase[p].version \in Nat
         /\ purchase[p].status \in {"NONE", "DRAFT", "PARTIALLY_RECEIVED", "RECEIVED",
                                    "READY_TO_POST", "POSTED"}
         /\ invoice[p] \in Invoice /\ invoice[p].version \in Nat
         /\ seen[p] \in [version : 0 .. MaxVersion, invoice : Invoice, received : Nat]
         /\ seen[p].version \in Nat
<1>1. purchase[p] \in Purchase /\ invoice[p] \in Invoice
  BY DEF CostingTypeOK
<1>2. seen[p] \in [version : 0 .. MaxVersion, invoice : Invoice, received : Nat]
  BY DEF CostingTypeOK
<1>3. MaxVersion \in Nat
  BY CostingAssumption
<1>4. QED
  BY <1>1, <1>2, <1>3 DEF Purchase, Invoice

LEMMA CreateStep ==
  ASSUME CostInv, NEW p \in Purchases, CreatePurchase(p)
  PROVE  CostInv'
<1> USE DEF CostInv
<1>1. PICK c : c = [purchase[p] EXCEPT !.status = "DRAFT", !.version = 1]
  OBVIOUS
<1>2. purchase \in [Purchases -> Purchase] /\ purchase[p].status = "NONE" /\ purchase[p].version = 0
  BY DEF CostingTypeOK, PurchaseOK, CreatePurchase
<1>3. purchase' = [purchase EXCEPT ![p] = c] /\ c.version = 1 /\ c.status = "DRAFT"
  BY <1>1, <1>2 DEF CreatePurchase, Purchase
<1>4. UNCHANGED <<invoice, line, movements, balance, cost, replaced, cogs, reading, seen, exempt,
                  adjusting, holes, overtaken>>
  BY DEF CreatePurchase
<1>5. \A q \in Purchases : q # p => purchase'[q] = purchase[q]
  BY <1>2, <1>3
<1>6. purchase'[p] = c
  BY <1>2, <1>3
<1>7. CostingTypeOK'
  <2>1. MaxVersion \in Nat \ {0}
    BY CostingAssumption
  <2>2. 1 \in 0 .. MaxVersion
    BY <2>1
  <2>3. c \in Purchase
    BY <1>1, <1>2, <2>2 DEF Purchase
  <2>4. purchase' \in [Purchases -> Purchase]
    BY <1>2, <1>3, <2>3
  <2>5. QED
    BY <1>4, <2>4 DEF CostingTypeOK
<1>8. BookOK' /\ MovementsOK' /\ ReplacedOK' /\ AdjustingOK' /\ CogsOK' /\ CogsSettled'
  BY <1>4, NothingMoved, NothingSettled
<1>9. PurchaseOK'
  <2>1. invoice[p].version <= 1
    BY <1>2, PurchaseTyped DEF PurchaseOK
  <2>2. \A q \in Purchases : purchase'[q].status = "NONE" => purchase'[q].version = 0
    BY <1>3, <1>5, <1>6 DEF PurchaseOK
  <2>3. \A q \in Purchases : invoice'[q].version <= purchase'[q].version
    BY <1>3, <1>4, <1>5, <1>6, <2>1 DEF PurchaseOK
  <2>4. \A q \in Purchases : invoice'[q].lines \subseteq ItemsOf(q) \X Prices
    BY <1>4 DEF PurchaseOK
  <2>5. \A i \in Items : line'[i].landed # NoCost => purchase'[Of[i]].status = "POSTED"
    BY <1>2, <1>4, <1>5, CostingAssumption DEF PurchaseOK
  <2>6. QED
    BY <2>2, <2>3, <2>4, <2>5 DEF PurchaseOK, ItemsOf
<1>10. ReadingOK'
  <2>1. \A i \in Items : reading[i].product # NoCost => purchase'[Of[i]] = purchase[Of[i]]
    BY <1>2, <1>5, CostingAssumption DEF ReadingOK
  <2>2. QED
    BY <1>4, <2>1 DEF ReadingOK, HasRows
<1>11. SeenOK'
  <2>1. seen[p].version <= 0 /\ seen[p].version \in Nat
    BY <1>2, PurchaseTyped DEF SeenOK
  <2>2. seen'[p].version <= purchase'[p].version /\ seen'[p].version # purchase'[p].version
    BY <1>3, <1>4, <1>6, <2>1
  <2>3. \A q \in Purchases : ReceivedQty(q)' = ReceivedQty(q)
    BY <1>4, ReceivedSame
  <2>4. QED
    BY <1>4, <1>5, <2>2, <2>3 DEF SeenOK
<1>12. QED
  BY <1>7, <1>8, <1>9, <1>10, <1>11

LEMMA LoadStep ==
  ASSUME CostInv, NEW p \in Purchases, LoadPurchase(p)
  PROVE  CostInv'
<1> USE DEF CostInv
<1>1. PICK s : s = [version |-> purchase[p].version, invoice |-> invoice[p],
                    received |-> ReceivedQty(p)]
  OBVIOUS
<1>2. /\ seen' = [seen EXCEPT ![p] = s]
      /\ UNCHANGED <<purchase, invoice, line, movements, balance, cost, replaced, cogs, reading,
                     exempt, adjusting, holes, overtaken>>
  BY <1>1 DEF LoadPurchase
<1>3. seen \in [Purchases -> [version : 0 .. MaxVersion, invoice : Invoice, received : Nat]]
  BY DEF CostingTypeOK
<1>4. purchase[p].version \in 0 .. MaxVersion /\ purchase[p].version \in Nat
  BY PurchaseTyped DEF Purchase
<1>5. s \in [version : 0 .. MaxVersion, invoice : Invoice, received : Nat]
  BY <1>1, <1>4, ReceivedNat, PurchaseTyped
<1>6. CostingTypeOK'
  <2>1. seen' \in [Purchases -> [version : 0 .. MaxVersion, invoice : Invoice, received : Nat]]
    BY <1>2, <1>3, <1>5
  <2>2. QED
    BY <1>2, <2>1 DEF CostingTypeOK
<1>7. BookOK' /\ MovementsOK' /\ ReplacedOK' /\ AdjustingOK' /\ CogsOK' /\ CogsSettled'
  BY <1>2, NothingMoved, NothingSettled
<1>8. PurchaseOK'
  BY <1>2 DEF PurchaseOK, ItemsOf
<1>9. ReadingOK'
  BY <1>2 DEF ReadingOK, HasRows
<1>10. SeenOK'
  <2>1. \A q \in Purchases : ReceivedQty(q)' = ReceivedQty(q)
    BY <1>2, ReceivedSame
  <2>2. seen'[p] = s /\ \A q \in Purchases : q # p => seen'[q] = seen[q]
    BY <1>2, <1>3
  <2>3. s.version = purchase[p].version /\ s.invoice = invoice[p] /\ s.received = ReceivedQty(p)
    BY <1>1
  <2>4. QED
    BY <1>2, <1>4, <2>1, <2>2, <2>3 DEF SeenOK
<1>11. QED
  BY <1>6, <1>7, <1>8, <1>9, <1>10

(* Stock below zero has been moved, so it has rows.                        *)
LEMMA ShortHasRows ==
  ASSUME CostingTypeOK, BookOK, MovementsOK, NEW x \in Products, balance[x] < 0
  PROVE  HasRows(x)
<1> DEFINE S == {j \in 1 .. Len(movements) : movements[j].product = x}
           f == [j \in S |-> movements[j].delta]
<1>1. Opening[x] \in Nat
  BY CostingAssumption
<1>2. SUFFICES ASSUME \A k \in S : movements[k].kind = "NONE"
               PROVE  FALSE
  BY DEF HasRows
<1>3. IsFiniteSet(S)
  <2>1. Len(movements) \in 0 .. Len(movements) /\ movements \in Seq(StockMovement)
    BY TypedState
  <2>2. QED
    BY <2>1, BookTerms
<1>4. \A j \in S : f[j] = 0
  BY <1>2 DEF MovementsOK
<1>5. Book(movements, Len(movements), x) = Opening[x] + SumFunctionOnSet(f, S)
  BY DEF Book
<1>6. SumFunctionOnSet(f, S) = 0
  <2> HIDE DEF S, f
  <2>1. QED BY <1>3, <1>4, SumZero
<1>7. QED
  BY <1>1, <1>5, <1>6 DEF BookOK

LEMMA ReadStep ==
  ASSUME CostInv, NEW i \in Items, ReadStock(i)
  PROVE  CostInv'
<1> USE DEF CostInv
<1>1. PICK x : x = Product[i]
  OBVIOUS
<1>2. x \in Products /\ Of[i] \in Purchases
  BY <1>1, CostingAssumption
<1>3. PICK r : r = [product |-> x, qty |-> balance[x], mwa |-> cost[x].mwa]
  OBVIOUS
<1>4. /\ reading' = [reading EXCEPT ![i] = r]
      /\ UNCHANGED <<purchase, invoice, line, movements, balance, cost, replaced, cogs, seen,
                     exempt, adjusting, holes, overtaken>>
      /\ StillOpen(Of[i]) /\ RowsFree(x)
      /\ \A j \in ItemsOf(Of[i]) : reading[j].product = NoCost
  BY <1>1, <1>3 DEF ReadStock
<1>5. reading \in [Items -> [product : Products \cup {NoCost}, qty : Int, mwa : Cost]]
  BY DEF CostingTypeOK
<1>6. r \in [product : Products \cup {NoCost}, qty : Int, mwa : Cost]
  BY <1>2, <1>3, TypedState, CostTyped
<1>7. CostingTypeOK'
  <2>1. reading' \in [Items -> [product : Products \cup {NoCost}, qty : Int, mwa : Cost]]
    BY <1>4, <1>5, <1>6
  <2>2. QED
    BY <1>4, <2>1 DEF CostingTypeOK
<1>8. BookOK' /\ MovementsOK' /\ ReplacedOK' /\ AdjustingOK' /\ CogsOK' /\ CogsSettled'
  BY <1>4, NothingMoved, NothingSettled
<1>9. PurchaseOK'
  BY <1>4 DEF PurchaseOK, ItemsOf
<1>10. SeenOK'
  <2>1. \A q \in Purchases : ReceivedQty(q)' = ReceivedQty(q)
    BY <1>4, ReceivedSame
  <2>2. QED
    BY <1>4, <2>1 DEF SeenOK
<1>11. ReadingOK'
  <2>1. /\ reading'[i] = r /\ r.product = x /\ r.qty = balance[x]
        /\ \A j \in Items : j # i => reading'[j] = reading[j]
    BY <1>3, <1>4, <1>5
  <2>2. \A j \in Items : Of[j] = Of[i] => reading[j].product = NoCost
    BY <1>4 DEF ItemsOf
  <2>3. HasRows(x) => \A j \in Items : reading[j].product # x
    BY <1>4 DEF RowsFree
  <2>4. balance[x] < 0 => HasRows(x)
    BY <1>2, ShortHasRows
  <2>5. ASSUME NEW j \in Items, reading'[j].product # NoCost
        PROVE  /\ reading'[j].product = Product[j]
               /\ purchase[Of[j]].status \notin {"NONE", "POSTED"}
               /\ purchase[Of[j]].version < MaxVersion
               /\ \A l \in Items : reading'[l].product # NoCost /\ Of[l] = Of[j] => l = j
               /\ reading'[j].qty < 0 =>
                    /\ reading'[j].qty = balance[Product[j]] /\ HasRows(Product[j])
                    /\ \A l \in Items : reading'[l].product = Product[j] => l = j
    <3>1. CASE j = i
      <4>1. purchase[Of[j]].status \notin {"NONE", "POSTED"} /\ purchase[Of[j]].version < MaxVersion
        BY <1>4, <3>1 DEF StillOpen, Bump
      <4>2. \A l \in Items : reading'[l].product # NoCost /\ Of[l] = Of[j] => l = j
        BY <2>1, <2>2, <3>1
      <4>3. reading'[j].qty < 0 =>
              /\ reading'[j].qty = balance[Product[j]] /\ HasRows(Product[j])
              /\ \A l \in Items : reading'[l].product = Product[j] => l = j
        BY <1>1, <2>1, <2>3, <2>4, <3>1
      <4>4. QED
        BY <1>1, <2>1, <3>1, <4>1, <4>2, <4>3
    <3>2. CASE j # i
      <4>1. reading'[j] = reading[j] /\ reading[j].product # NoCost
        BY <2>1, <2>5, <3>2
      <4>2. /\ reading[j].product = Product[j]
            /\ purchase[Of[j]].status \notin {"NONE", "POSTED"}
            /\ purchase[Of[j]].version < MaxVersion
            /\ \A l \in Items : reading[l].product # NoCost /\ Of[l] = Of[j] => l = j
            /\ reading[j].qty < 0 =>
                 /\ reading[j].qty = balance[Product[j]] /\ HasRows(Product[j])
                 /\ \A l \in Items : reading[l].product = Product[j] => l = j
        BY <4>1 DEF ReadingOK
      <4>3. Of[j] # Of[i]
        BY <2>2, <4>1
      <4>4. \A l \in Items : reading'[l].product # NoCost /\ Of[l] = Of[j] => l = j
        BY <2>1, <4>2, <4>3
      <4>5. HasRows(Product[j]) => Product[j] # x
        BY <2>3, <4>2
      <4>6. reading'[j].qty < 0 => \A l \in Items : reading'[l].product = Product[j] => l = j
        BY <2>1, <4>1, <4>2, <4>5
      <4>7. QED
        BY <4>1, <4>2, <4>4, <4>6
    <3>3. QED
      BY <3>1, <3>2
  <2>6. \A y : HasRows(y)' <=> HasRows(y)
    BY <1>4 DEF HasRows
  <2>7. QED
    BY <1>4, <2>5, <2>6 DEF ReadingOK
<1>12. QED
  BY <1>7, <1>8, <1>9, <1>10, <1>11

LEMMA InvoiceLinesAre ==
  ASSUME NEW p, NEW priced \in InvoiceLines(p)
  PROVE  priced \subseteq ItemsOf(p) \X Prices
<1>1. PICK f \in [ItemsOf(p) -> Prices], S \in SUBSET ItemsOf(p) : priced = {<<i, f[i]>> : i \in S}
  BY DEF InvoiceLines
<1>2. QED
  BY <1>1

LEMMA PricedTyped ==
  ASSUME CostingTypeOK, NEW priced
  PROVE  /\ PricedLines(priced) \in [Items -> [price : Cost, landed : Cost]]
         /\ \A i \in Items : PricedLines(priced)[i].landed = line[i].landed
<1>1. line \in [Items -> [price : Cost, landed : Cost]]
  BY DEF CostingTypeOK
<1>2. ASSUME NEW i \in Items
      PROVE  /\ PricedLines(priced)[i] \in [price : Cost, landed : Cost]
             /\ PricedLines(priced)[i].landed = line[i].landed
  <2>1. CASE \E c \in Prices : <<i, c>> \in priced
    <3>1. PICK c : c = CHOOSE d \in Prices : <<i, d>> \in priced
      OBVIOUS
    <3>2. c \in Prices
      BY <2>1, <3>1
    <3>3. c \in Cost
      BY <3>2, CostingAssumption DEF Cost
    <3>4. PricedLines(priced)[i] = [line[i] EXCEPT !.price = c]
      BY <2>1, <3>1 DEF PricedLines
    <3>5. QED
      BY <1>1, <3>3, <3>4
  <2>2. CASE ~(\E c \in Prices : <<i, c>> \in priced)
    <3>1. PricedLines(priced)[i] = line[i]
      BY <2>2 DEF PricedLines
    <3>2. QED
      BY <1>1, <3>1
  <2>3. QED
    BY <2>1, <2>2
<1>3. PricedLines(priced) = [i \in Items |-> PricedLines(priced)[i]]
  BY DEF PricedLines
<1>4. QED
  BY <1>2, <1>3

LEMMA CaptureStep ==
  ASSUME CostInv, NEW p \in Purchases, NEW charge \in Charges, NEW priced \in InvoiceLines(p),
         CaptureInvoice(p, priced, charge)
  PROVE  CostInv'
<1> USE DEF CostInv
<1>1. PICK c : c = InvoicedPurchase(p)
  OBVIOUS
<1>2. PICK v : v = [version |-> invoice[p].version + 1, charge |-> charge, lines |-> priced]
  OBVIOUS
<1>3. purchase \in [Purchases -> Purchase] /\ invoice \in [Purchases -> Invoice]
  BY DEF CostingTypeOK
<1>4. /\ purchase' = [purchase EXCEPT ![p] = c] /\ line' = PricedLines(priced)
      /\ invoice' = [invoice EXCEPT ![p] = v]
      /\ UNCHANGED <<movements, balance, cost, replaced, cogs, reading, seen, exempt, adjusting,
                     holes, overtaken>>
  BY <1>1, <1>2, <1>3 DEF CaptureInvoice
<1>5. /\ purchase[p].status \notin {"NONE", "POSTED"} /\ purchase[p].version < MaxVersion
      /\ seen[p].version = purchase[p].version
      /\ \A i \in Items : Of[i] = p => reading[i].product = NoCost
  BY DEF CaptureInvoice, StillOpen, Bump, PurchaseFree, CurrentVersion, ItemsOf
<1>6. /\ c.version = purchase[p].version + 1
      /\ c.status \notin {"NONE", "POSTED"}
      /\ c.status \in {"DRAFT", "PARTIALLY_RECEIVED", "RECEIVED", "READY_TO_POST"}
  BY <1>1, <1>5, PurchaseTyped DEF InvoicedPurchase
<1>7. MaxVersion \in Nat /\ purchase[p].version \in Nat /\ invoice[p].version \in Nat
  BY CostingAssumption, PurchaseTyped
<1>8. invoice[p].version <= purchase[p].version
  BY DEF PurchaseOK
<1>9. /\ purchase'[p] = c /\ invoice'[p] = v
      /\ \A q \in Purchases : q # p => purchase'[q] = purchase[q] /\ invoice'[q] = invoice[q]
  BY <1>3, <1>4
<1>10. priced \subseteq ItemsOf(p) \X Prices
  BY InvoiceLinesAre
<1>11. /\ line' \in [Items -> [price : Cost, landed : Cost]]
       /\ \A i \in Items : line'[i].landed = line[i].landed
  BY <1>4, PricedTyped
<1>12. CostingTypeOK'
  <2>1. c \in Purchase
    <3>1. purchase[p].version + 1 \in 0 .. MaxVersion
      BY <1>5, <1>7
    <3>2. c = [status |-> c.status, version |-> purchase[p].version + 1]
      BY <1>1 DEF InvoicedPurchase
    <3>3. QED
      BY <1>6, <3>1, <3>2 DEF Purchase
  <2>2. v \in Invoice
    <3>1. invoice[p].version + 1 \in 0 .. MaxVersion
      BY <1>5, <1>7, <1>8
    <3>2. priced \subseteq Items \X Prices
      BY <1>10 DEF ItemsOf
    <3>3. charge \in Nat
      BY CostingAssumption
    <3>4. QED
      BY <1>2, <3>1, <3>2, <3>3 DEF Invoice
  <2>3. purchase' \in [Purchases -> Purchase] /\ invoice' \in [Purchases -> Invoice]
    BY <1>3, <1>4, <2>1, <2>2
  <2>4. QED
    BY <1>4, <1>11, <2>3 DEF CostingTypeOK
<1>13. BookOK' /\ MovementsOK' /\ ReplacedOK' /\ AdjustingOK' /\ CogsOK' /\ CogsSettled'
  BY <1>4, <1>11, NothingMoved, NothingSettled
<1>14. PurchaseOK'
  <2>1. v.version = invoice[p].version + 1 /\ v.lines = priced
    BY <1>2
  <2>2. \A q \in Purchases : purchase'[q].status = "NONE" => purchase'[q].version = 0
    BY <1>6, <1>9 DEF PurchaseOK
  <2>3. v.version <= c.version
    BY <1>6, <1>7, <1>8, <2>1
  <2>4. \A q \in Purchases : invoice'[q].version <= purchase'[q].version
    BY <1>9, <2>3 DEF PurchaseOK
  <2>5. \A q \in Purchases : invoice'[q].lines \subseteq ItemsOf(q) \X Prices
    BY <1>9, <1>10, <2>1 DEF PurchaseOK
  <2>6. \A i \in Items : line'[i].landed # NoCost => purchase'[Of[i]].status = "POSTED"
    BY <1>5, <1>9, <1>11, CostingAssumption DEF PurchaseOK
  <2>7. QED
    BY <2>2, <2>4, <2>5, <2>6 DEF PurchaseOK, ItemsOf
<1>15. ReadingOK'
  <2>1. \A i \in Items : reading[i].product # NoCost => purchase'[Of[i]] = purchase[Of[i]]
    BY <1>5, <1>9, CostingAssumption
  <2>2. QED
    BY <1>4, <2>1 DEF ReadingOK, HasRows
<1>16. SeenOK'
  <2>1. seen'[p].version <= purchase'[p].version /\ seen'[p].version # purchase'[p].version
    BY <1>4, <1>5, <1>6, <1>7, <1>9
  <2>2. \A q \in Purchases : ReceivedQty(q)' = ReceivedQty(q)
    BY <1>4, ReceivedSame
  <2>3. QED
    BY <1>4, <1>9, <2>1, <2>2 DEF SeenOK
<1>17. QED
  BY <1>12, <1>13, <1>14, <1>15, <1>16

-----------------------------------------------------------------------------
(* A receipt.                                                              *)

LEMMA ProvisionalCostTyped ==
  ASSUME CostingTypeOK, NEW i \in Items, NEW lot \in Lots, NEW fallback \in Cost
  PROVE  ProvisionalCost(i, lot, fallback) \in Cost
<1>1. line[i].price \in Cost /\ Agreed[i] \in Cost
  BY CostingAssumption DEF CostingTypeOK, Cost
<1>2. PICK price \in Cost : price = IF line[i].price # NoCost THEN line[i].price ELSE Agreed[i]
  BY <1>1
<1>3. CASE price = NoCost
  BY <1>2, <1>3 DEF ProvisionalCost
<1>4. CASE price # NoCost
  <2>1. price \in Nat /\ lot.accepted \in Nat /\ PhysicalLot(lot) \in Nat \ {0}
    BY <1>2, <1>4, CostingAssumption DEF Cost, PhysicalLot
  <2>2. price * lot.accepted \in Nat
    BY <2>1
  <2>3. Money8(price * lot.accepted, PhysicalLot(lot)) \in Nat
    BY <2>1, <2>2, Money8Nat
  <2>4. ProvisionalCost(i, lot, fallback) = Money8(price * lot.accepted, PhysicalLot(lot))
    BY <1>2, <1>4 DEF ProvisionalCost
  <2>5. QED
    BY <2>3, <2>4 DEF Cost
<1>5. QED
  BY <1>3, <1>4

LEMMA ReceiptMwaNat ==
  ASSUME NEW old \in Cost, NEW oldQty \in Int, NEW unit \in Nat, NEW qty \in Nat
  PROVE  ReceiptMwa(old, oldQty, unit, qty) \in Nat
<1>1. CASE oldQty > 0 /\ old # NoCost
  <2>1. old \in Nat
    BY <1>1 DEF Cost
  <2>2. Money8(oldQty * old + qty * unit, oldQty + qty) \in Nat
    BY <1>1, <2>1, AverageNat
  <2>3. QED
    BY <1>1, <2>2 DEF ReceiptMwa
<1>2. CASE ~(oldQty > 0 /\ old # NoCost)
  BY <1>2 DEF ReceiptMwa, Cost
<1>3. QED
  BY <1>1, <1>2

LEMMA ReceiptCostTyped ==
  ASSUME CostingTypeOK, NEW i \in Items, NEW x \in Products, NEW unit \in Cost, NEW qty \in Nat
  PROVE  ReceiptCost(x, reading[i], unit, qty)
           \in [Products -> [mwa : Cost, status : {"FINAL", "PROVISIONAL"}]]
<1>1. cost \in [Products -> [mwa : Cost, status : {"FINAL", "PROVISIONAL"}]]
  BY DEF CostingTypeOK
<1>2. reading[i].qty \in Int /\ reading[i].mwa \in Cost
  BY DEF CostingTypeOK
<1>3. CASE unit = NoCost
  BY <1>1, <1>3 DEF ReceiptCost
<1>4. CASE unit # NoCost
  <2>1. PICK a : a = ReceiptMwa(reading[i].mwa, reading[i].qty, unit, qty)
    OBVIOUS
  <2>2. unit \in Nat
    BY <1>4 DEF Cost
  <2>3. a \in Nat
    BY <1>2, <2>1, <2>2, ReceiptMwaNat
  <2>4. [mwa |-> a, status |-> "PROVISIONAL"] \in [mwa : Cost, status : {"FINAL", "PROVISIONAL"}]
    BY <2>3 DEF Cost
  <2>5. ReceiptCost(x, reading[i], unit, qty)
          = [cost EXCEPT ![x] = [mwa |-> a, status |-> "PROVISIONAL"]]
    BY <1>4, <2>1 DEF ReceiptCost
  <2>6. QED
    BY <1>1, <2>4, <2>5
<1>5. QED
  BY <1>3, <1>4

LEMMA ValueNat ==
  ASSUME NEW u \in Cost
  PROVE  Value(u) \in Nat
BY DEF Value, Cost

LEMMA ProvisionalCogsAre ==
  ASSUME CostingTypeOK, NEW x, NEW old \in Int, NEW qty \in Nat, NEW unit \in Cost,
         NEW rs, rs = Replacements(x, old, qty)
  PROVE  /\ IsFiniteSet(ProvisionalCogs(rs, unit))
         /\ \A c \in ProvisionalCogs(rs, unit) : \E r \in rs :
              /\ c = [sale |-> r.sale, receipt |-> Len(movements) + 1, qty |-> r.qty,
                      role |-> "PROVISIONAL", unit |-> unit,
                      delta |-> (unit - Value(movements[r.sale].unit)) * r.qty]
              /\ unit \in Nat
<1>1. IsFiniteSet(rs) /\ \A r \in rs : r.receipt = Len(movements) + 1
  BY ReplacementsAre
<1>2. CASE unit = NoCost
  <2>1. ProvisionalCogs(rs, unit) = {}
    BY <1>2 DEF ProvisionalCogs
  <2>2. QED
    BY <2>1, FS_EmptySet
<1>3. CASE unit # NoCost
  <2> DEFINE F(r) == [sale |-> r.sale, receipt |-> r.receipt, qty |-> r.qty,
                      role |-> "PROVISIONAL", unit |-> unit,
                      delta |-> (unit - Value(movements[r.sale].unit)) * r.qty]
             g == [r \in rs |-> F(r)]
  <2>1. ProvisionalCogs(rs, unit) = {F(r) : r \in rs}
    BY <1>3 DEF ProvisionalCogs
  <2>2. {g[r] : r \in rs} = {F(r) : r \in rs}
    OBVIOUS
  <2>3. IsFiniteSet({g[r] : r \in rs})
    <3> HIDE DEF g
    <3>1. QED BY <1>1, ImageFinite
  <2>4. unit \in Nat
    BY <1>3 DEF Cost
  <2>5. QED
    BY <1>1, <2>1, <2>2, <2>3, <2>4
<1>4. QED
  BY <1>2, <1>3

(* What the proof of a receipt works with.                                 *)
Received(i, lot, m, rs, pc) ==
  /\ m = [kind |-> "PURCHASE_RECEIPT", product |-> Product[i], delta |-> PhysicalLot(lot),
          unit |-> ProvisionalCost(i, lot, reading[i].mwa), status |-> "PROVISIONAL",
          accepted |-> lot.accepted, item |-> i, of |-> 0]
  /\ rs = Replacements(Product[i], reading[i].qty, PhysicalLot(lot))
  /\ pc = ProvisionalCogs(rs, m.unit)

LEMMA ReceiptFacts ==
  ASSUME CostInv, NEW i \in Items, NEW lot \in Lots, ReceiveGoods(i, lot),
         NEW m, NEW rs, NEW pc, Received(i, lot, m, rs, pc)
  PROVE  /\ m \in StockMovement /\ Sound(m) /\ Room
         /\ m.item = i /\ m.product = Product[i] /\ m.product \in Products
         /\ m.delta = PhysicalLot(lot) /\ m.delta \in Nat \ {0} /\ m.unit \in Cost
         /\ m.kind = "PURCHASE_RECEIPT"
         /\ movements' = Append(movements, m)
         /\ balance' = [balance EXCEPT ![m.product] = balance[m.product] + m.delta]
         /\ replaced' = replaced \cup rs /\ cogs' = cogs \cup pc
         /\ UNCHANGED <<invoice, line, seen, adjusting, holes, overtaken>>
         /\ reading[i].product = Product[i] /\ reading[i].product # NoCost
         /\ reading[i].qty \in Int
<1> USE DEF CostInv, Received
<1>1. /\ movements' = Append(movements, m) /\ Room
      /\ replaced' = replaced \cup rs /\ cogs' = cogs \cup pc
      /\ UNCHANGED <<invoice, line, seen, adjusting, holes, overtaken>>
      /\ reading[i].product = Product[i]
  BY DEF ReceiveGoods
<1>2. lot.accepted \in Nat /\ PhysicalLot(lot) \in Nat \ {0}
  BY CostingAssumption DEF PhysicalLot
<1>3. reading[i].mwa \in Cost /\ reading[i].qty \in Int
  BY DEF CostingTypeOK
<1>4. ProvisionalCost(i, lot, reading[i].mwa) \in Cost
  BY <1>3, ProvisionalCostTyped
<1>5. Product[i] \in Products /\ Product[i] # NoCost /\ MaxLedger \in Nat
  BY CostingAssumption
<1>6. /\ m.item = i /\ m.product = Product[i] /\ m.delta = PhysicalLot(lot)
      /\ m.kind = "PURCHASE_RECEIPT" /\ m.unit = ProvisionalCost(i, lot, reading[i].mwa)
  OBVIOUS
<1>7. m \in StockMovement
  <2>1. PhysicalLot(lot) \in Int /\ 0 \in 0 .. MaxLedger
    BY <1>2, <1>5
  <2>2. QED
    BY <1>2, <1>4, <1>5, <2>1 DEF StockMovement
<1>8. Sound(m)
  BY <1>2, <1>6 DEF Sound
<1>9. balance' = [balance EXCEPT ![m.product] = balance[m.product] + m.delta]
  BY <1>6 DEF ReceiveGoods
<1>10. QED
  BY <1>1, <1>2, <1>3, <1>4, <1>5, <1>6, <1>7, <1>8, <1>9

LEMMA ReceiptPurchase ==
  ASSUME CostInv, NEW i \in Items, NEW lot \in Lots, ReceiveGoods(i, lot)
  PROVE  /\ purchase' \in [Purchases -> Purchase]
         /\ purchase'[Of[i]].version = purchase[Of[i]].version + 1
         /\ purchase'[Of[i]].status \in {"RECEIVED", "PARTIALLY_RECEIVED"}
         /\ \A q \in Purchases : q # Of[i] => purchase'[q] = purchase[q]
         /\ purchase[Of[i]].status \notin {"NONE", "POSTED"} /\ Of[i] \in Purchases
<1> USE DEF CostInv
<1>1. Of[i] \in Purchases /\ MaxVersion \in Nat /\ Product[i] # NoCost
  BY CostingAssumption
<1>2. PICK p \in Purchases : p = Of[i]
  BY <1>1
<1>3. purchase[p].status \notin {"NONE", "POSTED"} /\ purchase[p].version < MaxVersion
  BY <1>1, <1>2 DEF ReadingOK, ReceiveGoods
<1>4. PICK t : t = ReceiptStatus(p, i, lot)
  OBVIOUS
<1>5. t \in {"RECEIVED", "PARTIALLY_RECEIVED"}
  BY <1>4 DEF ReceiptStatus
<1>6. PICK c : c = [purchase[p] EXCEPT !.status = t, !.version = purchase[p].version + 1]
  OBVIOUS
<1>7. purchase \in [Purchases -> Purchase]
  BY DEF CostingTypeOK
<1>8. purchase' = [purchase EXCEPT ![p] = c]
  BY <1>2, <1>4, <1>6, <1>7 DEF ReceiveGoods, Purchase
<1>9. purchase[p].version \in Nat
  BY PurchaseTyped
<1>10. purchase[p].version + 1 \in 0 .. MaxVersion
  BY <1>1, <1>3, <1>9
<1>11. c \in Purchase /\ c.status = t /\ c.version = purchase[p].version + 1
  BY <1>5, <1>6, <1>7, <1>10 DEF Purchase
<1>12. /\ purchase' \in [Purchases -> Purchase] /\ purchase'[p] = c
       /\ \A q \in Purchases : q # p => purchase'[q] = purchase[q]
  BY <1>7, <1>8, <1>11
<1>13. QED
  BY <1>1, <1>2, <1>3, <1>5, <1>11, <1>12

LEMMA ReceiptReplaced ==
  ASSUME CostInv, NEW i \in Items, NEW lot \in Lots, ReceiveGoods(i, lot),
         NEW m, NEW rs, NEW pc, Received(i, lot, m, rs, pc)
  PROVE  /\ ReplacedOK' /\ replaced' \subseteq Replacement
         /\ IsFiniteSet(rs)
         /\ \A r \in rs : /\ r.sale \in SalesIn(movements, m.product)
                          /\ r.sale \in 1 .. Len(movements) /\ r.receipt = Len(movements) + 1
                          /\ movements'[r.sale] = movements[r.sale]
                          /\ movements'[r.receipt] = m /\ r.qty \in Nat \ {0}
                          /\ r.sale \in 1 .. MaxLedger /\ r.receipt \in 1 .. MaxLedger
         /\ \A r, s \in rs : r.sale = s.sale => r = s
<1> USE DEF CostInv
<1>1. PICK n : n = Len(movements)
  OBVIOUS
<1>2. /\ m \in StockMovement /\ m.item = i /\ m.product = Product[i] /\ m.delta \in Nat
      /\ movements' = Append(movements, m) /\ replaced' = replaced \cup rs
      /\ overtaken' = overtaken
      /\ reading[i].qty \in Int /\ Room /\ m.delta = PhysicalLot(lot)
  BY ReceiptFacts
<1>3. /\ n \in Nat /\ n + 1 <= MaxLedger /\ MaxLedger \in Nat
      /\ Len(movements') = n + 1 /\ movements'[n + 1] = m
      /\ \A k \in 1 .. n : movements'[k] = movements[k]
  <2>1. n \in Nat /\ MaxLedger \in Nat /\ n < MaxLedger
    BY <1>1, <1>2, TypedState, CostingAssumption DEF Room
  <2>2. QED
    BY <1>1, <1>2, <2>1, TypedState, Appended
<1>4. rs = Replacements(Product[i], reading[i].qty, m.delta)
  BY <1>2 DEF Received
<1>5. /\ IsFiniteSet(rs)
      /\ \A r \in rs :
           /\ r.sale \in SalesIn(movements, m.product)
           /\ r = [sale |-> r.sale, receipt |-> n + 1, qty |-> r.qty] /\ r.receipt = n + 1
           /\ r.qty = Allocated(Product[i], reading[i].qty, r.sale, m.delta) /\ r.qty \in Nat \ {0}
           /\ NegativeIn(movements, r.sale) > 0
  <2>1. PICK x : x = m.product
    OBVIOUS
  <2>2. PICK old \in Int : old = reading[i].qty
    BY <1>2
  <2>3. PICK qty \in Nat : qty = m.delta
    BY <1>2
  <2>4. rs = Replacements(x, old, qty) /\ CostingTypeOK
    BY <1>2, <1>4, <2>1, <2>2, <2>3
  <2>5. IsFiniteSet(rs)
    BY <2>4, ReplacementsAre
  <2>6. \A r \in rs :
          /\ old < 0 /\ r.sale \in SalesIn(movements, x)
          /\ r = [sale |-> r.sale, receipt |-> Len(movements) + 1, qty |-> r.qty]
          /\ r.receipt = Len(movements) + 1
          /\ r.qty = Allocated(x, old, r.sale, qty) /\ r.qty \in Nat \ {0}
          /\ NegativeIn(movements, r.sale) > 0
    BY <2>4, ReplacementsAre, Zenon
  <2>7. QED
    BY <1>1, <1>2, <2>1, <2>2, <2>3, <2>5, <2>6
<1>6. \A k \in SalesIn(movements, m.product) : k \in 1 .. n /\ movements[k].kind = "SALE"
  BY <1>1 DEF SalesIn
<1>7. \A k \in 1 .. n : k \in 1 .. n + 1 /\ k \in 1 .. MaxLedger
  BY <1>3
<1>8. n + 1 \in 1 .. n + 1 /\ n + 1 \in 1 .. MaxLedger
  BY <1>3
<1>9. \A r \in rs : /\ r.sale \in SalesIn(movements, m.product)
                    /\ r.sale \in 1 .. n /\ r.receipt = n + 1
                    /\ movements'[r.sale] = movements[r.sale]
                    /\ movements'[r.receipt] = m /\ r.qty \in Nat \ {0}
                    /\ r.sale \in 1 .. MaxLedger /\ r.receipt \in 1 .. MaxLedger
  BY <1>3, <1>5, <1>6, <1>7, <1>8
<1>10. \A r, s \in rs : r.sale = s.sale => r = s
  BY <1>5
<1>11. replaced' \subseteq Replacement
  <2>1. \A r \in rs : r \in Replacement
    BY <1>5, <1>9 DEF Replacement
  <2>2. QED
    BY <1>2, <2>1 DEF CostingTypeOK
<1>12. ReplacedOK'
  <2>1. IsFiniteSet(replaced')
    BY <1>2, <1>5, FS_Union DEF ReplacedOK
  <2>2. \A r \in rs :
          /\ r.sale \in 1 .. Len(movements') /\ r.receipt \in 1 .. Len(movements')
          /\ movements'[r.sale].kind = "SALE" /\ movements'[r.receipt].item \in Items
          /\ Short(movements', r.sale, overtaken')
    <3> TAKE r \in rs
    <3>1. NegativeIn(movements', r.sale) = NegativeIn(movements, r.sale)
      BY <1>1, <1>2, <1>9, TypedState, NegativeStable
    <3>2. QED
      BY <1>2, <1>3, <1>5, <1>6, <1>7, <1>8, <1>9, <3>1 DEF Short
  <2>3. \A r \in replaced :
          /\ r.sale \in 1 .. Len(movements') /\ r.receipt \in 1 .. Len(movements')
          /\ movements'[r.sale].kind = "SALE" /\ movements'[r.receipt].item \in Items
          /\ Short(movements', r.sale, overtaken') /\ r.receipt # n + 1
    BY <1>1, <1>2, ReplacedKept
  <2>4. \A r, s \in replaced' : r.sale = s.sale /\ r.receipt = s.receipt => r = s
    BY <1>2, <1>9, <1>10, <2>3 DEF ReplacedOK
  <2>5. QED
    BY <1>2, <2>1, <2>2, <2>3, <2>4 DEF ReplacedOK, Short
<1>13. QED
  BY <1>1, <1>5, <1>9, <1>10, <1>11, <1>12

LEMMA ReceiptCogs ==
  ASSUME CostInv, NEW i \in Items, NEW lot \in Lots, ReceiveGoods(i, lot),
         NEW m, NEW rs, NEW pc, Received(i, lot, m, rs, pc)
  PROVE  CogsOK' /\ CogsSettled' /\ cogs' \subseteq Reconciliation
<1> USE DEF CostInv
<1>1. PICK n : n = Len(movements)
  OBVIOUS
<1>2. /\ m \in StockMovement /\ m.item = i /\ m.unit \in Cost /\ m.delta \in Nat
      /\ movements' = Append(movements, m) /\ replaced' = replaced \cup rs
      /\ cogs' = cogs \cup pc /\ line' = line /\ reading[i].qty \in Int
      /\ m.delta = PhysicalLot(lot) /\ overtaken' = overtaken
  BY ReceiptFacts
<1>3. /\ \A r \in rs : /\ r.sale \in 1 .. n /\ r.receipt = n + 1
                       /\ movements'[r.sale] = movements[r.sale]
                       /\ movements'[r.receipt] = m /\ r.qty \in Nat \ {0}
                       /\ r.sale \in 1 .. MaxLedger /\ r.receipt \in 1 .. MaxLedger
      /\ \A r, s \in rs : r.sale = s.sale => r = s
  BY <1>1, ReceiptReplaced
<1>4. rs = Replacements(Product[i], reading[i].qty, m.delta) /\ pc = ProvisionalCogs(rs, m.unit)
  BY <1>2 DEF Received
<1>5. /\ IsFiniteSet(pc)
      /\ \A c \in pc : \E r \in rs :
           /\ c = [sale |-> r.sale, receipt |-> n + 1, qty |-> r.qty,
                   role |-> "PROVISIONAL", unit |-> m.unit,
                   delta |-> (m.unit - Value(movements[r.sale].unit)) * r.qty]
           /\ m.unit \in Nat
  BY <1>1, <1>2, <1>4, ProvisionalCogsAre
<1>6. \A r \in replaced : /\ movements'[r.sale] = movements[r.sale]
                          /\ movements'[r.receipt] = movements[r.receipt]
                          /\ r.receipt # n + 1
  BY <1>1, <1>2, ReplacedKept
<1>7. \A c \in cogs : /\ movements'[c.sale] = movements[c.sale]
                      /\ movements'[c.receipt] = movements[c.receipt]
                      /\ c.receipt # n + 1
  BY <1>6 DEF CogsOK
<1>8. \A c \in pc : c.receipt = n + 1 /\ c.role = "PROVISIONAL"
  BY <1>5
<1>9. cogs' \subseteq Reconciliation
  <2>1. ASSUME NEW c \in pc
        PROVE  c \in Reconciliation
    <3>1. PICK r \in rs : /\ c = [sale |-> r.sale, receipt |-> n + 1, qty |-> r.qty,
                                  role |-> "PROVISIONAL", unit |-> m.unit,
                                  delta |-> (m.unit - Value(movements[r.sale].unit)) * r.qty]
                          /\ m.unit \in Nat
      BY <1>5, <2>1
    <3>2. Value(movements[r.sale].unit) \in Nat
      BY <1>1, <1>3, TypedState, ValueNat
    <3>3. (m.unit - Value(movements[r.sale].unit)) * r.qty \in Int
      BY <1>3, <3>1, <3>2
    <3>4. QED
      BY <1>3, <3>1, <3>3 DEF Reconciliation
  <2>2. QED
    BY <1>2, <2>1 DEF CostingTypeOK
<1>10. CogsOK'
  <2>1. IsFiniteSet(cogs')
    BY <1>2, <1>5, FS_Union DEF CogsOK
  <2>2. \A c \in pc :
          /\ \E r \in replaced' : r.sale = c.sale /\ r.receipt = c.receipt /\ r.qty = c.qty
          /\ c.role = "PROVISIONAL" => c.delta = (c.unit - Value(movements'[c.sale].unit)) * c.qty
          /\ c.role = "FINAL_DELTA" => line'[movements'[c.receipt].item].landed # NoCost
    <3> SUFFICES ASSUME NEW c \in pc
                 PROVE  /\ \E r \in replaced' : r.sale = c.sale /\ r.receipt = c.receipt /\ r.qty = c.qty
                        /\ c.delta = (c.unit - Value(movements'[c.sale].unit)) * c.qty
                        /\ c.role = "PROVISIONAL"
      OBVIOUS
    <3>1. PICK r \in rs : c = [sale |-> r.sale, receipt |-> n + 1, qty |-> r.qty,
                               role |-> "PROVISIONAL", unit |-> m.unit,
                               delta |-> (m.unit - Value(movements[r.sale].unit)) * r.qty]
      BY <1>5
    <3>2. /\ c.sale = r.sale /\ c.receipt = r.receipt /\ c.qty = r.qty /\ c.unit = m.unit
          /\ c.delta = (m.unit - Value(movements[r.sale].unit)) * r.qty /\ c.role = "PROVISIONAL"
      BY <1>3, <3>1
    <3>3. movements'[c.sale] = movements[c.sale]
      BY <1>3, <3>2
    <3>4. QED
      BY <1>2, <3>2, <3>3
  <2>3. \A c \in cogs :
          /\ \E r \in replaced' : r.sale = c.sale /\ r.receipt = c.receipt /\ r.qty = c.qty
          /\ c.role = "PROVISIONAL" => c.delta = (c.unit - Value(movements'[c.sale].unit)) * c.qty
          /\ c.role = "FINAL_DELTA" => line'[movements'[c.receipt].item].landed # NoCost
    BY <1>2, <1>7 DEF CogsOK
  <2>4. \A c, d \in pc : c.sale = d.sale => c = d
    BY <1>3, <1>5
  <2>5. \A c, d \in cogs' : c.sale = d.sale /\ c.receipt = d.receipt /\ c.role = d.role => c = d
    BY <1>2, <1>7, <1>8, <2>4 DEF CogsOK
  <2>6. QED
    BY <1>2, <2>1, <2>2, <2>3, <2>5 DEF CogsOK, Value
<1>11. CogsSettled'
  <2>1. line[i].landed = NoCost
    BY ReceiptPurchase DEF PurchaseOK
  <2>2. \A r \in rs : line'[movements'[r.receipt].item].landed = NoCost
    BY <1>2, <1>3, <2>1
  <2>3. \A r \in replaced : CogsOf(cogs', r.sale, r.receipt) = CogsOf(cogs, r.sale, r.receipt)
    BY <1>2, <1>6, <1>8 DEF CogsOf
  <2>4. \A r \in replaced : Corrected(cogs', r.sale, r.receipt) = Corrected(cogs, r.sale, r.receipt)
    BY <2>3 DEF Corrected
  <2>5. \A r \in replaced :
          line'[movements'[r.receipt].item].landed # NoCost =>
            Value(movements'[r.sale].unit) * r.qty + Corrected(cogs', r.sale, r.receipt)
              = line'[movements'[r.receipt].item].landed * r.qty
    BY <1>2, <1>6, <2>4, CogsSettledIs
  <2>6. QED
    BY <1>2, <2>2, <2>5, CogsSettledNext
<1>12. QED
  BY <1>9, <1>10, <1>11

LEMMA ReceiveStep ==
  ASSUME CostInv, NEW i \in Items, NEW lot \in Lots, ReceiveGoods(i, lot)
  PROVE  CostInv'
<1> USE DEF CostInv
<1>1. PICK m, rs, pc : Received(i, lot, m, rs, pc)
  BY DEF Received
<1>2. /\ m \in StockMovement /\ Sound(m) /\ Room /\ m.item = i /\ m.product = Product[i]
      /\ m.product \in Products /\ m.delta \in Nat /\ m.unit \in Cost
      /\ movements' = Append(movements, m)
      /\ balance' = [balance EXCEPT ![m.product] = balance[m.product] + m.delta]
      /\ UNCHANGED <<invoice, line, seen, adjusting, holes, overtaken>>
      /\ reading[i].product = Product[i] /\ reading[i].product # NoCost
      /\ m.delta = PhysicalLot(lot)
  BY <1>1, ReceiptFacts
<1>3. /\ purchase' \in [Purchases -> Purchase]
      /\ purchase'[Of[i]].version = purchase[Of[i]].version + 1
      /\ purchase'[Of[i]].status \in {"RECEIVED", "PARTIALLY_RECEIVED"}
      /\ \A q \in Purchases : q # Of[i] => purchase'[q] = purchase[q]
      /\ purchase[Of[i]].status \notin {"NONE", "POSTED"} /\ Of[i] \in Purchases
  BY ReceiptPurchase
<1>4. /\ BookOK' /\ movements' \in Seq(StockMovement) /\ Len(movements') <= MaxLedger
      /\ balance' \in [Products -> Int]
  BY <1>2, RecordedBook
<1>5. MovementsOK'
  BY <1>2, RecordedMovements
<1>6. ReplacedOK' /\ replaced' \subseteq Replacement
  BY <1>1, ReceiptReplaced
<1>7. CogsOK' /\ CogsSettled' /\ cogs' \subseteq Reconciliation
  BY <1>1, ReceiptCogs
<1>8. reading' = [reading EXCEPT ![i] = NoReading]
  BY DEF ReceiveGoods
<1>9. reading \in [Items -> [product : Products \cup {NoCost}, qty : Int, mwa : Cost]]
  BY DEF CostingTypeOK
<1>10. reading'[i].product = NoCost /\ \A j \in Items : j # i => reading'[j] = reading[j]
  BY <1>8, <1>9 DEF NoReading
<1>11. CostingTypeOK'
  <2>1. NoReading \in [product : Products \cup {NoCost}, qty : Int, mwa : Cost]
    BY DEF NoReading, Cost
  <2>2. reading' \in [Items -> [product : Products \cup {NoCost}, qty : Int, mwa : Cost]]
    BY <1>8, <1>9, <2>1
  <2>3. cost' = ReceiptCost(Product[i], reading[i], m.unit, m.delta)
    BY <1>1, <1>2 DEF ReceiveGoods, Received
  <2>4. cost' \in [Products -> [mwa : Cost, status : {"FINAL", "PROVISIONAL"}]]
    BY <1>2, <2>3, ReceiptCostTyped
  <2>5. exempt' = exempt \/ exempt' = exempt \cup {Product[i]}
    BY DEF ReceiveGoods
  <2>6. exempt' \subseteq Products
    BY <1>2, <2>5 DEF CostingTypeOK
  <2>7. QED
    BY <1>2, <1>3, <1>4, <1>6, <1>7, <2>2, <2>4, <2>6 DEF CostingTypeOK
<1>12. purchase[Of[i]].version \in Nat /\ seen[Of[i]].version \in Nat /\ invoice[Of[i]].version \in Nat
  BY <1>3, PurchaseTyped
<1>13. PurchaseOK'
  <2>1. \A q \in Purchases : purchase'[q].status = "NONE" => purchase'[q].version = 0
    BY <1>3 DEF PurchaseOK
  <2>2. invoice[Of[i]].version <= purchase'[Of[i]].version
    BY <1>3, <1>12 DEF PurchaseOK
  <2>3. \A q \in Purchases : invoice'[q].version <= purchase'[q].version
    BY <1>2, <1>3, <2>2 DEF PurchaseOK
  <2>4. \A q \in Purchases : invoice'[q].lines \subseteq ItemsOf(q) \X Prices
    BY <1>2 DEF PurchaseOK
  <2>5. \A j \in Items : line'[j].landed # NoCost => purchase'[Of[j]].status = "POSTED"
    BY <1>2, <1>3, CostingAssumption DEF PurchaseOK
  <2>6. QED
    BY <2>1, <2>3, <2>4, <2>5 DEF PurchaseOK, ItemsOf
<1>14. SeenOK'
  <2>1. /\ seen'[Of[i]].version <= purchase'[Of[i]].version
        /\ seen'[Of[i]].version # purchase'[Of[i]].version
    BY <1>2, <1>3, <1>12 DEF SeenOK
  <2>2. \A q \in Purchases : q # Of[i] => ReceivedQty(q)' = ReceivedQty(q)
    BY <1>2, ReceivedKept DEF ItemsOf
  <2>3. QED
    BY <1>2, <1>3, <2>1, <2>2 DEF SeenOK
<1>15. ReadingOK'
  <2> SUFFICES ASSUME NEW j \in Items, reading'[j].product # NoCost
               PROVE  /\ reading'[j].product = Product[j]
                      /\ purchase'[Of[j]].status \notin {"NONE", "POSTED"}
                      /\ purchase'[Of[j]].version < MaxVersion
                      /\ \A l \in Items : reading'[l].product # NoCost /\ Of[l] = Of[j] => l = j
                      /\ reading'[j].qty < 0 =>
                           /\ reading'[j].qty = balance'[Product[j]] /\ HasRows(Product[j])'
                           /\ \A l \in Items : reading'[l].product = Product[j] => l = j
    BY DEF ReadingOK
  <2>1. j # i /\ reading'[j] = reading[j] /\ reading[j].product # NoCost
    BY <1>10
  <2>2. /\ reading[j].product = Product[j]
        /\ purchase[Of[j]].status \notin {"NONE", "POSTED"}
        /\ purchase[Of[j]].version < MaxVersion
        /\ \A l \in Items : reading[l].product # NoCost /\ Of[l] = Of[j] => l = j
        /\ reading[j].qty < 0 =>
             /\ reading[j].qty = balance[Product[j]] /\ HasRows(Product[j])
             /\ \A l \in Items : reading[l].product = Product[j] => l = j
    BY <2>1 DEF ReadingOK
  <2>3. Of[j] # Of[i] /\ Of[j] \in Purchases /\ Product[j] \in Products
    BY <1>2, <2>1, <2>2, CostingAssumption
  <2>4. purchase'[Of[j]] = purchase[Of[j]]
    BY <1>3, <2>3
  <2>5. Product[j] # NoCost
    BY CostingAssumption
  <2>6. \A l \in Items : reading'[l].product # NoCost => reading'[l] = reading[l]
    BY <1>10
  <2>7. ASSUME reading[j].qty < 0
        PROVE  reading[j].qty = balance'[Product[j]] /\ HasRows(Product[j])'
    <3>1. Product[j] # m.product
      BY <1>2, <2>1, <2>2, <2>7
    <3>2. balance'[Product[j]] = balance[Product[j]]
      BY <1>2, <2>3, <3>1 DEF CostingTypeOK
    <3>3. HasRows(Product[j])'
      BY <1>2, <2>2, <2>7, RowsStay
    <3>4. QED
      BY <2>2, <2>7, <3>2, <3>3
  <2>8. \A l \in Items : reading'[l].product # NoCost /\ Of[l] = Of[j] => l = j
    BY <2>2, <2>6
  <2>9. reading[j].qty < 0 => \A l \in Items : reading'[l].product = Product[j] => l = j
    BY <2>2, <2>5, <2>6
  <2>10. QED
    BY <2>1, <2>2, <2>4, <2>7, <2>8, <2>9
<1>16. AdjustingOK'
  BY <1>2, RecordedAdjusting
<1>17. QED
  BY <1>4, <1>5, <1>6, <1>7, <1>11, <1>13, <1>14, <1>15, <1>16

-----------------------------------------------------------------------------
(* A posting.                                                              *)

LEMMA InvoicedAre ==
  ASSUME CostInv, NEW p \in Purchases
  PROVE  /\ Invoiced(p) \subseteq Items /\ IsFiniteSet(Invoiced(p))
         /\ \A i \in Invoiced(p) : Of[i] = p /\ LineValue(p, i) \in Nat \ {0}
<1>1. invoice[p].lines \subseteq ItemsOf(p) \X Prices
  BY DEF CostInv, PurchaseOK
<1>2. \A i \in Invoiced(p) : i \in ItemsOf(p) /\ \E c \in Prices : <<i, c>> \in invoice[p].lines
  BY <1>1 DEF Invoiced
<1>3. Invoiced(p) \subseteq Items
  BY <1>2 DEF ItemsOf
<1>4. IsFiniteSet(Invoiced(p))
  BY <1>3, CostingAssumption, FS_Subset
<1>5. ASSUME NEW i \in Invoiced(p)
      PROVE  LineValue(p, i) \in Nat \ {0}
  <2>1. PICK c : c = CHOOSE d \in Prices : <<i, d>> \in invoice[p].lines
    OBVIOUS
  <2>2. c \in Prices
    BY <1>2, <2>1
  <2>3. c \in Nat \ {0} /\ Expected[i] \in Nat \ {0}
    BY <1>3, <2>2, CostingAssumption
  <2>4. PICK a \in Nat \ {0}, b \in Nat \ {0} : a = Expected[i] /\ b = c
    BY <2>3
  <2>5. a * b \in Nat \ {0}
    OBVIOUS
  <2>6. QED
    BY <2>1, <2>4, <2>5 DEF LineValue
<1>6. QED
  BY <1>2, <1>3, <1>4, <1>5 DEF ItemsOf

LEMMA FinalValueNat ==
  ASSUME CostInv, NEW p \in Purchases, NEW i \in Invoiced(p)
  PROVE  FinalValue(p, i) \in Nat
<1> DEFINE S == Invoiced(p)
           f == [j \in S |-> LineValue(p, j)]
<1>1. IsFiniteSet(S) /\ \A j \in S : f[j] \in Nat \ {0}
  BY InvoicedAre
<1>2. f[i] = LineValue(p, i)
  OBVIOUS
<1>3. Total(Invoiced(p), LAMBDA j : LineValue(p, j)) = SumFunctionOnSet(f, S)
  BY DEF Total
<1>4. SumFunctionOnSet(f, S) \in Nat \ {0}
  <2>1. i \in S
    OBVIOUS
  <2> HIDE DEF S, f
  <2>2. \A j \in S : f[j] \in Int /\ f[j] \in Nat
    BY <1>1
  <2>3. SumFunctionOnSet(f, S) = f[i] + SumFunctionOnSet(f, S \ {i})
    BY <1>1, <2>1, <2>2, SumRemove
  <2>4. IsFiniteSet(S \ {i})
    BY <1>1, FS_Subset
  <2>5. SumFunctionOnSet(f, S \ {i}) \in Nat
    BY <2>2, <2>4, SumNat
  <2>6. QED
    BY <1>1, <2>1, <2>3, <2>5
<1>5. PICK t \in Nat \ {0} : t = Total(Invoiced(p), LAMBDA j : LineValue(p, j))
  BY <1>3, <1>4
<1>6. PICK v \in Nat : v = LineValue(p, i)
  BY <1>1, <1>2
<1>7. PICK c \in Nat : c = invoice[p].charge
  BY DEF CostInv, CostingTypeOK, Invoice
<1>8. c * v \in Nat
  OBVIOUS
<1>9. Money8(c * v, t) \in Nat
  BY <1>8, Money8Nat
<1>10. FinalValue(p, i) = v + Money8(c * v, t)
  BY <1>5, <1>6, <1>7 DEF FinalValue
<1>11. QED
  BY <1>9, <1>10

LEMMA LandedNat ==
  ASSUME CostInv, NEW p \in Purchases, NEW i \in Invoiced(p), Postable(p)
  PROVE  Landed(p, i) \in Nat
<1>1. i \in Items /\ PhysicalQty(i) > 0
  BY InvoicedAre DEF Postable
<1>2. PhysicalQty(i) \in Nat
  BY <1>1, PhysicalNat DEF CostInv
<1>3. PICK q \in Nat \ {0} : q = PhysicalQty(i)
  BY <1>1, <1>2
<1>4. FinalValue(p, i) \in Nat
  BY FinalValueNat
<1>5. QED
  BY <1>3, <1>4, Money8Nat DEF Landed

LEMMA InventoryDeltaInt ==
  ASSUME CostInv, NEW p \in Purchases, NEW i \in Invoiced(p), Postable(p)
  PROVE  InventoryDelta(p, i) \in Int
<1>1. FinalValue(p, i) \in Int
  BY FinalValueNat
<1>2. ProvisionalValue(i) \in Int
  <2> DEFINE S == Receipts(i)
             f == [k \in S |-> Value(movements[k].unit) * movements[k].delta]
  <2>1. CostingTypeOK
    BY DEF CostInv
  <2>2. IsFiniteSet(S) /\ S \subseteq 1 .. Len(movements)
    BY <2>1, ReceiptsFinite
  <2>3. \A k \in S : f[k] \in Int
    <3> TAKE k \in S
    <3>1. movements[k].delta \in Int /\ Value(movements[k].unit) \in Nat
      BY <2>1, <2>2, TypedState, ValueNat
    <3>2. Value(movements[k].unit) * movements[k].delta \in Int
      BY <3>1
    <3>3. QED
      BY <3>2
  <2>4. ProvisionalValue(i) = SumFunctionOnSet(f, S)
    BY DEF ProvisionalValue, Total
  <2> HIDE DEF S, f
  <2>5. QED
    BY <2>2, <2>3, <2>4, SumInt
<1>3. SumFunctionOnSet([r \in ReplacedBy(i) |->
                         (Landed(p, i) - Value(movements[r.receipt].unit)) * r.qty],
                       ReplacedBy(i)) \in Int
  <2> DEFINE S == ReplacedBy(i)
             f == [r \in S |-> (Landed(p, i) - Value(movements[r.receipt].unit)) * r.qty]
  <2>1. S \subseteq replaced /\ IsFiniteSet(replaced)
    BY DEF ReplacedBy, CostInv, ReplacedOK
  <2>2. IsFiniteSet(S)
    BY <2>1, FS_Subset
  <2>3. \A r \in S : f[r] \in Int
    <3> TAKE r \in S
    <3>1. r.receipt \in 1 .. Len(movements) /\ r.qty \in Nat
      BY <2>1 DEF CostInv, ReplacedOK, CostingTypeOK, Replacement
    <3>2. Value(movements[r.receipt].unit) \in Nat
      BY <3>1, TypedState, ValueNat DEF CostInv
    <3>3. Landed(p, i) \in Nat
      BY LandedNat
    <3>4. (Landed(p, i) - Value(movements[r.receipt].unit)) * r.qty \in Int
      BY <3>1, <3>2, <3>3
    <3>5. QED
      BY <3>4
  <2>4. SumFunctionOnSet(f, S) \in Int
    <3> HIDE DEF S, f
    <3>1. QED BY <2>2, <2>3, SumInt
  <2>5. QED
    BY <2>4
<1>4. QED
  BY <1>1, <1>2, <1>3 DEF InventoryDelta, Total

LEMMA PostedCostsTyped ==
  ASSUME CostInv, NEW p \in Purchases, PostPurchase(p)
  PROVE  PostedCosts(p) \in [Products -> [mwa : Cost, status : {"FINAL", "PROVISIONAL"}]]
<1>1. Postable(p) /\ \A i \in Invoiced(p) : Allocatable(p, i)
  BY DEF PostPurchase
<1>2. ASSUME NEW i \in Invoiced(p)
      PROVE  PostedMwa(p, i) \in Nat
  <2>1. Product[i] \in Products
    BY InvoicedAre, CostingAssumption
  <2>2. PICK qty \in Int : qty = balance[Product[i]]
    BY <2>1, TypedState DEF CostInv
  <2>3. cost[Product[i]].mwa \in Cost
    BY <2>1, CostTyped DEF CostInv
  <2>4. PICK o \in Nat : o = OldMwa(p, i)
    BY <1>1, <2>3, LandedNat DEF OldMwa, Cost
  <2>5. PICK d \in Int : d = InventoryDelta(p, i)
    BY <1>1, InventoryDeltaInt
  <2>6. CASE qty > 0
    <3>1. o * qty + d >= 0
      BY <1>1, <2>2, <2>4, <2>5, <2>6 DEF Allocatable
    <3>2. o * qty + d \in Nat /\ qty \in Nat \ {0}
      BY <2>6, <3>1
    <3>3. Money8(o * qty + d, qty) \in Nat
      BY <3>2, Money8Nat
    <3>4. PostedMwa(p, i) = Money8(o * qty + d, qty)
      BY <2>2, <2>4, <2>5, <2>6 DEF PostedMwa
    <3>5. QED
      BY <3>3, <3>4
  <2>7. CASE ~(qty > 0)
    BY <2>2, <2>4, <2>7 DEF PostedMwa
  <2>8. QED
    BY <2>6, <2>7
<1>3. ASSUME NEW x \in Products
      PROVE  PostedCosts(p)[x] \in [mwa : Cost, status : {"FINAL", "PROVISIONAL"}]
  <2>1. CASE \E i \in Invoiced(p) : Product[i] = x
    <3>1. PICK i : i = CHOOSE j \in Invoiced(p) : Product[j] = x
      OBVIOUS
    <3>2. i \in Invoiced(p)
      BY <2>1, <3>1
    <3>3. PostedMwa(p, i) \in Cost
      BY <1>2, <3>2 DEF Cost
    <3>4. PostedCosts(p)[x] =
            [mwa |-> PostedMwa(p, i),
             status |-> IF OutstandingProvisional(p, x) THEN "PROVISIONAL" ELSE "FINAL"]
      BY <2>1, <3>1 DEF PostedCosts
    <3>5. QED
      BY <3>3, <3>4
  <2>2. CASE ~(\E i \in Invoiced(p) : Product[i] = x)
    <3>1. PostedCosts(p)[x] = cost[x]
      BY <2>2 DEF PostedCosts
    <3>2. QED
      BY <3>1 DEF CostInv, CostingTypeOK
  <2>3. QED
    BY <2>1, <2>2
<1>4. PostedCosts(p) = [x \in Products |-> PostedCosts(p)[x]]
  BY DEF PostedCosts
<1>5. QED
  BY <1>3, <1>4

(* The correction a posting writes for a replaced unit.                    *)
FinalRow(p, r) ==
  [sale |-> r.sale, receipt |-> r.receipt, qty |-> r.qty, role |-> "FINAL_DELTA",
   unit |-> Landed(p, movements[r.receipt].item),
   delta |-> (Landed(p, movements[r.receipt].item) - Value(Baseline(r))) * r.qty]

ReplacedIn(p) == {r \in replaced : movements[r.receipt].item \in Invoiced(p)}

LEMMA FinalRows ==
  ASSUME NEW p
  PROVE  UNION {FinalCogs(p, i) : i \in Invoiced(p)} = {FinalRow(p, r) : r \in ReplacedIn(p)}
<1>1. \A i \in Invoiced(p) : \A r \in ReplacedBy(i) :
        /\ r \in ReplacedIn(p)
        /\ FinalRow(p, r) = [sale |-> r.sale, receipt |-> r.receipt, qty |-> r.qty,
                             role |-> "FINAL_DELTA", unit |-> Landed(p, i),
                             delta |-> (Landed(p, i) - Value(Baseline(r))) * r.qty]
  BY DEF ReplacedBy, ReplacedIn, FinalRow
<1>2. \A i \in Invoiced(p) : FinalCogs(p, i) = {FinalRow(p, r) : r \in ReplacedBy(i)}
  BY <1>1 DEF FinalCogs
<1>3. \A r \in ReplacedIn(p) : \E i \in Invoiced(p) : r \in ReplacedBy(i)
  BY DEF ReplacedIn, ReplacedBy
<1>4. ASSUME NEW c
      PROVE  c \in UNION {FinalCogs(p, i) : i \in Invoiced(p)}
               <=> c \in {FinalRow(p, r) : r \in ReplacedIn(p)}
  BY <1>1, <1>2, <1>3
<1>5. QED
  BY <1>4

LEMMA ReplacedTyped ==
  ASSUME CostInv, NEW r \in replaced
  PROVE  /\ r \in Replacement /\ r.qty \in Nat \ {0}
         /\ r.sale \in 1 .. MaxLedger /\ r.receipt \in 1 .. MaxLedger
         /\ r.sale \in 1 .. Len(movements) /\ r.receipt \in 1 .. Len(movements)
         /\ movements[r.receipt].item \in Items /\ movements[r.sale].unit \in Cost
<1>1. r \in Replacement
  BY DEF CostInv, CostingTypeOK
<1>2. /\ r.sale \in 1 .. Len(movements) /\ r.receipt \in 1 .. Len(movements)
      /\ movements[r.receipt].item \in Items
  BY DEF CostInv, ReplacedOK
<1>3. movements[r.sale].unit \in Cost
  BY <1>2, TypedState DEF CostInv
<1>4. QED
  BY <1>1, <1>2, <1>3 DEF Replacement

LEMMA CogsTyped ==
  ASSUME CostInv, NEW c \in cogs
  PROVE  /\ c.unit \in Nat /\ c.delta \in Int /\ c.role \in {"PROVISIONAL", "FINAL_DELTA"}
         /\ c.qty \in Nat \ {0}
BY DEF CostInv, CostingTypeOK, Reconciliation

LEMMA BaselineNat ==
  ASSUME CostInv, NEW r \in replaced
  PROVE  Value(Baseline(r)) \in Nat
<1> DEFINE prior == {c \in cogs : c.sale = r.sale /\ c.receipt = r.receipt /\ c.role = "PROVISIONAL"}
<1>1. CASE prior # {}
  <2>1. PICK c : c = CHOOSE d \in prior : TRUE
    OBVIOUS
  <2>2. c \in prior
    BY <1>1, <2>1
  <2>3. c.unit \in Cost
    BY <2>2, CogsTyped DEF Cost
  <2>4. Baseline(r) = c.unit
    BY <1>1, <2>1 DEF Baseline
  <2>5. QED
    BY <2>3, <2>4, ValueNat
<1>2. CASE prior = {}
  <2>1. Baseline(r) = movements[r.sale].unit
    BY <1>2 DEF Baseline
  <2>2. QED
    BY <2>1, ReplacedTyped, ValueNat
<1>3. QED
  BY <1>1, <1>2

(* Before a purchase is posted, nothing its receipts replaced is final.    *)
LEMMA NotYetFinal ==
  ASSUME CostInv, NEW p \in Purchases, Postable(p)
  PROVE  /\ \A i \in Invoiced(p) : line[i].landed = NoCost
         /\ \A c \in cogs : movements[c.receipt].item \in Invoiced(p) => c.role = "PROVISIONAL"
<1>1. purchase[p].status # "POSTED"
  BY DEF Postable
<1>2. \A i \in Invoiced(p) : line[i].landed = NoCost
  BY <1>1, InvoicedAre DEF CostInv, PurchaseOK
<1>3. QED
  BY <1>2, CogsTyped DEF CostInv, CogsOK

(* The three parts of the cost of a replaced unit.                         *)
LEMMA Telescope ==
  ASSUME NEW v \in Int, NEW u \in Int, NEW l \in Int, NEW q \in Int
  PROVE  /\ v * q + (l - v) * q = l * q
         /\ v * q + ((l - u) * q + (u - v) * q) = l * q
<1>1. (l - v) * q = l * q - v * q
  OBVIOUS
<1>2. (l - u) * q = l * q - u * q
  OBVIOUS
<1>3. (u - v) * q = u * q - v * q
  OBVIOUS
<1>4. v * q \in Int /\ u * q \in Int /\ l * q \in Int
  OBVIOUS
<1>5. PICK a \in Int, b \in Int, c \in Int : a = v * q /\ b = u * q /\ c = l * q
  BY <1>4
<1>6. a + (c - a) = c /\ a + ((c - b) + (b - a)) = c
  OBVIOUS
<1>7. QED
  BY <1>1, <1>2, <1>3, <1>5, <1>6

LEMMA SettledByPosting ==
  ASSUME CostInv, NEW p \in Purchases, Postable(p), NEW r \in ReplacedIn(p)
  PROVE  Value(movements[r.sale].unit) * r.qty
           + Corrected(cogs \cup {FinalRow(p, s) : s \in ReplacedIn(p)}, r.sale, r.receipt)
         = Landed(p, movements[r.receipt].item) * r.qty
<1> DEFINE C == cogs \cup {FinalRow(p, s) : s \in ReplacedIn(p)}
           P == CogsOf(cogs, r.sale, r.receipt)
           T == CogsOf(C, r.sale, r.receipt)
           f == [c \in T |-> c.delta]
<1>1. PICK g : g = FinalRow(p, r)
  OBVIOUS
<1>2. r \in replaced /\ movements[r.receipt].item \in Invoiced(p)
  BY DEF ReplacedIn
<1>3. PICK v \in Nat : v = Value(movements[r.sale].unit)
  BY <1>2, ReplacedTyped, ValueNat
<1>4. PICK l \in Nat : l = Landed(p, movements[r.receipt].item)
  BY <1>2, LandedNat
<1>5. PICK b \in Nat : b = Value(Baseline(r))
  BY <1>2, BaselineNat
<1>6. PICK q \in Nat : q = r.qty
  BY <1>2, ReplacedTyped
<1>7. /\ g.sale = r.sale /\ g.receipt = r.receipt /\ g.role = "FINAL_DELTA"
      /\ g.delta = (l - b) * q /\ g.delta \in Int
  BY <1>1, <1>4, <1>5, <1>6 DEF FinalRow
<1>8. \A s \in ReplacedIn(p) : s.sale = r.sale /\ s.receipt = r.receipt => s = r
  BY <1>2 DEF ReplacedIn, CostInv, ReplacedOK
<1>9. T = P \cup {g}
  <2>1. \A s \in ReplacedIn(p) : FinalRow(p, s).sale = s.sale /\ FinalRow(p, s).receipt = s.receipt
    BY DEF FinalRow
  <2>2. QED
    BY <1>1, <1>7, <1>8, <2>1 DEF CogsOf
<1>10. \A c \in P : c \in cogs /\ c.sale = r.sale /\ c.receipt = r.receipt
  BY DEF CogsOf
<1>11. \A c \in P : c.role = "PROVISIONAL"
  BY <1>2, <1>10, NotYetFinal
<1>12. P = {c \in cogs : c.sale = r.sale /\ c.receipt = r.receipt /\ c.role = "PROVISIONAL"}
  BY <1>11 DEF CogsOf
<1>13. g \notin P
  BY <1>7, <1>11
<1>14. Corrected(C, r.sale, r.receipt) = SumFunctionOnSet(f, T)
  BY DEF Corrected
<1>15. CASE P = {}
  <2>1. Baseline(r) = movements[r.sale].unit
    BY <1>12, <1>15 DEF Baseline
  <2>2. b = v
    BY <1>3, <1>5, <2>1
  <2>3. T = {} \cup {g} /\ f[g] = (l - v) * q /\ f[g] \in Int
    BY <1>7, <1>9, <1>15, <2>2
  <2>4. SumFunctionOnSet(f, T) = f[g]
    <3> HIDE DEF T, f, C, P
    <3>1. IsFiniteSet({}) /\ g \notin {} /\ \A c \in {} \cup {g} : f[c] \in Int
      BY <2>3, FS_EmptySet
    <3>2. SumFunctionOnSet(f, {} \cup {g}) = f[g] + SumFunctionOnSet(f, {})
      BY <3>1, SumAdd
    <3>3. QED
      BY <2>3, <3>2, SumEmpty
  <2>5. v * q + f[g] = l * q
    BY <2>3, Telescope
  <2>6. QED
    BY <1>3, <1>4, <1>6, <1>14, <2>4, <2>5
<1>16. CASE P # {}
  <2>1. PICK c : c = CHOOSE d \in P : TRUE
    OBVIOUS
  <2>2. c \in P
    BY <1>16, <2>1
  <2>3. P = {c}
    BY <1>10, <1>11, <2>2 DEF CostInv, CogsOK
  <2>4. PICK u \in Nat : u = c.unit
    BY <1>10, <2>2, CogsTyped
  <2>5. Baseline(r) = u
    BY <1>12, <1>16, <2>1, <2>4 DEF Baseline
  <2>6. b = u
    <3>1. u # NoCost
      BY CostingAssumption
    <3>2. QED
      BY <1>5, <2>5, <3>1 DEF Value
  <2>7. c.qty = q
    BY <1>2, <1>6, <1>10, <2>2 DEF CostInv, CogsOK, ReplacedOK
  <2>8. c.delta = (u - v) * q
    BY <1>3, <1>10, <1>11, <2>2, <2>4, <2>7 DEF CostInv, CogsOK
  <2>9. c.delta \in Int
    BY <1>10, <2>2, CogsTyped
  <2>10. T = {c} \cup {g} /\ c # g /\ c \in T /\ g \in T
    BY <1>9, <1>13, <2>2, <2>3
  <2>11. f[c] = (u - v) * q /\ f[g] = (l - u) * q /\ f[c] \in Int /\ f[g] \in Int
    BY <1>7, <2>6, <2>8, <2>9, <2>10
  <2>12. SumFunctionOnSet(f, T) = f[g] + f[c]
    <3> HIDE DEF T, f, C, P
    <3>1. IsFiniteSet({}) /\ c \notin {} /\ \A d \in {} \cup {c} : f[d] \in Int
      BY <2>11, FS_EmptySet
    <3>2. SumFunctionOnSet(f, {} \cup {c}) = f[c] + SumFunctionOnSet(f, {})
      BY <3>1, SumAdd
    <3>3. SumFunctionOnSet(f, {c}) = f[c]
      <4>1. {} \cup {c} = {c}
        OBVIOUS
      <4>2. QED
        BY <2>11, <3>2, <4>1, SumEmpty
    <3>4. IsFiniteSet({c}) /\ g \notin {c} /\ \A d \in {c} \cup {g} : f[d] \in Int
      BY <2>10, <2>11, FS_Singleton
    <3>5. SumFunctionOnSet(f, {c} \cup {g}) = f[g] + SumFunctionOnSet(f, {c})
      BY <3>4, SumAdd
    <3>6. QED
      BY <2>10, <3>3, <3>5
  <2>13. v * q + (f[g] + f[c]) = l * q
    BY <2>11, Telescope
  <2>14. QED
    BY <1>3, <1>4, <1>6, <1>14, <2>12, <2>13
<1>17. QED
  BY <1>15, <1>16

LEMMA PostStep ==
  ASSUME CostInv, NEW p \in Purchases, PostPurchase(p)
  PROVE  CostInv'
<1> USE DEF CostInv
<1> DEFINE F == {FinalRow(p, s) : s \in ReplacedIn(p)}
<1>1. /\ Postable(p) /\ cogs' = cogs \cup F /\ cost' = PostedCosts(p)
      /\ line' = [i \in Items |-> IF i \in Invoiced(p) THEN [line[i] EXCEPT !.landed = Landed(p, i)]
                                  ELSE line[i]]
      /\ UNCHANGED <<invoice, movements, balance, replaced, reading, seen, exempt, adjusting,
                     holes, overtaken>>
  <2>1. UNION {FinalCogs(p, i) : i \in Invoiced(p)} = F
    BY FinalRows
  <2>2. QED
    BY <2>1 DEF PostPurchase
<1>2. /\ purchase[p].status \in {"READY_TO_POST", "RECEIVED"} /\ purchase[p].version < MaxVersion
      /\ seen[p].version = purchase[p].version
      /\ \A i \in Items : Of[i] = p => reading[i].product = NoCost
  BY <1>1 DEF Postable, PurchaseFree, Bump, CurrentVersion, ItemsOf
<1>3. /\ Invoiced(p) \subseteq Items
      /\ \A i \in Invoiced(p) : Of[i] = p /\ Landed(p, i) \in Nat /\ line[i].landed = NoCost
  BY <1>1, InvoicedAre, LandedNat, NotYetFinal
<1>4. line \in [Items -> [price : Cost, landed : Cost]]
  BY DEF CostingTypeOK
<1>5. \A i \in Items : /\ i \in Invoiced(p) => line'[i] = [line[i] EXCEPT !.landed = Landed(p, i)]
                       /\ i \notin Invoiced(p) => line'[i] = line[i]
  BY <1>1
<1>6. \A i \in Items : /\ i \in Invoiced(p) => line'[i].landed = Landed(p, i)
                       /\ i \notin Invoiced(p) => line'[i].landed = line[i].landed
  BY <1>4, <1>5
<1>7. line' \in [Items -> [price : Cost, landed : Cost]]
  <2>1. \A i \in Invoiced(p) : Landed(p, i) \in Cost
    BY <1>3 DEF Cost
  <2>2. ASSUME NEW i \in Items
        PROVE  line'[i] \in [price : Cost, landed : Cost]
    <3>1. line[i] \in [price : Cost, landed : Cost]
      BY <1>4
    <3>2. CASE i \in Invoiced(p)
      <4>1. PICK l \in Cost : l = Landed(p, i)
        BY <2>1, <3>2
      <4>2. line'[i] = [line[i] EXCEPT !.landed = l]
        BY <1>5, <3>2, <4>1
      <4>3. QED
        BY <3>1, <4>2
    <3>3. CASE i \notin Invoiced(p)
      BY <1>5, <3>1, <3>3
    <3>4. QED
      BY <3>2, <3>3
  <2>3. QED
    BY <1>1, <2>2
<1>8. \A i \in Invoiced(p) : line'[i].landed # NoCost
  BY <1>3, <1>6, CostingAssumption
<1>9. BookOK' /\ MovementsOK' /\ ReplacedOK' /\ AdjustingOK'
  BY <1>1, NothingMoved
<1>10. PICK c : c = [purchase[p] EXCEPT !.status = "POSTED", !.version = purchase[p].version + 1]
  OBVIOUS
<1>11. purchase \in [Purchases -> Purchase] /\ purchase[p].version \in Nat /\ MaxVersion \in Nat
  BY PurchaseTyped, CostingAssumption DEF CostingTypeOK
<1>12. purchase[p].version + 1 \in 0 .. MaxVersion
  BY <1>2, <1>11
<1>13. c \in Purchase /\ c.status = "POSTED" /\ c.version = purchase[p].version + 1
  BY <1>10, <1>11, <1>12 DEF Purchase
<1>14. purchase' = [purchase EXCEPT ![p] = c]
  BY <1>10, <1>11 DEF PostPurchase, Purchase
<1>15. /\ purchase' \in [Purchases -> Purchase] /\ purchase'[p] = c
       /\ \A q \in Purchases : q # p => purchase'[q] = purchase[q]
  BY <1>11, <1>13, <1>14
<1>16. \A r \in ReplacedIn(p) :
         /\ r \in replaced /\ movements[r.receipt].item \in Invoiced(p)
         /\ FinalRow(p, r).sale = r.sale /\ FinalRow(p, r).receipt = r.receipt
         /\ FinalRow(p, r).qty = r.qty /\ FinalRow(p, r).role = "FINAL_DELTA"
  BY DEF ReplacedIn, FinalRow
<1>17. F \subseteq Reconciliation
  <2> SUFFICES ASSUME NEW r \in ReplacedIn(p)
               PROVE  FinalRow(p, r) \in Reconciliation
    OBVIOUS
  <2>1. /\ r.qty \in Nat \ {0} /\ r.sale \in 1 .. MaxLedger /\ r.receipt \in 1 .. MaxLedger
        /\ Value(Baseline(r)) \in Nat
    BY <1>16, ReplacedTyped, BaselineNat
  <2>2. Landed(p, movements[r.receipt].item) \in Nat
    BY <1>3, <1>16
  <2>3. (Landed(p, movements[r.receipt].item) - Value(Baseline(r))) * r.qty \in Int
    BY <2>1, <2>2
  <2>4. QED
    BY <2>1, <2>2, <2>3 DEF FinalRow, Reconciliation
<1>18. CostingTypeOK'
  <2>1. cost' \in [Products -> [mwa : Cost, status : {"FINAL", "PROVISIONAL"}]]
    BY <1>1, PostedCostsTyped
  <2>2. cogs' \subseteq Reconciliation
    BY <1>1, <1>17 DEF CostingTypeOK
  <2>3. QED
    BY <1>1, <1>7, <1>15, <2>1, <2>2 DEF CostingTypeOK
<1>19. PurchaseOK'
  <2>1. \A q \in Purchases : purchase'[q].status = "NONE" => purchase'[q].version = 0
    BY <1>13, <1>15 DEF PurchaseOK
  <2>2. invoice[p].version \in Nat /\ invoice[p].version <= purchase[p].version
    BY PurchaseTyped DEF PurchaseOK
  <2>3. \A q \in Purchases : invoice'[q].version <= purchase'[q].version
    BY <1>1, <1>11, <1>13, <1>15, <2>2 DEF PurchaseOK
  <2>4. \A q \in Purchases : invoice'[q].lines \subseteq ItemsOf(q) \X Prices
    BY <1>1 DEF PurchaseOK
  <2>5. \A i \in Items : line'[i].landed # NoCost => purchase'[Of[i]].status = "POSTED"
    BY <1>3, <1>6, <1>13, <1>15, CostingAssumption DEF PurchaseOK
  <2>6. QED
    BY <2>1, <2>3, <2>4, <2>5 DEF PurchaseOK, ItemsOf
<1>20. ReadingOK'
  <2>1. \A i \in Items : reading[i].product # NoCost => purchase'[Of[i]] = purchase[Of[i]]
    BY <1>2, <1>15, CostingAssumption
  <2>2. QED
    BY <1>1, <2>1 DEF ReadingOK, HasRows
<1>21. SeenOK'
  <2>1. seen'[p].version <= purchase'[p].version /\ seen'[p].version # purchase'[p].version
    BY <1>1, <1>2, <1>11, <1>13, <1>15
  <2>2. \A q \in Purchases : ReceivedQty(q)' = ReceivedQty(q)
    BY <1>1, ReceivedSame
  <2>3. QED
    BY <1>1, <1>15, <2>1, <2>2 DEF SeenOK
<1>22. CogsOK'
  <2>1. IsFiniteSet(F)
    <3> DEFINE g == [r \in ReplacedIn(p) |-> FinalRow(p, r)]
    <3>1. ReplacedIn(p) \subseteq replaced /\ IsFiniteSet(replaced)
      BY DEF ReplacedIn, ReplacedOK
    <3>2. IsFiniteSet(ReplacedIn(p))
      BY <3>1, FS_Subset
    <3>3. F = {g[r] : r \in ReplacedIn(p)}
      OBVIOUS
    <3> HIDE DEF F, g
    <3>4. QED BY <3>2, <3>3, ImageFinite
  <2>2. IsFiniteSet(cogs')
    BY <1>1, <2>1, FS_Union DEF CogsOK
  <2>3. \A d \in F :
          /\ \E r \in replaced' : r.sale = d.sale /\ r.receipt = d.receipt /\ r.qty = d.qty
          /\ d.role = "FINAL_DELTA"
          /\ movements[d.receipt].item \in Invoiced(p)
    BY <1>1, <1>16
  <2>4. \A d \in F : line'[movements'[d.receipt].item].landed # NoCost
    BY <1>1, <1>8, <2>3
  <2>5. \A d \in cogs : movements[d.receipt].item \in Items
    BY DEF CogsOK, ReplacedOK
  <2>6. \A d \in cogs : d.role = "FINAL_DELTA" => line'[movements'[d.receipt].item].landed # NoCost
    BY <1>1, <1>6, <1>8, <2>5 DEF CogsOK
  <2>7. \A d \in cogs' :
          /\ \E r \in replaced' : r.sale = d.sale /\ r.receipt = d.receipt /\ r.qty = d.qty
          /\ d.role = "PROVISIONAL" => d.delta = (d.unit - Value(movements'[d.sale].unit)) * d.qty
          /\ d.role = "FINAL_DELTA" => line'[movements'[d.receipt].item].landed # NoCost
    <3> HIDE DEF F
    <3>1. QED BY <1>1, <2>3, <2>4, <2>6 DEF CogsOK
  <2>8. \A d, e \in F : d.sale = e.sale /\ d.receipt = e.receipt => d = e
    BY <1>16 DEF ReplacedOK
  <2>9. \A d \in cogs : movements[d.receipt].item \in Invoiced(p) => d.role = "PROVISIONAL"
    BY <1>1, NotYetFinal
  <2>10. \A d, e \in cogs' : d.sale = e.sale /\ d.receipt = e.receipt /\ d.role = e.role => d = e
    <3> HIDE DEF F
    <3>1. QED BY <1>1, <2>3, <2>8, <2>9 DEF CogsOK
  <2>11. QED
    BY <2>2, <2>7, <2>10 DEF CogsOK, Value
<1>23. CogsSettled'
  <2> SUFFICES ASSUME NEW r \in replaced, line'[movements[r.receipt].item].landed # NoCost
               PROVE  Value(movements[r.sale].unit) * r.qty + Corrected(cogs', r.sale, r.receipt)
                        = line'[movements[r.receipt].item].landed * r.qty
    BY <1>1, CogsSettledNext
  <2>1. movements[r.receipt].item \in Items
    BY DEF ReplacedOK
  <2>2. CASE movements[r.receipt].item \in Invoiced(p)
    <3>1. r \in ReplacedIn(p)
      BY <2>2 DEF ReplacedIn
    <3>2. Value(movements[r.sale].unit) * r.qty
            + Corrected(cogs \cup F, r.sale, r.receipt)
          = Landed(p, movements[r.receipt].item) * r.qty
      BY <1>1, <3>1, SettledByPosting
    <3>3. QED
      BY <1>1, <1>6, <2>1, <2>2, <3>2
  <2>3. CASE movements[r.receipt].item \notin Invoiced(p)
    <3>1. CogsOf(cogs', r.sale, r.receipt) = CogsOf(cogs, r.sale, r.receipt)
      BY <1>1, <1>16, <2>3 DEF CogsOf
    <3>2. Corrected(cogs', r.sale, r.receipt) = Corrected(cogs, r.sale, r.receipt)
      BY <3>1 DEF Corrected
    <3>3. line'[movements[r.receipt].item].landed = line[movements[r.receipt].item].landed
      BY <1>6, <2>1, <2>3
    <3>4. QED
      BY <3>2, <3>3, CogsSettledIs
  <2>4. QED
    BY <2>2, <2>3
<1>24. QED
  BY <1>9, <1>18, <1>19, <1>20, <1>21, <1>22, <1>23

-----------------------------------------------------------------------------
LEMMA CostingStarts ==
  ASSUME CostingInit
  PROVE  CostInv
<1> USE DEF CostingInit
<1>1. MaxVersion \in Nat \ {0} /\ MaxLedger \in Nat /\ 0 \in 0 .. MaxVersion
  BY CostingAssumption
<1>2. movements = <<>> /\ Len(movements) = 0
  OBVIOUS
<1>3. NoInvoice \in Invoice
  BY <1>1 DEF NoInvoice, Invoice
<1>4. CostingTypeOK
  <2>1. purchase \in [Purchases -> Purchase]
    BY <1>1 DEF Purchase
  <2>2. invoice \in [Purchases -> Invoice]
    BY <1>3
  <2>3. line \in [Items -> [price : Cost, landed : Cost]]
    BY DEF Cost
  <2>4. movements \in Seq(StockMovement) /\ Len(movements) <= MaxLedger
    BY <1>1
  <2>5. balance \in [Products -> Int]
    BY CostingAssumption
  <2>6. cost \in [Products -> [mwa : Cost, status : {"FINAL", "PROVISIONAL"}]]
    BY CostingAssumption DEF Cost
  <2>7. reading \in [Items -> [product : Products \cup {NoCost}, qty : Int, mwa : Cost]]
    BY DEF NoReading, Cost
  <2>8. seen \in [Purchases -> [version : 0 .. MaxVersion, invoice : Invoice, received : Nat]]
    BY <1>1, <1>3
  <2>9. QED
    BY <2>1, <2>2, <2>3, <2>4, <2>5, <2>6, <2>7, <2>8 DEF CostingTypeOK
<1>5. BookOK
  <2> SUFFICES ASSUME NEW x \in Products
               PROVE  balance[x] = Book(movements, Len(movements), x)
    BY DEF BookOK
  <2>1. {j \in 1 .. Len(movements) : movements[j].product = x} = {}
    BY <1>2
  <2>2. Book(movements, Len(movements), x) = Opening[x] + 0
    BY <2>1, SumEmpty DEF Book
  <2>3. Opening[x] \in Nat
    BY CostingAssumption
  <2>4. QED
    BY <2>2, <2>3
<1>6. PurchaseOK
  BY CostingAssumption DEF PurchaseOK, NoInvoice
<1>7. ReadingOK
  BY DEF ReadingOK, NoReading
<1>8. \A i \in Items : Receipts(i) = {} /\ PhysicalQty(i) = 0
  <2> TAKE i \in Items
  <2>1. Receipts(i) = {}
    BY <1>2 DEF Receipts
  <2>2. QED
    BY <2>1, SumEmpty DEF PhysicalQty, Total
<1>9. \A p \in Purchases : ReceivedQty(p) = 0
  <2> TAKE p \in Purchases
  <2> DEFINE S == ItemsOf(p)
             f == [i \in S |-> PhysicalQty(i)]
  <2>1. S \subseteq Items
    BY DEF ItemsOf
  <2>2. IsFiniteSet(S) /\ \A i \in S : f[i] = 0
    BY <1>8, <2>1, CostingAssumption, FS_Subset
  <2>3. ReceivedQty(p) = SumFunctionOnSet(f, S)
    BY DEF ReceivedQty, Total
  <2> HIDE DEF S, f
  <2>4. QED
    BY <2>2, <2>3, SumZero
<1>10. SeenOK
  BY <1>9 DEF SeenOK
<1>11. MovementsOK
  BY <1>2 DEF MovementsOK
<1>12. ReplacedOK /\ CogsOK
  BY FS_EmptySet DEF ReplacedOK, CogsOK
<1>13. CogsSettled /\ AdjustingOK
  BY DEF CogsSettled, AdjustingOK
<1>14. QED
  BY <1>4, <1>5, <1>6, <1>7, <1>10, <1>11, <1>12, <1>13 DEF CostInv

LEMMA CostingStutters ==
  ASSUME CostInv, UNCHANGED costingVars
  PROVE  CostInv'
<1> USE DEF CostInv, costingVars
<1>1. CostingTypeOK'
  BY DEF CostingTypeOK
<1>2. BookOK' /\ MovementsOK' /\ ReplacedOK' /\ AdjustingOK' /\ CogsOK' /\ CogsSettled'
  BY NothingMoved, NothingSettled
<1>3. PurchaseOK' /\ ReadingOK'
  BY DEF PurchaseOK, ItemsOf, ReadingOK, HasRows
<1>4. SeenOK'
  BY ReceivedSame DEF SeenOK
<1>5. QED
  BY <1>1, <1>2, <1>3, <1>4

LEMMA CostingSteps ==
  ASSUME CostInv, [CostingNext]_costingVars
  PROVE  CostInv'
<1>1. ASSUME NEW p \in Purchases, CreatePurchase(p)
      PROVE  CostInv'
  BY <1>1, CreateStep
<1>2. ASSUME NEW p \in Purchases, LoadPurchase(p)
      PROVE  CostInv'
  BY <1>2, LoadStep
<1>3. ASSUME NEW p \in Purchases, PostPurchase(p)
      PROVE  CostInv'
  BY <1>3, PostStep
<1>4. ASSUME NEW i \in Items, ReadStock(i)
      PROVE  CostInv'
  BY <1>4, ReadStep
<1>5. ASSUME NEW i \in Items, NEW lot \in Lots, ReceiveGoods(i, lot)
      PROVE  CostInv'
  BY <1>5, ReceiveStep
<1>6. ASSUME NEW p \in Purchases, NEW charge \in Charges, NEW priced \in InvoiceLines(p),
             CaptureInvoice(p, priced, charge)
      PROVE  CostInv'
  BY <1>6, CaptureStep
<1>7. ASSUME NEW x \in Products, NEW q \in SaleQty, SellGoods(x, q)
      PROVE  CostInv'
  BY <1>7, SellStep
<1>8. ASSUME NEW k \in 1 .. Len(movements), NEW q \in SaleQty, RestockReturn(k, q)
      PROVE  CostInv'
  BY <1>8, ReturnStep
<1>9. ASSUME NEW x \in Products, NEW d \in Adjustments, BeginAdjustment(x, d)
      PROVE  CostInv'
  BY <1>9, BeginStep
<1>10. ASSUME NEW a \in adjusting, FinishAdjustment(a)
       PROVE  CostInv'
  BY <1>10, FinishStep
<1>11. ASSUME NEW a \in adjusting, AbandonAdjustment(a)
       PROVE  CostInv'
  BY <1>11, AbandonStep
<1>12. ASSUME UNCHANGED costingVars
       PROVE  CostInv'
  BY <1>12, CostingStutters
<1>13. QED
  BY <1>1, <1>2, <1>3, <1>4, <1>5, <1>6, <1>7, <1>8, <1>9, <1>10, <1>11, <1>12
  DEF CostingNext

-----------------------------------------------------------------------------
(* A shortage is replaced once.                                            *)

LEMMA DeficitFalls ==
  ASSUME NEW a \in Int, NEW d \in Int, d >= 0
  PROVE  Deficit(a + d) <= Deficit(a)
BY DEF Deficit, Greatest

LEMMA GivenSome ==
  ASSUME CostInv, NEW k
  PROVE  GivenTo(replaced, k) \in Nat
<1>1. IsFiniteSet(replaced) /\ \A r \in replaced : r.qty \in Nat
  BY ReplacedTyped DEF CostInv, ReplacedOK
<1>2. QED
  BY <1>1, GivenNat

(* How a recorded movement changes deficit and diggings.                   *)
LEMMA RecordedTail ==
  ASSUME CostInv, Room, NEW m \in StockMovement, Sound(m),
         (m.kind = "SALE" \/ m.delta >= 0),
         movements' = Append(movements, m),
         balance' = [balance EXCEPT ![m.product] = balance[m.product] + m.delta],
         NEW x \in Products
  PROVE  /\ Deficit(balance[x]) \in Nat /\ Deficit(balance'[x]) \in Nat
         /\ \A k \in SalesIn(movements', x) :
              \/ k \in SalesIn(movements, x)
              \/ (k = Len(movements) + 1 /\ \A r \in replaced : r.sale # k)
         /\ \A k \in SalesIn(movements', x) : NegativeIn(movements', k) \in Nat
         /\ \A k \in SalesIn(movements, x) :
              NegativeIn(movements', k) = NegativeIn(movements, k)
         /\ \A k \in 1 .. Len(movements) + 1 :
              /\ DugFrom(movements, x, k) \in Nat /\ DugFrom(movements', x, k) \in Nat
              /\ DugFrom(movements', x, k) - Deficit(balance'[x])
                   >= DugFrom(movements, x, k) - Deficit(balance[x])
         /\ m.kind # "SALE" => SalesIn(movements', x) = SalesIn(movements, x)
<1> USE DEF CostInv
<1>1. PICK n : n = Len(movements)
  OBVIOUS
<1>2. /\ movements \in Seq(StockMovement) /\ movements' \in Seq(StockMovement) /\ n \in Nat
      /\ balance[x] \in Int
  BY <1>1, TypedState, Appended
<1>3. m.delta \in Int /\ m.product \in Products
  BY DEF StockMovement
<1>4. balance'[x] = balance[x] + (IF m.product = x THEN m.delta ELSE 0)
  BY RecordedBook
<1>5. balance'[x] \in Int
  BY <1>2, <1>3, <1>4
<1>6. Deficit(balance[x]) \in Nat /\ Deficit(balance'[x]) \in Nat
  BY <1>2, <1>5, DeficitNat
<1>7. \A r \in replaced : r.sale # n + 1
  <2>1. \A r \in replaced : r.sale \in 1 .. n
    BY <1>1, ReplacedTyped
  <2>2. QED
    BY <1>2, <2>1
<1>8. /\ m.kind = "SALE" /\ m.product = x =>
           SalesIn(movements', x) = SalesIn(movements, x) \cup {n + 1}
      /\ ~(m.kind = "SALE" /\ m.product = x) => SalesIn(movements', x) = SalesIn(movements, x)
  BY <1>1, <1>2, SalesNext
<1>9. \A k \in SalesIn(movements', x) :
        \/ k \in SalesIn(movements, x)
        \/ (k = n + 1 /\ \A r \in replaced : r.sale # k)
  BY <1>7, <1>8
<1>10. \A k \in SalesIn(movements', x) : NegativeIn(movements', k) \in Nat
  BY <1>2, SalesFinite
<1>11. \A k \in SalesIn(movements, x) : NegativeIn(movements', k) = NegativeIn(movements, k)
  BY <1>2, SalesFinite, NegativeStable
<1>12. ASSUME NEW k \in 1 .. n + 1
       PROVE  /\ DugFrom(movements, x, k) \in Nat /\ DugFrom(movements', x, k) \in Nat
              /\ DugFrom(movements', x, k) - Deficit(balance'[x])
                   >= DugFrom(movements, x, k) - Deficit(balance[x])
  <2>1. DugFrom(movements, x, k) \in Nat /\ DugFrom(movements', x, k) \in Nat
    BY <1>2, DugFromNat
  <2>2. CASE m.kind = "SALE" /\ m.product = x
    <3>1. /\ DugFrom(movements', x, k)
               = DugFrom(movements, x, k) + NegativeIn(movements', n + 1)
          /\ NegativeIn(movements', n + 1) \in Nat
      BY <1>1, <1>2, <2>2, DugFromNext
    <3>2. m.delta <= 0
      BY <2>2 DEF Sound
    <3>3. Book(movements, n, x) = balance[x]
      BY <1>1 DEF BookOK
    <3>4. NegativeIn(movements', n + 1) = Deficit(balance[x] + m.delta) - Deficit(balance[x])
      BY <1>1, <1>2, <2>2, <3>2, <3>3, NegativeNew
    <3>5. balance'[x] = balance[x] + m.delta
      BY <1>4, <2>2
    <3>6. QED
      BY <1>6, <2>1, <3>1, <3>4, <3>5
  <2>3. CASE ~(m.kind = "SALE" /\ m.product = x)
    <3>1. DugFrom(movements', x, k) = DugFrom(movements, x, k)
      BY <1>1, <1>2, <2>3, DugFromNext
    <3>2. Deficit(balance'[x]) <= Deficit(balance[x])
      <4>1. CASE m.product = x
        <5>1. m.delta >= 0 /\ balance'[x] = balance[x] + m.delta
          BY <1>4, <2>3, <4>1
        <5>2. QED
          BY <1>2, <1>3, <5>1, DeficitFalls
      <4>2. CASE m.product # x
        BY <1>2, <1>4, <1>6, <4>2
      <4>3. QED
        BY <4>1, <4>2
    <3>3. QED
      BY <1>6, <2>1, <3>1, <3>2
  <2>4. QED
    BY <2>2, <2>3
<1>13. m.kind # "SALE" => SalesIn(movements', x) = SalesIn(movements, x)
  BY <1>8
<1>14. QED
  BY <1>1, <1>6, <1>9, <1>10, <1>11, <1>12, <1>13

LEMMA TailKept ==
  ASSUME CostInv, TailOK, Room, NEW m \in StockMovement, Sound(m),
         (m.kind = "SALE" \/ m.delta >= 0),
         movements' = Append(movements, m),
         balance' = [balance EXCEPT ![m.product] = balance[m.product] + m.delta],
         UNCHANGED <<replaced, holes, overtaken>>
  PROVE  TailOK'
<1> SUFFICES ASSUME NEW x \in Products, x \notin holes \cup overtaken
             PROVE  /\ Deficit(balance'[x]) <= DugFrom(movements', x, 1)
                    /\ \A k \in SalesIn(movements', x) :
                         /\ GivenTo(replaced, k) <= NegativeIn(movements', k)
                         /\ \/ GivenTo(replaced, k) = 0
                            \/ GivenTo(replaced, k)
                                 <= DugFrom(movements', x, k) - Deficit(balance'[x])
  BY DEF TailOK, SalesIn
<1>1. PICK n : n = Len(movements)
  OBVIOUS
<1>2. n \in Nat
  BY <1>1, TypedState DEF CostInv
<1>3. /\ Deficit(balance[x]) \in Nat /\ Deficit(balance'[x]) \in Nat
      /\ \A k \in SalesIn(movements', x) :
           \/ k \in SalesIn(movements, x)
           \/ (k = n + 1 /\ \A r \in replaced : r.sale # k)
      /\ \A k \in SalesIn(movements', x) : NegativeIn(movements', k) \in Nat
      /\ \A k \in SalesIn(movements, x) : NegativeIn(movements', k) = NegativeIn(movements, k)
      /\ \A k \in 1 .. n + 1 :
           /\ DugFrom(movements, x, k) \in Nat /\ DugFrom(movements', x, k) \in Nat
           /\ DugFrom(movements', x, k) - Deficit(balance'[x])
                >= DugFrom(movements, x, k) - Deficit(balance[x])
  BY <1>1, RecordedTail
<1>4. /\ Deficit(balance[x]) <= DugFrom(movements, x, 1)
      /\ \A k \in SalesIn(movements, x) :
           /\ GivenTo(replaced, k) <= NegativeIn(movements, k)
           /\ \/ GivenTo(replaced, k) = 0
              \/ GivenTo(replaced, k) <= DugFrom(movements, x, k) - Deficit(balance[x])
  BY DEF TailOK
<1>5. Deficit(balance'[x]) <= DugFrom(movements', x, 1)
  <2>1. 1 \in 1 .. n + 1
    BY <1>2
  <2>2. QED
    BY <1>3, <1>4, <2>1
<1>6. ASSUME NEW k \in SalesIn(movements', x)
      PROVE  /\ GivenTo(replaced, k) <= NegativeIn(movements', k)
             /\ \/ GivenTo(replaced, k) = 0
                \/ GivenTo(replaced, k) <= DugFrom(movements', x, k) - Deficit(balance'[x])
  <2>1. GivenTo(replaced, k) \in Nat
    BY GivenSome
  <2>2. CASE k \in SalesIn(movements, x)
    <3>1. k \in 1 .. n + 1
      BY <1>1, <1>2, <2>2 DEF SalesIn
    <3>2. QED
      BY <1>3, <1>4, <2>1, <2>2, <3>1
  <2>3. CASE k = n + 1 /\ \A r \in replaced : r.sale # k
    <3>1. GivenTo(replaced, k) = 0
      BY <2>3, GivenNothing
    <3>2. QED
      BY <1>3, <3>1
  <2>4. QED
    BY <1>3, <2>2, <2>3
<1>7. QED
  BY <1>5, <1>6

(* What a receipt gives keeps within what is open.                         *)
LEMMA WithinOpen ==
  ASSUME NEW given \in Nat, NEW neg \in Nat, NEW from \in Nat, NEW after \in Nat,
         from = after + neg,
         NEW old \in Int, old < 0, NEW qty \in Nat, NEW open \in Nat, open >= -old - from,
         given <= neg, (given = 0 \/ given <= from - Deficit(old)),
         NEW tail \in Nat, tail = Least(neg, Greatest(0, -old - after)),
         NEW a \in Nat, a = Least(tail, Greatest(0, Least(qty, -old) - open)), a > 0
  PROVE  /\ given + a <= neg
         /\ given + a <= from - Deficit(old + qty)
<1>1. PICK d \in Nat : d = -old
  OBVIOUS
<1>2. PICK f \in Nat : f = Least(qty, d) /\ f <= d /\ f <= qty
  BY DEF Least
<1>3. Deficit(old) = d /\ Deficit(old + qty) = d - f
  BY <1>1, <1>2 DEF Deficit, Greatest, Least
<1>4. a <= tail /\ a <= f - open
  BY <1>1, <1>2 DEF Least, Greatest
<1>5. tail <= neg /\ tail <= d - after
  BY <1>1, <1>4 DEF Least, Greatest
<1>6. open >= d - from
  BY <1>1
<1>7. CASE given = 0
  BY <1>2, <1>3, <1>4, <1>5, <1>6, <1>7
<1>8. CASE given <= from - d
  BY <1>2, <1>3, <1>4, <1>5, <1>6, <1>8
<1>9. QED
  BY <1>3, <1>7, <1>8

LEMMA ReceiptTail ==
  ASSUME CostInv, TailOK, NEW i \in Items, NEW lot \in Lots, ReceiveGoods(i, lot)
  PROVE  TailOK'
<1> USE DEF CostInv
<1>1. PICK m, rs, pc : Received(i, lot, m, rs, pc)
  BY DEF Received
<1>2. PICK n : n = Len(movements)
  OBVIOUS
<1>3. /\ m \in StockMovement /\ Sound(m) /\ Room /\ m.item = i /\ m.product = Product[i]
      /\ m.product \in Products /\ m.delta \in Nat /\ m.kind = "PURCHASE_RECEIPT"
      /\ movements' = Append(movements, m)
      /\ balance' = [balance EXCEPT ![m.product] = balance[m.product] + m.delta]
      /\ replaced' = replaced \cup rs /\ UNCHANGED <<holes, overtaken>>
      /\ reading[i].product = Product[i] /\ reading[i].product # NoCost /\ reading[i].qty \in Int
      /\ m.delta = PhysicalLot(lot)
  BY <1>1, ReceiptFacts
<1>4. /\ \A r \in rs : /\ r.sale \in SalesIn(movements, m.product) /\ r.sale \in 1 .. n
                       /\ r.receipt = n + 1 /\ r.qty \in Nat \ {0}
  BY <1>1, <1>2, ReceiptReplaced
<1>5. IsFiniteSet(replaced) /\ \A r \in replaced : r.qty \in Nat /\ r.receipt # n + 1
  BY <1>2, <1>3, ReplacedTyped, ReplacedKept DEF ReplacedOK
<1>6. PICK old \in Int : old = reading[i].qty
  BY <1>3
<1>7. PICK qty \in Nat : qty = m.delta
  BY <1>3
<1>8. rs = Replacements(m.product, old, qty)
  BY <1>1, <1>3, <1>6, <1>7 DEF Received
<1>9. n \in Nat /\ movements \in Seq(StockMovement) /\ CostingTypeOK
  BY <1>2, TypedState
<1> SUFFICES ASSUME NEW x \in Products, x \notin holes \cup overtaken
             PROVE  /\ Deficit(balance'[x]) <= DugFrom(movements', x, 1)
                    /\ \A k \in SalesIn(movements', x) :
                         /\ GivenTo(replaced', k) <= NegativeIn(movements', k)
                         /\ \/ GivenTo(replaced', k) = 0
                            \/ GivenTo(replaced', k)
                                 <= DugFrom(movements', x, k) - Deficit(balance'[x])
  BY <1>3 DEF TailOK, SalesIn
<1>10. /\ Deficit(balance[x]) \in Nat /\ Deficit(balance'[x]) \in Nat
       /\ SalesIn(movements', x) = SalesIn(movements, x)
       /\ \A k \in SalesIn(movements, x) : NegativeIn(movements', k) = NegativeIn(movements, k)
       /\ \A k \in 1 .. n + 1 :
            /\ DugFrom(movements, x, k) \in Nat /\ DugFrom(movements', x, k) \in Nat
            /\ DugFrom(movements', x, k) - Deficit(balance'[x])
                 >= DugFrom(movements, x, k) - Deficit(balance[x])
  <2>1. m.kind # "SALE" /\ m.delta >= 0
    BY <1>3
  <2>2. QED
    BY <1>2, <1>3, <2>1, RecordedTail
<1>11. /\ Deficit(balance[x]) <= DugFrom(movements, x, 1)
       /\ \A k \in SalesIn(movements, x) :
            /\ GivenTo(replaced, k) <= NegativeIn(movements, k)
            /\ \/ GivenTo(replaced, k) = 0
               \/ GivenTo(replaced, k) <= DugFrom(movements, x, k) - Deficit(balance[x])
  BY DEF TailOK
<1>12. Deficit(balance'[x]) <= DugFrom(movements', x, 1)
  <2>1. 1 \in 1 .. n + 1
    BY <1>9
  <2>2. QED
    BY <1>10, <1>11, <2>1
<1>13. ASSUME NEW k \in SalesIn(movements, x)
       PROVE  /\ GivenTo(replaced', k) <= NegativeIn(movements, k)
              /\ \/ GivenTo(replaced', k) = 0
                 \/ GivenTo(replaced', k) <= DugFrom(movements', x, k) - Deficit(balance'[x])
  <2>1. k \in 1 .. n + 1 /\ k \in 1 .. n /\ k \in Nat \ {0} /\ movements[k].product = x
    BY <1>2, <1>9 DEF SalesIn
  <2>2. PICK given \in Nat : given = GivenTo(replaced, k)
    BY GivenSome
  <2>3. CASE \A r \in rs : r.sale # k
    <3>1. GivenTo(replaced', k) = given
      BY <1>3, <2>2, <2>3, GivenSame
    <3>2. QED
      BY <1>10, <1>11, <2>1, <2>2, <3>1
  <2>4. CASE \E r \in rs : r.sale = k
    <3>1. PICK s \in rs : s.sale = k
      BY <2>4
    <3>2. x = m.product
      BY <1>4, <2>1, <3>1 DEF SalesIn
    <3>3. /\ old < 0 /\ s.qty = Allocated(x, old, k, qty) /\ s.qty \in Nat \ {0}
      BY <1>8, <1>9, <3>1, <3>2, ReplacementsAre
    <3>4. PICK a \in Nat : a = Allocated(x, old, k, qty) /\ a > 0
      BY <3>3
    <3>5. \A r \in rs : r.sale = k => r = s
      <4>1. {r \in rs : r.sale = k}
              = {[sale |-> k, receipt |-> Len(movements) + 1, qty |-> Allocated(x, old, k, qty)]}
        BY <1>8, <1>9, <3>2, <3>3, <3>4, ReplacementOf
      <4>2. s \in {r \in rs : r.sale = k}
        BY <3>1
      <4>3. QED
        BY <4>1, <4>2
    <3>6. GivenTo(replaced', k) = given + a
      <4>1. s \notin replaced /\ s.qty \in Nat
        BY <1>4, <1>5, <3>1
      <4>2. IsFiniteSet(replaced) /\ \A r \in replaced : r.qty \in Nat
        BY <1>5
      <4>3. GivenTo(replaced \cup rs, k) = GivenTo(replaced, k) + s.qty
        <5>1. Gets(replaced, rs, k, s)
          BY <3>1, <3>5, <4>1, <4>2 DEF Gets
        <5>2. QED
          BY <5>1, GivenMore
      <4>4. QED
        BY <1>3, <2>2, <3>3, <3>4, <4>3
    <3>7. old = balance[x]
      BY <1>3, <1>6, <3>2, <3>3 DEF ReadingOK
    <3>8. balance'[x] = old + qty
      BY <1>3, <1>7, <3>2, <3>7 DEF CostingTypeOK
    <3>9. PICK neg \in Nat : neg = NegativeIn(movements, k)
      BY <1>2, <1>9, <2>1, NegativeNat
    <3>10. PICK from \in Nat : from = DugFrom(movements, x, k)
      BY <1>9, DugFromNat
    <3>11. PICK after \in Nat : after = DugFrom(movements, x, k + 1)
      BY <1>9, DugFromNat
    <3>12. PICK open \in Nat : open = OpenBefore(x, old, k)
      BY <1>9, OpenNat
    <3>13. PICK tail \in Nat : tail = UnresolvedTail(x, old, k)
      BY <1>9, TailIs
    <3>14. from = after + neg
      BY <1>9, <2>1, <3>9, <3>10, <3>11, DugFromSplit
    <3>15. open >= -old - from
      <4>1. -old <= DugFrom(movements, x, 1)
        BY <1>11, <3>3, <3>7, DeficitNat
      <4>2. QED
        BY <1>9, <2>1, <3>10, <3>12, <4>1, OpenEnough
    <3>16. given <= neg /\ (given = 0 \/ given <= from - Deficit(old))
      BY <1>11, <2>2, <3>7, <3>9, <3>10
    <3>17. tail = Least(neg, Greatest(0, -old - after))
      BY <1>9, <3>9, <3>11, <3>13, TailIs
    <3>18. a = Least(tail, Greatest(0, Least(qty, -old) - open))
      BY <1>9, <3>4, <3>12, <3>13, AllocatedIs
    <3>19. given + a <= neg /\ given + a <= from - Deficit(old + qty)
      BY <3>3, <3>4, <3>14, <3>15, <3>16, <3>17, <3>18, WithinOpen
    <3>20. DugFrom(movements', x, k) = from
      <4>1. ~(m.kind = "SALE" /\ m.product = x)
        BY <1>3
      <4>2. QED
        BY <1>2, <1>3, <1>9, <2>1, <3>10, <4>1, DugFromNext
    <3>21. QED
      BY <3>6, <3>8, <3>9, <3>19, <3>20
  <2>5. QED
    BY <2>3, <2>4
<1>14. QED
  BY <1>10, <1>12, <1>13

LEMMA RecordsTail ==
  ASSUME CostInv, TailOK, NEW m, Records(m), (m.kind = "SALE" \/ m.delta >= 0),
         UNCHANGED <<replaced, holes, overtaken>>
  PROVE  TailOK'
BY TailKept DEF Records

LEMMA TailUnmoved ==
  ASSUME TailOK, UNCHANGED <<movements, balance, replaced, holes, overtaken>>
  PROVE  TailOK'
BY DEF TailOK

LEMMA TailStarts ==
  ASSUME CostingInit
  PROVE  TailOK
<1>1. CostInv
  BY CostingStarts
<1>2. movements = <<>> /\ replaced = {} /\ movements \in Seq(StockMovement)
  BY <1>1 DEF CostingInit, CostInv, CostingTypeOK
<1>3. \A x \in Products : SalesIn(movements, x) = {}
  BY <1>2 DEF SalesIn
<1>4. \A x \in Products : Deficit(balance[x]) = 0
  <2> TAKE x \in Products
  <2>1. balance[x] \in Int /\ balance[x] >= 0
    BY CostingAssumption DEF CostingInit
  <2>2. QED
    BY <2>1, DeficitNat
<1>5. \A x \in Products : DugFrom(movements, x, 1) \in Nat
  BY <1>2, DugFromNat
<1>6. QED
  BY <1>3, <1>4, <1>5 DEF TailOK

(* A finished adjustment: the sales of a product it spares are all before  *)
(* its row and dug what they had dug, and the deficit has not grown.       *)
LEMMA FinishTail ==
  ASSUME CostInv, TailOK, NEW a \in adjusting, FinishAdjustment(a)
  PROVE  TailOK'
<1> USE DEF CostInv
<1>1. PICK m : /\ Filled(movements, a.at, m, movements')
               /\ m.product = a.product /\ m.delta = a.delta /\ m.item \notin Items
               /\ balance' = [balance EXCEPT ![m.product] = balance[m.product] + m.delta]
               /\ RowsFree(m.product)
  BY FinishFacts
<1>2. /\ replaced' = replaced /\ holes \cup overtaken \subseteq holes' \cup overtaken'
      /\ (m.delta < 0 /\ balance[m.product] + m.delta < 0 => m.product \in holes')
      /\ (\E k \in SalesIn(movements, m.product) : k > a.at) => m.product \in overtaken'
  BY <1>1, SalesAre DEF FinishAdjustment
<1> SUFFICES ASSUME NEW x \in Products, x \notin holes' \cup overtaken'
             PROVE  /\ Deficit(balance'[x]) <= DugFrom(movements', x, 1)
                    /\ \A k \in SalesIn(movements', x) :
                         /\ GivenTo(replaced, k) <= NegativeIn(movements', k)
                         /\ \/ GivenTo(replaced, k) = 0
                            \/ GivenTo(replaced, k)
                                 <= DugFrom(movements', x, k) - Deficit(balance'[x])
  BY <1>2 DEF TailOK, SalesIn
<1>3. PICK n : n = Len(movements)
  OBVIOUS
<1>4. /\ movements \in Seq(StockMovement) /\ Len(movements') = n /\ n \in Nat
      /\ movements'[a.at] = m /\ a.at \in 1 .. n /\ movements[a.at].kind = "NONE"
      /\ m.kind = "ADJUSTMENT" /\ m.product \in Products /\ m.delta \in Int
      /\ \A j \in 1 .. n : j # a.at => movements'[j] = movements[j]
  BY <1>1, <1>3, FilledRows DEF Filled, StockMovement
<1>5. SalesIn(movements', x) = SalesIn(movements, x)
  BY <1>3, <1>4 DEF SalesIn
<1>6. ASSUME NEW k \in SalesIn(movements, x)
      PROVE  k \in 1 .. n /\ NegativeIn(movements', k) = NegativeIn(movements, k)
  <2>1. k \in 1 .. n /\ movements[k].kind = "SALE" /\ movements[k].product = x
    BY <1>3, <1>6 DEF SalesIn
  <2>2. k < a.at \/ (k # a.at /\ movements[k].product # m.product)
    BY <1>2, <1>4, <1>6, <2>1
  <2>3. QED
    BY <1>1, <1>3, <2>1, <2>2, FilledBefore
<1>7. ASSUME NEW k
      PROVE  DugFrom(movements', x, k) = DugFrom(movements, x, k)
  <2> DEFINE S == {j \in SalesIn(movements, x) : j >= k}
  <2>1. {j \in SalesIn(movements', x) : j >= k} = S
    BY <1>5
  <2>2. [j \in S |-> NegativeIn(movements', j)] = [j \in S |-> NegativeIn(movements, j)]
    BY <1>6
  <2>3. QED
    BY <2>1, <2>2, DugFromIs DEF Dug
<1>8. balance[x] \in Int
  BY TypedState
<1>9. Deficit(balance'[x]) <= Deficit(balance[x]) /\ Deficit(balance'[x]) \in Nat
  <2>1. balance'[x] = balance[x] + (IF m.product = x THEN m.delta ELSE 0)
    BY <1>1, FinishBook
  <2>2. balance'[x] \in Int
    BY <1>4, <1>8, <2>1
  <2>3. CASE m.product = x /\ m.delta < 0
    <3>1. balance'[x] >= 0
      BY <1>2, <1>4, <1>8, <2>1, <2>3
    <3>2. QED
      BY <1>8, <2>2, <3>1, DeficitNat
  <2>4. CASE m.product = x /\ m.delta >= 0
    BY <1>4, <1>8, <2>1, <2>2, <2>4, DeficitFalls, DeficitNat
  <2>5. CASE m.product # x
    BY <1>8, <2>1, <2>5, DeficitNat
  <2>6. QED
    BY <1>4, <2>3, <2>4, <2>5
<1>10. x \notin holes \cup overtaken
  BY <1>2
<1>11. /\ Deficit(balance[x]) <= DugFrom(movements, x, 1)
       /\ \A k \in SalesIn(movements, x) :
            /\ GivenTo(replaced, k) <= NegativeIn(movements, k)
            /\ \/ GivenTo(replaced, k) = 0
               \/ GivenTo(replaced, k) <= DugFrom(movements, x, k) - Deficit(balance[x])
  BY <1>10 DEF TailOK
<1>12. \A k : DugFrom(movements, x, k) \in Nat
  BY <1>4, DugFromNat
<1>13. Deficit(balance[x]) \in Nat
  BY <1>8, DeficitNat
<1>14. Deficit(balance'[x]) <= DugFrom(movements', x, 1)
  BY <1>7, <1>9, <1>11, <1>12, <1>13
<1>15. ASSUME NEW k \in SalesIn(movements, x)
       PROVE  /\ GivenTo(replaced, k) <= NegativeIn(movements', k)
              /\ \/ GivenTo(replaced, k) = 0
                 \/ GivenTo(replaced, k) <= DugFrom(movements', x, k) - Deficit(balance'[x])
  <2>1. GivenTo(replaced, k) \in Nat
    BY GivenSome
  <2>2. QED
    BY <1>6, <1>7, <1>9, <1>11, <1>12, <1>13, <2>1
<1>16. QED
  BY <1>5, <1>14, <1>15

LEMMA TailSteps ==
  ASSUME CostInv, TailOK, [CostingNext]_costingVars
  PROVE  TailOK'
<1>1. ASSUME NEW p \in Purchases, CreatePurchase(p) \/ LoadPurchase(p) \/ PostPurchase(p)
      PROVE  TailOK'
  BY <1>1, TailUnmoved DEF CreatePurchase, LoadPurchase, PostPurchase
<1>2. ASSUME NEW i \in Items, ReadStock(i)
      PROVE  TailOK'
  BY <1>2, TailUnmoved DEF ReadStock
<1>3. ASSUME NEW i \in Items, NEW lot \in Lots, ReceiveGoods(i, lot)
      PROVE  TailOK'
  BY <1>3, ReceiptTail
<1>4. ASSUME NEW p \in Purchases, NEW charge \in Charges, NEW priced \in InvoiceLines(p),
             CaptureInvoice(p, priced, charge)
      PROVE  TailOK'
  BY <1>4, TailUnmoved DEF CaptureInvoice
<1>5. ASSUME NEW x \in Products, NEW q \in SaleQty, SellGoods(x, q)
      PROVE  TailOK'
  <2>1. PICK m : Records(m) /\ m.kind = "SALE"
    BY <1>5, SaleRecords
  <2>2. UNCHANGED <<replaced, holes, overtaken>>
    BY <1>5 DEF SellGoods
  <2>3. QED
    BY <2>1, <2>2, RecordsTail
<1>6. ASSUME NEW k \in 1 .. Len(movements), NEW q \in SaleQty, RestockReturn(k, q)
      PROVE  TailOK'
  <2>1. PICK m : Records(m) /\ m.delta >= 0
    BY <1>6, ReturnRecords
  <2>2. UNCHANGED <<replaced, holes, overtaken>>
    BY <1>6 DEF RestockReturn
  <2>3. QED
    BY <2>1, <2>2, RecordsTail
<1>7. ASSUME NEW x \in Products, NEW d \in Adjustments, BeginAdjustment(x, d)
      PROVE  TailOK'
  <2>1. PICK m : Records(m) /\ m.delta = 0
    BY <1>7, BeginRecords
  <2>2. UNCHANGED <<replaced, holes, overtaken>> /\ m.delta >= 0
    BY <1>7, <2>1 DEF BeginAdjustment
  <2>3. QED
    BY <2>1, <2>2, RecordsTail
<1>8. ASSUME NEW a \in adjusting, FinishAdjustment(a)
      PROVE  TailOK'
  BY <1>8, FinishTail
<1>9. ASSUME NEW a \in adjusting, AbandonAdjustment(a)
      PROVE  TailOK'
  BY <1>9, TailUnmoved DEF AbandonAdjustment
<1>10. ASSUME UNCHANGED costingVars
       PROVE  TailOK'
  BY <1>10, TailUnmoved DEF costingVars
<1>11. QED
  BY <1>1, <1>2, <1>3, <1>4, <1>5, <1>6, <1>7, <1>8, <1>9, <1>10 DEF CostingNext

LEMMA TailReplacedOnce ==
  ASSUME CostInv, TailOK
  PROVE  ReplacedOnce
<1> SUFFICES ASSUME NEW k \in 1 .. Len(movements),
                    movements[k].product \notin holes \cup overtaken
             PROVE  Total({r \in replaced : r.sale = k}, LAMBDA r : r.qty) <=
                      (IF movements[k].kind = "SALE" THEN NegativeQuantity(k) ELSE 0)
  BY DEF ReplacedOnce
<1>1. Total({r \in replaced : r.sale = k}, LAMBDA r : r.qty) = GivenTo(replaced, k)
  BY DEF Total, GivenTo
<1>2. NegativeQuantity(k) = NegativeIn(movements, k)
  BY NegativeIs
<1>3. CASE movements[k].kind = "SALE"
  <2>1. PICK x \in Products : x = movements[k].product
    BY TypedState DEF CostInv
  <2>2. k \in SalesIn(movements, x)
    BY <1>3, <2>1 DEF SalesIn
  <2>3. GivenTo(replaced, k) <= NegativeIn(movements, k)
    BY <2>1, <2>2 DEF TailOK
  <2>4. QED
    BY <1>1, <1>2, <1>3, <2>3
<1>4. CASE movements[k].kind # "SALE"
  <2>1. \A r \in replaced : r.sale # k
    BY <1>4 DEF CostInv, ReplacedOK
  <2>2. GivenTo(replaced, k) = 0
    BY <2>1, GivenNothing
  <2>3. QED
    BY <1>1, <1>4, <2>2
<1>5. QED
  BY <1>3, <1>4

-----------------------------------------------------------------------------
LEMMA CostingInvariant == CostingSpec => []CostInv
<1>1. CostingInit => CostInv
  BY CostingStarts
<1>2. CostInv /\ [CostingNext]_costingVars => CostInv'
  BY CostingSteps
<1>3. QED
  BY <1>1, <1>2, PTL DEF CostingSpec

(* Every amount and quantity purchasing.ts computes is one: averages,      *)
(* landed costs and provisional costs are never negative.                  *)
THEOREM CostTypes == CostingSpec => []CostingTypeOK
<1>1. CostInv => CostingTypeOK
  BY DEF CostInv
<1>2. QED
  BY <1>1, CostingInvariant, PTL

(* After posting, snapshot, provisional and final correction of a replaced *)
(* unit add up to its landed cost.                                         *)
THEOREM CostSettled == CostingSpec => []CogsSettled
<1>1. CostInv => CogsSettled
  BY DEF CostInv
<1>2. QED
  BY <1>1, CostingInvariant, PTL

(* A sale line whose cost was declared FINAL is not corrected later: a     *)
(* receipt is matched only with sales that the ledger shows below zero,    *)
(* and what the ledger shows of a sale is what the sale saw, unless an     *)
(* adjustment had drawn an earlier place and came in after the sale.  Then *)
(* the product is in overtaken.                                            *)
THEOREM FinalStands == CostingSpec => []FinalCostStands
<1>1. CostInv => FinalCostStands
  <2> SUFFICES ASSUME CostInv, NEW c \in cogs, movements[c.sale].status = "FINAL",
                      movements[c.sale].product \notin overtaken
               PROVE  FALSE
    BY DEF FinalCostStands
  <2>1. PICK r \in replaced : r.sale = c.sale
    BY DEF CostInv, CogsOK
  <2>2. /\ r.sale \in 1 .. Len(movements) /\ movements[r.sale].kind = "SALE"
        /\ NegativeIn(movements, r.sale) > 0
    BY <2>1 DEF CostInv, ReplacedOK, Short
  <2>3. Book(movements, r.sale, movements[r.sale].product) < 0
    BY <2>2, TypedState, NegativeNat DEF CostInv
  <2>4. Book(movements, r.sale, movements[r.sale].product) \in Int
    <3>1. r.sale \in 0 .. Len(movements) /\ movements[r.sale].product \in Products
      BY <2>2, TypedState DEF CostInv
    <3>2. QED
      BY <3>1, TypedState, BookInt DEF CostInv
  <2>5. QED
    BY <2>1, <2>2, <2>3, <2>4 DEF CostInv, MovementsOK
<1>2. QED
  BY <1>1, CostingInvariant, PTL

(* A purchase is posted on what the person who posts has loaded: the       *)
(* version postPurchase compares moves with every receipt and revision.    *)
THEOREM ReviewedPosting == CostingSpec => PostedAsReviewed
<1>1. ASSUME CostInv, [CostingNext]_costingVars, NEW p \in Purchases,
             purchase'[p].status = "POSTED", purchase[p].status # "POSTED"
      PROVE  seen[p].invoice = invoice[p] /\ seen[p].received = ReceivedQty(p)
  <2> USE <1>1
  <2>1. purchase \in [Purchases -> Purchase]
    BY DEF CostInv, CostingTypeOK
  <2>2. ASSUME NEW q \in Purchases, CreatePurchase(q)
        PROVE  FALSE
    BY <2>1, <2>2 DEF CreatePurchase, Purchase
  <2>3. ASSUME NEW q \in Purchases, PostPurchase(q)
        PROVE  seen[p].invoice = invoice[p] /\ seen[p].received = ReceivedQty(p)
    <3>1. q = p
      BY <2>1, <2>3 DEF PostPurchase
    <3>2. seen[p].version = purchase[p].version
      BY <2>3, <3>1 DEF PostPurchase, Postable, CurrentVersion
    <3>3. QED
      BY <3>2 DEF CostInv, SeenOK
  <2>4. ASSUME NEW i \in Items, NEW lot \in Lots, ReceiveGoods(i, lot)
        PROVE  FALSE
    BY <2>4, ReceiptPurchase
  <2>5. ASSUME NEW q \in Purchases, NEW charge \in Charges, NEW priced \in InvoiceLines(q),
               CaptureInvoice(q, priced, charge)
        PROVE  FALSE
    <3>1. InvoicedPurchase(q).status # "POSTED"
      BY <2>5 DEF CaptureInvoice, StillOpen, InvoicedPurchase
    <3>2. purchase' = [purchase EXCEPT ![q] = InvoicedPurchase(q)]
      BY <2>5 DEF CaptureInvoice
    <3>3. QED
      BY <2>1, <3>1, <3>2
  <2>6. purchase' # purchase
    OBVIOUS
  <2>7. QED
    BY <2>2, <2>3, <2>4, <2>5, <2>6
    DEF CostingNext, LoadPurchase, ReadStock, SellGoods, RestockReturn, BeginAdjustment,
        FinishAdjustment, AbandonAdjustment, costingVars
<1>2. CostInv /\ [CostingNext]_costingVars =>
        [\A p \in Purchases :
           purchase'[p].status = "POSTED" /\ purchase[p].status # "POSTED" =>
             seen[p].invoice = invoice[p] /\ seen[p].received = ReceivedQty(p)]_costingVars
  BY <1>1
<1>3. QED
  BY <1>2, CostingInvariant, PTL DEF CostingSpec, PostedAsReviewed

(* The shortage of a sale is replaced once, over any number of receipts,   *)
(* returns and adjustments in and out, of a product that no adjustment has *)
(* left below zero and no sale of which overtook an adjustment: of such a  *)
(* product the tail of the ledger accounts for the deficit, and the part   *)
(* of it that receipts filled is never counted as open again.              *)
THEOREM OneReplacement == CostingSpec => []ReplacedOnce
<1>1. CostingInit => CostInv /\ TailOK
  BY CostingStarts, TailStarts
<1>2. (CostInv /\ TailOK) /\ [CostingNext]_costingVars => (CostInv /\ TailOK)'
  BY CostingSteps, TailSteps
<1>3. CostInv /\ TailOK => ReplacedOnce
  BY TailReplacedOnce
<1>4. QED
  BY <1>1, <1>2, <1>3, PTL DEF CostingSpec
=============================================================================
