---------------------------- MODULE RefundProofs ----------------------------
(***************************************************************************)
(* Theorems about Refund, for any sale, any number of returns, payments    *)
(* and concurrent transactions: no line is returned beyond what was sold,  *)
(* no payment is refunded beyond its amount, an operator's command applies *)
(* to the state that was seen, the drawer matches the refunds, and row     *)
(* locks are taken in an order that excludes deadlock.                     *)
(***************************************************************************)
EXTENDS Refund, FiniteFacts, SequenceTheorems, TLAPS

Lifecycle == {"RETRY", "RESOLVE", "REVERSE"}

(* The locks a transaction still has to take.                              *)
Ahead(w) == {w.todo[i] : i \in 1 .. Len(w.todo)}

(* The order of row locks: the transaction or refund, the shift, the       *)
(* payment.  References are advisory locks outside of it.                  *)
Before(k, j) ==
  \/ k[1] = "REFERENCE" \/ j[1] = "REFERENCE"
  \/ k[1] \in {"TRANSACTION", "REFUND"} /\ j[1] \in {"SHIFT", "PAYMENT"}
  \/ k[1] = "SHIFT" /\ j[1] = "PAYMENT"

OrderOK(w) ==
  /\ \A i, j \in 1 .. Len(w.todo) : i < j => Before(w.todo[i], w.todo[j])
  /\ \A k \in w.held : \A j \in 1 .. Len(w.todo) : Before(k, w.todo[j])

(* A return under way: it is new, holds the transaction row, and once past *)
(* the shift has quantities and values that fit what earlier returns left. *)
ReturnOK(w) == w.op = "RETURN" =>
  /\ w.ret \in Returns /\ w.payment \in Payments
  /\ ret[w.ret].status = "NONE"
  /\ Transaction \in w.held
  /\ Shift \in w.held \cup Ahead(w) /\ Payment(w.payment) \in w.held \cup Ahead(w)
  /\ Shift \in w.held =>
       \A l \in Lines : Returnable(l, w.items[l]) /\ w.values[l] = RefundableAmount(l, w.items[l])

(* What an operator saw allows the command.                                *)
SeenValid(w) ==
  \/ w.op = "RETRY" /\ w.seen \in {"FAILED", "REQUIRES_ACTION"} /\ w.to = "PENDING"
       /\ w.method # "CASH"
  \/ w.op = "RESOLVE" /\ w.seen \in Unsettled /\ w.to \in {"COMPLETED", "FAILED", "REQUIRES_ACTION"}
       /\ w.method # "CASH"
  \/ w.op = "REVERSE" /\ w.seen = "COMPLETED" /\ w.to = "REVERSED"

(* A lifecycle command under way: it has not begun to lock, or it holds    *)
(* the refund row, unchanged since it was seen, and takes or has taken the *)
(* payment if it makes the refund count again.                             *)
LifecycleOK(w) == w.op \in Lifecycle =>
  /\ w.ret \in Returns /\ refund[w.ret].status # "NONE"
  /\ w.payment = refund[w.ret].payment /\ w.amount = refund[w.ret].amount
  /\ w.method = refund[w.ret].method
  /\ w.expected <= refund[w.ret].version /\ w.expected < MaxVersion
  /\ refund[w.ret].version = w.expected => refund[w.ret].status = w.seen
  /\ SeenValid(w)
  /\ \/ w.held = {} /\ w.todo = <<RefundRow(w.ret)>>
     \/ /\ RefundRow(w.ret) \in w.held /\ RefundRow(w.ret) \notin Ahead(w)
        /\ refund[w.ret].version = w.expected
        /\ w.to \in Active => Payment(w.payment) \in w.held \cup Ahead(w)

(* Who holds the payment has room on it.                                   *)
CapacityOK(w) == w.op # "IDLE" /\ Payment(w.payment) \in w.held =>
  RefundedOf(w.payment, w.ret) + w.amount <= Paid[w.payment]

TransactionOK(w) ==
  /\ OrderOK(w) /\ ReturnOK(w) /\ LifecycleOK(w) /\ CapacityOK(w)
  /\ w.op = "IDLE" => w.held = {} /\ w.todo = <<>>

WorkOK == \A x \in Workers : TransactionOK(work[x])

Exclusive == \A x, y \in Workers : x # y => work[x].held \cap work[y].held = {}

RecordsOK == \A r \in Returns :
  /\ ret[r].status = "NONE" => ret[r].items = Nothing /\ ret[r].values = Nothing
  /\ ret[r].status = "NONE" <=> refund[r].status = "NONE"
  /\ refund[r].payment = NoPayment <=> refund[r].status = "NONE"
  /\ refund[r].method = "CASH" => refund[r].status \in {"COMPLETED", "REVERSED"}

(* A line that was returned completely gave its value exactly.             *)
FullReturnExact == \A l \in Lines : Returned(l) = Sold[l] => Refundable(l) = LineTotal[l]

IInv == /\ TypeOK /\ WorkOK /\ Exclusive /\ RecordsOK
        /\ ReturnedWithinSold /\ FullReturnExact /\ RefundWithinPayment /\ CashMatchesRefund

-----------------------------------------------------------------------------
(* The operators of the model.                                             *)

LEMMA LocksDiffer ==
  /\ Transaction[1] = "TRANSACTION" /\ Shift[1] = "SHIFT"
  /\ \A p : Payment(p)[1] = "PAYMENT" /\ Payment(p)[2] = p
  /\ \A r : RefundRow(r)[1] = "REFUND" /\ RefundRow(r)[2] = r
  /\ \A e : Reference(e)[1] = "REFERENCE"
BY DEF Transaction, Shift, Payment, RefundRow, Reference

LEMMA LocksAre ==
  /\ Transaction \in Locks /\ Shift \in Locks
  /\ \A p \in Payments : Payment(p) \in Locks
  /\ \A r \in Returns : RefundRow(r) \in Locks
  /\ \A e \in References : Reference(e) \in Locks
BY DEF Locks

LEMMA QuantitiesAre ==
  /\ Nothing \in Quantities
  /\ \A q \in Quantities : q \in [Lines -> Nat] /\ \A l \in Lines : q[l] <= Sold[l]
<1>1. CASE Lines = {}
  BY <1>1 DEF Quantities, Nothing
<1>2. CASE Lines # {}
  <2>1. IsFiniteSet(Range(Sold)) /\ Range(Sold) # {} /\ Range(Sold) \subseteq Nat
    <3>1. Range(Sold) = {Sold[l] : l \in Lines}
      BY RefundAssumption DEF Range
    <3>2. Sold \in Surjection(Lines, Range(Sold))
      BY <3>1, RefundAssumption DEF Surjection
    <3>3. IsFiniteSet(Range(Sold))
      BY <3>2, RefundAssumption, FS_Surjection
    <3>4. QED
      BY <1>2, <3>1, <3>3, RefundAssumption
  <2>2. Range(Sold) \subseteq Int
    BY <2>1
  <2>3. Max(Range(Sold)) \in Range(Sold)
    BY <2>1, <2>2, MaxIsGreatest
  <2>4. Max(Range(Sold)) \in Nat
    BY <2>1, <2>3
  <2>5. QED
    BY <2>4, RefundAssumption DEF Quantities, Nothing
<1>3. QED
  BY <1>1, <1>2

(* The first of the locks ahead is taken.                                  *)
LEMMA TailOfLocks ==
  ASSUME NEW S, NEW s \in Seq(S), s # <<>>
  PROVE  /\ Tail(s) \in Seq(S) /\ Len(s) \in Nat \ {0} /\ Len(Tail(s)) = Len(s) - 1
         /\ Head(s) = s[1] /\ Head(s) \in S
         /\ \A i \in 1 .. Len(s) - 1 : Tail(s)[i] = s[i + 1]
OBVIOUS

LEMMA TakenInOrder ==
  ASSUME NEW w, NEW v, w.todo \in Seq(Locks), w.todo # <<>>, OrderOK(w),
         v.todo = Tail(w.todo), v.held = w.held \cup {Head(w.todo)}
  PROVE  /\ OrderOK(v)
         /\ v.held \cup Ahead(v) = w.held \cup Ahead(w)
         /\ Ahead(v) \subseteq Ahead(w)
<1> DEFINE n == Len(w.todo)
<1>1. /\ n \in Nat \ {0} /\ Len(v.todo) = n - 1 /\ Head(w.todo) = w.todo[1]
      /\ \A i \in 1 .. n - 1 : v.todo[i] = w.todo[i + 1]
  BY TailOfLocks
<1>2. OrderOK(v)
  <2>1. ASSUME NEW i \in 1 .. n - 1, NEW j \in 1 .. n - 1, i < j
        PROVE  Before(v.todo[i], v.todo[j])
    <3>1. i + 1 \in 1 .. n /\ j + 1 \in 1 .. n /\ i + 1 < j + 1
      BY <1>1, <2>1
    <3>2. QED
      BY <1>1, <3>1 DEF OrderOK
  <2>2. ASSUME NEW k \in v.held, NEW j \in 1 .. n - 1
        PROVE  Before(k, v.todo[j])
    <3>1. 1 \in 1 .. n /\ j + 1 \in 1 .. n /\ 1 < j + 1
      BY <1>1, <2>2
    <3>2. k \in w.held \/ k = w.todo[1]
      BY <1>1, <2>2
    <3>3. QED
      BY <1>1, <3>1, <3>2 DEF OrderOK
  <2>3. QED
    BY <1>1, <2>1, <2>2 DEF OrderOK
<1>3. Ahead(w) = {w.todo[1]} \cup Ahead(v)
  <2>1. ASSUME NEW i \in 1 .. n
        PROVE  w.todo[i] \in {w.todo[1]} \cup Ahead(v)
    <3>1. CASE i = 1
      BY <3>1
    <3>2. CASE i # 1
      <4>1. i - 1 \in 1 .. n - 1 /\ (i - 1) + 1 = i
        BY <1>1, <2>1, <3>2
      <4>2. v.todo[i - 1] = w.todo[i]
        BY <1>1, <4>1
      <4>3. QED
        BY <1>1, <4>1, <4>2 DEF Ahead
    <3>3. QED
      BY <3>1, <3>2
  <2>2. ASSUME NEW i \in 1 .. n - 1
        PROVE  v.todo[i] \in Ahead(w)
    <3>1. i + 1 \in 1 .. n
      BY <1>1, <2>2
    <3>2. QED
      BY <1>1, <3>1 DEF Ahead
  <2>3. w.todo[1] \in Ahead(w)
    <3>1. 1 \in 1 .. n
      BY <1>1
    <3>2. QED
      BY <3>1 DEF Ahead
  <2>4. Ahead(w) \subseteq {w.todo[1]} \cup Ahead(v)
    BY <2>1 DEF Ahead
  <2>5. Ahead(v) \subseteq Ahead(w)
    <3>1. \A k \in Ahead(v) : \E i \in 1 .. n - 1 : k = v.todo[i]
      BY <1>1 DEF Ahead
    <3>2. QED
      BY <2>2, <3>1
  <2>6. QED
    BY <2>3, <2>4, <2>5
<1>4. QED
  BY <1>1, <1>2, <1>3

LEMMA HalfUpNat ==
  ASSUME NEW a \in Nat, NEW b \in Nat \ {0}
  PROVE  HalfUp(a, b) \in Nat
<1>1. 2 * a + b \in Nat /\ 2 * b \in Nat \ {0}
  OBVIOUS
<1>2. \A m \in Nat, n \in Nat \ {0} : m \div n \in Nat
  OBVIOUS
<1>3. QED
  BY <1>1, <1>2 DEF HalfUp

(* The totals are numbers.                                                 *)
LEMMA TotalsAre ==
  ASSUME TypeOK
  PROVE  /\ \A l \in Lines : Returned(l) \in Nat /\ Refundable(l) \in Nat
         /\ \A p, r : RefundedOf(p, r) \in Nat
         /\ \A l \in Lines : \A q \in Nat : RefundableAmount(l, q) \in Int
<1>1. ASSUME NEW l \in Lines
      PROVE  Returned(l) \in Nat /\ Refundable(l) \in Nat
  <2>1. \A r \in Returns : ret[r].items \in [Lines -> Nat] /\ ret[r].values \in [Lines -> Nat]
    BY QuantitiesAre DEF TypeOK, Return
  <2>2. \A r \in Returns : [q \in Returns |-> ret[q].items[l]][r] \in Nat
                          /\ [q \in Returns |-> ret[q].values[l]][r] \in Nat
    BY <2>1
  <2>3. QED
    BY <2>2, RefundAssumption, SumNat DEF Returned, Refundable
<1>2. ASSUME NEW p, NEW r
      PROVE  RefundedOf(p, r) \in Nat
  <2> DEFINE S == {q \in Returns \ {r} : refund[q].status \in Active /\ refund[q].payment = p}
  <2>1. IsFiniteSet(S)
    BY RefundAssumption, FS_Subset
  <2>2. \A q \in S : [u \in Returns |-> refund[u].amount][q] \in Nat
    BY DEF TypeOK, RefundRecord
  <2> HIDE DEF S
  <2>3. SumFunctionOnSet([u \in Returns |-> refund[u].amount], S) \in Nat
    BY <2>1, <2>2, SumNat
  <2>4. QED
    BY <2>3 DEF RefundedOf, S
<1>3. ASSUME NEW l \in Lines, NEW q \in Nat
      PROVE  RefundableAmount(l, q) \in Int
  <2>1. LineTotal[l] \in Nat /\ Sold[l] \in Nat \ {0}
    BY RefundAssumption
  <2>2. LineTotal[l] * q \in Nat
    BY <2>1
  <2>3. HalfUp(LineTotal[l] * q, Sold[l]) \in Nat
    BY <2>1, <2>2, HalfUpNat
  <2>4. QED
    BY <1>1, <2>1, <2>3 DEF RefundableAmount
<1>4. QED
  BY <1>1, <1>2, <1>3

LEMMA IdleWork ==
  /\ Idle \in Work
  /\ Idle.op = "IDLE" /\ Idle.held = {} /\ Idle.todo = <<>>
  /\ DOMAIN Idle = {"op", "ret", "items", "values", "amount", "payment", "method", "reference",
                    "expected", "seen", "to", "todo", "held"}
<1>1. Nothing \in Quantities /\ Nothing \in [Lines -> Nat]
  BY QuantitiesAre DEF Nothing
<1>2. <<>> \in Seq(Locks) /\ 0 \in 0 .. MaxVersion
  BY RefundAssumption
<1>3. QED
  BY <1>1, <1>2 DEF Idle, Work, Methods, Statuses

LEMMA IfReferenceIs ==
  ASSUME NEW e \in References \cup {NoReference}
  PROVE  /\ IfReference(e) \in Seq(Locks)
         /\ e = NoReference => IfReference(e) = <<>>
         /\ e # NoReference => IfReference(e) = <<Reference(e)>>
BY LocksAre DEF IfReference

LEMMA LaterLocksAre ==
  ASSUME NEW w \in Work, w.op \in Lifecycle, w.payment \in Payments
  PROVE  LaterLocks(w) \in Seq(Locks)
<1>1. w.reference \in References \cup {NoReference}
  BY DEF Work
<1>2. IfReference(w.reference) \in Seq(Locks)
  BY <1>1, IfReferenceIs
<1>3. <<Payment(w.payment)>> \in Seq(Locks) /\ <<Shift>> \in Seq(Locks) /\ <<>> \in Seq(Locks)
  BY LocksAre
<1>4. QED
  BY <1>2, <1>3 DEF LaterLocks, Lifecycle

(* Every step keeps the types.  A transaction that takes a lock:           *)
LEMMA TakesType ==
  ASSUME TypeOK, NEW x \in Workers, NEW k, NEW w \in Work, Takes(x, k, w)
  PROVE  TypeOK'
<1>1. work[x].todo \in Seq(Locks) /\ work[x].todo # <<>> /\ k = Head(work[x].todo)
  BY DEF TypeOK, Work, Takes
<1>2. Tail(work[x].todo) \in Seq(Locks) /\ k \in Locks
  BY <1>1, TailOfLocks
<1>3. [w EXCEPT !.todo = Tail(work[x].todo), !.held = @ \cup {k}] \in Work
  BY <1>2 DEF Work
<1>4. QED
  BY <1>3 DEF Takes, TypeOK

LEMMA TypeStep ==
  ASSUME TypeOK, WorkOK, RecordsOK, [Next]_vars
  PROVE  TypeOK'
<1> USE RefundAssumption
<1>1. ASSUME NEW x \in Workers, NEW r \in Returns, BeginReturn(x, r)
      PROVE  TypeOK'
  <2>1. PICK items \in Quantities \ {Nothing}, p \in Payments, m \in Methods,
             e \in References \cup {NoReference} :
          work' = [work EXCEPT ![x] =
            [Idle EXCEPT !.op = "RETURN", !.ret = r, !.items = items, !.payment = p,
                         !.method = m, !.reference = e,
                         !.todo = <<Shift, Payment(p)>> \o IfReference(e),
                         !.held = {Transaction}]]
    BY <1>1 DEF BeginReturn
  <2>2. <<Shift, Payment(p)>> \in Seq(Locks) /\ IfReference(e) \in Seq(Locks)
    BY LocksAre, IfReferenceIs
  <2>3. <<Shift, Payment(p)>> \o IfReference(e) \in Seq(Locks)
    BY <2>2
  <2>4. [Idle EXCEPT !.op = "RETURN", !.ret = r, !.items = items, !.payment = p,
                     !.method = m, !.reference = e,
                     !.todo = <<Shift, Payment(p)>> \o IfReference(e),
                     !.held = {Transaction}] \in Work
    BY <2>3, IdleWork, LocksAre DEF Work
  <2>5. QED
    BY <1>1, <2>1, <2>4 DEF BeginReturn, TypeOK
<1>2. ASSUME NEW x \in Workers, ResolveItems(x)
      PROVE  TypeOK'
  <2> DEFINE values == [l \in Lines |-> RefundableAmount(l, work[x].items[l])]
  <2>1. /\ \A l \in Lines : values[l] >= 0
        /\ \E amount \in 1 .. SumFunctionOnSet(values, Lines) :
             Takes(x, Shift, [work[x] EXCEPT !.values = values, !.amount = amount])
    BY <1>2 DEF ResolveItems
  <2>2. work[x] \in Work /\ \A l \in Lines : work[x].items[l] \in Nat
    BY QuantitiesAre DEF TypeOK, Work
  <2>3. \A l \in Lines : values[l] \in Nat
    BY <2>1, <2>2, TotalsAre
  <2>4. values \in [Lines -> Nat]
    BY <2>3
  <2> HIDE DEF values
  <2>5. SumFunctionOnSet(values, Lines) \in Nat
    BY <2>3, SumNat
  <2>6. PICK amount \in 1 .. SumFunctionOnSet(values, Lines) :
          Takes(x, Shift, [work[x] EXCEPT !.values = values, !.amount = amount])
    BY <2>1
  <2>7. amount \in Nat
    BY <2>5
  <2>8. [work[x] EXCEPT !.values = values, !.amount = amount] \in Work
    BY <2>2, <2>4, <2>7 DEF Work
  <2>9. QED
    BY <2>6, <2>8, TakesType
<1>3. ASSUME NEW x \in Workers, CheckCapacity(x) \/ CheckReference(x) \/ CheckCash(x)
      PROVE  TypeOK'
  <2>1. \E k : Takes(x, k, work[x])
    BY <1>3 DEF CheckCapacity, CheckReference, CheckCash
  <2>2. work[x] \in Work
    BY DEF TypeOK
  <2>3. QED
    BY <2>1, <2>2, TakesType
<1>4. ASSUME NEW x \in Workers, CommitReturn(x)
      PROVE  TypeOK'
  <2>1. work[x] \in Work /\ work[x].ret \in Returns /\ work[x].payment \in Payments
    BY <1>4 DEF CommitReturn, TypeOK, WorkOK, TransactionOK, ReturnOK
  <2>2. SumFunctionOnSet(work[x].values, Lines) \in Nat
    <3>1. \A l \in Lines : work[x].values[l] \in Nat
      BY <2>1 DEF Work
    <3>2. QED
      BY <3>1, SumNat
  <2>3. [status |-> "COMPLETED", items |-> work[x].items, values |-> work[x].values,
         total |-> SumFunctionOnSet(work[x].values, Lines)] \in Return
    BY <2>1, <2>2 DEF Work, Return
  <2>4. NewRefund(work[x]) \in RefundRecord
    BY <2>1 DEF NewRefund, Work, RefundRecord, Statuses, Unsettled
  <2>5. ret' \in [Returns -> Return] /\ refund' \in [Returns -> RefundRecord]
    BY <1>4, <2>1, <2>3, <2>4 DEF CommitReturn, TypeOK
  <2>6. cash' \in [Returns -> SUBSET {"CASH_REFUND", "CASH_REVERSAL"}]
    BY <1>4, <2>1 DEF CommitReturn, TypeOK
  <2>7. QED
    BY <1>4, <2>5, <2>6, IdleWork DEF CommitReturn, TypeOK
<1>5. ASSUME NEW x \in Workers, NEW r \in Returns, NEW o \in Lifecycle,
             NEW to \in Statuses, NEW e \in References \cup {NoReference}, Decide(x, r, o, to, e)
      PROVE  TypeOK'
  <2> DEFINE w == [Idle EXCEPT !.op = o, !.ret = r, !.to = to, !.reference = e,
                        !.seen = refund[r].status, !.expected = refund[r].version,
                        !.amount = refund[r].amount, !.payment = refund[r].payment,
                        !.method = refund[r].method, !.todo = FirstLocks(o, r)]
  <2>1. work' = [work EXCEPT ![x] = w] /\ UNCHANGED <<ret, refund, cash, shift>>
    BY <1>5 DEF Decide
  <2>2. refund[r] \in RefundRecord /\ FirstLocks(o, r) \in Seq(Locks)
    BY LocksAre DEF TypeOK, FirstLocks
  <2>3. w \in Work
    BY <2>2, IdleWork DEF Work, RefundRecord, Lifecycle
  <2> HIDE DEF w
  <2>4. QED
    BY <2>1, <2>3 DEF TypeOK
<1>6. ASSUME NEW x \in Workers, LockRefund(x)
      PROVE  TypeOK'
  <2>1. work[x] \in Work /\ work[x].op \in Lifecycle /\ work[x].ret \in Returns
          /\ work[x].payment \in Payments
    BY <1>6 DEF LockRefund, Lifecycle, TypeOK, WorkOK, TransactionOK, LifecycleOK, RecordsOK, RefundRecord
  <2>2. [work[x] EXCEPT !.todo = LaterLocks(work[x]), !.held = @ \cup {RefundRow(work[x].ret)}]
          \in Work
    BY <2>1, LaterLocksAre, LocksAre DEF Work
  <2>3. work' = [work EXCEPT ![x] = [work[x] EXCEPT !.todo = LaterLocks(work[x]),
                                       !.held = @ \cup {RefundRow(work[x].ret)}]]
    BY <1>6 DEF LockRefund, TypeOK
  <2>4. QED
    BY <1>6, <2>2, <2>3 DEF LockRefund, TypeOK
<1>7. ASSUME NEW x \in Workers, CommitLifecycle(x)
      PROVE  TypeOK'
  <2>1. work[x] \in Work /\ work[x].op \in Lifecycle /\ work[x].todo = <<>>
    BY <1>7 DEF CommitLifecycle, Lifecycle, TypeOK
  <2>2. /\ work[x].ret \in Returns /\ work[x].expected < MaxVersion
        /\ refund[work[x].ret].version = work[x].expected
    <3>1. <<RefundRow(work[x].ret)>> # <<>>
      OBVIOUS
    <3>2. QED
      BY <2>1, <3>1 DEF WorkOK, TransactionOK, LifecycleOK
  <2>3. PICK r \in Returns : r = work[x].ret
    BY <2>2
  <2>4. refund[r].version + 1 \in 0 .. MaxVersion
    BY <2>1, <2>2, <2>3 DEF Work
  <2>5. PICK e \in References \cup {NoReference} :
          e = IF work[x].reference = NoReference THEN refund[r].reference ELSE work[x].reference
    BY <2>1 DEF Work, TypeOK, RefundRecord
  <2>6. refund' = [refund EXCEPT ![r] = [refund[r] EXCEPT !.status = work[x].to,
                     !.reference = e, !.version = @ + 1]]
    BY <1>7, <2>3, <2>5 DEF CommitLifecycle, TypeOK
  <2>7. [refund[r] EXCEPT !.status = work[x].to, !.reference = e, !.version = @ + 1]
          \in RefundRecord
    <3>1. refund[r] \in RefundRecord /\ work[x].to \in Statuses
      BY <2>1 DEF TypeOK, Work
    <3>2. QED
      BY <2>4, <3>1 DEF RefundRecord
  <2>8. cash' \in [Returns -> SUBSET {"CASH_REFUND", "CASH_REVERSAL"}]
    BY <1>7, <2>2 DEF CommitLifecycle, CashEffect, TypeOK
  <2>9. QED
    BY <1>7, <2>6, <2>7, <2>8, IdleWork DEF CommitLifecycle, TypeOK
<1>8. ASSUME NEW x \in Workers, Rollback(x)
      PROVE  TypeOK'
  BY <1>8, IdleWork DEF Rollback, TypeOK
<1>9. CASE SwitchShift
  BY <1>9 DEF SwitchShift, TypeOK
<1>10. CASE UNCHANGED vars
  BY <1>10 DEF vars, TypeOK
<1>11. ASSUME NEW x \in Workers, NEW r \in Returns,
              \/ RetryRefund(x, r) \/ ReverseRefund(x, r)
              \/ \E to \in {"COMPLETED", "FAILED", "REQUIRES_ACTION"},
                    e \in References \cup {NoReference} : ResolveRefund(x, r, to, e)
       PROVE  TypeOK'
  <2>1. {"RETRY", "RESOLVE", "REVERSE"} \subseteq Lifecycle
          /\ {"COMPLETED", "FAILED", "REQUIRES_ACTION", "PENDING", "REVERSED"} \subseteq Statuses
    BY DEF Lifecycle, Statuses, Unsettled
  <2>2. QED
    BY <1>5, <1>11, <2>1 DEF RetryRefund, ReverseRefund, ResolveRefund
<1>12. QED
  BY <1>1, <1>2, <1>3, <1>4, <1>6, <1>7, <1>8, <1>9, <1>10, <1>11 DEF Next

-----------------------------------------------------------------------------
(* Steps that only move one transaction on.                                *)

(* A transaction moves to a good state of its own and shares no lock.      *)
LEMMA OneMoves ==
  ASSUME IInv, TypeOK', UNCHANGED <<ret, refund, cash>>,
         NEW x \in Workers, NEW v, work' = [work EXCEPT ![x] = v], TransactionOK(v),
         \A y \in Workers \ {x} : v.held \cap work[y].held = {}
  PROVE  IInv'
<1>1. /\ \A l : Returned(l)' = Returned(l) /\ Refundable(l)' = Refundable(l)
      /\ \A p, r : RefundedOf(p, r)' = RefundedOf(p, r)
  BY DEF Returned, Refundable, RefundedOf
<1>2. \A l, q : Returnable(l, q)' <=> Returnable(l, q)
  BY <1>1 DEF Returnable
<1>3. \A l, q : RefundableAmount(l, q)' = RefundableAmount(l, q)
  BY <1>1 DEF RefundableAmount
<1>4. \A w : TransactionOK(w) => TransactionOK(w)'
  <2> SUFFICES ASSUME NEW w, TransactionOK(w) PROVE TransactionOK(w)'
    OBVIOUS
  <2>1. OrderOK(w)'
    BY DEF TransactionOK, OrderOK, Before
  <2>2. ReturnOK(w)'
    BY <1>2, <1>3 DEF TransactionOK, ReturnOK, Ahead
  <2>3. LifecycleOK(w)'
    BY DEF TransactionOK, LifecycleOK, SeenValid, Ahead
  <2>4. CapacityOK(w)'
    BY <1>1 DEF TransactionOK, CapacityOK
  <2>5. QED
    BY <2>1, <2>2, <2>3, <2>4 DEF TransactionOK
<1>5. WorkOK'
  <2> SUFFICES ASSUME NEW y \in Workers PROVE TransactionOK(work[y])'
    BY DEF WorkOK
  <2>1. PICK u : u = work'[y]
    OBVIOUS
  <2>2. TransactionOK(u)
    BY <2>1 DEF IInv, WorkOK, TypeOK
  <2>3. TransactionOK(u)'
    BY <1>4, <2>2
  <2>4. QED
    BY <2>1, <2>3
<1>6. Exclusive'
  BY DEF IInv, Exclusive, TypeOK
<1>7. RecordsOK'
  BY DEF IInv, RecordsOK
<1>8. ReturnedWithinSold' /\ FullReturnExact'
  BY <1>1 DEF IInv, ReturnedWithinSold, FullReturnExact
<1>9. RefundWithinPayment' /\ CashMatchesRefund'
  BY DEF IInv, RefundWithinPayment, CashMatchesRefund
<1>10. QED
  BY <1>5, <1>6, <1>7, <1>8, <1>9 DEF IInv

(* What a transaction is after it has taken a lock.                        *)
Taken(x, k, w, v) ==
  /\ v = [w EXCEPT !.todo = Tail(work[x].todo), !.held = @ \cup {k}]
  /\ v.held = work[x].held \cup {k}
  /\ v.held \cup Ahead(v) = work[x].held \cup Ahead(work[x])
  /\ Ahead(v) \subseteq Ahead(work[x])
  /\ OrderOK(v)

LEMMA LockTaken ==
  ASSUME IInv, NEW x \in Workers, NEW k, NEW w \in Work, Takes(x, k, w), w.held = work[x].held
  PROVE  /\ \E v : /\ Taken(x, k, w, v) /\ work' = [work EXCEPT ![x] = v]
                   /\ \A y \in Workers \ {x} : v.held \cap work[y].held = {}
         /\ \A j \in work[x].held : Before(j, k)
         /\ work[x].todo # <<>> /\ k = work[x].todo[1]
<1>1. work[x] \in Work /\ work[x].todo # <<>> /\ Head(work[x].todo) = k
  BY DEF IInv, TypeOK, Takes
<1>2. work[x].todo \in Seq(Locks) /\ OrderOK(work[x])
  BY <1>1 DEF Work, IInv, WorkOK, TransactionOK
<1>3. PICK u : u = work[x]
  OBVIOUS
<1>4. PICK v : v = [w EXCEPT !.todo = Tail(work[x].todo), !.held = @ \cup {k}]
  OBVIOUS
<1>5. v.todo = Tail(u.todo) /\ v.held = u.held \cup {k}
  BY <1>3, <1>4 DEF Work
<1>6. /\ OrderOK(v)
      /\ v.held \cup Ahead(v) = u.held \cup Ahead(u)
      /\ Ahead(v) \subseteq Ahead(u)
  BY <1>1, <1>2, <1>3, <1>5, TakenInOrder
<1>7. Len(u.todo) \in Nat \ {0} /\ u.todo[1] = k
  BY <1>1, <1>2, <1>3, TailOfLocks
<1>8. \A j \in u.held : Before(j, k)
  <2>1. 1 \in 1 .. Len(u.todo)
    BY <1>7
  <2>2. QED
    BY <1>2, <1>3, <1>7, <2>1 DEF OrderOK
<1>9. \A y \in Workers \ {x} : v.held \cap work[y].held = {}
  BY <1>3, <1>5 DEF IInv, Exclusive, Takes, LockFree
<1>10. Taken(x, k, w, v)
  BY <1>3, <1>4, <1>5, <1>6 DEF Taken
<1>11. work' = [work EXCEPT ![x] = v]
  BY <1>4 DEF Takes
<1>12. QED
  BY <1>1, <1>3, <1>7, <1>8, <1>9, <1>10, <1>11

(* A transaction that takes a payment, a reference or a shift after its    *)
(* refund row keeps what it knew.                                          *)
LEMMA TakesOne ==
  ASSUME IInv, TypeOK', NEW x \in Workers, NEW k, Takes(x, k, work[x]),
         work[x].op # "IDLE", k[1] # "REFUND",
         k = Shift => work[x].op # "RETURN",
         k = Payment(work[x].payment) =>
           RefundedOf(work[x].payment, work[x].ret) + work[x].amount <= Paid[work[x].payment]
  PROVE  IInv'
<1>1. work[x] \in Work /\ TransactionOK(work[x])
  BY DEF IInv, TypeOK, WorkOK
<1>2. PICK w \in Work : w = work[x]
  BY <1>1
<1>3. PICK v : /\ Taken(x, k, w, v) /\ work' = [work EXCEPT ![x] = v]
               /\ \A y \in Workers \ {x} : v.held \cap work[y].held = {}
  BY <1>2, LockTaken
<1>4. work[x].todo # <<>> /\ k = work[x].todo[1]
  BY <1>2, LockTaken
<1>5. /\ v.op = w.op /\ v.ret = w.ret /\ v.items = w.items /\ v.values = w.values
      /\ v.amount = w.amount /\ v.payment = w.payment /\ v.method = w.method
      /\ v.expected = w.expected /\ v.seen = w.seen /\ v.to = w.to
  BY <1>3 DEF Taken, Work
<1>6. /\ v.held = w.held \cup {k} /\ v.held \cup Ahead(v) = w.held \cup Ahead(w)
      /\ Ahead(v) \subseteq Ahead(w) /\ OrderOK(v)
  BY <1>2, <1>3 DEF Taken
<1>7. ReturnOK(v)
  BY <1>1, <1>2, <1>5, <1>6 DEF TransactionOK, ReturnOK
<1>8. LifecycleOK(v)
  <2> SUFFICES ASSUME v.op \in Lifecycle PROVE LifecycleOK(v)
    BY DEF LifecycleOK
  <2>1. w.todo # <<RefundRow(w.ret)>>
    BY <1>2, <1>4, LocksDiffer
  <2>2. LifecycleOK(w)
    BY <1>1, <1>2 DEF TransactionOK
  <2>3. /\ RefundRow(w.ret) \in w.held /\ RefundRow(w.ret) \notin Ahead(w)
        /\ refund[w.ret].version = w.expected
        /\ w.to \in Active => Payment(w.payment) \in w.held \cup Ahead(w)
    BY <1>5, <2>1, <2>2 DEF LifecycleOK
  <2>4. SeenValid(v)
    BY <1>5, <2>2 DEF LifecycleOK, SeenValid
  <2>5. QED
    BY <1>5, <1>6, <2>2, <2>3, <2>4 DEF LifecycleOK
<1>9. CapacityOK(v)
  BY <1>1, <1>2, <1>5, <1>6 DEF TransactionOK, CapacityOK
<1>10. TransactionOK(v)
  BY <1>2, <1>5, <1>6, <1>7, <1>8, <1>9 DEF TransactionOK
<1>11. QED
  BY <1>3, <1>10, OneMoves DEF Takes

LEMMA ResolveItemsStep ==
  ASSUME IInv, TypeOK', NEW x \in Workers, ResolveItems(x)
  PROVE  IInv'
<1> DEFINE values == [l \in Lines |-> RefundableAmount(l, work[x].items[l])]
<1>1. work[x] \in Work /\ TransactionOK(work[x]) /\ work[x].op = "RETURN"
  BY DEF IInv, TypeOK, WorkOK, ResolveItems
<1>2. /\ \A l \in Lines : Returnable(l, work[x].items[l])
      /\ \A l \in Lines : values[l] >= 0
      /\ \E amount \in 1 .. SumFunctionOnSet(values, Lines) :
           Takes(x, Shift, [work[x] EXCEPT !.values = values, !.amount = amount])
  BY DEF ResolveItems
<1>3. \A l \in Lines : work[x].items[l] \in Nat
  BY <1>1, QuantitiesAre DEF Work
<1>4. \A l \in Lines : values[l] \in Nat
  BY <1>2, <1>3, TotalsAre DEF IInv
<1>5. values \in [Lines -> Nat] /\ SumFunctionOnSet(values, Lines) \in Nat
  BY <1>4, SumNat, RefundAssumption
<1>6. PICK amount \in 1 .. SumFunctionOnSet(values, Lines) :
        Takes(x, Shift, [work[x] EXCEPT !.values = values, !.amount = amount])
  BY <1>2
<1>7. PICK w : w = [work[x] EXCEPT !.values = values, !.amount = amount]
  OBVIOUS
<1>8. \A l \in Lines : values[l] = RefundableAmount(l, work[x].items[l])
  OBVIOUS
<1> HIDE DEF values
<1>9. amount \in Nat
  BY <1>5
<1>10. w \in Work /\ w.held = work[x].held /\ w.op = "RETURN" /\ w.ret = work[x].ret
         /\ w.items = work[x].items /\ w.values = values /\ w.payment = work[x].payment
  BY <1>1, <1>5, <1>7, <1>9 DEF Work
<1>11. Takes(x, Shift, w)
  BY <1>6, <1>7
<1>12. PICK v : /\ Taken(x, Shift, w, v) /\ work' = [work EXCEPT ![x] = v]
                /\ \A y \in Workers \ {x} : v.held \cap work[y].held = {}
  BY <1>10, <1>11, LockTaken
<1>13. \A j \in work[x].held : Before(j, Shift)
  BY <1>10, <1>11, LockTaken
<1>14. /\ v.op = "RETURN" /\ v.ret = work[x].ret /\ v.items = work[x].items
       /\ v.values = values /\ v.payment = work[x].payment
  BY <1>10, <1>12 DEF Taken, Work
<1>15. /\ v.held = work[x].held \cup {Shift}
       /\ v.held \cup Ahead(v) = work[x].held \cup Ahead(work[x])
       /\ OrderOK(v)
  BY <1>12 DEF Taken
<1>16. ReturnOK(v)
  BY <1>1, <1>2, <1>8, <1>14, <1>15 DEF TransactionOK, ReturnOK
<1>17. Payment(v.payment) \notin v.held
  BY <1>13, <1>15, LocksDiffer DEF Before
<1>18. TransactionOK(v)
  BY <1>14, <1>15, <1>16, <1>17 DEF TransactionOK, CapacityOK, LifecycleOK, Lifecycle
<1>19. QED
  BY <1>11, <1>12, <1>18, OneMoves DEF Takes

(* Plans of locks, written out.                                            *)
LEMMA NoPlan ==
  ASSUME NEW w, w.todo = <<>>
  PROVE  OrderOK(w) /\ Ahead(w) = {}
<1>1. Len(w.todo) = 0
  OBVIOUS
<1>2. 1 .. 0 = {}
  OBVIOUS
<1>3. QED
  BY <1>1, <1>2 DEF OrderOK, Ahead

LEMMA PlanOfOne ==
  ASSUME NEW w, NEW a, w.todo = <<a>>, \A k \in w.held : Before(k, a)
  PROVE  OrderOK(w) /\ Ahead(w) = {a}
<1>1. Len(w.todo) = 1 /\ w.todo[1] = a
  OBVIOUS
<1>2. \A i \in 1 .. 1 : i = 1
  OBVIOUS
<1>3. 1 \in 1 .. 1
  OBVIOUS
<1>4. ~(1 < 1)
  OBVIOUS
<1>5. QED
  BY <1>1, <1>2, <1>3, <1>4 DEF OrderOK, Ahead

LEMMA PlanOfTwo ==
  ASSUME NEW w, NEW a, NEW b, w.todo = <<a, b>>, Before(a, b),
         \A k \in w.held : Before(k, a) /\ Before(k, b)
  PROVE  OrderOK(w) /\ Ahead(w) = {a, b}
<1>1. Len(w.todo) = 2 /\ w.todo[1] = a /\ w.todo[2] = b
  OBVIOUS
<1>2. \A i \in 1 .. 2 : i = 1 \/ i = 2
  OBVIOUS
<1>3. 1 \in 1 .. 2 /\ 2 \in 1 .. 2
  OBVIOUS
<1>4. \A i, j \in 1 .. 2 : i < j => i = 1 /\ j = 2
  OBVIOUS
<1>5. QED
  BY <1>1, <1>2, <1>3, <1>4 DEF OrderOK, Ahead

LEMMA PlanOfThree ==
  ASSUME NEW w, NEW a, NEW b, NEW c, w.todo = <<a, b, c>>,
         Before(a, b), Before(a, c), Before(b, c),
         \A k \in w.held : Before(k, a) /\ Before(k, b) /\ Before(k, c)
  PROVE  OrderOK(w) /\ Ahead(w) = {a, b, c}
<1>1. Len(w.todo) = 3 /\ w.todo[1] = a /\ w.todo[2] = b /\ w.todo[3] = c
  OBVIOUS
<1>2. \A i \in 1 .. 3 : i = 1 \/ i = 2 \/ i = 3
  OBVIOUS
<1>3. 1 \in 1 .. 3 /\ 2 \in 1 .. 3 /\ 3 \in 1 .. 3
  OBVIOUS
<1>4. \A i, j \in 1 .. 3 : i < j => \/ i = 1 /\ j = 2
                                    \/ i = 1 /\ j = 3
                                    \/ i = 2 /\ j = 3
  OBVIOUS
<1>5. QED
  BY <1>1, <1>2, <1>3, <1>4 DEF OrderOK, Ahead

LEMMA Joined ==
  ASSUME NEW a, NEW b, NEW c
  PROVE  /\ <<a, b>> \o <<>> = <<a, b>> /\ <<a>> \o <<>> = <<a>>
         /\ <<>> \o <<a>> = <<a>> /\ <<>> \o <<>> = <<>>
         /\ <<a, b>> \o <<c>> = <<a, b, c>> /\ <<a>> \o <<b>> = <<a, b>>
<1> DEFINE S == {a, b, c}
<1>1. /\ <<a, b>> \in Seq(S) /\ <<a>> \in Seq(S) /\ <<b>> \in Seq(S) /\ <<c>> \in Seq(S)
      /\ <<>> \in Seq(S) /\ <<a, b, c>> \in Seq(S)
  OBVIOUS
<1>2. <<a, b>> \o <<>> = <<a, b>> /\ <<a>> \o <<>> = <<a>> /\ <<>> \o <<a>> = <<a>>
        /\ <<>> \o <<>> = <<>>
  BY <1>1, ConcatEmptySeq
<1>3. <<a, b>> \o <<c>> = <<a, b, c>>
  <2>1. PICK s \in Seq(S), t \in Seq(S), u \in Seq(S) :
          s = <<a, b>> /\ t = <<c>> /\ u = <<a, b, c>>
    BY <1>1
  <2>2. Len(s) = 2 /\ Len(t) = 1 /\ Len(u) = 3 /\ s[1] = a /\ s[2] = b /\ t[1] = c
          /\ u[1] = a /\ u[2] = b /\ u[3] = c
    BY <2>1
  <2>3. /\ s \o t \in Seq(S) /\ Len(s \o t) = 3
        /\ \A i \in 1 .. 3 : (s \o t)[i] = IF i <= 2 THEN s[i] ELSE t[i - 2]
    BY <2>2, ConcatProperties
  <2>4. \A i \in 1 .. 3 : (s \o t)[i] = u[i]
    <3>1. \A i \in 1 .. 3 : i = 1 \/ i = 2 \/ i = 3
      OBVIOUS
    <3>2. 1 \in 1 .. 3 /\ 2 \in 1 .. 3 /\ 3 \in 1 .. 3 /\ 1 <= 2 /\ 2 <= 2 /\ ~(3 <= 2) /\ 3 - 2 = 1
      OBVIOUS
    <3>3. QED
      BY <2>2, <2>3, <3>1, <3>2
  <2>5. s \o t = u
    BY <2>2, <2>3, <2>4, SeqEqual
  <2>6. QED
    BY <2>1, <2>5
<1>4. <<a>> \o <<b>> = <<a, b>>
  <2>1. PICK s \in Seq(S), t \in Seq(S), u \in Seq(S) :
          s = <<a>> /\ t = <<b>> /\ u = <<a, b>>
    BY <1>1
  <2>2. Len(s) = 1 /\ Len(t) = 1 /\ Len(u) = 2 /\ s[1] = a /\ t[1] = b
          /\ u[1] = a /\ u[2] = b
    BY <2>1
  <2>3. /\ s \o t \in Seq(S) /\ Len(s \o t) = 2
        /\ \A i \in 1 .. 2 : (s \o t)[i] = IF i <= 1 THEN s[i] ELSE t[i - 1]
    BY <2>2, ConcatProperties
  <2>4. \A i \in 1 .. 2 : (s \o t)[i] = u[i]
    <3>1. \A i \in 1 .. 2 : i = 1 \/ i = 2
      OBVIOUS
    <3>2. 1 \in 1 .. 2 /\ 2 \in 1 .. 2 /\ 1 <= 1 /\ ~(2 <= 1) /\ 2 - 1 = 1
      OBVIOUS
    <3>3. QED
      BY <2>2, <2>3, <3>1, <3>2
  <2>5. s \o t = u
    BY <2>2, <2>3, <2>4, SeqEqual
  <2>6. QED
    BY <2>1, <2>5
<1>5. QED
  BY <1>2, <1>3, <1>4

LEMMA IdleIsGood == TransactionOK(Idle)
BY IdleWork, NoPlan DEF TransactionOK, ReturnOK, LifecycleOK, CapacityOK, Lifecycle

LEMMA BeginReturnStep ==
  ASSUME IInv, TypeOK', NEW x \in Workers, NEW r \in Returns, BeginReturn(x, r)
  PROVE  IInv'
<1>1. PICK items \in Quantities \ {Nothing}, p \in Payments, m \in Methods,
           e \in References \cup {NoReference} :
        work' = [work EXCEPT ![x] =
          [Idle EXCEPT !.op = "RETURN", !.ret = r, !.items = items, !.payment = p,
                       !.method = m, !.reference = e,
                       !.todo = <<Shift, Payment(p)>> \o IfReference(e),
                       !.held = {Transaction}]]
  BY DEF BeginReturn
<1>2. PICK v : v = [Idle EXCEPT !.op = "RETURN", !.ret = r, !.items = items, !.payment = p,
                       !.method = m, !.reference = e,
                       !.todo = <<Shift, Payment(p)>> \o IfReference(e),
                       !.held = {Transaction}]
  OBVIOUS
<1>3. /\ v.op = "RETURN" /\ v.ret = r /\ v.payment = p /\ v.held = {Transaction}
      /\ v.todo = <<Shift, Payment(p)>> \o IfReference(e)
  BY <1>2, IdleWork DEF Work
<1>4. /\ Before(Transaction, Shift) /\ Before(Transaction, Payment(p)) /\ Before(Shift, Payment(p))
      /\ \A k : Before(k, Reference(e))
  BY LocksDiffer DEF Before
<1>5. OrderOK(v) /\ Shift \in Ahead(v) /\ Payment(p) \in Ahead(v)
  <2>1. CASE e = NoReference
    <3>1. v.todo = <<Shift, Payment(p)>>
      BY <1>3, <2>1, IfReferenceIs, Joined
    <3>2. QED
      BY <1>3, <1>4, <3>1, PlanOfTwo
  <2>2. CASE e # NoReference
    <3>1. <<Shift, Payment(p)>> \o <<Reference(e)>> = <<Shift, Payment(p), Reference(e)>>
      BY Joined, Zenon
    <3>2. IfReference(e) = <<Reference(e)>>
      BY <2>2, IfReferenceIs
    <3>3. v.todo = <<Shift, Payment(p), Reference(e)>>
      BY <1>3, <3>1, <3>2, Zenon
    <3>4. QED
      BY <1>3, <1>4, <3>3, PlanOfThree
  <2>3. QED
    BY <2>1, <2>2
<1>6. Shift \notin v.held /\ Payment(p) \notin v.held
  BY <1>3, LocksDiffer
<1>7. ReturnOK(v)
  BY <1>3, <1>5, <1>6 DEF ReturnOK, BeginReturn
<1>8. TransactionOK(v)
  BY <1>3, <1>5, <1>6, <1>7 DEF TransactionOK, CapacityOK, LifecycleOK, Lifecycle
<1>9. \A y \in Workers \ {x} : v.held \cap work[y].held = {}
  BY <1>3 DEF BeginReturn, LockFree
<1>10. QED
  BY <1>1, <1>2, <1>8, <1>9, OneMoves DEF BeginReturn

LEMMA DecideStep ==
  ASSUME IInv, TypeOK', NEW x \in Workers, NEW r \in Returns, NEW o, NEW to, NEW e,
         Decide(x, r, o, to, e),
         \/ o = "RETRY" /\ to = "PENDING"
         \/ o = "RESOLVE" /\ to \in {"COMPLETED", "FAILED", "REQUIRES_ACTION"}
         \/ o = "REVERSE" /\ to = "REVERSED"
  PROVE  IInv'
<1>1. PICK v : v = [Idle EXCEPT !.op = o, !.ret = r, !.to = to, !.reference = e,
                        !.seen = refund[r].status, !.expected = refund[r].version,
                        !.amount = refund[r].amount, !.payment = refund[r].payment,
                        !.method = refund[r].method, !.todo = FirstLocks(o, r)]
  OBVIOUS
<1>2. /\ v.op = o /\ v.ret = r /\ v.to = to /\ v.seen = refund[r].status
      /\ v.expected = refund[r].version /\ v.amount = refund[r].amount
      /\ v.payment = refund[r].payment /\ v.method = refund[r].method
      /\ v.todo = <<RefundRow(r)>> /\ v.held = {}
  BY <1>1, IdleWork DEF FirstLocks
<1>3. /\ work' = [work EXCEPT ![x] = v] /\ UNCHANGED <<ret, refund, cash, shift>>
      /\ refund[r].status # "NONE" /\ refund[r].version < MaxVersion
      /\ StateValid(v)
  BY <1>1 DEF Decide
<1>4. SeenValid(v)
  BY <1>2, <1>3 DEF SeenValid, StateValid, IInv, RecordsOK, Unsettled
<1>5. refund[r].version \in Nat
  BY DEF IInv, TypeOK, RefundRecord
<1>6. LifecycleOK(v)
  BY <1>2, <1>3, <1>4, <1>5 DEF LifecycleOK
<1>7. OrderOK(v)
  BY <1>2, PlanOfOne
<1>8. TransactionOK(v)
  BY <1>2, <1>6, <1>7 DEF TransactionOK, ReturnOK, CapacityOK
<1>9. QED
  BY <1>2, <1>3, <1>8, OneMoves

LEMMA LockRefundStep ==
  ASSUME IInv, TypeOK', NEW x \in Workers, LockRefund(x)
  PROVE  IInv'
<1>1. PICK w \in Work : w = work[x]
  BY DEF IInv, TypeOK
<1>2. /\ w.op \in Lifecycle /\ w.todo # <<>> /\ Head(w.todo) = RefundRow(w.ret)
      /\ refund[w.ret].version = w.expected
      /\ LifecycleOK(w) /\ w.todo \in Seq(Locks)
  BY <1>1 DEF LockRefund, Lifecycle, AssertRefundVersion, IInv, WorkOK, TransactionOK, Work
<1>3. RefundRow(w.ret) \in Ahead(w)
  <2>1. 1 \in 1 .. Len(w.todo) /\ w.todo[1] = RefundRow(w.ret)
    BY <1>2, TailOfLocks
  <2>2. QED
    BY <2>1 DEF Ahead
<1>4. w.held = {}
  BY <1>2, <1>3 DEF LifecycleOK
<1>5. PICK v : v = [w EXCEPT !.todo = LaterLocks(w), !.held = @ \cup {RefundRow(w.ret)}]
  OBVIOUS
<1>6. /\ v.op = w.op /\ v.ret = w.ret /\ v.amount = w.amount /\ v.payment = w.payment
      /\ v.method = w.method /\ v.expected = w.expected /\ v.seen = w.seen /\ v.to = w.to
      /\ v.reference = w.reference
      /\ v.todo = LaterLocks(w) /\ v.held = {RefundRow(w.ret)}
  BY <1>4, <1>5 DEF Work
<1>7. work' = [work EXCEPT ![x] = v]
  BY <1>1, <1>5 DEF LockRefund, IInv, TypeOK
<1> DEFINE p == w.payment
           e == w.reference
<1>8. /\ Before(RefundRow(w.ret), Shift) /\ Before(RefundRow(w.ret), Payment(p))
      /\ \A k : Before(k, Reference(e)) /\ Before(Reference(e), k)
      /\ RefundRow(w.ret) \notin {Shift, Payment(p), Reference(e)}
  BY LocksDiffer DEF Before
<1>9. e \in References \cup {NoReference}
  BY DEF Work
<1>10. SeenValid(w)
  BY <1>2 DEF LifecycleOK
<1>11. /\ OrderOK(v) /\ RefundRow(w.ret) \notin Ahead(v)
       /\ w.to \in Active => Payment(p) \in Ahead(v)
  <2>1. CASE w.op = "RETRY"
    <3>1. v.todo = <<Payment(p)>>
      BY <1>6, <2>1 DEF LaterLocks
    <3>2. QED
      BY <1>6, <1>8, <3>1, PlanOfOne
  <2>2. CASE w.op = "REVERSE"
    <3>1. w.to \notin Active
      BY <1>10, <2>2 DEF SeenValid, Active
    <3>2. CASE w.method = "CASH"
      <4>1. v.todo = <<Shift>>
        BY <1>6, <2>2, <3>2 DEF LaterLocks
      <4>2. QED
        BY <1>6, <1>8, <3>1, <4>1, PlanOfOne
    <3>3. CASE w.method # "CASH"
      <4>1. v.todo = <<>>
        BY <1>6, <2>2, <3>3 DEF LaterLocks
      <4>2. QED
        BY <1>6, <3>1, <4>1, NoPlan
    <3>4. QED
      BY <3>2, <3>3
  <2>3. CASE w.op = "RESOLVE"
    <3>1. w.method # "CASH"
      BY <1>10, <2>3 DEF SeenValid
    <3>2. LaterLocks(w) = IfReference(e) \o (IF w.to = "FAILED" THEN <<>> ELSE <<Payment(p)>>) \o <<>>
      BY <2>3, <3>1 DEF LaterLocks
    <3>3. CASE w.to = "FAILED" /\ e = NoReference
      <4>1. v.todo = <<>>
        BY <1>6, <1>9, <3>2, <3>3, IfReferenceIs, Joined
      <4>2. QED
        BY <1>6, <3>3, <4>1, NoPlan DEF Active
    <3>4. CASE w.to = "FAILED" /\ e # NoReference
      <4>1. v.todo = <<Reference(e)>>
        BY <1>6, <1>9, <3>2, <3>4, IfReferenceIs, Joined
      <4>2. QED
        BY <1>6, <1>8, <3>4, <4>1, PlanOfOne DEF Active
    <3>5. CASE w.to # "FAILED" /\ e = NoReference
      <4>1. v.todo = <<Payment(p)>>
        BY <1>6, <1>9, <3>2, <3>5, IfReferenceIs, Joined
      <4>2. QED
        BY <1>6, <1>8, <4>1, PlanOfOne
    <3>6. CASE w.to # "FAILED" /\ e # NoReference
      <4>1. /\ <<Reference(e)>> \o <<Payment(p)>> = <<Reference(e), Payment(p)>>
            /\ <<Reference(e), Payment(p)>> \o <<>> = <<Reference(e), Payment(p)>>
        BY Joined, Zenon
      <4>2. IfReference(e) = <<Reference(e)>>
        BY <1>9, <3>6, IfReferenceIs
      <4>3. (IF w.to = "FAILED" THEN <<>> ELSE <<Payment(p)>>) = <<Payment(p)>>
        BY <3>6
      <4>4. (IfReference(e) \o (IF w.to = "FAILED" THEN <<>> ELSE <<Payment(p)>>)) \o <<>>
              = <<Reference(e), Payment(p)>>
        BY <4>1, <4>2, <4>3, Zenon
      <4>5. v.todo = <<Reference(e), Payment(p)>>
        BY <1>6, <3>2, <4>4, Zenon
      <4>6. QED
        BY <1>6, <1>8, <4>5, PlanOfTwo
    <3>7. QED
      BY <3>3, <3>4, <3>5, <3>6
  <2>4. QED
    BY <1>2, <2>1, <2>2, <2>3 DEF Lifecycle
<1>12. SeenValid(v)
  BY <1>6, <1>10 DEF SeenValid
<1>13. LifecycleOK(v)
  BY <1>2, <1>6, <1>11, <1>12 DEF LifecycleOK
<1>14. Payment(p) \notin v.held
  BY <1>6, <1>8
<1>15. TransactionOK(v)
  BY <1>2, <1>6, <1>11, <1>13, <1>14 DEF TransactionOK, ReturnOK, CapacityOK, Lifecycle
<1>16. \A y \in Workers \ {x} : v.held \cap work[y].held = {}
  BY <1>1, <1>6 DEF LockRefund, LockFree
<1>17. QED
  BY <1>7, <1>15, <1>16, OneMoves DEF LockRefund

-----------------------------------------------------------------------------
(* Refunds on a payment, for any table f of refunds.                       *)

Amounts(f) == [q \in Returns |-> f[q].amount]
Counting(f, p) ==
  {q \in Returns : f[q].payment = p /\ f[q].status \notin {"FAILED", "REVERSED"}}
OthersOn(f, p, r) == {q \in Returns \ {r} : f[q].status \in Active /\ f[q].payment = p}

LEMMA AmountsAre ==
  ASSUME NEW f \in [Returns -> RefundRecord], NEW S \in SUBSET Returns
  PROVE  /\ IsFiniteSet(S) /\ \A q \in S : Amounts(f)[q] \in Nat
         /\ SumFunctionOnSet(Amounts(f), S) \in Nat
<1>1. IsFiniteSet(S)
  BY RefundAssumption, FS_Subset
<1>2. \A q \in S : Amounts(f)[q] \in Nat
  BY DEF Amounts, RefundRecord
<1>3. QED
  BY <1>1, <1>2, SumNat

(* The refunds of a smaller set, with the same amounts, are not more.      *)
LEMMA NotMore ==
  ASSUME NEW f \in [Returns -> RefundRecord], NEW g \in [Returns -> RefundRecord],
         NEW S \in SUBSET Returns, NEW R \in SUBSET S, \A q \in R : g[q].amount = f[q].amount
  PROVE  SumFunctionOnSet(Amounts(g), R) <= SumFunctionOnSet(Amounts(f), S)
<1>1. IsFiniteSet(R) /\ \A q \in R : Amounts(f)[q] \in Int /\ Amounts(f)[q] = Amounts(g)[q]
  <2>1. R \in SUBSET Returns
    OBVIOUS
  <2>2. IsFiniteSet(R) /\ \A q \in R : Amounts(f)[q] \in Nat
    BY <2>1, AmountsAre
  <2>3. \A q \in R : Amounts(f)[q] = Amounts(g)[q]
    BY <2>1 DEF Amounts
  <2>4. QED
    BY <2>2, <2>3
<1>2. SumFunctionOnSet(Amounts(f), R) = SumFunctionOnSet(Amounts(g), R)
  BY <1>1, SumSame
<1>3. IsFiniteSet(S) /\ \A q \in S : Amounts(f)[q] \in Nat
  BY AmountsAre
<1>4. SumFunctionOnSet(Amounts(f), R) <= SumFunctionOnSet(Amounts(f), S)
  BY <1>3, SumSubset
<1>5. QED
  BY <1>2, <1>4

LEMMA RefundsOn ==
  ASSUME NEW f \in [Returns -> RefundRecord],
         \A q \in Returns : f[q].payment = NoPayment <=> f[q].status = "NONE",
         NEW p \in Payments, NEW r \in Returns, r \in Counting(f, p)
  PROVE  SumFunctionOnSet(Amounts(f), Counting(f, p))
           = f[r].amount + SumFunctionOnSet(Amounts(f), OthersOn(f, p, r))
<1>1. Counting(f, p) \in SUBSET Returns
  BY DEF Counting
<1>2. OthersOn(f, p, r) = Counting(f, p) \ {r}
  <2>1. \A q \in Returns : f[q].status \in Statuses
    BY DEF RefundRecord
  <2>2. \A q \in Returns : f[q].payment = p =>
          (f[q].status \in Active <=> f[q].status \notin {"FAILED", "REVERSED"})
    BY <2>1, RefundAssumption DEF Statuses, Unsettled, Active
  <2>3. QED
    BY <2>2 DEF OthersOn, Counting
<1>3. IsFiniteSet(Counting(f, p)) /\ \A q \in Counting(f, p) : Amounts(f)[q] \in Int
  BY <1>1, AmountsAre
<1>4. SumFunctionOnSet(Amounts(f), Counting(f, p))
        = Amounts(f)[r] + SumFunctionOnSet(Amounts(f), Counting(f, p) \ {r})
  BY <1>3, SumRemove
<1>5. Amounts(f)[r] = f[r].amount
  BY DEF Amounts
<1>6. QED
  BY <1>2, <1>4, <1>5

(* A step that changes refund r only leaves the room on every payment, if  *)
(* the refund does not come to count, or there is room for it.             *)
LEMMA WithinPayment ==
  ASSUME TypeOK, TypeOK', RefundWithinPayment, RecordsOK', NEW r \in Returns,
         \A q \in Returns \ {r} : refund'[q] = refund[q],
         NEW p0, refund'[r].payment = p0,
         \/ refund'[r].status \in {"FAILED", "REVERSED"}
         \/ p0 \in Payments /\ RefundedOf(p0, r) + refund'[r].amount <= Paid[p0]
  PROVE  RefundWithinPayment'
<1> SUFFICES ASSUME NEW p \in Payments
             PROVE  SumFunctionOnSet(Amounts(refund'), Counting(refund', p)) <= Paid[p]
  BY DEF RefundWithinPayment, Amounts, Counting
<1>1. refund \in [Returns -> RefundRecord] /\ refund' \in [Returns -> RefundRecord]
  BY DEF TypeOK
<1>2. Counting(refund, p) \in SUBSET Returns /\ Counting(refund', p) \in SUBSET Returns
  BY DEF Counting
<1>3. /\ SumFunctionOnSet(Amounts(refund), Counting(refund, p)) <= Paid[p]
      /\ Paid[p] \in Nat
  BY RefundAssumption DEF RefundWithinPayment, Amounts, Counting
<1>4. /\ SumFunctionOnSet(Amounts(refund), Counting(refund, p)) \in Nat
      /\ SumFunctionOnSet(Amounts(refund'), Counting(refund', p)) \in Nat
  BY <1>1, <1>2, AmountsAre
<1>5. CASE r \notin Counting(refund', p)
  <2>1. \A q \in Counting(refund', p) : q \in Counting(refund, p) /\ refund'[q] = refund[q]
    BY <1>5 DEF Counting
  <2>2. SumFunctionOnSet(Amounts(refund'), Counting(refund', p))
          <= SumFunctionOnSet(Amounts(refund), Counting(refund, p))
    BY <1>1, <1>2, <2>1, NotMore
  <2>3. QED
    BY <1>3, <1>4, <2>2
<1>6. CASE r \in Counting(refund', p)
  <2>1. p = p0 /\ RefundedOf(p, r) + refund'[r].amount <= Paid[p]
    BY <1>6 DEF Counting
  <2>2. \A q \in Returns : refund'[q].payment = NoPayment <=> refund'[q].status = "NONE"
    BY DEF RecordsOK
  <2>3. SumFunctionOnSet(Amounts(refund'), Counting(refund', p))
          = refund'[r].amount + SumFunctionOnSet(Amounts(refund'), OthersOn(refund', p, r))
    BY <1>1, <1>6, <2>2, RefundsOn
  <2>4. OthersOn(refund, p, r) \in SUBSET Returns /\ OthersOn(refund', p, r) \in SUBSET Returns
    BY DEF OthersOn
  <2>5. \A q \in OthersOn(refund', p, r) :
           q \in OthersOn(refund, p, r) /\ refund'[q] = refund[q]
    BY DEF OthersOn
  <2>6. SumFunctionOnSet(Amounts(refund'), OthersOn(refund', p, r))
          <= SumFunctionOnSet(Amounts(refund), OthersOn(refund, p, r))
    BY <1>1, <2>4, <2>5, NotMore
  <2>7. SumFunctionOnSet(Amounts(refund), OthersOn(refund, p, r)) = RefundedOf(p, r)
    BY DEF Amounts, OthersOn, RefundedOf
  <2>8. /\ SumFunctionOnSet(Amounts(refund'), OthersOn(refund', p, r)) \in Nat
        /\ SumFunctionOnSet(Amounts(refund), OthersOn(refund, p, r)) \in Nat
        /\ refund'[r].amount \in Nat
    BY <1>1, <2>4, AmountsAre DEF RefundRecord
  <2>9. QED
    BY <1>3, <2>1, <2>3, <2>6, <2>7, <2>8
<1>7. QED
  BY <1>5, <1>6

(* Such a step leaves the room that another transaction found, if that one *)
(* is on another payment or the refund does not come to count.             *)
LEMMA RoomStays ==
  ASSUME TypeOK, TypeOK', NEW r \in Returns,
         \A q \in Returns \ {r} : refund'[q] = refund[q],
         NEW u \in Work, CapacityOK(u), u.payment \in Payments \/ Payment(u.payment) \notin u.held,
         Payment(u.payment) \in u.held =>
           refund'[r].payment # u.payment \/ refund'[r].status \notin Active
  PROVE  CapacityOK(u)'
<1> SUFFICES ASSUME u.op # "IDLE", Payment(u.payment) \in u.held
             PROVE  RefundedOf(u.payment, u.ret)' + u.amount <= Paid[u.payment]
  BY DEF CapacityOK, Payment
<1>1. refund \in [Returns -> RefundRecord] /\ refund' \in [Returns -> RefundRecord]
  BY DEF TypeOK
<1>2. RefundedOf(u.payment, u.ret) + u.amount <= Paid[u.payment]
  BY DEF CapacityOK
<1>3. /\ OthersOn(refund, u.payment, u.ret) \in SUBSET Returns
      /\ OthersOn(refund', u.payment, u.ret) \in SUBSET Returns
  BY DEF OthersOn
<1>4. \A q \in OthersOn(refund', u.payment, u.ret) :
         q \in OthersOn(refund, u.payment, u.ret) /\ refund'[q] = refund[q]
  BY DEF OthersOn
<1>5. SumFunctionOnSet(Amounts(refund'), OthersOn(refund', u.payment, u.ret))
        <= SumFunctionOnSet(Amounts(refund), OthersOn(refund, u.payment, u.ret))
  BY <1>1, <1>3, <1>4, NotMore
<1>6. /\ SumFunctionOnSet(Amounts(refund), OthersOn(refund, u.payment, u.ret))
           = RefundedOf(u.payment, u.ret)
      /\ SumFunctionOnSet(Amounts(refund'), OthersOn(refund', u.payment, u.ret))
           = RefundedOf(u.payment, u.ret)'
  BY DEF Amounts, OthersOn, RefundedOf
<1>7. /\ SumFunctionOnSet(Amounts(refund), OthersOn(refund, u.payment, u.ret)) \in Nat
      /\ SumFunctionOnSet(Amounts(refund'), OthersOn(refund', u.payment, u.ret)) \in Nat
      /\ u.amount \in Nat /\ Paid[u.payment] \in Nat
  BY <1>1, <1>3, AmountsAre, RefundAssumption DEF Work
<1>8. QED
  BY <1>2, <1>5, <1>6, <1>7

-----------------------------------------------------------------------------
(* The steps that write.                                                   *)

(* A return adds its items and their values to what was returned.          *)
LEMMA ReturnAdds ==
  ASSUME TypeOK, TypeOK', NEW r \in Returns, ret[r].items = Nothing, ret[r].values = Nothing,
         \A q \in Returns \ {r} : ret'[q] = ret[q], NEW l \in Lines
  PROVE  /\ Returned(l)' = Returned(l) + ret'[r].items[l]
         /\ Refundable(l)' = Refundable(l) + ret'[r].values[l]
         /\ ret'[r].items[l] \in Nat /\ ret'[r].values[l] \in Nat
<1>1. \A q \in Returns : /\ ret[q].items \in [Lines -> Nat] /\ ret[q].values \in [Lines -> Nat]
                         /\ ret'[q].items \in [Lines -> Nat] /\ ret'[q].values \in [Lines -> Nat]
  BY QuantitiesAre DEF TypeOK, Return
<1> DEFINE f == [q \in Returns |-> ret[q].items[l]]
           g == [q \in Returns |-> ret'[q].items[l]]
           h == [q \in Returns |-> ret[q].values[l]]
           k == [q \in Returns |-> ret'[q].values[l]]
<1>2. /\ Returned(l) = SumFunctionOnSet(f, Returns) /\ Returned(l)' = SumFunctionOnSet(g, Returns)
      /\ Refundable(l) = SumFunctionOnSet(h, Returns) /\ Refundable(l)' = SumFunctionOnSet(k, Returns)
  BY DEF Returned, Refundable
<1>3. /\ \A q \in Returns : f[q] \in Int /\ g[q] \in Int /\ h[q] \in Int /\ k[q] \in Int
      /\ \A q \in Returns \ {r} : f[q] = g[q] /\ h[q] = k[q]
      /\ f[r] = 0 /\ h[r] = 0 /\ g[r] = ret'[r].items[l] /\ k[r] = ret'[r].values[l]
  BY <1>1 DEF Nothing
<1> HIDE DEF f, g, h, k
<1>4. /\ SumFunctionOnSet(g, Returns) = (SumFunctionOnSet(f, Returns) - f[r]) + g[r]
      /\ SumFunctionOnSet(k, Returns) = (SumFunctionOnSet(h, Returns) - h[r]) + k[r]
  BY <1>3, RefundAssumption, SumUpdate
<1>5. Returned(l) \in Nat /\ Refundable(l) \in Nat
  BY TotalsAre
<1>6. ret'[r].items[l] \in Nat /\ ret'[r].values[l] \in Nat
  BY <1>1
<1>7. QED
  BY <1>2, <1>3, <1>4, <1>5, <1>6

(* Locks held at the end.                                                  *)
LEMMA AllTaken ==
  ASSUME IInv, NEW x \in Workers, work[x].todo = <<>>
  PROVE  /\ work[x].op = "RETURN" => Shift \in work[x].held /\ Payment(work[x].payment) \in work[x].held
         /\ work[x].op \in Lifecycle =>
              /\ RefundRow(work[x].ret) \in work[x].held
              /\ refund[work[x].ret].version = work[x].expected
              /\ work[x].to \in Active => Payment(work[x].payment) \in work[x].held
<1>1. PICK w : w = work[x]
  OBVIOUS
<1>2. Ahead(w) = {} /\ TransactionOK(w)
  BY <1>1, NoPlan DEF IInv, WorkOK
<1>3. w.todo # <<RefundRow(w.ret)>>
  <2>1. <<RefundRow(w.ret)>> # <<>>
    OBVIOUS
  <2>2. QED
    BY <1>1, <2>1
<1>4. QED
  BY <1>1, <1>2, <1>3 DEF TransactionOK, ReturnOK, LifecycleOK

(* Once x is done, it holds nothing.                                       *)
LEMMA StillExclusive ==
  ASSUME IInv, NEW x \in Workers, work' = [work EXCEPT ![x] = Idle]
  PROVE  Exclusive'
BY IdleWork DEF IInv, Exclusive, TypeOK

LEMMA PaymentKnown ==
  ASSUME IInv, NEW y \in Workers
  PROVE  work[y].payment \in Payments \/ Payment(work[y].payment) \notin work[y].held
<1>1. PICK u \in Work : u = work[y]
  BY DEF IInv, TypeOK
<1>2. TransactionOK(u)
  BY <1>1 DEF IInv, WorkOK
<1>3. CASE u.op \in Lifecycle
  <2>1. /\ u.ret \in Returns /\ refund[u.ret].status # "NONE"
        /\ u.payment = refund[u.ret].payment
    BY <1>2, <1>3 DEF TransactionOK, LifecycleOK
  <2>2. refund[u.ret].payment \in Payments
    BY <2>1 DEF IInv, RecordsOK, TypeOK, RefundRecord
  <2>3. QED
    BY <1>1, <2>1, <2>2
<1>4. CASE u.op = "RETURN"
  BY <1>1, <1>2, <1>4 DEF TransactionOK, ReturnOK
<1>5. CASE u.op = "IDLE"
  BY <1>1, <1>2, <1>5 DEF TransactionOK
<1>6. QED
  BY <1>3, <1>4, <1>5 DEF Work, Lifecycle

LEMMA CommitReturnStep ==
  ASSUME IInv, TypeOK', NEW x \in Workers, CommitReturn(x)
  PROVE  IInv'
<1>1. PICK w \in Work : w = work[x]
  BY DEF IInv, TypeOK
<1>2. /\ w.op = "RETURN" /\ w.todo = <<>> /\ TransactionOK(w)
      /\ Shift \in w.held /\ Payment(w.payment) \in w.held
  BY <1>1, AllTaken DEF CommitReturn, IInv, WorkOK
<1>3. /\ w.ret \in Returns /\ w.payment \in Payments /\ ret[w.ret].status = "NONE"
      /\ Transaction \in w.held
      /\ \A l \in Lines : Returnable(l, w.items[l]) /\ w.values[l] = RefundableAmount(l, w.items[l])
  BY <1>2 DEF TransactionOK, ReturnOK
<1>4. PICK r \in Returns : r = w.ret
  BY <1>3
<1>5. /\ ret[r].items = Nothing /\ ret[r].values = Nothing
      /\ refund[r].status = "NONE" /\ refund[r].payment = NoPayment
  BY <1>3, <1>4 DEF IInv, RecordsOK
<1>6. /\ ret'[r].status = "COMPLETED" /\ ret'[r].items = w.items /\ ret'[r].values = w.values
      /\ \A q \in Returns \ {r} : ret'[q] = ret[q]
  BY <1>1, <1>4 DEF CommitReturn, IInv, TypeOK
<1>7. /\ refund'[r] = NewRefund(w)
      /\ \A q \in Returns \ {r} : refund'[q] = refund[q] /\ cash'[q] = cash[q]
      /\ cash'[r] = IF w.method = "CASH" THEN {"CASH_REFUND"} ELSE {}
  BY <1>1, <1>4 DEF CommitReturn, IInv, TypeOK
<1>8. /\ refund'[r].status = IF w.method = "CASH" THEN "COMPLETED" ELSE "PENDING"
      /\ refund'[r].amount = w.amount /\ refund'[r].payment = w.payment
      /\ refund'[r].method = w.method
  BY <1>7 DEF NewRefund
<1>9. work' = [work EXCEPT ![x] = Idle]
  BY DEF CommitReturn
<1>10. RecordsOK'
  <2> SUFFICES ASSUME NEW q \in Returns
               PROVE  /\ ret'[q].status = "NONE" => ret'[q].items = Nothing /\ ret'[q].values = Nothing
                      /\ ret'[q].status = "NONE" <=> refund'[q].status = "NONE"
                      /\ refund'[q].payment = NoPayment <=> refund'[q].status = "NONE"
                      /\ refund'[q].method = "CASH" => refund'[q].status \in {"COMPLETED", "REVERSED"}
    BY DEF RecordsOK, Nothing
  <2>1. CASE q = r
    BY <1>3, <1>6, <1>8, <2>1, RefundAssumption
  <2>2. CASE q # r
    BY <1>6, <1>7, <2>2 DEF IInv, RecordsOK
  <2>3. QED
    BY <2>1, <2>2
<1>11. WorkOK'
  <2> SUFFICES ASSUME NEW y \in Workers PROVE TransactionOK(work[y])'
    BY DEF WorkOK
  <2>1. PICK u \in Work : u = work'[y]
    BY DEF TypeOK
  <2>2. TransactionOK(u)'
    <3>1. CASE y = x
      <4>1. u = Idle
        BY <1>9, <2>1, <3>1 DEF IInv, TypeOK
      <4>2. u.op = "IDLE" /\ u.held = {} /\ u.todo = <<>>
        BY <4>1, IdleWork
      <4>3. OrderOK(u)
        BY <4>2, NoPlan
      <4>4. OrderOK(u)'
        BY <4>3 DEF OrderOK, Before
      <4>5. QED
        BY <4>2, <4>4 DEF TransactionOK, ReturnOK, LifecycleOK, CapacityOK, Lifecycle
    <3>2. CASE y # x
      <4>1. u = work[y] /\ TransactionOK(u)
        BY <1>9, <2>1, <3>2 DEF IInv, TypeOK, WorkOK
      <4>2. u.held \cap w.held = {}
        BY <1>1, <3>2, <4>1 DEF IInv, Exclusive
      <4>3. u.op # "RETURN"
        BY <1>3, <4>1, <4>2 DEF TransactionOK, ReturnOK
      <4>4. u.op \in Lifecycle => u.ret \in Returns \ {r}
        BY <1>5, <4>1 DEF TransactionOK, LifecycleOK
      <4>5. OrderOK(u)'
        BY <4>1 DEF TransactionOK, OrderOK, Before
      <4>6. LifecycleOK(u)'
        <5> SUFFICES ASSUME u.op \in Lifecycle PROVE LifecycleOK(u)'
          BY DEF LifecycleOK, Lifecycle
        <5>1. refund'[u.ret] = refund[u.ret]
          BY <1>7, <4>4
        <5>2. QED
          BY <4>1, <5>1 DEF TransactionOK, LifecycleOK, SeenValid, Ahead
      <4>7. CapacityOK(u)'
        <5>1. Payment(u.payment) \in u.held => u.payment # w.payment
          BY <1>2, <4>2
        <5>2. u.payment \in Payments \/ Payment(u.payment) \notin u.held
          BY <4>1, PaymentKnown
        <5>3. QED
          BY <1>7, <1>8, <4>1, <5>1, <5>2, RoomStays DEF TransactionOK, IInv
      <4>8. QED
        BY <4>1, <4>3, <4>5, <4>6, <4>7 DEF TransactionOK, ReturnOK
    <3>3. QED
      BY <3>1, <3>2
  <2>3. QED
    BY <2>1, <2>2
<1>12. ReturnedWithinSold' /\ FullReturnExact'
  <2> SUFFICES ASSUME NEW l \in Lines
               PROVE  /\ Returned(l)' <= Sold[l]
                      /\ Returned(l)' = Sold[l] => Refundable(l)' = LineTotal[l]
    BY DEF ReturnedWithinSold, FullReturnExact
  <2>1. /\ Returned(l)' = Returned(l) + w.items[l] /\ Refundable(l)' = Refundable(l) + w.values[l]
        /\ w.items[l] \in Nat /\ w.values[l] \in Nat
    BY <1>5, <1>6, ReturnAdds DEF IInv
  <2>2. /\ Returned(l) \in Nat /\ Refundable(l) \in Nat /\ Sold[l] \in Nat /\ LineTotal[l] \in Nat
    BY TotalsAre, RefundAssumption DEF IInv
  <2>3. Returned(l) <= Sold[l] /\ (Returned(l) = Sold[l] => Refundable(l) = LineTotal[l])
    BY DEF IInv, ReturnedWithinSold, FullReturnExact
  <2>4. CASE w.items[l] = 0
    <3>1. w.values[l] = 0
      BY <1>3, <2>4 DEF RefundableAmount
    <3>2. QED
      BY <2>1, <2>2, <2>3, <2>4, <3>1
  <2>5. CASE w.items[l] # 0
    <3>1. Returned(l) + w.items[l] <= Sold[l]
      BY <1>3, <2>1, <2>5 DEF Returnable
    <3>2. Returned(l) + w.items[l] = Sold[l] => w.values[l] = LineTotal[l] - Refundable(l)
      BY <1>3, <2>5 DEF RefundableAmount
    <3>3. QED
      BY <2>1, <2>2, <3>1, <3>2
  <2>6. QED
    BY <2>4, <2>5
<1>13. RefundWithinPayment'
  <2>1. RefundedOf(w.payment, r) + w.amount <= Paid[w.payment]
    BY <1>2, <1>4 DEF TransactionOK, CapacityOK
  <2>2. QED
    BY <1>3, <1>7, <1>8, <1>10, <2>1, WithinPayment DEF IInv
<1>14. CashMatchesRefund'
  <2> SUFFICES ASSUME NEW q \in Returns
               PROVE  /\ "CASH_REFUND" \in cash'[q] <=>
                           refund'[q].method = "CASH" /\ refund'[q].status \in {"COMPLETED", "REVERSED"}
                      /\ "CASH_REVERSAL" \in cash'[q] <=>
                           refund'[q].method = "CASH" /\ refund'[q].status = "REVERSED"
    BY DEF CashMatchesRefund
  <2>1. CASE q = r
    BY <1>7, <1>8, <2>1
  <2>2. CASE q # r
    BY <1>7, <2>2 DEF IInv, CashMatchesRefund
  <2>3. QED
    BY <2>1, <2>2
<1>15. QED
  BY <1>9, <1>10, <1>11, <1>12, <1>13, <1>14, StillExclusive DEF IInv

LEMMA CommitLifecycleStep ==
  ASSUME IInv, TypeOK', NEW x \in Workers, CommitLifecycle(x)
  PROVE  IInv'
<1>1. PICK w \in Work : w = work[x]
  BY DEF IInv, TypeOK
<1>2. /\ w.op \in Lifecycle /\ w.todo = <<>> /\ TransactionOK(w)
      /\ RefundRow(w.ret) \in w.held /\ refund[w.ret].version = w.expected
      /\ w.to \in Active => Payment(w.payment) \in w.held
  BY <1>1, AllTaken DEF CommitLifecycle, Lifecycle, IInv, WorkOK
<1>3. /\ w.ret \in Returns /\ refund[w.ret].status # "NONE"
      /\ w.payment = refund[w.ret].payment /\ w.amount = refund[w.ret].amount
      /\ w.method = refund[w.ret].method /\ refund[w.ret].status = w.seen /\ SeenValid(w)
  BY <1>2 DEF TransactionOK, LifecycleOK
<1>4. PICK r \in Returns : r = w.ret
  BY <1>3
<1>5. refund[r] \in RefundRecord /\ refund'[r] \in RefundRecord
  BY DEF IInv, TypeOK
<1>6. /\ refund'[r].status = w.to /\ refund'[r].version = refund[r].version + 1
      /\ refund'[r].amount = w.amount /\ refund'[r].payment = w.payment
      /\ refund'[r].method = w.method
      /\ \A q \in Returns \ {r} : refund'[q] = refund[q]
  BY <1>1, <1>3, <1>4, <1>5 DEF CommitLifecycle, IInv, TypeOK, RefundRecord
<1>7. /\ cash'[r] = cash[r] \cup CashEffect(w)
      /\ \A q \in Returns \ {r} : cash'[q] = cash[q]
  BY <1>1, <1>4 DEF CommitLifecycle, IInv, TypeOK
<1>8. work' = [work EXCEPT ![x] = Idle] /\ ret' = ret
  BY DEF CommitLifecycle
<1>9. w.payment \in Payments
  BY <1>3, <1>4, <1>5 DEF IInv, RecordsOK, RefundRecord
<1>10. RecordsOK'
  <2> SUFFICES ASSUME NEW q \in Returns
               PROVE  /\ ret'[q].status = "NONE" => ret'[q].items = Nothing /\ ret'[q].values = Nothing
                      /\ ret'[q].status = "NONE" <=> refund'[q].status = "NONE"
                      /\ refund'[q].payment = NoPayment <=> refund'[q].status = "NONE"
                      /\ refund'[q].method = "CASH" => refund'[q].status \in {"COMPLETED", "REVERSED"}
    BY DEF RecordsOK, Nothing
  <2>1. CASE q = r
    <3>1. /\ ret[r].status # "NONE"
          /\ w.payment # NoPayment /\ w.to # "NONE"
          /\ w.method = "CASH" => w.to = "REVERSED"
      BY <1>3, <1>4, <1>9, RefundAssumption DEF IInv, RecordsOK, SeenValid
    <3>2. QED
      BY <1>6, <1>8, <2>1, <3>1
  <2>2. CASE q # r
    BY <1>6, <1>8, <2>2 DEF IInv, RecordsOK
  <2>3. QED
    BY <2>1, <2>2
<1>11. \A l : Returned(l)' = Returned(l) /\ Refundable(l)' = Refundable(l)
  BY <1>8 DEF Returned, Refundable
<1>12. WorkOK'
  <2> SUFFICES ASSUME NEW y \in Workers PROVE TransactionOK(work[y])'
    BY DEF WorkOK
  <2>1. PICK u \in Work : u = work'[y]
    BY DEF TypeOK
  <2>2. TransactionOK(u)'
    <3>1. CASE y = x
      <4>1. u = Idle
        BY <1>8, <2>1, <3>1 DEF IInv, TypeOK
      <4>2. u.op = "IDLE" /\ u.held = {} /\ u.todo = <<>>
        BY <4>1, IdleWork
      <4>3. OrderOK(u)
        BY <4>2, NoPlan
      <4>4. OrderOK(u)'
        BY <4>3 DEF OrderOK, Before
      <4>5. QED
        BY <4>2, <4>4 DEF TransactionOK, ReturnOK, LifecycleOK, CapacityOK, Lifecycle
    <3>2. CASE y # x
      <4>1. u = work[y] /\ TransactionOK(u)
        BY <1>8, <2>1, <3>2 DEF IInv, TypeOK, WorkOK
      <4>2. u.held \cap w.held = {}
        BY <1>1, <3>2, <4>1 DEF IInv, Exclusive
      <4>3. OrderOK(u)'
        BY <4>1 DEF TransactionOK, OrderOK, Before
      <4>4. ReturnOK(u)'
        <5>1. \A l, q : Returnable(l, q)' <=> Returnable(l, q)
          BY <1>11 DEF Returnable
        <5>2. \A l, q : RefundableAmount(l, q)' = RefundableAmount(l, q)
          BY <1>11 DEF RefundableAmount
        <5>3. QED
          BY <1>8, <4>1, <5>1, <5>2 DEF TransactionOK, ReturnOK, Ahead
      <4>5. LifecycleOK(u)'
        <5> SUFFICES ASSUME u.op \in Lifecycle PROVE LifecycleOK(u)'
          BY DEF LifecycleOK, Lifecycle
        <5>1. LifecycleOK(u)
          BY <4>1 DEF TransactionOK
        <5>2. CASE u.ret # r
          <6>1. refund'[u.ret] = refund[u.ret]
            BY <1>6, <5>1, <5>2 DEF LifecycleOK
          <6>2. QED
            BY <5>1, <6>1 DEF LifecycleOK, SeenValid, Ahead
        <5>3. CASE u.ret = r
          <6>1. u.held = {} /\ u.todo = <<RefundRow(r)>>
            BY <1>2, <1>4, <4>2, <5>1, <5>3 DEF LifecycleOK
          <6>2. refund[r].version \in Nat /\ u.expected \in Nat /\ u.expected <= refund[r].version
            BY <1>5, <5>1, <5>3 DEF LifecycleOK, RefundRecord, Work
          <6>3. u.expected <= refund'[r].version /\ refund'[r].version # u.expected
            BY <1>6, <6>2
          <6>4. refund'[r].status # "NONE"
            BY <1>3, <1>6 DEF SeenValid
          <6>5. SeenValid(u)'
            BY <5>1 DEF LifecycleOK, SeenValid
          <6>6. /\ u.payment = refund'[r].payment /\ u.amount = refund'[r].amount
                /\ u.method = refund'[r].method
            BY <1>3, <1>4, <1>6, <5>1, <5>3 DEF LifecycleOK
          <6>7. u.expected < MaxVersion
            BY <5>1 DEF LifecycleOK
          <6>8. QED
            BY <5>3, <6>1, <6>3, <6>4, <6>5, <6>6, <6>7 DEF LifecycleOK
        <5>4. QED
          BY <5>2, <5>3
      <4>6. CapacityOK(u)'
        <5>1. Payment(u.payment) \in u.held => u.payment # w.payment \/ w.to \notin Active
          BY <1>2, <4>2
        <5>2. u.payment \in Payments \/ Payment(u.payment) \notin u.held
          BY <4>1, PaymentKnown
        <5>3. QED
          BY <1>6, <4>1, <5>1, <5>2, RoomStays DEF TransactionOK, IInv
      <4>7. QED
        BY <4>1, <4>3, <4>4, <4>5, <4>6 DEF TransactionOK
    <3>3. QED
      BY <3>1, <3>2
  <2>3. QED
    BY <2>1, <2>2
<1>13. ReturnedWithinSold' /\ FullReturnExact'
  BY <1>11 DEF IInv, ReturnedWithinSold, FullReturnExact
<1>14. RefundWithinPayment'
  <2>1. w.to \in Active => RefundedOf(w.payment, r) + w.amount <= Paid[w.payment]
    BY <1>2, <1>4 DEF TransactionOK, CapacityOK, Lifecycle
  <2>2. w.to \notin Active => w.to \in {"FAILED", "REVERSED"}
    BY <1>3 DEF SeenValid, Active
  <2>3. QED
    BY <1>6, <1>9, <1>10, <2>1, <2>2, WithinPayment DEF IInv
<1>15. CashMatchesRefund'
  <2> SUFFICES ASSUME NEW q \in Returns
               PROVE  /\ "CASH_REFUND" \in cash'[q] <=>
                           refund'[q].method = "CASH" /\ refund'[q].status \in {"COMPLETED", "REVERSED"}
                      /\ "CASH_REVERSAL" \in cash'[q] <=>
                           refund'[q].method = "CASH" /\ refund'[q].status = "REVERSED"
    BY DEF CashMatchesRefund
  <2>1. CASE q = r
    <3>1. /\ "CASH_REFUND" \in cash[r] <=>
               w.method = "CASH" /\ w.seen \in {"COMPLETED", "REVERSED"}
          /\ "CASH_REVERSAL" \in cash[r] <=> w.method = "CASH" /\ w.seen = "REVERSED"
      BY <1>3, <1>4 DEF IInv, CashMatchesRefund
    <3>2. CASE w.method = "CASH"
      <4>1. w.seen = "COMPLETED" /\ w.to = "REVERSED"
        BY <1>3, <3>2 DEF SeenValid
      <4>2. CashEffect(w) = {"CASH_REVERSAL"}
        BY <3>2, <4>1 DEF CashEffect
      <4>3. QED
        BY <1>6, <1>7, <2>1, <3>1, <3>2, <4>1, <4>2
    <3>3. CASE w.method # "CASH"
      <4>1. CashEffect(w) = {}
        BY <3>3 DEF CashEffect
      <4>2. QED
        BY <1>6, <1>7, <2>1, <3>1, <3>3, <4>1
    <3>4. QED
      BY <3>2, <3>3
  <2>2. CASE q # r
    BY <1>6, <1>7, <2>2 DEF IInv, CashMatchesRefund
  <2>3. QED
    BY <2>1, <2>2
<1>16. QED
  BY <1>8, <1>10, <1>12, <1>13, <1>14, <1>15, StillExclusive DEF IInv

-----------------------------------------------------------------------------
(* The invariant.                                                          *)

LEMMA InitIInv == Init => IInv
<1> SUFFICES ASSUME Init PROVE IInv
  OBVIOUS
<1> USE RefundAssumption
<1>1. Nothing \in Quantities /\ Nothing \in [Lines -> Nat]
  BY QuantitiesAre DEF Nothing
<1>2. \A x \in Workers : work[x] = Idle
  BY DEF Init
<1>3. TypeOK
  <2>1. [status |-> "NONE", items |-> Nothing, values |-> Nothing, total |-> 0] \in Return
    BY <1>1 DEF Return
  <2>2. [status |-> "NONE", amount |-> 0, payment |-> NoPayment, method |-> "PROVIDER",
         reference |-> NoReference, version |-> 0] \in RefundRecord
    BY DEF RefundRecord, Statuses, Methods
  <2>3. QED
    BY <2>1, <2>2, IdleWork DEF Init, TypeOK
<1>4. WorkOK
  BY <1>2, IdleIsGood DEF WorkOK
<1>5. Exclusive
  BY <1>2, IdleWork DEF Exclusive
<1>6. \A r \in Returns : /\ ret[r].status = "NONE" /\ ret[r].items = Nothing /\ ret[r].values = Nothing
                         /\ refund[r].status = "NONE" /\ refund[r].payment = NoPayment
                         /\ refund[r].method = "PROVIDER" /\ cash[r] = {}
  BY DEF Init
<1>7. RecordsOK /\ CashMatchesRefund
  BY <1>6 DEF RecordsOK, CashMatchesRefund
<1>8. \A l \in Lines : Returned(l) = 0
  <2> SUFFICES ASSUME NEW l \in Lines PROVE Returned(l) = 0
    OBVIOUS
  <2> DEFINE f == [r \in Returns |-> ret[r].items[l]]
  <2>1. \A r \in Returns : f[r] = 0
    BY <1>6 DEF Nothing
  <2> HIDE DEF f
  <2>2. SumFunctionOnSet(f, Returns) = 0
    BY <2>1, SumZero
  <2>3. QED
    BY <2>2 DEF Returned, f
<1>9. ReturnedWithinSold /\ FullReturnExact
  <2>1. \A l \in Lines : 0 <= Sold[l] /\ Sold[l] # 0
    OBVIOUS
  <2>2. QED
    BY <1>8, <2>1 DEF ReturnedWithinSold, FullReturnExact
<1>10. RefundWithinPayment
  <2> SUFFICES ASSUME NEW p \in Payments
               PROVE  SumFunctionOnSet(Amounts(refund), Counting(refund, p)) <= Paid[p]
    BY DEF RefundWithinPayment, Amounts, Counting
  <2>1. Counting(refund, p) = {}
    BY <1>6 DEF Counting
  <2>2. 0 <= Paid[p]
    OBVIOUS
  <2>3. QED
    BY <2>1, <2>2, SumEmpty
<1>11. QED
  BY <1>3, <1>4, <1>5, <1>7, <1>9, <1>10 DEF IInv

LEMMA IInvStep == IInv /\ [Next]_vars => IInv'
<1> SUFFICES ASSUME IInv, [Next]_vars PROVE IInv'
  OBVIOUS
<1>1. TypeOK'
  BY TypeStep DEF IInv
<1>2. ASSUME NEW x \in Workers, CheckCapacity(x)
      PROVE  IInv'
  <2>1. work[x].op # "IDLE"
    BY <1>2 DEF CheckCapacity, Takes, IInv, WorkOK, TransactionOK
  <2>2. Payment(work[x].payment)[1] # "REFUND" /\ Payment(work[x].payment) # Shift
    BY LocksDiffer
  <2>3. QED
    BY <1>1, <1>2, <2>1, <2>2, TakesOne DEF CheckCapacity
<1>3. ASSUME NEW x \in Workers, CheckReference(x)
      PROVE  IInv'
  <2>1. work[x].op # "IDLE"
    BY <1>3 DEF CheckReference, Takes, IInv, WorkOK, TransactionOK
  <2>2. LET k == Reference(work[x].reference) IN
        k[1] # "REFUND" /\ k # Shift /\ k # Payment(work[x].payment)
    BY LocksDiffer
  <2>3. QED
    BY <1>1, <1>3, <2>1, <2>2, TakesOne DEF CheckReference
<1>4. ASSUME NEW x \in Workers, CheckCash(x)
      PROVE  IInv'
  <2>1. Shift[1] # "REFUND" /\ Shift # Payment(work[x].payment)
    BY LocksDiffer
  <2>2. QED
    BY <1>1, <1>4, <2>1, TakesOne DEF CheckCash
<1>5. ASSUME NEW x \in Workers, Rollback(x)
      PROVE  IInv'
  <2>1. \A y \in Workers \ {x} : Idle.held \cap work[y].held = {}
    BY IdleWork
  <2>2. QED
    BY <1>1, <1>5, <2>1, IdleIsGood, OneMoves DEF Rollback
<1>6. CASE SwitchShift \/ UNCHANGED vars
  <2>1. UNCHANGED <<ret, refund, cash, work>>
    BY <1>6 DEF SwitchShift, vars
  <2>2. CASE Workers = {}
    <3>1. WorkOK' /\ Exclusive'
      BY <2>2 DEF WorkOK, Exclusive
    <3>2. RecordsOK' /\ CashMatchesRefund'
      BY <2>1 DEF IInv, RecordsOK, CashMatchesRefund
    <3>3. ReturnedWithinSold' /\ FullReturnExact' /\ RefundWithinPayment'
      BY <2>1 DEF IInv, ReturnedWithinSold, FullReturnExact, RefundWithinPayment, Returned, Refundable
    <3>4. QED
      BY <1>1, <3>1, <3>2, <3>3 DEF IInv
  <2>3. CASE Workers # {}
    <3>1. PICK x \in Workers : TRUE
      BY <2>3
    <3>2. PICK v : v = work[x]
      OBVIOUS
    <3>3. /\ work' = [work EXCEPT ![x] = v] /\ TransactionOK(v)
          /\ \A y \in Workers \ {x} : v.held \cap work[y].held = {}
      BY <2>1, <3>2 DEF IInv, TypeOK, WorkOK, Exclusive
    <3>4. QED
      BY <1>1, <2>1, <3>3, OneMoves
  <2>4. QED
    BY <2>2, <2>3
<1>7. ASSUME NEW x \in Workers, NEW r \in Returns,
             \/ RetryRefund(x, r) \/ ReverseRefund(x, r)
             \/ \E to \in {"COMPLETED", "FAILED", "REQUIRES_ACTION"},
                   e \in References \cup {NoReference} : ResolveRefund(x, r, to, e)
      PROVE  IInv'
  BY <1>1, <1>7, DecideStep DEF RetryRefund, ReverseRefund, ResolveRefund
<1>8. ASSUME NEW x \in Workers, NEW r \in Returns, BeginReturn(x, r)
      PROVE  IInv'
  BY <1>1, <1>8, BeginReturnStep
<1>9. ASSUME NEW x \in Workers,
             ResolveItems(x) \/ LockRefund(x) \/ CommitReturn(x) \/ CommitLifecycle(x)
      PROVE  IInv'
  BY <1>1, <1>9, ResolveItemsStep, LockRefundStep, CommitReturnStep, CommitLifecycleStep
<1>10. QED
  BY <1>2, <1>3, <1>4, <1>5, <1>6, <1>7, <1>8, <1>9 DEF Next

-----------------------------------------------------------------------------
(* The theorems.                                                           *)

(* The inductive invariant: what every open transaction knows, that no two *)
(* hold the same lock, and what the records say.                           *)
THEOREM RefundInvariant == Spec => []IInv
BY InitIInv, IInvStep, PTL DEF Spec

(* No line of the sale is returned beyond the quantity sold, however many  *)
(* completeReturnCommand transactions run at once.                         *)
THEOREM NothingReturnedTwice == Spec => []ReturnedWithinSold
<1>1. IInv => ReturnedWithinSold
  BY DEF IInv
<1>2. QED
  BY RefundInvariant, <1>1, PTL

(* Once all of a line is returned, the values refundable_amount gave for   *)
(* it add up to exactly what was charged, whatever was rounded on the way. *)
THEOREM FullReturnGivesLineTotal == Spec => []FullReturnExact
<1>1. IInv => FullReturnExact
  BY DEF IInv
<1>2. QED
  BY RefundInvariant, <1>1, PTL

(* The refunds on a payment that are paid or may still be paid never       *)
(* exceed it, for any returns, retries, resolutions and reversals at once. *)
THEOREM RefundsStayWithinPayment == Spec => []RefundWithinPayment
<1>1. IInv => RefundWithinPayment
  BY DEF IInv
<1>2. QED
  BY RefundInvariant, <1>1, PTL

(* A retry, resolution or reversal that has begun to lock finds the refund *)
(* in the state its operator saw, until it ends.                           *)
THEOREM LifecycleDecidedOnSeen == Spec => []DecidedOnSeen
<1>1. IInv => DecidedOnSeen
  <2> SUFFICES ASSUME IInv, NEW x \in Workers, work[x].op \in Lifecycle, work[x].held # {}
               PROVE  refund[work[x].ret].status = work[x].seen
    BY DEF DecidedOnSeen, Lifecycle
  <2>1. LifecycleOK(work[x])
    BY DEF IInv, WorkOK, TransactionOK
  <2>2. QED
    BY <2>1 DEF LifecycleOK
<1>2. QED
  BY RefundInvariant, <1>1, PTL

(* The cash movements of a refund are those its method and status ask for. *)
THEOREM DrawerMatchesRefunds == Spec => []CashMatchesRefund
<1>1. IInv => CashMatchesRefund
  BY DEF IInv
<1>2. QED
  BY RefundInvariant, <1>1, PTL

(* The order of row locks leaves, among any waiting transactions, one that *)
(* waits for no row of the others: the one that is furthest in the order.  *)
LEMMA OrderExcludesCycle == IInv => RowLocksOrdered
<1> SUFFICES ASSUME IInv, NEW D \in SUBSET Workers, D # {}
             PROVE  \E x \in D : \A y \in D : ~WaitsForRow(x, y)
  BY DEF RowLocksOrdered
<1> DEFINE Next1(x) == work[x].todo[1]
           Kind(x) == Next1(x)[1]
<1>1. \A x \in D : work[x].todo \in Seq(Locks) /\ OrderOK(work[x])
  BY DEF IInv, TypeOK, Work, WorkOK, TransactionOK
<1>2. CASE \E x \in D : work[x].todo = <<>> \/ Head(work[x].todo)[1] = "REFERENCE"
  <2>1. PICK x \in D : work[x].todo = <<>> \/ Head(work[x].todo)[1] = "REFERENCE"
    BY <1>2
  <2>2. \A y : ~WaitsForRow(x, y)
    BY <2>1 DEF WaitsForRow
  <2>3. QED
    BY <2>2
<1>3. CASE \A x \in D : work[x].todo # <<>> /\ Head(work[x].todo)[1] # "REFERENCE"
  <2>1. \A x \in D : /\ 1 \in 1 .. Len(work[x].todo) /\ Head(work[x].todo) = Next1(x)
                     /\ Next1(x) \in Locks
    BY <1>1, <1>3, TailOfLocks
  <2>2. \A x \in D : Kind(x) \in {"TRANSACTION", "REFUND", "SHIFT", "PAYMENT"}
    BY <1>3, <2>1, LocksDiffer DEF Locks
  <2>3. \A y \in D : \A k \in work[y].held : Before(k, Next1(y))
    BY <1>1, <2>1 DEF OrderOK
  <2>4. \A x, y \in D : WaitsForRow(x, y) => Before(Next1(x), Next1(y))
    BY <2>1, <2>3 DEF WaitsForRow
  <2> HIDE DEF Next1
  <2>5. \A x, y \in D : WaitsForRow(x, y) =>
          \/ Kind(x) \in {"TRANSACTION", "REFUND"} /\ Kind(y) \in {"SHIFT", "PAYMENT"}
          \/ Kind(x) = "SHIFT" /\ Kind(y) = "PAYMENT"
    BY <2>2, <2>4 DEF Before
  <2> HIDE DEF Kind
  <2>6. CASE \E x \in D : Kind(x) = "PAYMENT"
    BY <2>5, <2>6
  <2>7. CASE (\A x \in D : Kind(x) # "PAYMENT") /\ \E x \in D : Kind(x) = "SHIFT"
    BY <2>5, <2>7
  <2>8. CASE \A x \in D : Kind(x) # "PAYMENT" /\ Kind(x) # "SHIFT"
    BY <2>5, <2>8
  <2>9. QED
    BY <2>6, <2>7, <2>8
<1>4. QED
  BY <1>2, <1>3

(* The rows of the sale, the shift, the payments and the refunds are       *)
(* locked in an order that excludes deadlock among them, for any number of *)
(* open transactions.  Stock balances of restocked lines are not modelled. *)
THEOREM NoRowDeadlock == Spec => []RowLocksOrdered
BY RefundInvariant, OrderExcludesCycle, PTL

-----------------------------------------------------------------------------
(* Rounding.  Each return of a line rounds its share by half a unit at     *)
(* most, so shares exceed the line only where a piece costs less than      *)
(* about half a unit for each piece sold.                                  *)

FinePrices == \A l \in Lines : Sold[l] * (Sold[l] - 1) <= 2 * LineTotal[l]

SharesBounded == \A l \in Lines : Returned(l) < Sold[l] =>
  2 * (Sold[l] * Refundable(l)) <= (2 * LineTotal[l] + Sold[l]) * Returned(l)

LEMMA HalfUpBound ==
  ASSUME NEW a \in Nat, NEW b \in Nat \ {0}
  PROVE  2 * (b * HalfUp(a, b)) <= 2 * a + b
<1>1. PICK c \in Nat, d \in Nat \ {0} : c = 2 * a + b /\ d = 2 * b
  OBVIOUS
<1>2. d * (c \div d) <= c
  OBVIOUS
<1>3. HalfUp(a, b) = c \div d /\ HalfUp(a, b) \in Nat
  BY <1>1, HalfUpNat DEF HalfUp
<1>4. \A h \in Nat : (2 * b) * h = 2 * (b * h)
  OBVIOUS
<1>5. QED
  BY <1>1, <1>2, <1>3, <1>4

LEMMA SharesStep == IInv /\ SharesBounded /\ [Next]_vars => SharesBounded'
<1> SUFFICES ASSUME IInv, SharesBounded, [Next]_vars PROVE SharesBounded'
  OBVIOUS
<1>1. CASE UNCHANGED ret
  BY <1>1 DEF SharesBounded, Returned, Refundable
<1>2. ASSUME NEW x \in Workers, CommitReturn(x)
      PROVE  SharesBounded'
  <2> SUFFICES ASSUME NEW l \in Lines, Returned(l)' < Sold[l]
               PROVE  2 * (Sold[l] * Refundable(l)') <= (2 * LineTotal[l] + Sold[l]) * Returned(l)'
    BY DEF SharesBounded
  <2>1. PICK w \in Work : w = work[x]
    BY DEF IInv, TypeOK
  <2>2. /\ w.op = "RETURN" /\ TransactionOK(w) /\ Shift \in w.held
    BY <1>2, <2>1, AllTaken DEF CommitReturn, IInv, WorkOK
  <2>3. /\ w.ret \in Returns /\ ret[w.ret].status = "NONE"
        /\ w.values[l] = RefundableAmount(l, w.items[l])
    BY <2>2 DEF TransactionOK, ReturnOK
  <2>4. PICK r \in Returns : r = w.ret
    BY <2>3
  <2>5. /\ ret[r].items = Nothing /\ ret[r].values = Nothing
        /\ ret'[r].items = w.items /\ ret'[r].values = w.values
        /\ \A q \in Returns \ {r} : ret'[q] = ret[q]
    BY <1>2, <2>1, <2>3, <2>4 DEF CommitReturn, IInv, TypeOK, RecordsOK
  <2>6. TypeOK'
    BY TypeStep DEF IInv
  <2>7. /\ Returned(l)' = Returned(l) + w.items[l] /\ Refundable(l)' = Refundable(l) + w.values[l]
        /\ w.items[l] \in Nat /\ w.values[l] \in Nat
    BY <2>5, <2>6, ReturnAdds DEF IInv
  <2>8. PICK a \in Nat, v \in Nat, q \in Nat, z \in Nat, s \in Nat \ {0}, t \in Nat :
          /\ a = Returned(l) /\ v = Refundable(l) /\ q = w.items[l] /\ z = w.values[l]
          /\ s = Sold[l] /\ t = LineTotal[l]
    BY <2>7, TotalsAre, RefundAssumption DEF IInv
  <2>9. a + q < s /\ a < s
    BY <2>7, <2>8
  <2>10. 2 * (s * v) <= (2 * t + s) * a
    BY <2>8, <2>9 DEF SharesBounded
  <2>11. 2 * (s * z) <= (2 * t + s) * q
    <3>1. CASE q = 0
      <4>1. z = 0
        BY <2>3, <2>8, <3>1 DEF RefundableAmount
      <4>2. QED
        BY <3>1, <4>1
    <3>2. CASE q # 0
      <4>1. a + q # s
        BY <2>9
      <4>2. z = HalfUp(t * q, s)
        BY <2>3, <2>8, <3>2, <4>1 DEF RefundableAmount
      <4>3. t * q \in Nat
        OBVIOUS
      <4>4. 2 * (s * z) <= 2 * (t * q) + s
        BY <4>2, <4>3, HalfUpBound
      <4>5. s <= s * q
        BY <3>2
      <4>6. 2 * (t * q) + s * q = (2 * t + s) * q
        OBVIOUS
      <4>7. s * z \in Nat /\ s * q \in Nat /\ (2 * t + s) * q \in Nat
        OBVIOUS
      <4>8. QED
        BY <4>3, <4>4, <4>5, <4>6, <4>7
    <3>3. QED
      BY <3>1, <3>2
  <2>12. 2 * (s * (v + z)) = 2 * (s * v) + 2 * (s * z)
    OBVIOUS
  <2>13. (2 * t + s) * (a + q) = (2 * t + s) * a + (2 * t + s) * q
    OBVIOUS
  <2>14. /\ s * v \in Nat /\ s * z \in Nat /\ (2 * t + s) * a \in Nat /\ (2 * t + s) * q \in Nat
    OBVIOUS
  <2>15. 2 * (s * (v + z)) <= (2 * t + s) * (a + q)
    BY <2>10, <2>11, <2>12, <2>13, <2>14
  <2>16. QED
    BY <2>7, <2>8, <2>15
<1>3. (\E x \in Workers : CommitReturn(x)) \/ UNCHANGED ret
  <2>1. ASSUME NEW x \in Workers, NEW r \in Returns,
               BeginReturn(x, r) \/ RetryRefund(x, r) \/ ReverseRefund(x, r)
        PROVE  UNCHANGED ret
    BY <2>1 DEF BeginReturn, RetryRefund, ReverseRefund, Decide
  <2>2. ASSUME NEW x \in Workers, NEW r \in Returns, NEW to, NEW e, ResolveRefund(x, r, to, e)
        PROVE  UNCHANGED ret
    BY <2>2 DEF ResolveRefund, Decide
  <2>3. ASSUME NEW x \in Workers, CheckCapacity(x) \/ CheckReference(x) \/ CheckCash(x)
        PROVE  UNCHANGED ret
    BY <2>3 DEF CheckCapacity, CheckReference, CheckCash, Takes
  <2>4. ASSUME NEW x \in Workers, ResolveItems(x)
        PROVE  UNCHANGED ret
    BY <2>4 DEF ResolveItems, Takes
  <2>5. ASSUME NEW x \in Workers, LockRefund(x) \/ CommitLifecycle(x) \/ Rollback(x)
        PROVE  UNCHANGED ret
    BY <2>5 DEF LockRefund, CommitLifecycle, Rollback
  <2>6. QED
    BY <2>1, <2>2, <2>3, <2>4, <2>5 DEF Next, SwitchShift, vars
<1>4. QED
  BY <1>1, <1>2, <1>3

(* Where prices are not below the rounding unit, the value given for a     *)
(* line never exceeds what was charged for it, and is exactly that once    *)
(* all of it is returned, however the line was split into returns.         *)
THEOREM LineValueNeverExceeded == FinePrices => (Spec => []LineValueExact)
<1> SUFFICES ASSUME FinePrices PROVE Spec => []LineValueExact
  OBVIOUS
<1>1. IInv /\ SharesBounded => LineValueExact
  <2> SUFFICES ASSUME IInv, SharesBounded, NEW l \in Lines
               PROVE  /\ Refundable(l) <= LineTotal[l]
                      /\ Returned(l) = Sold[l] => Refundable(l) = LineTotal[l]
    BY DEF LineValueExact
  <2>1. PICK a \in Nat, v \in Nat, s \in Nat \ {0}, t \in Nat :
          a = Returned(l) /\ v = Refundable(l) /\ s = Sold[l] /\ t = LineTotal[l]
    BY TotalsAre, RefundAssumption DEF IInv
  <2>2. a <= s /\ (a = s => v = t)
    BY <2>1 DEF IInv, ReturnedWithinSold, FullReturnExact
  <2>3. ASSUME a # s PROVE v <= t
    <3>1. a <= s - 1 /\ a < s
      BY <2>2, <2>3
    <3>2. 2 * (s * v) <= (2 * t + s) * a
      BY <2>1, <3>1 DEF SharesBounded
    <3>3. s * (s - 1) <= 2 * t
      BY <2>1 DEF FinePrices
    <3>4. (2 * t + s) * a <= (2 * t + s) * (s - 1)
      BY <3>1
    <3>5. (2 * t + s) * (s - 1) = (2 * (s * t) - 2 * t) + s * (s - 1)
      OBVIOUS
    <3>6. s * v \in Nat /\ s * t \in Nat /\ (2 * t + s) * a \in Nat
            /\ s * (s - 1) \in Nat /\ (2 * t + s) * (s - 1) \in Nat
      OBVIOUS
    <3>7. s * v <= s * t
      BY <3>2, <3>3, <3>4, <3>5, <3>6
    <3>8. QED
      BY <3>7
  <2>4. QED
    BY <2>1, <2>2, <2>3
<1>2. Init => SharesBounded
  <2> SUFFICES ASSUME Init, NEW l \in Lines
               PROVE  2 * (Sold[l] * Refundable(l)) <= (2 * LineTotal[l] + Sold[l]) * Returned(l)
    BY DEF SharesBounded
  <2> DEFINE f == [r \in Returns |-> ret[r].items[l]]
             h == [r \in Returns |-> ret[r].values[l]]
  <2>1. \A r \in Returns : f[r] = 0 /\ h[r] = 0
    BY DEF Init, Nothing
  <2>2. Returned(l) = SumFunctionOnSet(f, Returns) /\ Refundable(l) = SumFunctionOnSet(h, Returns)
    BY DEF Returned, Refundable
  <2> HIDE DEF f, h
  <2>3. Returned(l) = 0 /\ Refundable(l) = 0
    BY <2>1, <2>2, SumZero, RefundAssumption
  <2>4. QED
    BY <2>3, RefundAssumption
<1>3. QED
  BY InitIInv, IInvStep, SharesStep, <1>1, <1>2, PTL DEF Spec
=============================================================================
