------------------------------- MODULE Refund -------------------------------
(***************************************************************************)
(* Returns of one completed sale and the lifecycle of their refunds:       *)
(* completeReturnCommand, retryRefundCommand, resolveRefundCommand and     *)
(* reverseRefundCommand of returns.ts, each one PostgreSQL transaction     *)
(* under READ COMMITTED.                                                   *)
(*                                                                         *)
(* What a transaction checks is read after it has locked the row the check *)
(* depends on.  It takes its locks one by one, so other transactions run   *)
(* in between; "todo" is the list of locks it still has to take.  A return *)
(* and its only refund are written together and share an id here.  The     *)
(* stock effect of a restocked line is not part of this module.            *)
(***************************************************************************)
EXTENDS Integers, Sequences, FiniteSets, FiniteSetsExt

CONSTANTS
  Lines,         \* sales.transaction_items of the sale
  Sold,          \* Sold[l]: quantity
  LineTotal,     \* LineTotal[l]: line_total, in units of its 4th decimal
  Payments,      \* sales.payments of the sale
  Paid,          \* Paid[p]: amount
  NoPayment,
  Returns,       \* ids of return commands, each executed once
  NoReturn,
  References,    \* external references of a payment provider
  NoReference,
  Workers,       \* transactions that may be open at the same time
  MaxVersion     \* bound on the version of a refund

ASSUME RefundAssumption ==
  /\ IsFiniteSet(Lines) /\ IsFiniteSet(Returns)
  /\ Sold \in [Lines -> Nat \ {0}]
  /\ LineTotal \in [Lines -> Nat]
  /\ Paid \in [Payments -> Nat]
  /\ NoPayment \notin Payments /\ NoReturn \notin Returns /\ NoReference \notin References
  /\ MaxVersion \in Nat \ {0}

VARIABLES
  ret,      \* returns.customer_returns with their return_items
  refund,   \* returns.refunds, by the return they belong to
  cash,     \* types of the cash movements written for a refund
  shift,    \* status of the shift the cashier works on
  work      \* the open transaction of each worker

vars == <<ret, refund, cash, shift, work>>

Unsettled == {"PENDING", "FAILED", "REQUIRES_ACTION"}
Statuses  == Unsettled \cup {"NONE", "COMPLETED", "REVERSED"}

(* Faulty: a refund that waits for an operator is not counted.             *)
ActiveSettling == {"PENDING", "COMPLETED"}

(* Refunds that count against their payment.                               *)
Active == {"PENDING", "COMPLETED", "REQUIRES_ACTION"}

(* Rows and advisory locks a transaction takes.                            *)
Transaction  == <<"TRANSACTION">>
Shift        == <<"SHIFT">>
Payment(p)   == <<"PAYMENT", p>>
RefundRow(r) == <<"REFUND", r>>
Reference(e) == <<"REFERENCE", e>>
Locks == {Transaction, Shift} \cup {Payment(p) : p \in Payments}
           \cup {RefundRow(r) : r \in Returns} \cup {Reference(e) : e \in References}

Quantities == {q \in [Lines -> 0 .. Max(Range(Sold))] : \A l \in Lines : q[l] <= Sold[l]}
Methods == {"CASH", "PROVIDER"}

Return == [status : {"NONE", "COMPLETED"}, items : Quantities, values : [Lines -> Nat],
           total : Nat]
RefundRecord == [status : Statuses, amount : Nat, payment : Payments \cup {NoPayment},
                 method : Methods, reference : References \cup {NoReference},
                 version : 0 .. MaxVersion]
Work == [op : {"IDLE", "RETURN", "RETRY", "RESOLVE", "REVERSE"},
         ret : Returns \cup {NoReturn}, items : Quantities, values : [Lines -> Nat],
         amount : Nat, payment : Payments \cup {NoPayment}, method : Methods,
         reference : References \cup {NoReference}, expected : 0 .. MaxVersion,
         seen : Statuses, to : Statuses, todo : Seq(Locks), held : SUBSET Locks]

TypeOK ==
  /\ ret \in [Returns -> Return]
  /\ refund \in [Returns -> RefundRecord]
  /\ cash \in [Returns -> SUBSET {"CASH_REFUND", "CASH_REVERSAL"}]
  /\ shift \in {"OPEN", "CLOSED"}
  /\ work \in [Workers -> Work]

Nothing == [l \in Lines |-> 0]
Idle == [op |-> "IDLE", ret |-> NoReturn, items |-> Nothing, values |-> Nothing,
         amount |-> 0, payment |-> NoPayment, method |-> "PROVIDER",
         reference |-> NoReference, expected |-> 0, seen |-> "NONE", to |-> "NONE",
         todo |-> <<>>, held |-> {}]

Init ==
  /\ ret = [r \in Returns |->
       [status |-> "NONE", items |-> Nothing, values |-> Nothing, total |-> 0]]
  /\ refund = [r \in Returns |->
       [status |-> "NONE", amount |-> 0, payment |-> NoPayment, method |-> "PROVIDER",
        reference |-> NoReference, version |-> 0]]
  /\ cash = [r \in Returns |-> {}]
  /\ shift = "OPEN"
  /\ work = [x \in Workers |-> Idle]

-----------------------------------------------------------------------------
(* Locks.                                                                  *)

(* Faulty: rows are read without FOR UPDATE.                               *)
LockFreeAlways(x, k) == TRUE

LockFree(x, k) == \A y \in Workers \ {x} : k \notin work[y].held

(* Transaction x takes its next lock, k, and goes on as w.                 *)
Takes(x, k, w) ==
  /\ work[x].todo # <<>> /\ Head(work[x].todo) = k
  /\ LockFree(x, k)
  /\ work' = [work EXCEPT ![x] =
       [w EXCEPT !.todo = Tail(work[x].todo), !.held = @ \cup {k}]]
  /\ UNCHANGED <<ret, refund, cash, shift>>

IfReference(e) == IF e = NoReference THEN <<>> ELSE <<Reference(e)>>

-----------------------------------------------------------------------------
(* completeReturnCommand: transaction, shift, payment, reference.          *)

(* What earlier completed returns took of line l.                          *)
Returned(l) == SumFunctionOnSet([r \in Returns |-> ret[r].items[l]], Returns)
Refundable(l) == SumFunctionOnSet([r \in Returns |-> ret[r].values[l]], Returns)

HalfUp(a, b) == (2 * a + b) \div (2 * b)

(* Faulty: the last return of a line is rounded like the others.           *)
RefundableAmountRounded(l, qty) == HalfUp(LineTotal[l] * qty, Sold[l])

(* refundable_amount: a proportional share, and what is left with the last *)
(* return of the line.                                                     *)
RefundableAmount(l, qty) ==
  IF qty = 0 THEN 0
  ELSE IF Returned(l) + qty = Sold[l] THEN LineTotal[l] - Refundable(l)
  ELSE HalfUp(LineTotal[l] * qty, Sold[l])

(* What resolveReturnItem lets pass: not more than is left of the line.    *)
(* That it is the line of the sale, with the disposition its reason asks   *)
(* for or an override, is taken for granted.                               *)
Returnable(l, qty) == qty > 0 => Returned(l) + qty <= Sold[l]

(* The command locks the transaction row first.  Its window and            *)
(* disposition policies, permissions and overrides are checks of its input *)
(* against settings; a command that fails one changes nothing.             *)
BeginReturn(x, r) ==
  /\ work[x].op = "IDLE"
  /\ ret[r].status = "NONE" /\ \A y \in Workers : work[y].ret # r
  /\ LockFree(x, Transaction)
  /\ \E items \in Quantities \ {Nothing}, p \in Payments, m \in Methods,
        e \in References \cup {NoReference} :
       work' = [work EXCEPT ![x] =
         [Idle EXCEPT !.op = "RETURN", !.ret = r, !.items = items, !.payment = p,
                      !.method = m, !.reference = e,
                      !.todo = <<Shift, Payment(p)>> \o IfReference(e),
                      !.held = {Transaction}]]
  /\ UNCHANGED <<ret, refund, cash, shift>>

(* The shift is OPEN; then resolveReturnItem for each line, under the lock *)
(* of the transaction.  Without override_amount the refund is the value of *)
(* the return, with it at most that; refunds_amount_check wants it         *)
(* positive.                                                               *)
ResolveItems(x) ==
  LET w == work[x]
      values == [l \in Lines |-> RefundableAmount(l, w.items[l])]
      total == SumFunctionOnSet(values, Lines) IN
  /\ w.op = "RETURN"
  /\ shift = "OPEN"
  /\ \A l \in Lines : Returnable(l, w.items[l])
  /\ \A l \in Lines : values[l] >= 0
  /\ \E amount \in 1 .. total :
       Takes(x, Shift, [w EXCEPT !.values = values, !.amount = amount])

(* Active refunds of payment p other than r.                               *)
RefundedOf(p, r) ==
  SumFunctionOnSet([q \in Returns |-> refund[q].amount],
    {q \in Returns \ {r} : refund[q].status \in Active /\ refund[q].payment = p})

(* The payment is locked, and the refunds on it stay within it; a retry or *)
(* resolution (assertRefundCapacity) also stays within its return.         *)
CheckCapacity(x) ==
  LET w == work[x] IN
  /\ w.payment # NoPayment
  /\ RefundedOf(w.payment, w.ret) + w.amount <= Paid[w.payment]
  /\ w.op # "RETURN" => w.amount <= ret[w.ret].total
  /\ Takes(x, Payment(w.payment), w)

ReferenceAvailable(r, e) == \A q \in Returns \ {r} : refund[q].reference # e

(* assertExternalReferenceAvailable under its advisory lock.               *)
CheckReference(x) ==
  LET w == work[x] IN
  /\ w.reference # NoReference
  /\ ReferenceAvailable(w.ret, w.reference)
  /\ Takes(x, Reference(w.reference), w)

(* The refund row a return writes.  Nothing after it can fail but the      *)
(* transaction itself: audit events, the change row and the result follow. *)
NewRefund(w) ==
  [status |-> IF w.method = "CASH" THEN "COMPLETED" ELSE "PENDING",
   amount |-> w.amount, payment |-> w.payment, method |-> w.method,
   reference |-> w.reference, version |-> 1]

(* Return, items and refund commit; a cash refund is COMPLETED at once and *)
(* leaves the drawer, any other waits for its provider.                    *)
CommitReturn(x) ==
  LET w == work[x] IN
  /\ w.op = "RETURN" /\ w.todo = <<>>
  /\ ret' = [ret EXCEPT ![w.ret] =
       [status |-> "COMPLETED", items |-> w.items, values |-> w.values,
        total |-> SumFunctionOnSet(w.values, Lines)]]
  /\ refund' = [refund EXCEPT ![w.ret] = NewRefund(w)]
  /\ cash' = [cash EXCEPT ![w.ret] = IF w.method = "CASH" THEN {"CASH_REFUND"} ELSE {}]
  /\ work' = [work EXCEPT ![x] = Idle]
  /\ UNCHANGED shift

-----------------------------------------------------------------------------
(* The lifecycle commands.  An operator decides on what the back office    *)
(* shows, and the command carries the version that was shown.              *)

(* Faulty: a retry locks the payment before the refund.                    *)
FirstLocksPayment(op, r) ==
  IF op = "RETRY" THEN <<Payment(refund[r].payment), RefundRow(r)>> ELSE <<RefundRow(r)>>

FirstLocks(op, r) == <<RefundRow(r)>>

(* Faulty: the version is not compared.                                    *)
AssertNoVersion(w) == TRUE

AssertRefundVersion(w) == refund[w.ret].version = w.expected

StateValid(w) ==
  LET status == refund[w.ret].status IN
  CASE w.op = "RETRY"   -> status \in {"FAILED", "REQUIRES_ACTION"}
    [] w.op = "RESOLVE" -> status \in Unsettled /\ status # w.to
    [] w.op = "REVERSE" -> status = "COMPLETED"

(* A command on a state it does not apply to is refused in any case, so    *)
(* only the others are issued.                                             *)
Decide(x, r, op, to, e) ==
  LET w == [Idle EXCEPT !.op = op, !.ret = r, !.to = to, !.reference = e,
                        !.seen = refund[r].status, !.expected = refund[r].version,
                        !.amount = refund[r].amount, !.payment = refund[r].payment,
                        !.method = refund[r].method, !.todo = FirstLocks(op, r)] IN
  /\ work[x].op = "IDLE"
  /\ refund[r].status # "NONE" /\ refund[r].version < MaxVersion
  /\ StateValid(w)
  /\ work' = [work EXCEPT ![x] = w]
  /\ UNCHANGED <<ret, refund, cash, shift>>

RetryRefund(x, r) == Decide(x, r, "RETRY", "PENDING", NoReference)
ResolveRefund(x, r, to, e) == Decide(x, r, "RESOLVE", to, e)
ReverseRefund(x, r) == Decide(x, r, "REVERSE", "REVERSED", NoReference)

(* The locks each command takes after the refund row, in its order.        *)
LaterLocks(w) ==
  CASE w.op = "RETRY" -> <<Payment(w.payment)>>
    [] w.op = "RESOLVE" ->
         IfReference(w.reference)
           \o (IF w.to = "FAILED" THEN <<>> ELSE <<Payment(w.payment)>>)
           \o (IF w.method = "CASH" /\ w.to = "COMPLETED" THEN <<Shift>> ELSE <<>>)
    [] w.op = "REVERSE" -> IF w.method = "CASH" THEN <<Shift>> ELSE <<>>

(* lockRefund, assertRefundVersion and the check of the state.             *)
LockRefund(x) ==
  LET w == work[x] IN
  /\ w.op \in {"RETRY", "RESOLVE", "REVERSE"}
  /\ w.todo # <<>> /\ Head(w.todo) = RefundRow(w.ret)
  /\ LockFree(x, RefundRow(w.ret))
  /\ AssertRefundVersion(w) /\ StateValid(w)
  /\ work' = [work EXCEPT ![x].todo = LaterLocks(w), ![x].held = @ \cup {RefundRow(w.ret)}]
  /\ UNCHANGED <<ret, refund, cash, shift>>

(* requireCashLifecycleContext, and the look at the refund's cash movement *)
(* in writeRefundCashMovement.                                             *)
CheckCash(x) ==
  LET w == work[x] IN
  /\ w.op \in {"RESOLVE", "REVERSE"}
  /\ shift = "OPEN"
  /\ w.op = "REVERSE" <=> "CASH_REFUND" \in cash[w.ret]
  /\ Takes(x, Shift, w)

(* Faulty: a reversal leaves the drawer alone.                             *)
CashEffectForgotten(w) ==
  IF w.method = "CASH" /\ w.to = "COMPLETED" THEN {"CASH_REFUND"} ELSE {}

CashEffect(w) ==
  CASE w.method = "CASH" /\ w.to = "COMPLETED" -> {"CASH_REFUND"}
    [] w.method = "CASH" /\ w.to = "REVERSED" -> {"CASH_REVERSAL"}
    [] OTHER -> {}

(* The refund row, its lifecycle event and its cash movement commit.       *)
CommitLifecycle(x) ==
  LET w == work[x] IN
  /\ w.op \in {"RETRY", "RESOLVE", "REVERSE"} /\ w.todo = <<>>
  /\ refund' = [refund EXCEPT ![w.ret].status = w.to,
       ![w.ret].reference = IF w.reference = NoReference THEN @ ELSE w.reference,
       ![w.ret].version = @ + 1]
  /\ cash' = [cash EXCEPT ![w.ret] = @ \cup CashEffect(w)]
  /\ work' = [work EXCEPT ![x] = Idle]
  /\ UNCHANGED <<ret, shift>>

-----------------------------------------------------------------------------
(* A check that fails, an error, or the deadlock detector ends a           *)
(* transaction without effect.                                             *)
Rollback(x) ==
  /\ work[x].op # "IDLE"
  /\ work' = [work EXCEPT ![x] = Idle]
  /\ UNCHANGED <<ret, refund, cash, shift>>

(* openShiftCommand and closeShiftCommand, which lock the shift row too.   *)
SwitchShift ==
  /\ \A x \in Workers : Shift \notin work[x].held
  /\ shift' = IF shift = "OPEN" THEN "CLOSED" ELSE "OPEN"
  /\ UNCHANGED <<ret, refund, cash, work>>

Next ==
  \/ \E x \in Workers, r \in Returns :
       \/ BeginReturn(x, r)
       \/ RetryRefund(x, r)
       \/ \E to \in {"COMPLETED", "FAILED", "REQUIRES_ACTION"},
             e \in References \cup {NoReference} : ResolveRefund(x, r, to, e)
       \/ ReverseRefund(x, r)
  \/ \E x \in Workers :
       \/ ResolveItems(x) \/ CheckCapacity(x) \/ CheckReference(x) \/ CommitReturn(x)
       \/ LockRefund(x) \/ CheckCash(x) \/ CommitLifecycle(x)
       \/ Rollback(x)
  \/ SwitchShift

Spec == Init /\ [][Next]_vars

-----------------------------------------------------------------------------
(* Correctness.                                                            *)

(* No line is returned beyond the quantity sold, by however many returns   *)
(* at once.                                                                *)
ReturnedWithinSold == \A l \in Lines : Returned(l) <= Sold[l]

(* The value given for a line never exceeds what was charged for it, and   *)
(* is exactly that, whatever was rounded on the way, once all is returned. *)
LineValueExact == \A l \in Lines :
  /\ Refundable(l) <= LineTotal[l]
  /\ Returned(l) = Sold[l] => Refundable(l) = LineTotal[l]

(* The refunds on a payment that are paid or may still be paid never       *)
(* exceed it: not with two returns at once, and not when a failed refund   *)
(* is taken up again after its share was given to another return.          *)
RefundWithinPayment == \A p \in Payments :
  SumFunctionOnSet([r \in Returns |-> refund[r].amount],
    {r \in Returns : refund[r].payment = p /\ refund[r].status \notin {"FAILED", "REVERSED"}})
    <= Paid[p]

(* A lifecycle command changes the refund only from the state its operator *)
(* saw.                                                                    *)
DecidedOnSeen == \A x \in Workers :
  LET w == work[x] IN
  w.op \in {"RETRY", "RESOLVE", "REVERSE"} /\ w.held # {} => refund[w.ret].status = w.seen

(* Money left the drawer for a cash refund exactly if it was completed,    *)
(* and came back exactly if it was reversed.                               *)
CashMatchesRefund == \A r \in Returns :
  /\ "CASH_REFUND" \in cash[r] <=>
       refund[r].method = "CASH" /\ refund[r].status \in {"COMPLETED", "REVERSED"}
  /\ "CASH_REVERSAL" \in cash[r] <=>
       refund[r].method = "CASH" /\ refund[r].status = "REVERSED"

(* x waits for a row that y holds.                                         *)
WaitsForRow(x, y) ==
  /\ x # y /\ work[x].todo # <<>>
  /\ Head(work[x].todo)[1] # "REFERENCE"
  /\ Head(work[x].todo) \in work[y].held

(* The rows of the sale, the shift, the payments and the refunds are       *)
(* locked in an order that excludes deadlock among them: of any            *)
(* transactions there is one that waits for no such row of the others.     *)
(* Two cycles are outside of it: two commands that name the same external  *)
(* reference (a return takes its payment first, a resolution the           *)
(* reference), and two returns that restock the same products in different *)
(* orders, whose stock balances are locked in the order of the payload.    *)
RowLocksOrdered == \A D \in (SUBSET Workers) \ {{}} :
  \E x \in D : \A y \in D : ~WaitsForRow(x, y)
=============================================================================
