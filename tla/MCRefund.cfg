CONSTANTS
  l1 = l1
  p1 = p1
  p2 = p2
  Lines = {l1}
  Sold <- TwoPieces
  LineTotal <- ThreeUnits
  Payments = {p1, p2}
  Paid <- TwoPayments
  NoPayment = NoPayment
  Returns = {r1, r2}
  NoReturn = NoReturn
  References = {e1}
  NoReference = NoReference
  Workers = {x1, x2}
  MaxVersion = 3
SPECIFICATION Spec
SYMMETRY Symmetry
CHECK_DEADLOCK FALSE
INVARIANTS ReturnedWithinSold LineValueExact RefundWithinPayment DecidedOnSeen CashMatchesRefund RowLocksOrdered
