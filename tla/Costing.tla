------------------------------ MODULE Costing -------------------------------
(***************************************************************************)
(* Purchases (purchasing.ts) and the valuation of stock they feed: goods   *)
(* are received at a provisional cost, the invoice is captured and revised,*)
(* posting replaces the provisional value by the landed one.  Sales,       *)
(* restocked returns and adjustments move the same stock meanwhile, and a  *)
(* sale may drive it below zero: the receipt that fills the hole is        *)
(* matched with the sales that dug it, and their cost of goods corrected.  *)
(*                                                                         *)
(* A receipt, an invoice and a posting lock the purchase row first, and    *)
(* every command locks the balance and the cost row of the product before  *)
(* it reads them, if they exist.  ReadStock takes those two locks,         *)
(* ReceiveGoods uses what was read and commits; the other commands are one *)
(* step and need the locks to be free.  Only a stock adjustment draws its  *)
(* place in the ledger (ledger_sequence) before it locks the balance, and  *)
(* is two steps.  A receipt, a sale and a return have one line each.       *)
(*                                                                         *)
(* Quantities are base units, amounts integers of the smallest cost unit;  *)
(* discounts and taxes are part of the price and the charge.               *)
(* mwa_unit_cost and last_valid_mwa_unit_cost are written together with    *)
(* one value everywhere, so the model keeps one of them.  The mark of a    *)
(* supplier invoice number used twice is left out: it stops nothing.       *)
(***************************************************************************)
EXTENDS Integers, Sequences, FiniteSets, FiniteSetsExt

CONSTANTS
  Purchases, Items, Products,
  Of,            \* Of[i]: the purchase of item i
  Product,       \* Product[i]: its product, one line per product
  Expected,      \* Expected[i]: expected_qty
  Agreed,        \* Agreed[i]: agreed_unit_price, or NoCost
  Opening,       \* Opening[x]: stock at the start
  OpeningCost,   \* OpeningCost[x]: its unit cost, or NoCost
  NoCost,        \* SQL NULL
  Lots,          \* [accepted, free] quantities of a receipt line
  Prices,        \* invoice unit prices
  Charges,       \* acquisition charges of an invoice
  SaleQty,       \* quantities of a sale
  Adjustments,   \* quantities of a stock adjustment, IN and OUT
  MaxAdjusting,  \* bound on the adjustments under way
  MaxLedger,     \* bound on stock movements
  MaxVersion     \* bound on the version of a purchase

ASSUME CostingAssumption ==
  /\ NoCost \notin Nat \cup Items \cup Products /\ IsFiniteSet(Items)
  /\ Of \in [Items -> Purchases] /\ Product \in [Items -> Products]
  /\ \A i, j \in Items : Of[i] = Of[j] /\ Product[i] = Product[j] => i = j
  /\ Expected \in [Items -> Nat \ {0}]
  /\ Agreed \in [Items -> Nat \cup {NoCost}]
  /\ Opening \in [Products -> Nat] /\ OpeningCost \in [Products -> Nat \cup {NoCost}]
  /\ \A l \in Lots : l.accepted \in Nat /\ l.free \in Nat /\ l.accepted + l.free > 0
  /\ Prices \subseteq Nat \ {0} /\ Charges \subseteq Nat
  /\ SaleQty \subseteq Nat \ {0} /\ Adjustments \subseteq Int \ {0}
  /\ MaxLedger \in Nat /\ MaxVersion \in Nat \ {0} /\ MaxAdjusting \in Nat

VARIABLES
  purchase,   \* purchasing.purchases
  invoice,    \* purchase_invoices and their items
  line,       \* purchase_items: invoice price and landed cost
  movements,  \* stock_movements, with the receipt, sale or return line behind each
  balance,    \* stock_balances
  cost,       \* product_cost_states
  replaced,   \* negative_stock_replacements
  cogs,       \* cogs_reconciliations
  reading,    \* what the open receipt of an item has read under its locks
  seen,       \* what the person at the back office last loaded of a purchase
  adjusting,  \* adjustments that have drawn their place and wait for the balance
  exempt,     \* history: products with a shortage no sale was corrected for
  holes,      \* history: products an adjustment left below zero
  overtaken   \* history: products with a sale that overtook an adjustment

costingVars ==
  <<purchase, invoice, line, movements, balance, cost, replaced, cogs, reading, seen,
    adjusting, exempt, holes, overtaken>>

Cost == Nat \cup {NoCost}
NoReading == [product |-> NoCost, qty |-> 0, mwa |-> NoCost]

Purchase == [status : {"NONE", "DRAFT", "PARTIALLY_RECEIVED", "RECEIVED", "READY_TO_POST", "POSTED"},
             version : 0 .. MaxVersion]
Invoice == [version : 0 .. MaxVersion, charge : Nat, lines : SUBSET (Items \X Prices)]
StockMovement == [kind : {"NONE", "SALE", "PURCHASE_RECEIPT", "CUSTOMER_RETURN", "ADJUSTMENT"},
             product : Products, delta : Int, unit : Cost,
             status : {"FINAL", "PROVISIONAL", "COST_PENDING"},
             accepted : Nat, item : Items \cup {NoCost}, of : 0 .. MaxLedger]
Replacement == [sale : 1 .. MaxLedger, receipt : 1 .. MaxLedger, qty : Nat \ {0}]
Reconciliation == [sale : 1 .. MaxLedger, receipt : 1 .. MaxLedger, qty : Nat \ {0},
                   role : {"PROVISIONAL", "FINAL_DELTA"}, unit : Nat, delta : Int]

CostingTypeOK ==
  /\ purchase \in [Purchases -> Purchase]
  /\ invoice \in [Purchases -> Invoice]
  /\ line \in [Items -> [price : Cost, landed : Cost]]
  /\ movements \in Seq(StockMovement) /\ Len(movements) <= MaxLedger
  /\ balance \in [Products -> Int]
  /\ cost \in [Products -> [mwa : Cost, status : {"FINAL", "PROVISIONAL"}]]
  /\ replaced \subseteq Replacement
  /\ cogs \subseteq Reconciliation
  /\ reading \in [Items -> [product : Products \cup {NoCost}, qty : Int, mwa : Cost]]
  /\ seen \in [Purchases -> [version : 0 .. MaxVersion, invoice : Invoice, received : Nat]]
  /\ adjusting \subseteq [at : 1 .. MaxLedger, product : Products, delta : Adjustments]
  /\ exempt \subseteq Products /\ holes \subseteq Products /\ overtaken \subseteq Products

NoInvoice == [version |-> 0, charge |-> 0, lines |-> {}]

CostingInit ==
  /\ purchase = [p \in Purchases |-> [status |-> "NONE", version |-> 0]]
  /\ invoice = [p \in Purchases |-> NoInvoice]
  /\ line = [i \in Items |-> [price |-> NoCost, landed |-> NoCost]]
  /\ movements = <<>> /\ balance = Opening
  /\ cost = [x \in Products |-> [mwa |-> OpeningCost[x], status |-> "FINAL"]]
  /\ replaced = {} /\ cogs = {}
  /\ reading = [i \in Items |-> NoReading]
  /\ seen = [p \in Purchases |-> [version |-> 0, invoice |-> NoInvoice, received |-> 0]]
  /\ adjusting = {} /\ exempt = {} /\ holes = {} /\ overtaken = {}

-----------------------------------------------------------------------------
(* Arithmetic of the money columns and the movement ledger.                *)

Least(a, b) == IF a < b THEN a ELSE b
Greatest(a, b) == IF a < b THEN b ELSE a

(* money8: the quotient rounded half up.                                   *)
Money8(n, d) == (2 * n + d) \div (2 * d)

(* NULL counts as nothing in a sum.                                        *)
Value(u) == IF u = NoCost THEN 0 ELSE u

Entries(kind, x) ==
  {k \in 1 .. Len(movements) : movements[k].kind = kind /\ movements[k].product = x}
Receipts(i) == {k \in 1 .. Len(movements) : movements[k].item = i}
Total(S, Of1(_)) == SumFunctionOnSet([x \in S |-> Of1(x)], S)

QuantityAfter(k) ==
  LET x == movements[k].product
  IN Opening[x] + Total({j \in 1 .. k : movements[j].product = x}, LAMBDA j : movements[j].delta)

(* By how much the sale at k pushed the stock further below zero.          *)
NegativeQuantity(k) ==
  LET after == QuantityAfter(k)
  IN Greatest(0, Greatest(-after, 0) - Greatest(-(after - movements[k].delta), 0))

AcceptedQty(i) == Total(Receipts(i), LAMBDA k : movements[k].accepted)
PhysicalQty(i) == Total(Receipts(i), LAMBDA k : movements[k].delta)
ItemsOf(p) == {i \in Items : Of[i] = p}
ReceivedQty(p) == Total(ItemsOf(p), PhysicalQty)

-----------------------------------------------------------------------------
(* The negative-stock replacements of a receipt.                           *)

(* Of the shortage of each sale, the part still open: the newest sales     *)
(* account for the present deficit.                                        *)
UnresolvedTail(x, old, k) ==
  Least(NegativeQuantity(k),
        Greatest(0, -old - Total({j \in Entries("SALE", x) : j > k}, NegativeQuantity)))

(* Faulty: the tail is not cut at the deficit, so a shortage that an       *)
(* earlier receipt filled is filled again.                                 *)
AllocatedWithoutTail(x, old, k, qty) ==
  LET before == Total({j \in Entries("SALE", x) : j < k}, NegativeQuantity)
  IN Least(NegativeQuantity(k), Greatest(0, Least(qty, -old) - before))

(* What the receipt gives to sale k: the oldest open shortage first.       *)
Allocated(x, old, k, qty) ==
  LET before == Total({j \in Entries("SALE", x) : j < k}, LAMBDA j : UnresolvedTail(x, old, j))
  IN Least(UnresolvedTail(x, old, k), Greatest(0, Least(qty, -old) - before))

Replacements(x, old, qty) ==
  IF old >= 0 THEN {}
  ELSE {[sale |-> k, receipt |-> Len(movements) + 1, qty |-> Allocated(x, old, k, qty)] :
          k \in {k \in Entries("SALE", x) : Allocated(x, old, k, qty) > 0}}

(* NEGATIVE_STOCK_RECONCILIATION_INCOMPLETE                                *)
Incomplete(x, old, qty) ==
  /\ old < 0
  /\ Total(Replacements(x, old, qty), LAMBDA r : r.qty) < Least(qty, -old)

ProvisionalCogs(rs, unit) ==
  IF unit = NoCost THEN {}
  ELSE {[sale |-> r.sale, receipt |-> r.receipt, qty |-> r.qty, role |-> "PROVISIONAL",
         unit |-> unit, delta |-> (unit - Value(movements[r.sale].unit)) * r.qty] : r \in rs}

-----------------------------------------------------------------------------
(* Purchases.                                                              *)

(* Faulty: the rows are read without FOR UPDATE.                           *)
RowsAlwaysFree(x) == x \in Products

(* A product that never had stock or cost has no rows to lock.             *)
HasRows(x) ==
  Opening[x] > 0
  \/ \E k \in 1 .. Len(movements) : movements[k].product = x /\ movements[k].kind # "NONE"

(* No receipt in progress holds the rows of product x.                     *)
RowsFree(x) == HasRows(x) => \A i \in Items : reading[i].product # x

Room == Len(movements) < MaxLedger
Bump(p) == purchase[p].version < MaxVersion

CreatePurchase(p) ==
  /\ purchase[p].status = "NONE"
  /\ purchase' = [purchase EXCEPT ![p].status = "DRAFT", ![p].version = 1]
  /\ UNCHANGED <<invoice, line, movements, balance, cost, replaced, cogs, reading, seen, exempt,
                 adjusting, holes, overtaken>>

(* The back office loads a purchase.                                       *)
LoadPurchase(p) ==
  /\ purchase[p].status # "NONE"
  /\ seen' = [seen EXCEPT ![p] = [version |-> purchase[p].version, invoice |-> invoice[p],
                                  received |-> ReceivedQty(p)]]
  /\ UNCHANGED <<purchase, invoice, line, movements, balance, cost, replaced, cogs, reading, exempt,
                 adjusting, holes, overtaken>>

(* Neither a receipt nor an invoice is taken for a posted purchase.        *)
StillOpen(p) == purchase[p].status \notin {"NONE", "POSTED"} /\ Bump(p)

(* The first half of a receipt: the purchase row, then balance and cost of *)
(* the product, are locked and read.                                       *)
ReadStock(i) ==
  LET x == Product[i] IN
  /\ StillOpen(Of[i]) /\ Room
  /\ \A j \in ItemsOf(Of[i]) : reading[j].product = NoCost
  /\ RowsFree(x)
  /\ reading' = [reading EXCEPT ![i] = [product |-> x, qty |-> balance[x], mwa |-> cost[x].mwa]]
  /\ UNCHANGED <<purchase, invoice, line, movements, balance, cost, replaced, cogs, seen, exempt,
                 adjusting, holes, overtaken>>

(* What a receipt line adds to the stock: accepted and free units.         *)
PhysicalLot(lot) == lot.accepted + lot.free

(* calculateProvisionalCost: invoice price, agreed price, last valid cost. *)
(* Free units share the cost of the accepted ones.                         *)
ProvisionalCost(i, lot, fallback) ==
  LET price == IF line[i].price # NoCost THEN line[i].price ELSE Agreed[i]
  IN IF price = NoCost THEN fallback
     ELSE Money8(price * lot.accepted, PhysicalLot(lot))

(* Faulty: a negative quantity enters the weighted average.                *)
ReceiptMwaNaive(old, oldQty, unit, qty) ==
  IF old # NoCost /\ oldQty + qty > 0
  THEN Greatest(0, Money8(oldQty * old + qty * unit, oldQty + qty)) ELSE unit

(* The average after a receipt of qty units.                               *)
ReceiptMwa(old, oldQty, unit, qty) ==
  IF oldQty > 0 /\ old # NoCost THEN Money8(oldQty * old + qty * unit, oldQty + qty)
  ELSE IF oldQty + qty <= 0 /\ old # NoCost THEN old
  ELSE unit

(* The cost state applyReceiptCost leaves: without a cost, the old one.    *)
ReceiptCost(x, r, unit, qty) ==
  IF unit = NoCost THEN cost
  ELSE [cost EXCEPT ![x] = [mwa |-> ReceiptMwa(r.mwa, r.qty, unit, qty),
                            status |-> "PROVISIONAL"]]

ReceiptStatus(p, i, lot) ==
  IF \A j \in ItemsOf(p) :
       AcceptedQty(j) + (IF j = i THEN lot.accepted ELSE 0) >= Expected[j]
  THEN "RECEIVED" ELSE "PARTIALLY_RECEIVED"

ReceiveGoods(i, lot) ==
  LET p == Of[i]  x == Product[i]  r == reading[i]
      qty == PhysicalLot(lot)
      unit == ProvisionalCost(i, lot, r.mwa)
      rs == Replacements(x, r.qty, qty)
  IN
  /\ r.product = x /\ Room
  /\ movements' = Append(movements, [kind |-> "PURCHASE_RECEIPT", product |-> x, delta |-> qty,
       unit |-> unit, status |-> "PROVISIONAL", accepted |-> lot.accepted, item |-> i, of |-> 0])
  /\ balance' = [balance EXCEPT ![x] = @ + qty]
  /\ cost' = ReceiptCost(x, r, unit, qty)
  /\ replaced' = replaced \cup rs
  /\ cogs' = cogs \cup ProvisionalCogs(rs, unit)
  /\ exempt' = IF Incomplete(x, r.qty, qty) THEN exempt \cup {x} ELSE exempt
  /\ purchase' = [purchase EXCEPT ![p].status = ReceiptStatus(p, i, lot), ![p].version = @ + 1]
  /\ reading' = [reading EXCEPT ![i] = NoReading]
  /\ UNCHANGED <<invoice, line, seen,
                 adjusting, holes, overtaken>>

(* The purchase row is free: no receipt of p is open.                      *)
PurchaseFree(p) == \A i \in ItemsOf(p) : reading[i].product = NoCost

(* Faulty: the expected version is not compared.                           *)
AnyVersion(p) == seen[p].version > 0 /\ purchase[p].version > 0

(* The version the caller names is the current one.                        *)
CurrentVersion(p) == seen[p].version = purchase[p].version

(* The lines keep the price of the last invoice that named them.           *)
PricedLines(priced) ==
  [i \in Items |->
     IF \E c \in Prices : <<i, c>> \in priced
     THEN [line[i] EXCEPT !.price = CHOOSE c \in Prices : <<i, c>> \in priced] ELSE line[i]]

(* With goods already received the purchase may be posted.                 *)
InvoicedPurchase(p) ==
  [status |-> IF \E i \in ItemsOf(p) : Receipts(i) # {} THEN "READY_TO_POST"
              ELSE purchase[p].status,
   version |-> purchase[p].version + 1]

CaptureInvoice(p, priced, charge) ==
  /\ StillOpen(p) /\ PurchaseFree(p)
  /\ CurrentVersion(p) /\ seen[p].invoice.version = invoice[p].version
  /\ invoice' = [invoice EXCEPT ![p] =
       [version |-> @.version + 1, charge |-> charge, lines |-> priced]]
  /\ line' = PricedLines(priced)
  /\ purchase' = [purchase EXCEPT ![p] = InvoicedPurchase(p)]
  /\ UNCHANGED <<movements, balance, cost, replaced, cogs, reading, seen, exempt,
                 adjusting, holes, overtaken>>

-----------------------------------------------------------------------------
(* Posting: the landed cost of each invoiced line.                         *)

Invoiced(p) == {l[1] : l \in invoice[p].lines}
LineValue(p, i) == Expected[i] * (CHOOSE c \in Prices : <<i, c>> \in invoice[p].lines)

(* The line with its share of the charges, by item value.                  *)
FinalValue(p, i) ==
  LineValue(p, i) + Money8(invoice[p].charge * LineValue(p, i),
                           Total(Invoiced(p), LAMBDA j : LineValue(p, j)))
Landed(p, i) == Money8(FinalValue(p, i), PhysicalQty(i))

ProvisionalValue(i) == Total(Receipts(i), LAMBDA k : Value(movements[k].unit) * movements[k].delta)
ReplacedBy(i) == {r \in replaced : movements[r.receipt].item = i}

(* Faulty: the provisional reconciliation is forgotten.                    *)
BaselineSnapshot(r) == movements[r.sale].unit

(* The unit cost the cost of goods of a replaced unit stands at: that of   *)
(* its provisional reconciliation, else the snapshot of the sale.          *)
Baseline(r) ==
  LET prior == {c \in cogs : c.sale = r.sale /\ c.receipt = r.receipt /\ c.role = "PROVISIONAL"}
  IN IF prior # {} THEN (CHOOSE c \in prior : TRUE).unit ELSE movements[r.sale].unit

FinalCogs(p, i) ==
  {[sale |-> r.sale, receipt |-> r.receipt, qty |-> r.qty, role |-> "FINAL_DELTA",
    unit |-> Landed(p, i), delta |-> (Landed(p, i) - Value(Baseline(r))) * r.qty] : r \in ReplacedBy(i)}

(* Faulty: the whole correction goes to the stock, though part of the      *)
(* goods had been sold before they came.                                   *)
InventoryDeltaWhole(p, i) == FinalValue(p, i) - ProvisionalValue(i)

(* The part of the correction that stays with the stock.                   *)
InventoryDelta(p, i) ==
  FinalValue(p, i) - ProvisionalValue(i)
    - Total(ReplacedBy(i), LAMBDA r : (Landed(p, i) - Value(movements[r.receipt].unit)) * r.qty)

OldMwa(p, i) == IF cost[Product[i]].mwa = NoCost THEN Landed(p, i) ELSE cost[Product[i]].mwa

(* An amount that cannot be put on any stock stops the posting.            *)
Allocatable(p, i) ==
  LET qty == balance[Product[i]] IN
  IF qty > 0 THEN OldMwa(p, i) * qty + InventoryDelta(p, i) >= 0 ELSE InventoryDelta(p, i) = 0

PostedMwa(p, i) ==
  LET qty == balance[Product[i]]
  IN IF qty > 0 THEN Money8(OldMwa(p, i) * qty + InventoryDelta(p, i), qty) ELSE OldMwa(p, i)

(* A receipt of another purchase that is not posted still rests on a       *)
(* provisional cost.                                                       *)
OutstandingProvisional(p, x) ==
  \E k \in Entries("PURCHASE_RECEIPT", x) :
    /\ movements[k].unit # NoCost
    /\ Of[movements[k].item] # p /\ purchase[Of[movements[k].item]].status # "POSTED"

Postable(p) ==
  /\ purchase[p].status \in {"READY_TO_POST", "RECEIVED"} /\ PurchaseFree(p) /\ Bump(p)
  /\ CurrentVersion(p)
  /\ invoice[p].version > 0
  /\ \A i \in Invoiced(p) : PhysicalQty(i) > 0

(* product_cost_states after the invoiced lines are settled.               *)
PostedCosts(p) ==
  [x \in Products |->
     IF \E i \in Invoiced(p) : Product[i] = x
     THEN LET i == CHOOSE j \in Invoiced(p) : Product[j] = x
          IN [mwa |-> PostedMwa(p, i),
              status |-> IF OutstandingProvisional(p, x) THEN "PROVISIONAL" ELSE "FINAL"]
     ELSE cost[x]]

PostPurchase(p) ==
  LET lines == Invoiced(p) IN
  /\ Postable(p)
  /\ \A i \in lines : RowsFree(Product[i]) /\ Allocatable(p, i)
  /\ line' = [i \in Items |-> IF i \in lines THEN [line[i] EXCEPT !.landed = Landed(p, i)]
                              ELSE line[i]]
  /\ cogs' = cogs \cup UNION {FinalCogs(p, i) : i \in lines}
  /\ cost' = PostedCosts(p)
  /\ purchase' = [purchase EXCEPT ![p].status = "POSTED", ![p].version = @ + 1]
  /\ UNCHANGED <<invoice, movements, balance, replaced, reading, seen, exempt,
                 adjusting, holes, overtaken>>

-----------------------------------------------------------------------------
(* The other movements of the same stock.                                  *)

(* Faulty: the sign of the stock is not looked at.                         *)
SaleCostStatusOfState(x, qty) ==
  IF cost[x].mwa = NoCost \/ qty = 0 THEN "COST_PENDING" ELSE cost[x].status

(* resolveSaleCostSnapshots: below zero the cost can only be provisional.  *)
SaleCostStatus(x, qty) ==
  IF cost[x].mwa = NoCost THEN "COST_PENDING"
  ELSE IF balance[x] - qty < 0 \/ cost[x].status = "PROVISIONAL" THEN "PROVISIONAL" ELSE "FINAL"

(* The row of a sold item, with the cost it had at the time.               *)
SaleEntry(x, qty) ==
  [kind |-> "SALE", product |-> x, delta |-> -qty, unit |-> cost[x].mwa,
   status |-> SaleCostStatus(x, qty), accepted |-> 0, item |-> NoCost, of |-> 0]

SellGoods(x, qty) ==
  /\ RowsFree(x) /\ Room
  /\ movements' = Append(movements, SaleEntry(x, qty))
  /\ balance' = [balance EXCEPT ![x] = @ - qty]
  /\ UNCHANGED <<purchase, invoice, line, cost, replaced, cogs, reading, seen, exempt,
                 adjusting, holes, overtaken>>

ReturnedQty(k) ==
  Total({j \in 1 .. Len(movements) : movements[j].of = k}, LAMBDA j : movements[j].delta)

(* restockReturnItem: goods of sale k come back at the cost of the sale.   *)
(* Into a shortage they come without any reconciliation.                   *)
RestockReturn(k, qty) ==
  LET sale == movements[k]  x == sale.product
      known == sale.unit # NoCost /\ sale.status # "COST_PENDING"
  IN
  /\ sale.kind = "SALE" /\ ReturnedQty(k) + qty <= -sale.delta
  /\ RowsFree(x) /\ Room
  /\ movements' = Append(movements, [kind |-> "CUSTOMER_RETURN", product |-> x, delta |-> qty,
       unit |-> sale.unit, status |-> sale.status, accepted |-> 0, item |-> NoCost, of |-> k])
  /\ balance' = [balance EXCEPT ![x] = @ + qty]
  /\ cost' = IF ~known THEN cost
             ELSE [cost EXCEPT ![x] =
               [mwa |-> IF balance[x] > 0 /\ @.mwa # NoCost
                        THEN Money8(balance[x] * @.mwa + qty * sale.unit, balance[x] + qty)
                        ELSE sale.unit,
                status |-> sale.status]]
  /\ exempt' = IF balance[x] < 0 THEN exempt \cup {x} ELSE exempt
  /\ UNCHANGED <<purchase, invoice, line, replaced, cogs, reading, seen,
                 adjusting, holes, overtaken>>

(* adjustInventory inserts its movement, which draws the place in the      *)
(* ledger; until it commits nobody sees more than the gap.  postOpname     *)
(* locks the balance first: the two steps with nothing between them.       *)
BeginAdjustment(x, delta) ==
  /\ Room /\ Cardinality(adjusting) < MaxAdjusting
  /\ movements' = Append(movements, [kind |-> "NONE", product |-> x, delta |-> 0,
       unit |-> NoCost, status |-> "FINAL", accepted |-> 0, item |-> NoCost, of |-> 0])
  /\ adjusting' = adjusting \cup {[at |-> Len(movements) + 1, product |-> x, delta |-> delta]}
  /\ UNCHANGED <<purchase, invoice, line, balance, cost, replaced, cogs, reading, seen,
                 exempt, holes, overtaken>>

(* Then it locks and updates the balance, moves the value at the average   *)
(* (appendInventoryCostEffect) and commits.                                *)
FinishAdjustment(a) ==
  LET x == a.product IN
  /\ RowsFree(x)
  /\ movements' = [movements EXCEPT ![a.at] = [kind |-> "ADJUSTMENT", product |-> x,
       delta |-> a.delta, unit |-> cost[x].mwa, status |-> "FINAL", accepted |-> 0,
       item |-> NoCost, of |-> 0]]
  /\ balance' = [balance EXCEPT ![x] = @ + a.delta]
  /\ adjusting' = adjusting \ {a}
  /\ holes' = IF a.delta < 0 /\ balance[x] + a.delta < 0 THEN holes \cup {x} ELSE holes
  /\ overtaken' = IF \E k \in Entries("SALE", x) : k > a.at THEN overtaken \cup {x}
                  ELSE overtaken
  /\ UNCHANGED <<purchase, invoice, line, cost, replaced, cogs, reading, seen, exempt>>

(* An adjustment that fails leaves its place in the ledger empty.          *)
AbandonAdjustment(a) ==
  /\ adjusting' = adjusting \ {a}
  /\ UNCHANGED <<purchase, invoice, line, movements, balance, cost, replaced, cogs, reading, seen,
                 exempt, holes, overtaken>>

(* The line sets an invoice of p may carry: one price for each item in it. *)
InvoiceLines(p) ==
  {{<<i, f[i]>> : i \in S} : f \in [ItemsOf(p) -> Prices], S \in (SUBSET ItemsOf(p)) \ {{}}}

CostingNext ==
  \/ \E p \in Purchases : CreatePurchase(p) \/ LoadPurchase(p) \/ PostPurchase(p)
  \/ \E i \in Items : ReadStock(i)
  \/ \E i \in Items, lot \in Lots : ReceiveGoods(i, lot)
  \/ \E p \in Purchases, charge \in Charges :
       \E priced \in InvoiceLines(p) : CaptureInvoice(p, priced, charge)
  \/ \E x \in Products, q \in SaleQty : SellGoods(x, q)
  \/ \E k \in 1 .. Len(movements), q \in SaleQty : RestockReturn(k, q)
  \/ \E x \in Products, d \in Adjustments : BeginAdjustment(x, d)
  \/ \E a \in adjusting : FinishAdjustment(a) \/ AbandonAdjustment(a)

CostingSpec == CostingInit /\ [][CostingNext]_costingVars

-----------------------------------------------------------------------------
(* Properties.                                                             *)

(* What the business paid for the goods of item i as far as it is known:   *)
(* the landed value of a posted invoice line, else the provisional one.    *)
PaidValue(i) ==
  IF line[i].landed # NoCost THEN FinalValue(Of[i], i) ELSE ProvisionalValue(i)

(* Where that value is now.                                                *)
HeldValue(x) == balance[x] * Value(cost[x].mwa)
SoldValue(x) ==
  Total(Entries("SALE", x) \cup Entries("CUSTOMER_RETURN", x) \cup Entries("ADJUSTMENT", x),
        LAMBDA k : -(movements[k].delta * Value(movements[k].unit)))
  + Total({c \in cogs : movements[c.sale].product = x}, LAMBDA c : c.delta)

(* Each cost event rounds one average, by at most half a unit for every    *)
(* unit in stock; a landed cost rounds once more.                          *)
RoundingSlack(x) ==
  Total({i \in Items : Product[i] = x}, PhysicalQty) * (1 + Len(movements)) + Len(movements)

(* Value is neither made nor lost: what was paid for a product is in the   *)
(* stock at its average cost or in the cost of goods sold, whatever the    *)
(* order of receipts, invoices, postings, sales below zero, returns and    *)
(* adjustments, up to the rounding of the averages.  Left out are products *)
(* with a shortage for which no sale is corrected: one the ledger's sales  *)
(* do not account for (handed to manual review), one that a return fills   *)
(* and one that an adjustment dug (handed to nobody).                      *)
ValueConserved ==
  \A x \in Products \ (exempt \cup holes) :
    LET paid == Opening[x] * Value(OpeningCost[x])
                + Total({i \in Items : Product[i] = x}, PaidValue)
        found == HeldValue(x) + SoldValue(x)
    IN paid - found \in -RoundingSlack(x) .. RoundingSlack(x)

(* The shortage of a sale is replaced once: over all receipts a sale never *)
(* gets more units than it pushed the stock below zero by.  This holds as  *)
(* long as only sales take the product below zero and no sale overtakes an *)
(* adjustment: the tail of the ledger does not tell a hole that an         *)
(* adjustment dug from one a sale dug, and gives a replaced sale again.    *)
ReplacedOnce ==
  \A k \in {k \in 1 .. Len(movements) : movements[k].product \notin holes \cup overtaken} :
    Total({r \in replaced : r.sale = k}, LAMBDA r : r.qty) <=
      (IF movements[k].kind = "SALE" THEN NegativeQuantity(k) ELSE 0)

(* After posting, a replaced unit has cost what it landed at: snapshot,    *)
(* provisional and final correction add up to the landed cost.             *)
CogsSettled ==
  \A r \in replaced :
    LET i == movements[r.receipt].item IN
    line[i].landed # NoCost =>
      Value(movements[r.sale].unit) * r.qty
        + Total({c \in cogs : c.sale = r.sale /\ c.receipt = r.receipt}, LAMBDA c : c.delta)
      = line[i].landed * r.qty

(* A sale line whose cost was declared FINAL is never corrected later,     *)
(* whatever adjustments do, unless the sale overtook one: then the ledger  *)
(* shows below zero a sale that saw enough stock.                          *)
FinalCostStands ==
  \A c \in cogs :
    movements[c.sale].status = "FINAL" => movements[c.sale].product \in overtaken

(* A purchase is posted on what the person who posts has loaded: no        *)
(* receipt and no invoice revision slipped in between.                     *)
PostedAsReviewed ==
  [][\A p \in Purchases :
       purchase'[p].status = "POSTED" /\ purchase[p].status # "POSTED" =>
         seen[p].invoice = invoice[p] /\ seen[p].received = ReceivedQty(p)]_costingVars
=============================================================================
