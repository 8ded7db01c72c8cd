# Verification of the Tekad Mandiri (Kastur) point of sale

This directory holds TLA+ models of the offline-first POS in this repository,
the TLC configurations that check them on small instances, and proofs checked by
TLAPS. Every definition is translated from the source; `PROJECT.json` gives, for
each, the file and lines it stands for. The documents under `docs/` are used
only as what the code is measured against.

## The system

A cashier works on a browser device (`apps/pos`) that must keep selling without
a network. Every business operation is recorded in IndexedDB
(`packages/local-db`) together with an outbox row holding a command. A sync
orchestrator (`packages/sync-client`), one in every open tab, pushes the
commands to an API worker (`apps/api`) over PostgreSQL and pulls changes of
master data back. An owner works in a back office (`apps/backoffice`).

| Component | State it keeps | Operations | Interacts through |
|---|---|---|---|
| Local managers (`shift-cache`, `cash-manager`, `sales-manager`) | shifts, cash movements, closing snapshots, sales | open shift, sell, cash in/out, blind count, close | IndexedDB transactions shared by all tabs; outbox rows |
| Outbox (`sync-store`) | one row per command: status, attempt, lease, backoff, error | claim a batch, settle, recovery retry | claimed by the orchestrators of all tabs |
| Sync orchestrator, retry policy, HTTP gateway | the run of a tab | push, pull, acknowledge, bootstrap | HTTP; the store |
| Command execution (`command-support`, `sync.ts`) | idempotency records, change feed, device sync state | execute once, append change, serve a page or a snapshot | one PostgreSQL transaction per command |
| Cash ledger (`cash.ts`) | shifts, movements, snapshots, reconciliations, exceptions | open, movement, close | row lock on the shift; written by sales and refunds too |
| Returns and refunds (`returns.ts`) | returns, refunds and their lifecycle | return, retry, resolve, reverse | row and advisory locks; cash ledger |
| Stock counting (`inventory.ts`) | opname sessions and lines | create, count, recount, review, post | a trigger on every stock movement; optimistic versions |
| Pricing (`pricing.ts`, resolver, price cache, cart) | price versions with their windows, promotions, the device's copy, cart lines | propose, approve, publish, quote, sell, judge a sale | change feed; concurrent approval transactions; sales that arrive later |
| Purchasing and costing (`purchasing.ts`) | purchases, invoices, average cost, negative-stock replacements, cost-of-goods corrections | create, receive, invoice, post | row locks on balance and cost; moved by sales, returns and adjustments |
| Catalog (`catalog.ts`) | products, units, barcodes | single-row writes | change feed |
| Identity (`auth.ts`, offline authorization) | sessions, devices, authorization version, grants | log in, enrol, revoke, approve recovery | checked before each pushed command |
| POS runtime (`PosRuntimeProvider`, `storage`, trusted clock) | session secret, cached grant, lock, high-water clock | sign in/out, lock, unlock, sync timer, recovery | everything above; continuations that outlive a lock |

What is hard here: two tabs of one device over the same tables; a response lost
after the command committed; a lease that runs out under a slow request; a tab
closed between two steps; commands that arrive after the shift they belong to
was closed; transactions that overlap on the server; read-then-write in the
local managers, where the read and the write are different IndexedDB
transactions; prices and costs that change between an offline sale and its
arrival; goods sold before they were received; and requests that answer after the
device was locked, signed out or stripped of its authority, by a clock that may
have been set. `PROJECT.json` lists these hazards at their lines with the
properties that are about them.

What makes the parts correct, in a sentence each: a command takes effect exactly
once and the device never believes otherwise; no change of master data is
skipped; each cash movement of a closed shift is accounted for once and a
closed shift stays closed; nothing is returned, refunded or paid out twice; a
posted stock count makes the book agree with the shelf; one price is in force at
any time and an honest offline sale stands; what was paid for goods is in the
stock or in the cost of goods sold; and an offline fact keeps its proof, its
order and its author.

## Modules

| Module | Models | Source |
|---|---|---|
| `RetryPolicy` | result codes, how each settles a row, exponential backoff | `sync-client/retry.ts`, `local-db/sync-store.ts` |
| `CommandDelivery` | abstract specification: recorded, executed, confirmed | what delivery promises |
| `SyncPush` | outbox, push runs of the tabs, requests in flight, authorization, idempotent execution, recovery | `orchestrator.ts`, `sync-store.ts`, `command-support.ts`, `sync.ts` |
| `ChangeFeed` | overlapping writers, change feed, pull pages, acknowledgement, bootstrap | `sync.ts`, `orchestrator.ts`, `sync-store.ts`, `sync-store-adapter.ts` |
| `CashShift` | the server's shifts, movements, closing and late events under row locks | `cash.ts`, `sales.ts`, `returns.ts` |
| `LocalShift` | the device's shift: sell, move cash, count, close, from several tabs | `shift-cache.ts`, `cash-manager.ts`, `sales-manager.ts` |
| `Refund` | returns of a sale and the lifecycle of their refunds, lock by lock | `returns.ts`, migrations 18, 22, 27 |
| `Opname` | stock counting sessions while goods move | `inventory.ts`, migrations 17, 22, 24 |
| `Pricing` | approvals, promotions, the device's prices and clocks, the cart, the judgement of a sale | `pricing.ts`, `resolver.ts`, `pricing-cache.ts`, `cart.ts`, `sales-manager.ts`, `sales.ts` |
| `Costing` | purchases from receipt to posting, average cost, stock below zero | `purchasing.ts`, `sales.ts`, `returns.ts`, `inventory.ts` |
| `PosSession` | session, lock, offline grant, trusted clock, sync run, sign-out, recovery | `PosRuntimeProvider.tsx`, `storage.ts`, `trusted-clock.ts`, `recovery.ts`, `auth.ts` |
| `SyncPushProofs`, `ChangeFeedProofs`, `RefundProofs`, `OpnameProofs`, `PosSessionProofs` | theorems about the module of that name | |
| `LedgerProofs` | theorems about `CashShift` and `Costing` | |
| `SellingProofs` | theorems about `LocalShift` and `Pricing` | |
| `FiniteFacts` | facts about maxima and sums over finite sets, for the proofs | |
| `MC*` | instances for TLC | |

`SyncPush` composes the device, the network and the server around one outbox;
`ChangeFeed` is the other direction. `LocalShift` is what happens on the device
before a command is in the outbox, `CashShift` what happens on the server when
it is executed; `Refund`, `Opname` and `Costing` are other families of server
commands. `Pricing` follows a sale across both sides, from the owner's approval
through the device's copy to the server's verdict, and `PosSession` follows the
authority under which it is recorded and sent.
The definitions whose comment begins with "Faulty:" are mutants: plausible
mistakes that the corresponding property must find; nothing else uses them.

### SyncPush

A row of `outbox` has the fields of `LocalOutboxRecord` that matter; `lease` and
`backoff` are the ticks left of `lease_expires_at` and `next_attempt_at`.
`Claim` is `claimOutboxBatch` (oldest first, at most `ClaimLimit`, expired leases
included). `Send`, `KeepForeign`, `Receive` and `GiveUp` are the body of the loop
of `pushPending`; each ends in `Settle`, which is `settleOutboxBatch` with its
lease check. On the server a request passes `Authorize`
(`commandAuthorizationContext`), `InsertKey` (`INSERT ... ON CONFLICT DO
NOTHING`, which waits for a concurrent insert) and `Commit`, `Reject` or `Fail`.
`GiveUp` leaves the request alive: the server may still execute it. Payloads are
abstracted to the command's identity, its prerequisites (`Requires`), the local
record it reports (`Aggregate`), and whether its offline grant exists and covers
it.

### ChangeFeed

`AppendChange` draws the sequence number, `CommitTransaction` makes the row
visible; between the two other writers and readers run. `Page` is the query of
`pull` (the limit is applied before types are filtered). `ReadExpected` and
`ApplyPage` are the two steps of `applyPullAtomically`: the cursor is read, then
compared in the transaction. The local tables are abstracted to `known`, the
changes they show, and a payload to whether the device can use it (`Parses`): a
`PARTIAL` row makes the page fail and the run turn to the bootstrap
(`Replaced`). `exposed` is a history variable: the rows that committed after a
higher sequence number, and those that an older bootstrap took back.

### CashShift

A transaction is a worker that locks the shift row, works and commits or rolls
back; `SumLedger` is separate from `WriteClose` so that anything may happen in
between that the lock does not exclude. A late event is one whose shift is
`CLOSED` when its transaction reads it. `ClosingSigned` is the sum's view of a
movement type and `Signed` the ledger's.

### LocalShift

Operations are split at their `await`s: `StartMovement`/`WriteMovement`,
`StartClosing`/`MarkClosing`, `StartCompletion`/`CountMovements`/`WriteClosing`.
`WriteSale` is one step because `completeSale` checks and writes in one
transaction.

### Refund

`BeginReturn`, `RetryRefund`, `ResolveRefund` and `ReverseRefund` start a
transaction with the locks it will ask for, in the order of the code, in `todo`;
what it got is in `held`. Each check is the step that takes the lock it is made
under: `ResolveItems` (`resolveReturnItem`, the transaction row), `LockRefund`
(version and state), `CheckCapacity` (the payment), `CheckReference` (the
advisory lock on an external reference) and `CheckCash` (the shift).
`CommitReturn` and `CommitLifecycle` write everything and let go. Amounts are
integers in units of the fourth decimal, so the rounding of partial returns is
the code's. Restocking, return windows and permissions are left out.

### Opname

The person who counts and the command that confirms the count are different
steps: `TakeSheet` looks at the shelf, `ReadSystemQty` is the sum of the ledger
that the count's statement sees, `ConfirmCount` its write after it waited for
the row. `InsertMovement` and `CommitMovement` are any transaction that inserts
into `stock_movements`; `Marks` is the trigger. `shelf` is what is physically
there, which no table holds: it is what a count has to agree with. `clean` is a
history field: whether anything entered the book between look and sum.
`ShowSession` is the person who posts learning the version that the posting
form asks for.

### Pricing

`BeginApproval`, `PublishItem` for each unit and `CommitApproval` are the steps of
the approval transaction; `AbortApproval` is a conflict, a failure or the
deadlock of two approvals that lock units in opposite order. A version's window
is half open and may be closed by a later, also a backdated, approval. The device
holds what the last pull or bootstrap gave it, an offset for its pricing time,
anchored at the last synchronisation, and an estimate for `occurred_at`, anchored
at the last sign-in: `SetClock` can move one against the other. A cart line keeps
the context it was added with. `Resolution` is the resolver, used by the device and
by the server as in the code; `Sound` and `Stale` are
`validateAuthoritativePricing`. Quantities are integers with `Whole` for 1, so
that fractions of a unit exist. The lookup reads the clock three times within one
call, which is one step here.

### Costing

Money is an integer in the smallest unit and `Money8` rounds as the code does.
`ReadStock` takes the locks of a receipt and `ReceiveGoods` uses what was read
and commits; sales, returns and postings are one step and wait for the locks.
`adjustInventoryCommand` inserts its movement before it locks the balance, so an
adjustment is two steps: `BeginAdjustment` draws the place in the ledger (an entry
of kind `NONE`, since nobody sees the row before the commit, recorded in
`adjusting`), `FinishAdjustment` takes the locks, moves balance and value and
commits, `AbandonAdjustment` rolls back and leaves the place empty. A receipt or a
sale may take a later place and commit in between. A product without rows has nothing to lock (`HasRows`), which is what
the code does. `Replacements` finds the sales that dug a hole from the tail of
the ledger, `ProvisionalCogs` and `FinalCogs` are the corrections of their cost,
`InventoryDelta` the part of the final value that stays with the stock.
`seen` is what the person at the back office last loaded. Three history sets name
the products about which the code promises less: `exempt`, with a shortage for
which no sale was corrected (one the ledger's sales do not account for, which the
code hands to manual review, or one filled by a return, which it hands to nobody);
`holes`, which an adjustment left below zero; `overtaken`, with a sale that took
its place in the ledger after an adjustment and its stock before it. No action
reads them. The mark of a supplier invoice number used twice (`purchasing.ts:1259`)
is left out: it stops no operation.

### PosSession

A request under way is a record in `connects`, `syncing` or `leaving` with what
its handler captured before the `await`. `bearer` is the secret in
`sessionStorage`, `cache` the session in `localStorage`; the React state is
`status`, `operational`, `recoveryRequired` and `runtime`. The device's clock is
no variable: each reading is any member of `Readings`. Sessions are created by
every login and are bound to the device by `EnrollDevice`; a grant names the
session it was issued to. `PushFact` sends with the secret the tab holds at that
moment, and the reply may be lost after the server booked the fact.
`RecoverOutbox(n)` is a recovery that stops after row `n`. `dropped` is a history
variable for two races described under Findings. Each bootstrap advances the
server's time by one, so that no two grants are issued at once.

## Runs

Runs that must pass:

| Run | Checks | Instance | States |
|---|---|---|---|
| `push_duplicates` | `ExactlyOnce`, `SyncedIsAccepted`, `ReviewSurvivesReplay`, `VerdictIsFinal`, refinement `DeliverySpec` | one command, two tabs, two requests: every duplicate, takeover and late reply of one command | 181,155 |
| `push_progress` | `EventuallySettled` | two tabs, a command and a row of another device in one batch, under `FairSpec` | 130,486 |
| `feed_concurrent` | `NeverAhead`, `NoOtherLoss`, `CursorsAdvance`, `EventuallyKnown` | two writers, two tabs, two rows, pages of one row, under `FairSpec` | 349,099 |
| `cash_ledger` | `EveryRowOnce`, `ExpectedFromLedgerNoReversal`, `ClosedIsFinal` | two consecutive shifts of a terminal, two commands, two transactions at a time | 427,311 |
| `local_two_tabs` | `EverySaleCounted`, `SaleBeforeClosing`, `FactsAreFinal` | two tabs, two shifts, two commands | 235,225 |
| `refund_limits` | `ReturnedWithinSold`, `LineValueExact`, `RefundWithinPayment`, `DecidedOnSeen`, `CashMatchesRefund`, `RowLocksOrdered` | two returns of a line of two pieces, two payments, one reference, two transactions at a time | 728,920 |
| `opname_posting` | `TypeOK`, `PostedMatchesShelf`, `PostedAsShown`, `PostedIsFinal` | two sessions that share one of two products, one movement | 785,793 |
| `pricing` | `OnePriceInForce`, `QuotesPriceInForce`, `SaleStands`, `UnwarnedIsInForce` | one unit, two price sets with overlapping approvals, one promotion, a clock set back, one sale | 874,742 |
| `costing` | `ValueConserved`, `ReplacedOnce`, `CogsSettled`, `FinalCostStands`, `PostedAsReviewed` | two purchases of one product, four stock movements, sales of more than is in stock, adjustments in and out | 2,562,700 |
| `session` | `FactsKeepCredential`, `StampsInOrder`, `ActorKept`, `LockedHoldsNoBearer` | one cashier, two sessions, two facts, one loss of authority, three clock readings | 4,118,451 |

The other two runs, `feed_gap` and `session_relogin`, show a disagreement between
the code and a document (see Findings). Every module has a type invariant. It is
part of a run for `Opname`, and proved for `Opname`, `SyncPush`, `Costing`
(`CostTypes`) and, as part of the inductive invariant, for `ChangeFeed`,
`CashShift`, `LocalShift`, `Refund` and `PosSession`; in `Pricing` it documents the
state, and the invariants prove what the theorems need of it. The specifications
of `Pricing` and `Costing` carry the component's name (`PricingSpec`,
`CostingInit`), so that one module of proofs can extend two components.

Bounds. Leases and backoffs of one or two ticks are enough to let a lease run out
at any point of a request, since a tick may happen between any two steps.
`AttemptCap` makes attempt counters saturate: the row's behaviour depends on the
attempt only through the delay, which is capped in the code as well. Two tabs
and two requests give every pair of racing attempts. The instances of `SyncPush`
have no command that needs another one (`Requires` is empty) and a local record
for each (`Aggregate` is the identity); the proofs cover every choice of both.
Pages of one row out of two give several pages, empty pages and an exhausted
`MaxPullPages`. In `CashShift` one amount is enough for the accounting, because
amounts enter the properties only as a signed sum. In `Refund` a line of two
pieces for 3 units makes the first half round, and payments of 2 and 1 are each
too small for the whole; `MaxVersion` 3 allows a failure, a retry and a resolution
or reversal. In `Opname` six versions allow a session of two products to be
counted, counted again, reviewed and posted; the product that only one session
counts is the one `PostedMatchesShelf` is about. In `Pricing` the second set may
be backdated to a time in the past, start now or be scheduled, relative to the
first, and `MaxServerTime` 2 leaves a tick before and after each; the promotion
covers one tick; the tender is enough for any cart. The run sets the device's clock
back; the proofs cover a clock set to any time. In `Costing` the amounts are chosen
so that no two costs agree by chance and averages need rounding; four movements
allow a sale below zero, two receipts that fill it and a posting, or a return; an
adjustment adds one piece or takes two, which is more than there is, and one may be
under way at a time (`MaxAdjusting`), so that it is overtaken by every other
operation. In `PosSession` the
readings 0, 1 and 3 with tolerance 2 give a clock within tolerance, one set back
too far and one past the end of a grant; two sessions are one cashier before and
after an unlock. `CHECK_DEADLOCK FALSE` is used where the system may stop: all
commands settled, all events of an instance used up. Symmetry is used only in runs
without liveness.

Fairness. `SyncPush` and `ChangeFeed` assume that each tab keeps synchronising,
which the 30 second timer of `PosRuntimeProvider` does, that time passes, that a
fetch ends and that the server works off requests. They also assume that crashes,
failed requests and reloads stop one day; no retry can deliver otherwise; and so
do the recoveries an owner approves by hand. A step that looks like a crash but is
also a regular step is not excluded as a fault. The
safety properties assume none of this.

## Proofs

`SyncPushProofs` proves, for all sets of commands, tabs and requests, all leases,
batch limits and delays:

- `TypeCorrect`, `Delivered` (`ExactlyOnce`), `SyncedCorrect`
  (`SyncedIsAccepted`), `WarningsKept` (`ReviewSurvivesReplay`) as invariants;
- `FinalVerdicts` (`VerdictIsFinal`) as an action property;
- `Implements`: `SyncPush` implements `CommandDelivery`.

The assumption is `SyncPushAssumption`, about the constants alone. None of the
invariants is inductive: a reply in flight could accept a command that was never
executed, or two requests could execute the same one. The inductive invariant
`IInv` adds what the rest of the state knows:

- `EffectOK`: a command has been applied once if its idempotency row is
  committed and never otherwise, and at most one request is `PROCESSING` it, and
  only while no row exists;
- `RowOK`: an accepted row stands for an executed command and carries its
  warnings; a command that took effect was recorded;
- `RunOK`: what a run still has to do was recorded, and the request it awaits is
  about a command of that run;
- `RequestOK`: a reply that says accepted is about an executed command and keeps
  its warnings.

`Invariance` proves `Spec => []IInv`, one step per action; the other theorems
follow from it.

`OpnameProofs` proves, for all sets of sessions, products and movements, all
scopes, quantities and bounds, from `OpnameAssumption`:

- `TypeCorrect`, `BookRight` (`PostedMatchesShelf`) and `BookedAsReviewed`
  (`PostedAsShown`) as invariants;
- `PostedFinal` (`PostedIsFinal`) as an action property.

A posting is right because nothing between the look at the shelf and the posting
changes the difference between shelf and book: a movement takes from both, and
no other session books a variance of a product it does not count. So the
inductive invariant says that every sheet (`SheetOK`) and every undisturbed count
(`ItemOK`) of a session that is not posted shows the present difference. The rest
is about locks and versions: a counting command keeps its sheet and its session
unposted (`CountOK`), an open movement holds only lines of sessions not posted
(`MoveOK`), a session under review is counted completely (`ReviewedOK`), and a
person's version is never a future one (`VersionOK`) and stands for the present
variances if it is the present one (`ShownOK`).

`FiniteFacts` holds what the other proofs share about finite sets: a maximum is
the greatest member, and `SumFunctionOnSet` adds, subtracts, is monotone and
follows an update of the function. These need induction, and the induction theorems of the
library take a predicate as a parameter, which the provers cannot instantiate.
`NaturalsIn` and `FiniteSetIn` therefore state induction with a *set* in place of
the predicate, from the well-foundedness of `<`; `SumsExist` and `SumsAgree` then
show that the function the operator chooses exists and is unique.

`LedgerProofs`, about `CashShift`, from `CashShiftAssumption`: `EveryRowAccountedOnce`
(`EveryRowOnce`), `ExpectedCashFromLedger` (`ExpectedFromLedgerNoReversal`) and
`ClosedShiftIsFinal` (`ClosedIsFinal`). `EveryRowOnce` fails to be inductive
because a transaction decides under the row lock and writes later. `IInv` adds
that no two transactions hold one shift or execute one command (`Exclusive`),
that what a transaction found still holds (`WorkOK`: a movement is late exactly if
its shift is closed, a closing has summed all the rows there are), and that the
snapshot keeps the sum it was closed with (`SnapshotOK`).

`LedgerProofs`, about `Costing`, from `CostingAssumption`, for any purchases,
items, products, quantities and prices: `CostTypes`, `CostSettled` (`CogsSettled`),
`FinalStands` (`FinalCostStands`), `ReviewedPosting` (`PostedAsReviewed`) and
`OneReplacement` (`ReplacedOnce`). `CostInv` relates the books to the movements:

- `BookOK`: the stock of a product is what its movements add up to, so that what
  the code derives from the tail of the ledger is about the present stock;
- `PurchaseOK`: versions of invoices do not run ahead of their purchase, and only
  a posted line has landed;
- `ReadingOK`: what a receipt has read still holds when it commits. The version
  is not compared there, so this rests on the locks, and where there are no rows
  to lock on the stock not being below zero;
- `SeenOK`: what a person has loaded is never newer than the purchase, and is what
  the purchase holds if the versions agree;
- `AdjustingOK`: a place drawn by an adjustment is held empty for it, and two
  adjustments hold two places;
- `MovementsOK`: a sale with a final cost ended at or above zero, unless its
  product is in `overtaken`, and the signs of the movements;
- `ReplacedOK` and `CogsOK`: a pair of a sale and a receipt occurs once, the sale
  dug (unless its product is in `overtaken`), each correction belongs to a pair and
  is measured from the sale's own cost, and a final one exists only for a line that
  has landed.

`OneReplacement` needs `TailOK` as well. A receipt does not ask how much of a sale
was replaced before; it takes the present deficit and looks for the sales that
dug it, counted back from the newest. That gives no unit twice only because the
deficit, together with what a sale has been given, never exceeds what this sale
and later ones dug. A sale digs exactly by how much it deepens the deficit, and
receipts, returns and adjustments that leave the stock at or above zero only fill
it. An adjustment may also take a place before sales that are already there. If it
does, their depths change, and the product is in `overtaken`; if it comes last, it
disturbs none. `FinalStands` and `OneReplacement` hold for adjustments in and out
without a further hypothesis; what they leave out is named by `holes` and
`overtaken`, and is what the code really does (see Findings).

`ChangeFeedProofs`: `OnlyExposedRowsAreLost` (`NoOtherLoss`), `DeviceNeverAhead`
(`NeverAhead`) and `CursorsOnlyAdvance` (`CursorsAdvance`). The idea of `RunOK`:
a change the device misses lies after the cursor of every run under way, and in
the page of a run if it lies before the page's next cursor; a snapshot misses
nothing below its own cursor. `WriterOK` keeps the rows of open transactions apart
from the committed ones.

`SellingProofs`, about `LocalShift`: `ClosingCountsEverySale` (`EverySaleCounted`),
`SalesLieBeforeClosing` (`SaleBeforeClosing`) and `RecordedFactsAreFinal`
(`FactsAreFinal`). What makes the separate transactions safe is that `CLOSING` and
`CLOSED` are never left: `OpOK` says that a completion under way has such a shift
and has all its sales behind it, `ClosedIsFrozen` that a shift with a snapshot is
one.

`SellingProofs`, about `Pricing`, from `PricingAssumption`, for any units, price
sets, offers, starts and number of approvals at a time: `OnePrice`
(`OnePriceInForce`) and `QuotedPrice` (`QuotesPriceInForce`). The versions of a
unit are a chain without gap or overlap whose last one has no end (`RowsOK`). The
next approval keeps that only if the version it closes is the last one. This is
why the invariant adds that a superseded version has ended, and that an active
version with an end has a scheduled one behind it: the approval refuses a unit
with a scheduled version, so the only published one it finds is open-ended.
`OpenOK` says that this is still so when the transaction commits, because no two
open approvals have a unit in common. The proof does not use that `CommitApproval`
checks the constraints of `price_versions`: the lock on the unit and the overlap
check alone keep the chain.

Two more theorems follow a sale: `UnwarnedPrice` (`UnwarnedIsInForce`) and
`SalesStand` (`SaleStands`). `SaleFacts` proves what both need of the promotions,
the device's copy and the recorded sales (`SaleInv`). For the first: the server
looks the version up by the name in the line and warns if it was not in force, so
by `OnePrice` it is the one in force; its tiers are those of the set it was
published with; and of finitely many promotions one comes first, by priority,
benefit, age and identifier in turn. The attempt corrected the property, which used to
count every promotion whose window held the time of the line: when the device's
clock is ahead, that can be one that has not begun for the server, and the server
then rightly knows nothing of it. `PriceInForce` now counts a promotion only
once it has begun by the server's clock.

For `SalesStand`, `StandInv` carries the evidence from the quote to the verdict:
the rows of the device's copy (`CacheOK`), of each cart line (`LineOK`) and of each
recorded sale (`SoldOK`) come from rows the server still has. Rows are never
removed, and their price, tiers, start and unit never change (`Grows`); only an
end may move, which is a warning and no refusal. So the resolver finds on the
server what it found on the device, unless the two clocks differ or two lines of
a unit share a tier, which is what `KnownCause` says; the totals agree because a
sum of differences is the difference of the sums.

`RefundProofs`, for any sale, returns, payments and open transactions:
`NothingReturnedTwice` (`ReturnedWithinSold`), `RefundsStayWithinPayment`
(`RefundWithinPayment`), `LifecycleDecidedOnSeen` (`DecidedOnSeen`),
`DrawerMatchesRefunds` (`CashMatchesRefund`), `NoRowDeadlock` (`RowLocksOrdered`),
`FullReturnGivesLineTotal` and `LineValueNeverExceeded` (`LineValueExact`). The
invariant says of every transaction what its locks guarantee: `OrderOK` (the locks
ahead come after those held in one fixed order), `ReturnOK` (quantities and
values still fit what earlier returns left), `LifecycleOK` (the refund is as it
was seen), `CapacityOK` (who holds a payment has room on it); and `Exclusive`, that
no lock is held twice. The order of the locks gives deadlock freedom: of any set
of transactions take one whose next lock is the latest.

`LineValueNeverExceeded` has a hypothesis, `FinePrices`: `Sold * (Sold - 1) <= 2 *
LineTotal` for each line, in units of the fourth decimal. It is needed: each
partial return is rounded half up on its own, so of four pieces that cost 2
units together three returns of one piece give 1 each, which is 3. A line of
1 rupiah satisfies it up to 141 pieces, a line of n rupiah up to about 141 times
the square root of n. The second half of `LineValueExact`, that a complete return
gives exactly the total, holds without it (`FullReturnGivesLineTotal`).

`PosSessionProofs`, for any users, sessions, clock readings, tolerance and lifetime:
`ProofOutlivesFacts` (`FactsKeepCredential`), `FactsStampedInOrder`
(`StampsInOrder`), `FactsKeepTheirActor` (`ActorKept`) and `LockDropsTheSecret`
(`LockedHoldsNoBearer`). A fact is stamped from the clock of the cache and carries
the loaded grant, and the two may belong to different grants, since a run that
outlives a lock loads a grant without caching it. So the invariant (`StampsOK`)
relates the clock of the cache to the facts of both grants; `ClockOK` says the
same of the copies of the cache that calls under way captured before an `await`
and may put back, and `Unused` that a grant on its way is carried by no fact yet.
All actions but five only move such copies around: `Continues` describes them
once and `StampsContinue` proves the stamps for all of them. `StatusOK` relates
screen and secret, `LeavingOK` says that what sign-out found settled stays
settled.

Only model-checked:

- liveness (`EventuallySettled`, `EventuallyKnown`), which is out of this prover's
  reach;
- the exponential backoff of `RetryPolicy`, and whether the refinement's abstract
  steps are enabled;
- `ValueConserved`: the rounding of averages adds up over the whole history, and
  the bound it stays within is nonlinear in quantities and costs, which none of the
  installed provers handles.

## Findings

| Run | The code | Where it is said otherwise |
|---|---|---|
| `feed_gap` | a change whose sequence was drawn first but committed last is skipped until the next bootstrap | `docs/Kastur_API_Sync_Contract_v1.md:618`: changes during bootstrap are not lost |
| `session_relogin` | an unlock logs in anew; a fact recorded before it carries the grant of the old session, is refused for good when it is sent, and no recovery reopens it | `docs/operations/OFFLINE_SYNC_TROUBLESHOOTING.md:7`: a pending fact is sent after reconnecting; the sign-out message offers Quick Lock instead |

Met while modelling, with a place in a document that says otherwise, and set
apart by the properties rather than shown by a run of their own:

- Push order: `pushPending` goes on after a retryable failure
  (`orchestrator.ts:205`), so a sale can be sent, and finally refused, while its
  shift open waits to be retried. Business rules, domain 10, line 1250: the sync
  engine must be able to order dependent commands.
- Cash reversal: the closing subtracts `CASH_REVERSAL` (`cash.ts:495`), which the
  reversal of a refund records as IN (`returns.ts:1555`). Domain 07, line 1105:
  expected cash is derived from the ledger. `ExpectedFromLedgerNoReversal` is
  about shifts without one.
- Opname draft: the trigger of migration 24 (line 116) marks only sessions that
  are `COUNTING`; goods that move before the first count command leave no recount
  mark. Gap resolution, lines 726 to 732.
- Unpriced receipt: goods received without any known cost enter at no cost, and
  posting adds their value to an average that starts at the landed cost
  (`purchasing.ts:1455`), which counts it twice. Domain 03, lines 87 to 100. The
  instance has an opening cost.
- Hole dug by an adjustment: `adjustInventoryCommand` takes out more than there is
  without a question (`inventory.ts:376`). The tail rule of a receipt
  (`purchasing.ts:534`) attributes the present deficit to the newest sales that ever
  dug, also when receipts have replaced them: sell 2 of 1, receive 2, take out 2,
  receive 2, and the sale is replaced by both receipts. Domain 03, lines 605 to 612,
  and C06 of the cross-domain matrix are about unresolved quantities. `ReplacedOnce`
  and `ValueConserved` set such products apart (`holes`).
- Overtaken adjustment: the movement of an adjustment draws `ledger_sequence`
  (`inventory.ts:349`) before the balance is locked (`inventory.ts:376`), so a sale
  that saw enough stock and is FINAL can lie below zero in the ledger and be
  corrected by the next receipt. Migration 24, line 129, calls the sequence the
  ordering authority of movement snapshots. `FinalCostStands` and `ReplacedOnce` set
  such products apart (`overtaken`).
- Less than one: a sale of half a unit meets no tier and is refused with
  `SALE_PRICE_TIER_MISMATCH` (`sales.ts:794`). Domain 06, lines 269 to 274, sells
  0.5 KG.

Other behaviour of the code that shaped a property or an instance, without a run
of its own:

- A tab whose lease ran out settles a row that another tab has claimed since:
  the owner of a lease is the device. `ExactlyOnce` and `SyncedIsAccepted` hold
  nevertheless, since a reply that says accepted is true whichever attempt it
  answers.
- With two tabs an older bootstrap can be stored under a page in flight, whose
  apply reads the cursor again and skips the difference. `exposed` holds the rows
  this can cost, together with those of `feed_gap`; `NoOtherLoss` shows that no
  other is lost.
- `beginShiftClosing` of a second tab can write CLOSING over a CLOSED shift;
  `FactsAreFinal` and `EverySaleCounted` are about what survives that.
- A late event changes the difference of a closed shift without raising the
  exception that the closing raises.
- A return takes its payment before the external reference, a resolution the
  reference before the payment. Two commands that name the same reference can
  wait for each other until PostgreSQL aborts one, which the API reports as
  retryable. `RowLocksOrdered` excludes every other cycle among the rows of sale,
  shift, payments and refunds. The stock balances of restocked lines are not among
  them: they are locked in the order of the payload (`returns.ts:656`, called from
  1050), so returns of two sales that restock the same products in different orders
  can wait for each other as well.
- Two open counting sessions may share a product and both book its variance;
  `PostedMatchesShelf` is about products that one session counts.
- A sale the device priced by the book is refused for four reasons only
  (`KnownCause`, which `SaleStands` excludes): less than 1 of a unit, one unit on
  two lines with two versions, the two clocks of the device apart, and a fixed
  discount above the price.
- A `SCHEDULED` version never becomes `ACTIVE`; the device sells at it when its
  window opens, and it blocks later approvals of its unit.
- A return into negative stock comes back at the cost of its sale without any
  reconciliation and without a mark for anybody; a shortage that the ledger's sales
  do not account for is handed to manual review. `ValueConserved` leaves out both
  (`exempt`).
- The first two receipts of a product without balance or cost rows lock nothing
  and may overwrite each other's average. The instance has opening stock.
- A receipt does not compare the purchase version and takes a purchase back from
  `READY_TO_POST`; `PostedAsReviewed` holds because the posting compares it. A
  posting whose final value cannot be put on any stock is refused (409).
- An offline unlock after Quick Lock never succeeds: it compares a password with
  a verifier made from the session secret.
- A connect that fails for lack of authority marks the cache for recovery, also
  when another session than the one of the cache caused it.
- Two races remove the proof while a fact is unsent, and `dropped` sets them
  apart: a fact recorded between the outbox check of `signOut` and its end, and a
  sync run whose projection bootstrap ends after a lock
  (`PosRuntimeProvider.tsx:909`); the protocol branch of the same code keeps the
  cache. `signOut` does not cancel a connect under way.
- A run that outlives a lock and unlock sends with the new secret. Before the new
  session is bound to the device this meets `DEVICE_BINDING_REQUIRED`
  (`UNBOUND`), which no recovery reopens either, and a bootstrap of the old session
  may be cached under the new secret.

## Not modelled

The rows of a sale as tables (their effects on cash, stock, cost and price are in
`CashShift`, `Costing` and `Pricing`), return windows and permissions, supplier
master data and multi-line receipts, the back office screens and queries, catalog
writes, the legacy import and the migration runner. Of the POS session: two tabs
that share one cached session, the legacy cache format, and a server without a
signing key. Each device and each product appears alone: nothing in the code
relates two but the order in which a command of several lines locks them.
Cryptography, password hashing, decimal arithmetic beyond rounding,
input validation, rendering and formatting are left out for good: they hold no
protocol state. Request hashing in `executeIdempotent` is left out: a command
identifier stands for its payload, since the device never reuses one for another
payload.

## Plan

1. (done) `RetryPolicy`, `CommandDelivery`, `SyncPush`, `SyncPushProofs`;
   `ChangeFeed`; `CashShift`; `LocalShift`; `Refund`; `Opname`, `OpnameProofs`.
2. (done) `Costing`, `Pricing`, `PosSession`; `ChangeFeed` with two tabs under
   fairness.
3. (done) Proofs for `ChangeFeed`, `CashShift`, `LocalShift`, `Refund`,
   `PosSession` and the price chain of `Pricing`.
4. (done) Proofs for `Costing` but `ValueConserved`, and for the sales of `Pricing`.
