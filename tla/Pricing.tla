------------------------------ MODULE Pricing -------------------------------
(***************************************************************************)
(* A selling price from its proposal to the sale that charges it: the back *)
(* office publishes price versions and promotions (pricing.ts), a device   *)
(* quotes from the copy it synchronised last and from its own idea of the  *)
(* time (pricing-cache.ts, resolver.ts, cart.ts), and the server judges    *)
(* the sale when it arrives, perhaps much later (sales.ts).                *)
(*                                                                         *)
(* `serverNow` is the server's clock.  The device's shows serverNow + skew,*)
(* and two estimates of the server's time are made from it: the pricing    *)
(* cache adds the offset measured by the last synchronisation, and the     *)
(* time of a sale counts from the sign-in (trusted-clock.ts).              *)
(*                                                                         *)
(* Quantities are in fractions of a unit: Whole of them make 1.  Amounts   *)
(* are integers.  Effective times are half open; Forever is a NULL end.    *)
(***************************************************************************)
EXTENDS Integers, FiniteSets, FiniteSetsExt, Functions

CONSTANTS
  Units,         \* product units
  Sets,          \* price sets; the version one publishes for a unit has its name
  Promos,        \* promotion ids
  NoPromo,
  UnitsOf,       \* UnitsOf[s]: units with a proposal item in s
  Offer,         \* Offer[s]: final price and tiers of the approval payload
  Deal,          \* Deal[m]: unit, type, value, min, priority and rank of promotion m
  Whole,         \* the quantity 1
  Starts,        \* Starts[s]: effective_from the owner may choose for s
  Windows,       \* [from, to] of a promotion
  Quantities,    \* quantities a cashier enters
  Tenders,       \* amounts of cash handed over
  Jumps,         \* by how much the device's clock may be set
  TrustLimit,    \* largest offset of a trusted clock (five minutes in the code)
  MaxSkew, MaxServerTime, MaxQty, MaxSales

Forever == MaxServerTime + MaxSkew + 2
Instants == 0 .. Forever

Tier == [code : {"RETAIL", "GROSIR", "NONE"}, min : Nat, price : Nat]
Version == [set : Sets, unit : Units, from : Instants, to : Instants, created : Instants,
            status : {"ACTIVE", "SCHEDULED", "SUPERSEDED"}, tiers : SUBSET Tier]
Promotion == [id : Promos, unit : Units, from : Instants, to : Instants, created : Instants,
              type : {"FIXED_PRICE", "PERCENT_DISCOUNT", "FIXED_DISCOUNT"},
              value : Nat, min : Nat, priority : Int, rank : Nat]

ASSUME PricingAssumption ==
  /\ UnitsOf \in [Sets -> (SUBSET Units) \ {{}}]
  /\ \A s \in Sets : /\ Offer[s].price \in Nat /\ Offer[s].tiers \subseteq Tier
                     /\ \A t \in Offer[s].tiers : t.code # "NONE"
  /\ \A s \in Sets : Starts[s] \subseteq 0 .. MaxServerTime + 1
  /\ \A m \in Promos :
       /\ Deal[m].unit \in Units /\ {Deal[m].value, Deal[m].min, Deal[m].rank} \subseteq Nat
       /\ Deal[m].type \in {"FIXED_PRICE", "PERCENT_DISCOUNT", "FIXED_DISCOUNT"}
       /\ Deal[m].priority \in Int
  /\ NoPromo \notin Promos
  /\ \A w \in Windows : w.from \in 0 .. MaxServerTime + 1 /\ w.to \in 0 .. MaxServerTime + 1
  /\ Whole \in Nat \ {0} /\ Quantities \subseteq 1 .. MaxQty /\ Tenders \subseteq Nat
  /\ Jumps \subseteq Int /\ TrustLimit \in Nat
  /\ MaxSkew \in Nat /\ MaxServerTime \in Nat /\ MaxQty \in Nat /\ MaxSales \in Nat

VARIABLES
  serverNow,  \* the server's clock
  sets,       \* pricing.price_sets
  versions,   \* price_versions and their tiers, as committed
  promos,     \* pricing.promotions
  approval,   \* the open approval transaction of each set
  cache,      \* the device's published_retail_prices, promotions and sync_state
  skew,       \* the device's clock is serverNow + skew
  signedIn,   \* the skew at the last sign-in, the anchor of the trusted clock
  estimate,   \* the last time given to an operation
  cart,       \* lines of the cart, each with the pricing context it was added with
  sales       \* sales completed on the device, with the server's verdict

server == <<sets, versions, promos, approval>>
clock == <<skew, signedIn, estimate>>
pricingVars == <<serverNow, server, cache, clock, cart, sales>>

NoApproval == [step |-> "NONE", started |-> 0, from |-> 0, todo |-> {}, old |-> {}, new |-> {}]

Line == [unit : Units, set : Sets, from : Instants, base : Nat, tiers : SUBSET Tier,
         promos : SUBSET Promotion, resolved : Int, status : {"TRUSTED", "CLOCK_UNTRUSTED"},
         qty : 1 .. MaxQty, at : Instants]

PricingTypeOK ==
  /\ serverNow \in 0 .. MaxServerTime
  /\ sets \in [Sets -> [status : {"NONE", "DRAFT", "PENDING_APPROVAL", "ACTIVE", "SCHEDULED"},
                        version : 0 .. 3]]
  /\ versions \subseteq Version
  /\ promos \subseteq Promotion
  /\ approval \in [Sets -> [step : {"NONE", "OPEN"}, started : Instants, from : Instants,
                            todo : SUBSET Units, old : SUBSET Version, new : SUBSET Version]]
  /\ cache.prices \subseteq Version /\ cache.promos \subseteq Promotion
  /\ cache.time \in Instants /\ cache.offset \in Int
  /\ skew \in -MaxSkew .. MaxSkew /\ signedIn \in -MaxSkew .. MaxSkew
  /\ estimate \in Int
  /\ cart \subseteq Line
  /\ \A k, l \in cart : k.unit = l.unit /\ k.set = l.set => k = l
  /\ \A i \in DOMAIN sales : sales[i].verdict \in {"PENDING", "ACCEPTED", "STALE", "REFUSED"}
  /\ DOMAIN sales = 1 .. Cardinality(DOMAIN sales) /\ Cardinality(DOMAIN sales) <= MaxSales

(* The device has just been bootstrapped, before any price was published.  *)
PricingInit ==
  /\ serverNow = 0
  /\ sets = [s \in Sets |-> [status |-> "NONE", version |-> 0]]
  /\ versions = {} /\ promos = {}
  /\ approval = [s \in Sets |-> NoApproval]
  /\ cache = [prices |-> {}, promos |-> {}, time |-> 0, offset |-> 0]
  /\ skew = 0 /\ signedIn = 0 /\ estimate = 0
  /\ cart = {} /\ sales = <<>>

InWindow(x, t) == x.from <= t /\ t < x.to

-----------------------------------------------------------------------------
(* The resolver, which the device and the server share.                    *)

NoTier == [code |-> "NONE", min |-> 0, price |-> 0]

(* resolveTier: the tier with the highest minimum the quantity reaches.    *)
ResolveTier(tiers, q) ==
  LET reached == {t \in tiers : t.min <= q} IN
  IF reached = {} THEN NoTier ELSE CHOOSE t \in reached : \A r \in reached : r.min <= t.min

(* The final unit price under a promotion; a percentage is rounded half up.*)
PromotionPrice(p, price) ==
  CASE p.type = "FIXED_PRICE" -> p.value
    [] p.type = "FIXED_DISCOUNT" -> price - p.value
    [] p.type = "PERCENT_DISCOUNT" -> (2 * price * (100 - p.value) + 100) \div 200

Concerns(p, q, t) == p.min <= q /\ InWindow(p, t)

(* A fixed discount above the unit price makes the resolution throw.       *)
INVALID_PROMOTION(ps, price, q, t) ==
  \E p \in ps : Concerns(p, q, t) /\ p.type = "FIXED_DISCOUNT" /\ p.value > price

PromotionCandidates(ps, price, q, t) ==
  {p \in ps : Concerns(p, q, t) /\ PromotionPrice(p, price) < price}

(* comparePromotions: priority, then benefit, then age, then id.           *)
ComparePromotions(a, b, price) ==
  LET benefit(p) == price - PromotionPrice(p, price) IN
  \/ a.priority > b.priority
  \/ /\ a.priority = b.priority
     /\ \/ benefit(a) > benefit(b)
        \/ /\ benefit(a) = benefit(b)
           /\ a.created < b.created \/ (a.created = b.created /\ a.rank <= b.rank)

ResolvePromotion(ps, price, q, t) ==
  LET candidates == PromotionCandidates(ps, price, q, t)
      best == CHOOSE p \in candidates : \A r \in candidates : ComparePromotions(p, r, price) IN
  IF candidates = {} THEN [id |-> NoPromo, discount |-> 0]
  ELSE [id |-> best.id, discount |-> price - PromotionPrice(best, price)]

(* resolveOfflineUnitPrice: without a tier the base price counts; with an  *)
(* untrusted clock no promotion applies.                                   *)
Resolution(base, tiers, ps, q, t, status) ==
  LET tier == ResolveTier(tiers, q)
      price == IF tier = NoTier THEN base ELSE tier.price
      live == IF status = "TRUSTED" THEN ps ELSE {}
      promotion == ResolvePromotion(live, price, q, t) IN
  [tier |-> tier, price |-> price, promotion |-> promotion.id, discount |-> promotion.discount,
   valid |-> IF INVALID_PROMOTION(live, price, q, t) THEN "NO" ELSE "YES"]

-----------------------------------------------------------------------------
(* Publication.  A command that names another version of the set than the  *)
(* stored one is refused and changes nothing.                              *)

CreateProposal(s) ==
  /\ sets[s].status = "NONE"
  /\ sets' = [sets EXCEPT ![s] = [status |-> "DRAFT", version |-> 1]]
  /\ UNCHANGED <<serverNow, versions, promos, approval, cache, clock, cart, sales>>

SubmitProposal(s) ==
  /\ sets[s].status = "DRAFT" /\ approval[s] = NoApproval
  /\ sets' = [sets EXCEPT ![s] = [status |-> "PENDING_APPROVAL", version |-> @.version + 1]]
  /\ UNCHANGED <<serverNow, versions, promos, approval, cache, clock, cart, sales>>

(* readApprovedItem adds the RETAIL tier when the payload has none, and    *)
(* refuses equal codes or minima and a RETAIL tier other than the price.   *)
ApprovedTiers(offer) ==
  IF \E t \in offer.tiers : t.code = "RETAIL" THEN offer.tiers
  ELSE offer.tiers \cup {[code |-> "RETAIL", min |-> Whole, price |-> offer.price]}

ValidTiers(offer) ==
  LET tiers == ApprovedTiers(offer) IN
  /\ \A t, r \in tiers : t.code = r.code \/ t.min = r.min => t = r
  /\ \A t \in tiers : t.code = "RETAIL" => t.min = Whole /\ t.price = offer.price

(* approvePriceProposalCommand opens its transaction and locks the set;    *)
(* CURRENT_TIMESTAMP is the time of that.  The owner may approve only some *)
(* of the items and choose any start.                                      *)
BeginApproval(s) ==
  /\ sets[s].status \in {"DRAFT", "PENDING_APPROVAL"} /\ approval[s] = NoApproval
  /\ ValidTiers(Offer[s])
  /\ \E from \in Starts[s], units \in (SUBSET UnitsOf[s]) \ {{}} :
       approval' = [approval EXCEPT ![s] =
         [NoApproval EXCEPT !.step = "OPEN", !.started = serverNow, !.from = from, !.todo = units]]
  /\ UNCHANGED <<serverNow, sets, versions, promos, cache, clock, cart, sales>>

Published(rows, u) == {v \in rows : v.unit = u /\ v.status \in {"ACTIVE", "SCHEDULED"}}

(* lockPricingUnit: the advisory lock is held to the end of a transaction. *)
UnitFree(s, u) == \A t \in Sets \ {s} : \A v \in approval[t].new : v.unit # u

PRICE_VERSION_OVERLAP(s, u) ==
  \E v \in Published(versions, u) : v.status = "SCHEDULED" \/ v.from >= approval[s].from

NewVersion(s, u) ==
  LET a == approval[s] IN
  [set |-> s, unit |-> u, from |-> a.from, to |-> Forever, created |-> a.started,
   status |-> IF a.from <= a.started THEN "ACTIVE" ELSE "SCHEDULED",
   tiers |-> ApprovedTiers(Offer[s])]

(* Faulty: the version in force is closed at the time of the approval.     *)
ClosedAtApproval(v, a) ==
  [v EXCEPT !.to = IF a.from <= a.started THEN a.started ELSE a.from,
            !.status = IF a.from <= a.started THEN "SUPERSEDED" ELSE @]

(* The version in force ends where the new one starts.                     *)
Closed(v, a) ==
  [v EXCEPT !.to = a.from, !.status = IF a.from <= a.started THEN "SUPERSEDED" ELSE @]

(* One round of the loop over the items: an overlap fails the command.     *)
PublishItem(s, u) ==
  LET a == approval[s] IN
  /\ a.step = "OPEN" /\ u \in a.todo /\ UnitFree(s, u)
  /\ approval' = [approval EXCEPT ![s] =
       IF PRICE_VERSION_OVERLAP(s, u) THEN NoApproval
       ELSE [a EXCEPT !.todo = a.todo \ {u}, !.old = a.old \cup Published(versions, u),
                      !.new = a.new \cup {NewVersion(s, u)}]]
  /\ UNCHANGED <<serverNow, sets, versions, promos, cache, clock, cart, sales>>

(* The exclusion constraint, the unique index and the interval check of    *)
(* price_versions.                                                         *)
ConstraintsHold(rows) ==
  /\ \A u \in Units : \A v, w \in Published(rows, u) :
       v # w => v.to <= w.from \/ w.to <= v.from
  /\ \A u \in Units : Cardinality({v \in Published(rows, u) : v.status = "ACTIVE"}) <= 1
  /\ \A v \in rows : v.from < v.to

CommitApproval(s) ==
  LET a == approval[s]
      rows == (versions \ a.old) \cup {Closed(v, a) : v \in a.old} \cup a.new IN
  /\ a.step = "OPEN" /\ a.todo = {}
  /\ approval' = [approval EXCEPT ![s] = NoApproval]
  /\ IF ConstraintsHold(rows)
       THEN /\ versions' = rows
            /\ sets' = [sets EXCEPT ![s] =
                 [status |-> IF a.from <= a.started THEN "ACTIVE" ELSE "SCHEDULED",
                  version |-> @.version + 1]]
       ELSE UNCHANGED <<versions, sets>>
  /\ UNCHANGED <<serverNow, promos, cache, clock, cart, sales>>

(* The connection is lost, or the database picks the transaction as the    *)
(* victim of a deadlock over two units.                                    *)
AbortApproval(s) ==
  /\ approval[s].step = "OPEN"
  /\ approval' = [approval EXCEPT ![s] = NoApproval]
  /\ UNCHANGED <<serverNow, sets, versions, promos, cache, clock, cart, sales>>

(* publishPromotionCommand: the window must be one and not be over.  The   *)
(* value is not compared with any price.                                   *)
PublishPromotion(m) ==
  /\ \A p \in promos : p.id # m
  /\ Deal[m].type = "PERCENT_DISCOUNT" => Deal[m].value <= 100
  /\ \E w \in Windows :
       /\ w.from < w.to /\ serverNow < w.to
       /\ promos' = promos \cup
            {[id |-> m, unit |-> Deal[m].unit, from |-> w.from, to |-> w.to, created |-> serverNow,
              type |-> Deal[m].type, value |-> Deal[m].value, min |-> Deal[m].min,
              priority |-> Deal[m].priority, rank |-> Deal[m].rank]}
  /\ UNCHANGED <<serverNow, sets, versions, approval, cache, clock, cart, sales>>

-----------------------------------------------------------------------------
(* The device.                                                             *)

(* Pull sends every row that changed; bootstrap only rows not yet ended.   *)
Pulled == [prices |-> versions, promos |-> promos, time |-> serverNow, offset |-> -skew]

Bootstrapped ==
  [Pulled EXCEPT !.prices = {v \in @ : v.status \in {"ACTIVE", "SCHEDULED"} /\ serverNow < v.to},
                 !.promos = {p \in @ : serverNow < p.to}]

(* Bound: a device that has made its last sale does nothing more.          *)
Selling == Cardinality(DOMAIN sales) < MaxSales

(* A synchronisation: the published rows and the offset of the clock.      *)
Synchronise ==
  /\ Selling /\ cache' = Pulled /\ cache' # cache
  /\ UNCHANGED <<serverNow, server, clock, cart, sales>>

(* connect: a new offline authorization is the new reference of the        *)
(* trusted clock, and the projection is loaded with it.                    *)
SignIn ==
  /\ Selling /\ signedIn' = skew /\ estimate' = serverNow
  /\ cache' = Bootstrapped
  /\ <<signedIn, estimate, cache>>' # <<signedIn, estimate, cache>>
  /\ UNCHANGED <<serverNow, server, skew, cart, sales>>

(* getPricingTimeContext                                                   *)
ClockStatus ==
  IF cache.offset \in -TrustLimit .. TrustLimit THEN "TRUSTED" ELSE "CLOCK_UNTRUSTED"

PricingTime ==
  IF ClockStatus = "TRUSTED" THEN serverNow + skew + cache.offset ELSE cache.time

(* getOperationTimestamp: never before the last one.                       *)
OperationTime == Max({estimate, serverNow + skew - signedIn})

BaseOf(v) == (CHOOSE t \in v.tiers : t.code = "RETAIL").price

(* Faulty: a version the server calls SCHEDULED is not for sale.           *)
ForSaleActive(v) == v.status = "ACTIVE"

(* The statuses the device sells at; nothing turns SCHEDULED into ACTIVE.  *)
ForSale(v) == v.status \in {"ACTIVE", "SCHEDULED"}

(* getPublishedRetailPrice: the latest version in force at the estimate.   *)
Quotable(u) == {v \in cache.prices : v.unit = u /\ ForSale(v) /\ InWindow(v, PricingTime)}
PublishedRetailPrice(u) ==
  CHOOSE v \in Quotable(u) : \A w \in Quotable(u) : w.from <= v.from

(* resolveSellableUnit, by barcode, SKU or search: what a new line keeps.  *)
Lookup(u, q) ==
  LET v == PublishedRetailPrice(u) IN
  [unit |-> u, set |-> v.set, from |-> v.from, base |-> BaseOf(v), tiers |-> v.tiers,
   promos |-> {p \in cache.promos : p.unit = u /\ InWindow(p, PricingTime)},
   resolved |-> PricingTime, status |-> ClockStatus, qty |-> q, at |-> serverNow]

Quote(l) == Resolution(l.base, l.tiers, l.promos, l.qty, l.resolved, l.status)

(* setLineQuantity: the line is resolved again in its own context.         *)
WithQuantity(l, q) == [l EXCEPT !.qty = q]

(* generateLineKey                                                         *)
SameLine(l, found) == l.unit = found.unit /\ l.set = found.set

(* addItem: a line with the same unit and version grows, and keeps the     *)
(* context it has; any other starts with the context of now.  A resolution *)
(* that throws leaves the cart as it is.                                   *)
AddItem(u, q) ==
  /\ Selling /\ Quotable(u) # {}
  /\ LET found == Lookup(u, q)
         same == {l \in cart : SameLine(l, found)}
         added == IF same = {} THEN {found} ELSE {WithQuantity(l, l.qty + q) : l \in same} IN
     /\ \A l \in added : l.qty <= MaxQty /\ Quote(l).valid = "YES"
     /\ cart' = (cart \ same) \cup added
  /\ UNCHANGED <<serverNow, server, cache, clock, sales>>

SetLineQuantity(l, q) ==
  /\ q # l.qty /\ Quote(WithQuantity(l, q)).valid = "YES"
  /\ cart' = (cart \ {l}) \cup {WithQuantity(l, q)}
  /\ UNCHANGED <<serverNow, server, cache, clock, sales>>

RemoveLine(l) ==
  /\ cart' = cart \ {l}
  /\ UNCHANGED <<serverNow, server, cache, clock, sales>>

(* The pricing layers of a transaction item.                               *)
Item(l) ==
  LET quote == Quote(l) IN
  [unit |-> l.unit, set |-> l.set, from |-> l.from, base |-> l.base, qty |-> l.qty,
   tier |-> quote.tier, price |-> quote.price, promotion |-> quote.promotion,
   discount |-> quote.discount, final |-> quote.price - quote.discount,
   resolved |-> l.resolved, status |-> l.status, at |-> l.at]

Subtotal(items) == SumFunctionOnSet([i \in items |-> i.price * i.qty], items)
PromotionTotal(items) == SumFunctionOnSet([i \in items |-> i.discount * i.qty], items)
FinalTotal(items) == SumFunctionOnSet([i \in items |-> i.final * i.qty], items)

(* What completeSale checks of every line before it writes anything.       *)
LayersSound(i) ==
  /\ 0 <= i.discount /\ i.discount <= i.price /\ i.final = i.price - i.discount
  /\ i.tier # NoTier => i.tier.min <= i.qty
  /\ i.promotion = NoPromo => i.discount = 0

(* completeSale, with the transaction, its items, the payment, the stock   *)
(* and cash movements and the outbox row in one IndexedDB transaction; the *)
(* screen then empties the cart.                                           *)
CompleteSale(tender) ==
  LET items == {Item(l) : l \in cart}
      total == FinalTotal(items) IN
  /\ Selling /\ cart # {}
  /\ \A i \in items : LayersSound(i)
  /\ tender >= total
  /\ sales' = [i \in 1 .. Cardinality(DOMAIN sales) + 1 |->
       IF i \in DOMAIN sales THEN sales[i]
       ELSE [items |-> items, occurred |-> OperationTime, at |-> serverNow,
             subtotal |-> Subtotal(items), promotion |-> PromotionTotal(items),
             total |-> total, tendered |-> tender, change |-> tender - total,
             verdict |-> "PENDING"]]
  /\ estimate' = OperationTime
  /\ cart' = {}
  /\ UNCHANGED <<serverNow, server, cache, skew, signedIn>>

(* Time passes, or the device's clock is set.  A jump that the trusted     *)
(* clock does not tolerate locks the device (PosSession).                  *)
ServerTick ==
  /\ serverNow < MaxServerTime /\ serverNow' = serverNow + 1
  /\ UNCHANGED <<server, cache, clock, cart, sales>>

SetClock(d) ==
  /\ Selling /\ skew + d \in -MaxSkew .. MaxSkew /\ skew' = skew + d
  /\ UNCHANGED <<serverNow, server, cache, signedIn, estimate, cart, sales>>

-----------------------------------------------------------------------------
(* The server judges a sale.                                               *)

(* The readers of the payload: something sold, positive quantities, no     *)
(* negative amount, and each line charged at its final unit price.         *)
ItemSound(i) ==
  i.qty > 0 /\ {i.base, i.price, i.discount, i.final} \subseteq Nat

PayloadSound(sale) ==
  /\ sale.items # {} /\ \A i \in sale.items : ItemSound(i)
  /\ {sale.subtotal, sale.promotion, sale.total, sale.tendered, sale.change} \subseteq Nat

(* assertAggregateMath                                                     *)
AggregateMath(sale) ==
  /\ \A i \in sale.items : i.price - i.discount = i.final
  /\ sale.subtotal = Subtotal(sale.items)
  /\ sale.promotion = PromotionTotal(sale.items)
  /\ sale.total = FinalTotal(sale.items) /\ sale.total = sale.subtotal - sale.promotion
  /\ sale.tendered >= sale.total /\ sale.change = sale.tendered - sale.total

Named(i) == {v \in versions : v.set = i.set /\ v.unit = i.unit}

(* The version exists, started by then and by now, was created by then,    *)
(* and has the base price and start of the snapshot.                       *)
VersionSound(sale, i) ==
  \E v \in Named(i) :
    /\ v.from <= sale.occurred /\ v.from <= serverNow /\ v.created <= sale.occurred
    /\ v.from = i.from /\ BaseOf(v) = i.base

(* Faulty: only a version that was superseded without an end is stale.     *)
VersionStaleNoEnd(sale, i) == \E v \in Named(i) : v.status = "SUPERSEDED" /\ v.to = Forever

VersionStale(sale, i) ==
  \E v \in Named(i) : sale.occurred >= v.to \/ (v.status = "SUPERSEDED" /\ v.to = Forever)

(* quantityByUnit: lines of one unit count together.                       *)
UnitQuantity(sale, i) ==
  SumFunctionOnSet([j \in sale.items |-> j.qty], {j \in sale.items : j.unit = i.unit})

(* Faulty: promotions are those at the completion of the sale.             *)
EligibleAtCompletion(sale, i, t) ==
  {p \in promos : /\ p.unit = i.unit /\ p.from <= serverNow /\ p.created <= sale.occurred
                  /\ InWindow(p, sale.occurred)}

(* Promotions known and running at time t, of those that have started.     *)
Eligible(sale, i, t) ==
  {p \in promos : p.unit = i.unit /\ p.from <= serverNow /\ p.created <= t /\ InWindow(p, t)}

Authoritative(sale, i, ps, t, status) ==
  LET v == CHOOSE v \in Named(i) : TRUE IN
  Resolution(BaseOf(v), v.tiers, ps, UnitQuantity(sale, i), t, status)

(* The tier of the snapshot is the authoritative one; there must be one.   *)
TierSound(sale, i) ==
  LET own == Authoritative(sale, i, Eligible(sale, i, i.resolved), i.resolved, i.status) IN
  own.valid = "YES" /\ own.tier # NoTier /\ own.tier = i.tier /\ own.price = i.price

(* A promotion of the snapshot ran when the price was resolved and gives   *)
(* the discount of the snapshot; the sale can be resolved at completion.   *)
PromotionSound(sale, i) ==
  \/ i.promotion = NoPromo /\ i.discount = 0
  \/ \E p \in Eligible(sale, i, i.resolved) :
       /\ p.id = i.promotion
       /\ LET alone == Authoritative(sale, i, {p}, i.resolved, i.status) IN
          alone.promotion = p.id /\ alone.discount = i.discount
       /\ Authoritative(sale, i, Eligible(sale, i, sale.occurred), sale.occurred, "TRUSTED").valid
            = "YES"

PromotionStale(sale, i) ==
  \/ Authoritative(sale, i, Eligible(sale, i, i.resolved), i.resolved, i.status).promotion
       # i.promotion
  \/ /\ i.promotion # NoPromo
     /\ Authoritative(sale, i, Eligible(sale, i, sale.occurred), sale.occurred, "TRUSTED").promotion
          # i.promotion

(* validateAuthoritativePricing                                            *)
Sound(sale) ==
  /\ PayloadSound(sale) /\ AggregateMath(sale)
  /\ \A i \in sale.items :
       /\ VersionSound(sale, i) /\ i.resolved <= sale.occurred
       /\ TierSound(sale, i) /\ PromotionSound(sale, i)

Stale(sale) ==
  \E i \in sale.items : VersionStale(sale, i) \/ PromotionStale(sale, i)

(* The push of a sale: refused with 409, accepted with                     *)
(* STALE_PRICING_EXCEPTION, or accepted.                                   *)
PushSale(n) ==
  /\ sales[n].verdict = "PENDING"
  /\ sales' = [sales EXCEPT ![n].verdict =
       CASE ~Sound(sales[n]) -> "REFUSED"
         [] Sound(sales[n]) /\ Stale(sales[n]) -> "STALE"
         [] OTHER -> "ACCEPTED"]
  /\ UNCHANGED <<serverNow, server, cache, clock, cart>>

-----------------------------------------------------------------------------
PricingNext ==
  \/ \E s \in Sets :
       \/ CreateProposal(s) \/ SubmitProposal(s) \/ BeginApproval(s)
       \/ \E u \in Units : PublishItem(s, u)
       \/ CommitApproval(s) \/ AbortApproval(s)
  \/ \E m \in Promos : PublishPromotion(m)
  \/ Synchronise \/ SignIn
  \/ \E u \in Units, q \in Quantities : AddItem(u, q)
  \/ \E l \in cart : RemoveLine(l) \/ \E q \in Quantities : SetLineQuantity(l, q)
  \/ \E tender \in Tenders : CompleteSale(tender)
  \/ \E n \in DOMAIN sales : PushSale(n)
  \/ ServerTick \/ \E d \in Jumps : SetClock(d)

PricingSpec == PricingInit /\ [][PricingNext]_pricingVars

-----------------------------------------------------------------------------
(* Correctness.                                                            *)

(* At any time at most one version of a unit is in force, and from the     *)
(* start of the first there is always one: whatever the order of           *)
(* concurrent approvals, backdated or scheduled, they chain up.            *)
OnePriceInForce ==
  \A u \in Units :
    LET chain == {v \in versions : v.unit = u} IN
    \A t \in Instants :
      (\E v \in chain : v.from <= t) /\ t < Forever
        => Cardinality({v \in chain : InWindow(v, t)}) = 1

(* A device that has every published row and the right time quotes the     *)
(* version that is in force on the server, scheduled ones included from    *)
(* the moment they start.                                                  *)
QuotesPriceInForce ==
  cache \in {Pulled, Bootstrapped} /\ PricingTime = serverNow
    => \A u \in Units : Quotable(u) = {v \in versions : v.unit = u /\ InWindow(v, serverNow)}

(* What line i of a sale that took place at sale.occurred costs: by the    *)
(* version in force then, the tier of all lines of the unit together, and  *)
(* the promotion that comes first among those published and running when   *)
(* the line was priced.  One that has not begun by the server's clock is   *)
(* not running, whatever the device's clock said.                          *)
PriceInForce(sale, i) ==
  LET qty == UnitQuantity(sale, i)
      v == CHOOSE v \in versions : v.unit = i.unit /\ InWindow(v, sale.occurred)
      tier == CHOOSE t \in v.tiers :
                t.min <= qty /\ \A r \in v.tiers : r.min <= qty => r.min <= t.min
      running == IF i.status # "TRUSTED" THEN {} ELSE
        {p \in promos : /\ p.unit = i.unit /\ p.created <= i.resolved /\ p.from <= serverNow
                        /\ InWindow(p, i.resolved) /\ p.min <= qty
                        /\ PromotionPrice(p, tier.price) < tier.price}
      first == CHOOSE p \in running : \A r \in running : ComparePromotions(p, r, tier.price) IN
  IF running = {} THEN tier.price ELSE PromotionPrice(first, tier.price)

(* A sale accepted without STALE_PRICING_EXCEPTION was charged what the    *)
(* server has on record as in force.                                       *)
UnwarnedIsInForce ==
  [][\A n \in DOMAIN sales :
       sales[n].verdict = "PENDING" /\ sales'[n].verdict = "ACCEPTED" =>
         \A i \in sales[n].items : i.final = PriceInForce(sales[n], i)]_pricingVars

(* Reasons for which the server refuses a sale the device priced by the    *)
(* book: less than 1 of a unit, a unit on two lines with two versions, a   *)
(* device whose two ideas of the time were wrong, and a promotion that     *)
(* takes off more than the price.                                          *)
KnownCause(sale) ==
  \/ \E i \in sale.items : i.qty < Whole
  \/ \E i, j \in sale.items : i # j /\ i.unit = j.unit
  \/ sale.occurred # sale.at
  \/ \E i \in sale.items : i.status = "TRUSTED" /\ i.resolved # i.at
  \/ \E p \in promos, i \in sale.items :
       p.unit = i.unit /\ p.type = "FIXED_DISCOUNT" /\ p.value > i.price

(* Nothing else refuses a sale: prices superseded, backdated or scheduled  *)
(* between the quote, the sale and its arrival, promotions that start, end *)
(* or appear meanwhile, and any time spent offline at most add a warning.  *)
SaleStands ==
  \A n \in DOMAIN sales : sales[n].verdict = "REFUSED" => KnownCause(sales[n])

=============================================================================
