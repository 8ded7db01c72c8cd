CONSTANTS
  u1 = u1
  s1 = s1
  s2 = s2
  m1 = m1
  Units = {u1}
  Sets = {s1, s2}
  Promos = {m1}
  NoPromo = NoPromo
  UnitsOf <- AllUnits
  Offer <- Offers
  Deal <- Percent
  Whole = 2
  Starts <- Spread
  Windows <- OneTick
  Quantities = {2}
  Tenders = {40}
  Jumps <- OneBack
  TrustLimit = 1
  MaxSkew = 1
  MaxServerTime = 2
  MaxQty = 4
  MaxSales = 1
SPECIFICATION PricingSpec
CHECK_DEADLOCK FALSE
INVARIANTS OnePriceInForce QuotesPriceInForce SaleStands
PROPERTIES UnwarnedIsInForce
