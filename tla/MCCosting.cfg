CONSTANTS
  p1 = p1
  p2 = p2
  i1 = i1
  i2 = i2
  x1 = x1
  Purchases = {p1, p2}
  Items = {i1, i2}
  Products = {x1}
  NoCost = NoCost
  Of <- OneLineEach
  Product <- OneProduct
  Expected <- OneAndTwo
  Agreed <- SecondUnpriced
  Opening <- OneInStock
  OpeningCost <- KnownCost
  Lots <- HalfFree
  Prices = {1800}
  Charges = {700}
  SaleQty = {2}
  Adjustments <- OneInTwoOut
  MaxAdjusting = 1
  MaxLedger = 4
  MaxVersion = 5
SPECIFICATION CostingSpec
CHECK_DEADLOCK FALSE
INVARIANTS ValueConserved ReplacedOnce CogsSettled FinalCostStands
PROPERTIES PostedAsReviewed
