CONSTANTS
  s1 = s1
  s2 = s2
  p1 = p1
  p2 = p2
  Sessions = {s1, s2}
  Products = {p1, p2}
  NoProduct = NoProduct
  Scope <- SharedScope
  Workers = {x1}
  Deltas = {1}
  Surplus = {1}
  MaxMoves = 1
  MaxVersion = 6
SPECIFICATION Spec
SYMMETRY Symmetry
CHECK_DEADLOCK FALSE
INVARIANTS TypeOK PostedMatchesShelf PostedAsShown
PROPERTIES PostedIsFinal
