CONSTANTS
  Shifts = {s1, s2}
  NoShift = NoShift
  Events = {e1, e2}
  NoEvent = NoEvent
  Tabs = {t1, t2}
  Counts = {c1}
  NoCount = NoCount
  MaxTime = 2
  MaxClosings = 2
SPECIFICATION Spec
SYMMETRY Symmetry
CHECK_DEADLOCK FALSE
INVARIANTS EverySaleCounted SaleBeforeClosing
PROPERTIES FactsAreFinal
