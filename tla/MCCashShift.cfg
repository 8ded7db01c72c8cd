CONSTANTS
  Shifts = {s1, s2}
  NoShift = NoShift
  Terminals = {t1}
  Terminal <- OneTerminal
  Events = {e1, e2}
  NoEvent = NoEvent
  Workers = {x1, x2}
  Amounts = {1}
  Counts = {0, 1}
  Times = {0, 1}
SPECIFICATION Spec
SYMMETRY Symmetry
CHECK_DEADLOCK FALSE
INVARIANTS EveryRowOnce ExpectedFromLedgerNoReversal
PROPERTIES ClosedIsFinal
