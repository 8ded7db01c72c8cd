CONSTANTS
  Writers = {w1, w2}
  Tabs = {t1}
  MaxSequence = 2
  PullLimit = 1
  MaxPullPages = 2
SPECIFICATION Spec
INVARIANTS NoLostChange
