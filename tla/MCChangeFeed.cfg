CONSTANTS
  Writers = {w1, w2}
  Tabs = {t1, t2}
  MaxSequence = 2
  PullLimit = 1
  MaxPullPages = 2
SPECIFICATION FairSpec
INVARIANTS NeverAhead NoOtherLoss
PROPERTIES CursorsAdvance EventuallyKnown
