\* One shift open, two tabs, two requests in flight: every duplicate.
CONSTANTS
  open = open
  alien = alien
  t1 = t1
  t2 = t2
  r1 = r1
  r2 = r2
  NoCommand = NoCommand
  NoRequest = NoRequest
  Commands = {open}
  Tabs = {t1, t2}
  Requests = {r1, r2}
  Requires <- MCRequires
  Aggregate <- MCAggregate
  Granted = {open}
  OutOfScope = {}
  Foreign = {}
  ClaimLimit = 1
  Lease = 1
  AttemptCap = 2
  BackoffDelay <- MCBackoffDelay
SPECIFICATION Spec
SYMMETRY Symmetry
INVARIANTS ExactlyOnce SyncedIsAccepted ReviewSurvivesReplay
PROPERTIES VerdictIsFinal DeliverySpec
CHECK_DEADLOCK FALSE
