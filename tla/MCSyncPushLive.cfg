\* Liveness: two tabs, a command and a row that belongs to another device.
CONSTANTS
  open = open
  alien = alien
  t1 = t1
  t2 = t2
  r1 = r1
  r2 = r2
  NoCommand = NoCommand
  NoRequest = NoRequest
  Commands = {open, alien}
  Tabs = {t1, t2}
  Requests = {r1}
  Requires <- MCRequires
  Aggregate <- MCAggregate
  Granted = {open}
  OutOfScope = {}
  Foreign = {alien}
  ClaimLimit = 2
  Lease = 1
  AttemptCap = 1
  BackoffDelay <- MCBackoffDelay
SPECIFICATION FairSpec
PROPERTIES EventuallySettled
CHECK_DEADLOCK FALSE
