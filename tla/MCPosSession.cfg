CONSTANTS
  Users = {u1}
  None = None
  Readings <- MCReadings
  BootReadings <- MCBootReadings
  Tolerance = 2
  Lifetime = 2
  MaxTime = 2
  MaxSessions = 2
  MaxFacts = 2
  MaxLosses = 1
SPECIFICATION Spec
INVARIANTS
  FactsKeepCredential
  StampsInOrder
  ActorKept
  LockedHoldsNoBearer
