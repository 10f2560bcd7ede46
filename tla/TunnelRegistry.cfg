SPECIFICATION FairSpec
CONSTANTS
  Enclaves = {e1, e2}
  Sessions = {s1, s2}
  Dials = {d1, d2}
  MaxClock = 1
  None = None
INVARIANTS
  RegistryHoldsServingSessions
  NoOrphanStream
PROPERTIES
  DialsNewestSession
  AbandonedDialsEnd
