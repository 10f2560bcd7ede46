SPECIFICATION FairSpliceSpec
CONSTANTS
  MaxSent = 2
  Window = 1
INVARIANT FinFollowsAllData
PROPERTIES
  HalfCloseKeepsOther
  CutEndsSplice
  SilentSpliceEnds
CHECK_DEADLOCK FALSE
