SPECIFICATION FairSpec
CONSTANTS
  Conns = {c1, c2, c3}
  Holding = {c2, c3}
  Routed = {c1, c2}
INVARIANT CleanExitDrains
PROPERTIES
  SignalEndsProcess
  QuarantineReachesTraffic
CHECK_DEADLOCK FALSE
