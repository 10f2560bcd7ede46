SPECIFICATION FairSpec
CONSTANTS
  Hosts = {h1, h2}
  Conns = {c1, c2}
  MaxTracked = 2
INVARIANTS
  QuarantineCutsOpenTraffic
  TrackerHoldsOnlyOpenTraffic
PROPERTY QuarantineDrains
