SPECIFICATION Spec
CONSTANTS
  s1 = s1
  s2 = s2
  k1 = k1
  None = None
  Streams = {s1, s2}
  Keys = {k1}
  KeyOf <- SharedKey
  Events = {"kill"}
  Sizes = {0, 1, 2}
  MaxQueue = 2
  MaxBytes = 1
  MaxWire = 1
SYMMETRY Symmetry
VIEW View
INVARIANTS
  LiveRelayIsReachable
  QueueBounded
PROPERTY OverflowMeansBehind
CHECK_DEADLOCK FALSE
