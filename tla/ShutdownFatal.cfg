SPECIFICATION Spec
CONSTANTS
  Conns = {c1, c2, c3}
  Holding = {c2, c3}
  Routed = {c1, c2}
INVARIANT SignalledExitDrains
CHECK_DEADLOCK FALSE
