SPECIFICATION FairSpec
CONSTANTS
  Hellos <- MCHellos
  Routes <- MCRoutes
  NoRoute = NoRoute
  BufferSize = 3
INVARIANTS
  StreamIntact
  
  
PROPERTY HelloLoopEnds
CHECK_DEADLOCK FALSE
