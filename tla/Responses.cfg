SPECIFICATION FairSpec
CONSTANTS
  MaxRequests = 2
  MaxBody = 2
  Requests <- MCRequests
  Replies <- MCReplies
INVARIANTS
  ClientStaysInStep
  CompleteIsWhole
  NothingHeldBack
  DeadlineStaysWithResponse
  
PROPERTY ClientIsReleased
CHECK_DEADLOCK FALSE
