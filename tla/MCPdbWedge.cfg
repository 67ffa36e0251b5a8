CONSTANTS
  MaxPauses = 1
  MaxJunk = 0
  QueueCapacity = 2
  MaxRequests = 3
SPECIFICATION Spec
INVARIANT WedgesOnlyAfterLadder
CHECK_DEADLOCK FALSE
