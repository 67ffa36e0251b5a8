CONSTANTS
  MaxPauses = 2
  MaxJunk = 0
  QueueCapacity = 2
  MaxRequests = 5
SPECIFICATION Spec
PROPERTY StatusAfterStepSucceeds
CHECK_DEADLOCK FALSE
