CONSTANTS
  MaxPauses = 2
  MaxJunk = 1
  QueueCapacity = 2
  MaxRequests = 4
SPECIFICATION FairSpec
INVARIANTS
  TypeOK
  NoLeakedWorker
  ChannelQuiet
  BeliefIsTrue
PROPERTIES
  NeverRevived
  CallsReturn
  StopReturns
CHECK_DEADLOCK FALSE
