CONSTANT MaxCommands = 3
SPECIFICATION FairSpec
INVARIANTS
  NoGroupOutlives
  OrphanOnlyInLaunch
PROPERTIES
  CancelEndsCommand
CHECK_DEADLOCK FALSE
