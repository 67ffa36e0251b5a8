CONSTANTS
  Configs <- MCLiveConfigs
SPECIFICATION Spec
INVARIANT
  NothingLeftBeforeStart
