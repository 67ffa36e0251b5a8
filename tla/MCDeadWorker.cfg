CONSTANTS
  Configs <- MCLiveConfigs
SPECIFICATION FairSpec
PROPERTY
  DeadWorkerIsNoticed
