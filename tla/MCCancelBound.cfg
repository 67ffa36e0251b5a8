CONSTANTS
  Configs <- MCLiveWindowsConfigs
SPECIFICATION FairSpec
PROPERTY
  CancelIsBounded
