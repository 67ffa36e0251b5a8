CONSTANTS
  Configs <- MCFairConfigs
SPECIFICATION FairSpec
PROPERTIES
  SessionEnds
