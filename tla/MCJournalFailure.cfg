CONSTANTS
  Configs <- MCConfigs
SPECIFICATION Spec
INVARIANT
  JournalFailureStaysFailed
