CONSTANTS
  Configs <- MCUnicodeConfigs
SPECIFICATION Spec
INVARIANT
  TornTailIsInterrupted
