CONSTANTS
  Configs <- MCConfigs
SPECIFICATION Spec
INVARIANTS
  JournalNeverMalformed
  EnvelopeMatchesJournal
  CleanupClaimsAreTrue
  CancelledIsDurable
  HistoryAgrees
  WaitSurfacesJournal
  NoWorkerLeft
PROPERTIES
  PostMortemAfterDeath
  ImplementsVerdict
