CONSTANTS
  Patches = {p1, p2}
  NoPatch = NoPatch
  Damaged = Damaged
  PatchBudget = 2
  TestBudget = 3
  MaxRevisions = 1
SPECIFICATION FairSpec
INVARIANTS
  EvidenceIsCurrent
  PipelineCompletesResolved
  JournalMatchesStore
PROPERTIES
  CancelIsFinal
  CancelEndsRun
CHECK_DEADLOCK FALSE
