CONSTANT MaxEvents = 7
SPECIFICATION StreamSpec
INVARIANTS
  ValidatorMeetsContract
  CutJournalIsInterrupted
  CompleteJournalHasResult
CHECK_DEADLOCK FALSE
