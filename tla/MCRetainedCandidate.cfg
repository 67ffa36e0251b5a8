CONSTANTS
  Patches = {p1, p2}
  NoPatch = NoPatch
  Damaged = Damaged
  PatchBudget = 2
  TestBudget = 3
  MaxRevisions = 0
SPECIFICATION Spec
INVARIANT RetainedCandidateIsActive
CHECK_DEADLOCK FALSE
