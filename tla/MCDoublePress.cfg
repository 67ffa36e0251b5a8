CONSTANTS
  Commits = {c1, c2}
  NoCommit = NoCommit
  Sessions = {s1}
  NoSession = NoSession
  Threads = {t1, t2}
SYMMETRY Symmetry
SPECIFICATION Spec
INVARIANTS
  CompletedHasProof
  ResolvedIsGenuine
  OnlyVerifiedLands
  AppliesOnVerifiedBase
CHECK_DEADLOCK FALSE
