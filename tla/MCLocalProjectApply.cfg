CONSTANTS
  Commits = {c1, c2}
  NoCommit = NoCommit
  Sessions = {s1, s2}
  NoSession = NoSession
  Threads = {t1}
SYMMETRY Symmetry
SPECIFICATION Spec
INVARIANTS
  CompletedHasProof
  ResolvedIsGenuine
  OnlyVerifiedLands
  AppliesOnVerifiedBase
CHECK_DEADLOCK FALSE
