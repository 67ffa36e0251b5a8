CONSTANTS
  f1 = f1
  f2 = f2
  f3 = f3
  p1 = p1
  p2 = p2
  Files <- MCFiles
  Patches <- MCPatches
  Touches <- MCTouches
  NoPatch = NoPatch
  Damaged = Damaged
SPECIFICATION Spec
INVARIANTS
  TreeIsExact
PROPERTIES
  RevertIsComplete
  ImplementsStore
