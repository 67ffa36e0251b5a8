CONSTANTS
  p1 = p1
  p2 = p2
  remote = remote
  other = other
  loopback = loopback
  Providers = {p1, p2}
  Targets = {remote, other, loopback}
  NoAuth = {loopback}
  Worlds <- MCWorlds
  NoTarget = NoTarget
SPECIFICATION Spec
INVARIANTS
  RequestKeepsPair
  ReportIsTrue
  DeletionIsComplete
PROPERTIES
  TargetsFollowRequests
