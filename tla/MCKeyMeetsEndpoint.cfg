CONSTANTS
  p1 = p1
  remote = remote
  other = other
  loopback = loopback
  Providers = {p1}
  Targets = {remote, other, loopback}
  NoAuth = {loopback}
  Worlds <- MCWorlds
  NoTarget = NoTarget
  Served = p1
SPECIFICATION HandoffSpec
VIEW MCView
INVARIANTS
  KeyMeetsEndpoint
