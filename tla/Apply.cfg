SPECIFICATION Spec
CONSTANTS
  Server = {s1, s2}
  Target = {s1}
  Client = {c1, c2}
  Key = {k}
  Holder = {h1, h2}
  Op = {"kWrite", "kDelete", "kRead", "kTryLock", "kUnLock", "kAddServer", "kRemoveServer", "kGetAllServers"}
  Nil = Nil
  Ttl = 1
  MaxTime = 2
  MaxFaults = 1
  MaxTurns = 1
SYMMETRY Symmetry
CHECK_DEADLOCK FALSE
INVARIANTS TypeOK StateFollowsLog PeersFollowMembers ReadIsFresh LockHeldByOne RefusedStaysRefused
