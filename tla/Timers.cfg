SPECIFICATION Spec
CONSTANTS
  Follower = {p1}
  HeartBeat = 3
  CheckLeader = 7
  Delay = 2
  MaxReigns = 2
  MaxMisses = 2
  MaxQueue = 1
SYMMETRY Symmetry
INVARIANTS TypeOK LeaderKept HeardInTime SilenceNoticed
