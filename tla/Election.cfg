SPECIFICATION Spec
CONSTANTS
  Server = {s1, s2, s3}
  Command = {}
  Nil = Nil
  Electable = {s1, s2}
  BatchSize = 1
  MaxTerm = 2
  MaxTasks = 1
  MaxBeats = 1
  MaxFails = 1
  MaxLate = 0
  MaxRestarts = 0
SYMMETRY Symmetry
CHECK_DEADLOCK FALSE
INVARIANTS LeaderWasElected OneVotePerTerm OneLeaderPerTerm
