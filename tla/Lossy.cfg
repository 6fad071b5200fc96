SPECIFICATION Spec
CONSTANTS
  Server = {s1, s2, s3}
  Command = {c1, c2}
  Nil = Nil
  Electable = {s1}
  BatchSize = 1
  MaxTerm = 1
  MaxTasks = 1
  MaxBeats = 2
  MaxFails = 1
  MaxLate = 0
  MaxRestarts = 0
SYMMETRY Symmetry
CHECK_DEADLOCK FALSE
INVARIANTS LogsFollowLeader CommittedOnMajority MatchIndexSound AckedOnMajority
