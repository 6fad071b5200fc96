SPECIFICATION FairSpec
CONSTANTS
  Server = {s1, s2}
  Command = {c1, c2}
  Nil = Nil
  Electable = {s1}
  BatchSize = 1
  MaxTerm = 1
  MaxTasks = 1
  MaxBeats = 0
  MaxFails = 1
  MaxLate = 0
  MaxRestarts = 0
CHECK_DEADLOCK FALSE
PROPERTY EventuallyApplied
