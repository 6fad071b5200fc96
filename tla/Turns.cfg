SPECIFICATION Spec
CONSTANTS
  Server = {s1, s2}
  Command = {c1}
  Nil = Nil
  Electable = {s1, s2}
  BatchSize = 1
  MaxTerm = 3
  MaxTasks = 1
  MaxBeats = 1
  MaxFails = 1
  MaxLate = 1
  MaxRestarts = 0
SYMMETRY Symmetry
CHECK_DEADLOCK FALSE
INVARIANTS TypeOK OneLeaderPerTerm
