SPECIFICATION Spec
CONSTANTS
  Server = {s1, s2}
  Command = {c1, c2}
  Nil = Nil
  Electable = {s1, s2}
  BatchSize = 1
  MaxTerm = 2
  MaxTasks = 1
  MaxBeats = 2
  MaxFails = 0
  MaxLate = 0
  MaxRestarts = 0
SYMMETRY Symmetry
CHECK_DEADLOCK FALSE
INVARIANT AckedIsApplied
