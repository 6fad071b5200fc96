SPECIFICATION Spec
CONSTANTS
  Server = {s1}
  Command = {c1, c2, c3}
  Nil = Nil
  Electable = {s1}
  BatchSize = 1
  MaxTerm = 1
  MaxTasks = 1
  MaxBeats = 1
  MaxFails = 0
  MaxLate = 0
  MaxRestarts = 1
SYMMETRY Symmetry
CHECK_DEADLOCK FALSE
INVARIANT AckedIsApplied
