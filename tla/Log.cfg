SPECIFICATION Spec
CONSTANTS
  Client = {c1, c2}
  Worker = w
  Nil = Nil
  NoAnswer = NoAnswer
  Overlap = FALSE
  MaxIndex = 3
  MaxBatch = 2
  MaxFails = 1
  MaxRestarts = 2
SYMMETRY Symmetry
CHECK_DEADLOCK FALSE
INVARIANTS TypeOK KeysMatchIndex LastIndexReadable
PROPERTY KeepsContract
