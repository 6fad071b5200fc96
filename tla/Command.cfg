SPECIFICATION Spec
CONSTANTS
  Server = {s1, s2}
  Client = {c1, c2}
  Kind = {"kv", "member"}
  Nil = Nil
  MaxReigns = 2
CHECK_DEADLOCK FALSE
INVARIANTS TypeOK AnswersAwaited AtMostOnce OkMeansExecuted
PROPERTIES CallsReturn WorkersReturn
