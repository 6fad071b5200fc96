SPECIFICATION Spec
CONSTANT MaxEdits = 3
CHECK_DEADLOCK FALSE
INVARIANTS RoundTrip AcceptedIffComplete NothingLost SizeIsExact CopyIsEqual
