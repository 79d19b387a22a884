\* One file, two callers, two changes, and a removal or a failure.
SPECIFICATION Spec
CONSTANTS
  Callers = {c1, c2}
  None = None
  MaxRetries = 3
  MaxEdits = 2
  MaxTroubles = 1
INVARIANTS
  RecordTrue
PROPERTIES
  Mirrors
CHECK_DEADLOCK FALSE
