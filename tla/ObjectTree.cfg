\* A session and two jobs, side by side or one below the other.
SPECIFICATION Spec
CONSTANTS
  MaxJobs = 2
  MaxPrompts = 1
  MaxCancels = 1
  MaxCloses = 1
  MaxAgain = 1
INVARIANTS
  OnceEach
  JobsTracked
PROPERTIES
  JobsClose
CHECK_DEADLOCK FALSE
