\* A session and its job on two workers, with a restart: two wakes and a worker that
\* may die, or three prompts and cancels.
SPECIFICATION MCSpec
CONSTANTS
  Root = Root
  Job = Job
  None = None
  Workers = {w1, w2}
  MaxTools = 2
  Limit = 1
  MaxAttempts = 2
  MaxReplies = 1
  MaxWakes = 3
  ShortWakes = 2
  Kinds = {"prompt", "cancel", "resume", "close"}
  MaxRestarts = 1
  MaxFaults = 1
INVARIANTS
  CancelsInOrder
  WakesReach
PROPERTIES
  Settles
CHECK_DEADLOCK FALSE
