\* A chat, task or worker session that is restarted whenever it waits, and a
\* chat of two calls any step of which may fail.
SPECIFICATION Spec
CONSTANTS
  MaxCalls = 2
  Sessions <- MCSessions
INVARIANTS
  ParksOnQuestion
  FaultsContained
  OneResultPerCall
  Answered
  PromptsArrive
PROPERTIES
  KeepsContract
  SessionEnds
CHECK_DEADLOCK FALSE
