\* Two sessions share a worker's cache of one harness; an attempt is abandoned,
\* a build or a store call fails, or a key changes.
SPECIFICATION Spec
CONSTANTS
  Ids = {a, b}
  Keys = {k1, k2}
  Slots = {e1, e2, e3, e4}
  Steps = {s1, s2}
  None = None
  Limit = 1
  MaxCommits = 2
  MaxReads = 1
  MaxAttempts = 2
  MaxTroubles = 1
INVARIANTS
  HarnessesSafe
  CommitsOnce
PROPERTIES
  Drains
CHECK_DEADLOCK FALSE
