\* One reader over each of the three logs: a trim, a retry, a failed attempt and
\* a lost connection while it tails, with one place in each channel.
CONSTANTS
  Stores = {"memory", "object", "postgres"}
  Len0 = 2
  MaxMsgs = 2
  MaxLog <- ShortLogs
  TailBatch = 2
  ChCap = 1
  LiveCap = 1
  Faults = 1
  Far = FALSE
SPECIFICATION
  Spec
INVARIANTS
  EventsOnce
PROPERTIES
  TailsGoOn
CHECK_DEADLOCK FALSE
