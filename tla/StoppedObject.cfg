\* One reply of two calls, then an answer: three wakes, a crash and a failed write.
SPECIFICATION Spec
CONSTANTS
  Kinds = {"prompt", "cancel", "close", "job"}
  MaxWakes = 3
  MaxReplies = 2
  Calls = {1, 2}
  MaxCrashes = 1
  MaxFaults = 1
INVARIANTS
  ReplaysAgree
  CallsRunOnce
  MailAgrees
PROPERTIES
  KeepsInbox
CHECK_DEADLOCK FALSE
