\* Replies of two calls of gated, asking and planning tools, three replies, two
\* troubles, in either runtime; and two sessions that edit one file: two edits on
\* an object store or the local disk, three of a Google Doc, two reads (one on the
\* disk) and a failed write.
SPECIFICATION MCSpec
CONSTANTS
  MaxCalls = 2
  Kits = {{"gate", "deploy", "ask_user_choice"}, {"create_plan", "complete_1", "complete_2", "edit_plan"}, {"create_plan", "deploy"}}
  Runtimes = {"object", "temporal"}
  MaxReplies = 3
  MaxTroubles = 2
  Sessions = {s1, s2}
  None = None
  Backends = {"object", "local", "doc"}
  MaxEdits = 3
  MaxTextEdits = 2
  MaxDiskReads = 1
  MaxReads = 2
  MaxFaults = 1
  Blind = FALSE
  Subst = TRUE
SYMMETRY Symmetry
INVARIANTS
  DoneAsReported
  EditsKept
PROPERTIES
  LeaveGiven
  AnswersKept
CHECK_DEADLOCK FALSE
