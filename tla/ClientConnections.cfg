\* Two connections of one session's owner: prompts, a load, a question, a
\* cancel, an answer, a close, a client that leaves, and one call that fails,
\* stream that breaks or question without a form.
SPECIFICATION Spec
CONSTANTS
  Conns = {a, b}
  First = a
  MaxRequests = 2
  MaxQuestions = 1
  MaxLoads = 1
  MaxTroubles = 1
INVARIANTS
  RepliedOnce
PROPERTIES
  RequestsAnswered
  AskedOnLoad
CHECK_DEADLOCK FALSE
