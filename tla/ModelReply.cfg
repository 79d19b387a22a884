\* Replies of two items of at most two pieces, over short channels:
\* a turn of each provider, a summary and a hand-off.
SPECIFICATION Spec
CONSTANTS
  Requests <- SomeRequests
  Room = 2
  WatchRoom = 1
  MaxItems = 2
  MaxPieces = 2
INVARIANTS
  WholeOrError
  StreamShown
PROPERTIES
  NobodyLeft
CHECK_DEADLOCK FALSE
