\* Twelve tokens, of which ten are the pressure; small, middle and large messages.
SPECIFICATION Spec
CONSTANTS
  Size = 12
  Sizes = {1, 6, 20}
  MaxMade = 6
  MaxRefusals = 1
  MaxFaults = 1
INVARIANTS
  WindowFits
  ContentKept
PROPERTIES
  GoalStays
CHECK_DEADLOCK FALSE
