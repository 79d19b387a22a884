\* Steps and deliveries share the alarm; the object stops twice, its storage
\* fails once, two deliveries fail, and any call that sets the alarm may fail.
SPECIFICATION Spec
CONSTANTS
  MaxWakes = 2
  Steps = 2
  MaxLetters = 2
  MaxCrashes = 2
  MaxFaults = 1
  MaxRefusals = 2
INVARIANTS
  StepHasAlarm
  LetterHasSender
PROPERTIES
  ObjectGoesOn
CHECK_DEADLOCK FALSE
