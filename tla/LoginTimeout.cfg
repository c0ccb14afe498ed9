CONSTANTS
  Timeout = 3
  MaxPrompts = 3
SPECIFICATION Spec
INVARIANT HumanTimeNotCounted
PROPERTY HangingLoginEnds
CHECK_DEADLOCK FALSE
