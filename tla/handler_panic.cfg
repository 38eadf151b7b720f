CONSTANTS
  MaxEvents = 1
  MaxReceived = 1
SPECIFICATION Spec
INVARIANT NeverPanics
CHECK_DEADLOCK FALSE
