CONSTANTS
  MaxEvents = 2
  MaxReceived = 1
SPECIFICATION Spec
INVARIANT TemporaryOnlyReplies
CHECK_DEADLOCK FALSE
