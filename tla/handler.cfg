CONSTANTS
  MaxEvents = 3
  MaxReceived = 1
SPECIFICATION FairSpec
INVARIANTS TypeOK InOrder OutboundNeverPanics
PROPERTY QueueDrains
CHECK_DEADLOCK FALSE
