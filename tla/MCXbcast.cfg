CONSTANTS
  Counts <- MCCounts
  Cap = 1
  MaxPackets = 2
  MaxCrashes = 1
SPECIFICATION Spec
INVARIANTS TypeOK
PROPERTIES ImplementsDoorbell
CHECK_DEADLOCK FALSE
