CONSTANTS
  Counts <- MCCounts
  Cap = 1
  MaxPackets = 0
  MaxCrashes = 0
SPECIFICATION Spec
INVARIANTS ReloadKeepsTheChannels
CHECK_DEADLOCK FALSE
