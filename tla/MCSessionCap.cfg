CONSTANTS
  NULL = NULL
  s1 = s1
  Sessions = {s1}
  Blocks <- MCBlocks
  Default = NULL
  Requests <- MCRequests
  Named = {2}
  Limited = {s1}
SPECIFICATION Spec
PROPERTIES CapLastsForTheSession
CHECK_DEADLOCK FALSE
