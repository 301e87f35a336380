CONSTANTS
  NULL = NULL
  s1 = s1
  s2 = s2
  Sessions = {s1, s2}
  Blocks <- MCBlocks
  Default = NULL
  Requests <- MCRequests
  Named = {1, 2}
  Limited = {s2}
SPECIFICATION Spec
INVARIANTS NothingOutlivesTheSession
CHECK_DEADLOCK FALSE
