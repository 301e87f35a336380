CONSTANTS
  NULL = NULL
  s1 = s1
  s2 = s2
  Sessions = {s1, s2}
  Blocks <- MCBlocks
  Default = NULL
  Requests <- MCRequests
  Named = {2}
  Limited = {s2}
SPECIFICATION FairSpec
INVARIANTS TypeOK NothingOutlivesTheSession BackendIsTheRoute
PROPERTIES CapEndsTheSession
CHECK_DEADLOCK FALSE
