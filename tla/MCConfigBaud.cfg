CONSTANTS
  NULL = NULL
  NServers = 1
  MaxBlocks = 1
  BlockArgs <- MCBlockArgs
  LineValues <- MCLineValues
  Units = {0, 5}
  RtuBuilt = TRUE
SPECIFICATION Spec
INVARIANT LoadedRoutesAreServable
CHECK_DEADLOCK FALSE
