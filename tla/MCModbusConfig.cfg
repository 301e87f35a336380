CONSTANTS
  NULL = NULL
  NServers = 1
  MaxBlocks = 3
  BlockArgs <- MCBlockArgs
  LineValues <- MCLineValues
  Units = {0, 5, 9, 255}
  RtuBuilt = TRUE
SPECIFICATION Spec
INVARIANTS TypeOK OnlyRatesGoUnchecked DenialIsAsDeclared
PROPERTY RoutesAreStable
CHECK_DEADLOCK FALSE
