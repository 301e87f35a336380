CONSTANTS
  NULL = NULL
  s1 = s1
  Sessions = {s1}
  Blocks <- MCBlocks
  Default = NULL
  Requests <- One
  Chunks = {400}
  Rets = {8}
  MaxReq = 3
  MaxRead = 3
  Window = 3
  SndBuf = 9
  HalfClose = FALSE
  LateAnswers = FALSE
SPECIFICATION Spec
INVARIANTS RequestsArePerformedOnce
CHECK_DEADLOCK FALSE
