CONSTANTS
  NULL = NULL
  s1 = s1
  Sessions = {s1}
  Blocks <- MCBlocks
  Default = NULL
  Requests <- One
  Chunks = {10, 400}
  Rets = {8}
  MaxReq = 2
  MaxRead = 2
  Window = 1
  SndBuf = 5
  HalfClose = FALSE
  LateAnswers = FALSE
SPECIFICATION Spec
PROPERTIES OnlyServedBytesAreDropped
CHECK_DEADLOCK FALSE
