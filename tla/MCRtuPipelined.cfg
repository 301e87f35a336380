CONSTANTS
  NULL = NULL
  s1 = s1
  Sessions = {s1}
  Blocks <- MCBlocks
  Default = NULL
  Requests <- One
  Chunks = {400}
  Rets = {8}
  MaxReq = 3
  MaxRead = 3
  Window = 2
  SndBuf = 260
  HalfClose = FALSE
  LateAnswers = FALSE
SPECIFICATION FairSpec
PROPERTIES RequestsAreAnswered
CHECK_DEADLOCK FALSE
