CONSTANTS
  NULL = NULL
  s1 = s1
  Sessions = {s1}
  Blocks <- MCBlocks
  Default = NULL
  Requests <- Refused
  Chunks = {400}
  Rets = {8}
  MaxReq = 2
  MaxRead = 2
  Window = 1
  SndBuf = 260
  HalfClose = FALSE
  LateAnswers = FALSE
SPECIFICATION Spec
INVARIANTS DeniedOpsNeverReachTheLine
CHECK_DEADLOCK FALSE
