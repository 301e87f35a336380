CONSTANTS
  NULL = NULL
  s1 = s1
  Sessions = {s1}
  Blocks <- MCBlocks
  Default = NULL
  Requests <- Plain
  Chunks = {10, 400}
  Rets = {8}
  MaxReq = 3
  MaxRead = 3
  Window = 1
  SndBuf = 260
  HalfClose = FALSE
  LateAnswers = TRUE
SPECIFICATION FairSpec
PROPERTIES ImplementsRequestReply ClosesAreNoticed
CHECK_DEADLOCK FALSE
