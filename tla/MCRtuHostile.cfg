CONSTANTS
  NULL = NULL
  s1 = s1
  Sessions = {s1}
  Blocks <- MCBlocks
  Default = NULL
  Requests <- Mixed
  Chunks = {10, 400}
  Rets = {256}
  MaxReq = 2
  MaxRead = 2
  Window = 2
  SndBuf = 130
  HalfClose = TRUE
  LateAnswers = FALSE
SPECIFICATION FairSpec
INVARIANTS IndInv AccumulatorInBounds FirstRequestIsScreened BlockedReplyIsWoken
PROPERTY TimedSessionsEnd
CHECK_DEADLOCK FALSE
