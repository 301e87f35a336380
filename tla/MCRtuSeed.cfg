CONSTANTS
  NULL = NULL
  s1 = s1
  Sessions = {s1}
  Blocks <- MCBlocks
  Default = NULL
  Requests <- Big
  Chunks = {400}
  Rets = {8}
  MaxReq = 3
  MaxRead = 3
  Window = 3
  SndBuf = 260
  HalfClose = FALSE
  LateAnswers = FALSE
SPECIFICATION Spec
INVARIANTS OnlyWrittenFramesArePerformed
CHECK_DEADLOCK FALSE
