CONSTANTS
  NULL = NULL
  s1 = s1
  s2 = s2
  Sessions = {s1, s2}
  Blocks <- MCBlocks
  Default = NULL
  Requests <- Plain
  Chunks = {400}
  Rets = {8}
  MaxReq = 2
  MaxRead = 2
  Window = 1
  SndBuf = 9
  HalfClose = FALSE
  LateAnswers = FALSE
SPECIFICATION Spec
SYMMETRY Symmetry
INVARIANTS TransactionsAreFinished AnswersAreTheClientsOwn RequestsArePerformedOnce RepliesAreInOrder BlockedReplyIsWoken
PROPERTIES RepliesAreNotRebuilt OnlyServedBytesAreDropped
CHECK_DEADLOCK FALSE
