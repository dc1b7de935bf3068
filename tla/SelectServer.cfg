\* Three clients of either kind over two descriptors and an accept queue of
\* one; a message fills a connection.
CONSTANTS
  N = 3
  Backlog = 0
  MaxFd = 2
  Buf = 1
  AskLength = 1
  AnswerLength = 1
  ReadSize = 1
  MayFail = TRUE
SPECIFICATION FairSpec
INVARIANTS TypeOK NeverBlocks FailureMeansServerGone
PROPERTIES EveryoneAnswered ReadyPollReturns
\* Every client spins and every connection is full, or everything has ended.
CHECK_DEADLOCK FALSE
