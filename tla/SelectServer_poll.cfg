\* Two clients, two descriptors; a full connection holds one message of the
\* server or two of a client, and a read() may leave a part of what is there.
CONSTANTS
  N = 2
  Backlog = 0
  MaxFd = 2
  Buf = 2
  AskLength = 2
  AnswerLength = 1
  ReadSize = 1
  MayFail = FALSE
SPECIFICATION FairSpec
PROPERTY PollClientReturnsZero
\* Every client spins and every connection is full, or everything has ended.
CHECK_DEADLOCK FALSE
