\* Two clients are enough for one of them to be forgotten; no failure, and
\* one descriptor more than connections.
CONSTANTS
  N = 2
  MaxFd = 3
  Backlog = 1
  MayFail = FALSE
SPECIFICATION FairSpec
PROPERTIES EpollClientReturnsZero
CHECK_DEADLOCK FALSE
