\* Three connections over two descriptors: numbers are reused while earlier
\* threads may still hold them, accept() meets a full table, and the error
\* returns of thread_accept are taken.
CONSTANTS
  N = 3
  MaxFd = 2
  Backlog = 1
  MayFail = TRUE
SPECIFICATION FairSpec
INVARIANTS TypeOK ForwardOnly OwnThreadOnly
PROPERTIES InTimeClientsSucceed ImplementsService
\* Every client is served, or the program has returned: the run ends.
CHECK_DEADLOCK FALSE
