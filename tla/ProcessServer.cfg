\* Three connections, every system call may fail, clients may stay idle.
CONSTANTS
  N = 3
  Backlog = 1
  MayFail = TRUE
SPECIFICATION FairSpec
INVARIANTS TypeOK GrandsonIsConfined NothingAccumulates
PROPERTIES IdleClientsDelayNobody ConnectionsEnd ImplementsService
\* The program has returned and its processes have gone, or all clients are
\* served.
CHECK_DEADLOCK FALSE
