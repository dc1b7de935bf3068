\* Clients that do as they like, but read their replies; two connections fill
\* the server (MaxFds counts the listening socket), three are tried.  A client
\* can send more than one read() takes.
CONSTANTS
  N = 3
  MaxSend = 2
  ReadSize = 1
  Window = 1
  MaxFds = 3
  MayFail = TRUE
SPECIFICATION FairSpec
INVARIANTS TypeOK CurFdsCounts EventsFitArray NeverBlocksOnInput
PROPERTIES BatchEnds EdgesServed
\* Clients may all fall silent.
CHECK_DEADLOCK FALSE
