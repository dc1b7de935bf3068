\* Short strings: a frame still has a header, more behind it, and its zero.
CONSTANTS
  MaximumPacketLength = 12
  ServerText = 1
  ClientText = 0
  BufferLength = 20
SPECIFICATION FairSpec
PROPERTY WaitingClientReturnsZero
\* Both programs have ended, or each waits for the end of the other's stream.
CHECK_DEADLOCK FALSE
