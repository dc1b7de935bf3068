\* Strings to beyond the longest frame, files of a few bytes, the real records.
CONSTANTS
  MaximumPacketLength = 14
  MaxText = 8
  WriteSize = 3
  ReadSize = 5
  OldSize = 3
SPECIFICATION FairSpec
INVARIANTS FramesAgree RecordsRecovered OverrunOnlyByStructs TransferExact DaemonDetached FreedAfterUse
PROPERTIES StarterReturns
\* Every part comes to its end.
CHECK_DEADLOCK FALSE
