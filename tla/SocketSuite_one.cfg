\* One run of the client against the whole suite of the server.
CONSTANTS
  Runs = {r1}
  First = 1
  MayFail = FALSE
SPECIFICATION FairSpec
INVARIANTS InStep FailureIsSticky
PROPERTIES ClientFinishes
\* The server waits for clients of its later tests.
CHECK_DEADLOCK FALSE
