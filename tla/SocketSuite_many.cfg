\* Two runs of the client at once against the tests that fork and thread; system
\* calls may fail.
CONSTANTS
  Runs = {r1, r2}
  First = 7
  MayFail = TRUE
SPECIFICATION Spec
INVARIANTS TypeOK OneAtATime
\* The server may go on waiting for clients.
CHECK_DEADLOCK FALSE
