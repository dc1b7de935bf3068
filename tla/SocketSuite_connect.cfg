CONSTANTS
  Runs = {r1}
  First = 1
  MayFail = FALSE
SPECIFICATION Spec
INVARIANTS AssertConnected
CHECK_DEADLOCK FALSE
