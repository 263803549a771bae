CONSTANTS
  Jobs = {j1}
  Workers = {w1, w2}
  MaxAttempts = 1
  Setups <- CrashSetups
SPECIFICATION Spec
CHECK_DEADLOCK FALSE
INVARIANT NothingLost
