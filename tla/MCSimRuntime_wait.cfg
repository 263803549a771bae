CONSTANTS
  MaxRuns = 1
  Callers = {c1}
  Setups <- WaitSetups
SPECIFICATION FairSpec
CHECK_DEADLOCK FALSE
PROPERTY WaitAlwaysReturns
