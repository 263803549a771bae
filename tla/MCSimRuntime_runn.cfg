CONSTANTS
  MaxRuns = 2
  Callers = {c1}
  Setups <- RunNSetups
SPECIFICATION Spec
CHECK_DEADLOCK FALSE
INVARIANT RunNExact
