CONSTANTS
  Callers = {"c1", "c2"}
  Setups <- MCSetups
  None = None
SPECIFICATION Spec
CHECK_DEADLOCK FALSE
INVARIANTS TimeoutIsClean MapMatchesRow FinalStatus ActiveIsReachable GaugeSettles
