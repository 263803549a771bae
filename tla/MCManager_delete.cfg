CONSTANTS
  Callers = {"c1", "c2"}
  Setups <- MCDelete
  None = None
SPECIFICATION Spec
CHECK_DEADLOCK FALSE
INVARIANT DeleteSparesActive
