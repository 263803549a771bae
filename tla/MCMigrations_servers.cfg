CONSTANTS
  Processes = {"a", "b", "c"}
  Setups <- MCSetups
SPECIFICATION FairSpec
CHECK_DEADLOCK FALSE
INVARIANTS SchemaMatchesRows
PROPERTIES DoneIsDone EveryCallEnds
