CONSTANTS
  Jobs = {j1}
  Workers = {w1, w2}
  MaxAttempts = 2
  Setups <- FaultySetups
SPECIFICATION FairSpec
CHECK_DEADLOCK FALSE
INVARIANTS OneRunner OneResult JobAccounted ExecutionsBounded DeadAfterAllAttempts
PROPERTY JobSettles
