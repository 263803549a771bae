CONSTANTS
  Entities = {"x", "y", "z", "u", "v"}
  Comps = {"a", "b"}
  Plans <- MCPlans
  Setups <- MCSetups
  MaxSteps = 2
  NoSave = NoSave
SPECIFICATION FairSpec
CHECK_DEADLOCK FALSE
INVARIANTS RaceFree EventsConserved
PROPERTIES TicksAreSerial TickReturns FiresInOrder QueueRestored
