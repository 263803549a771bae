CONSTANTS
  MaxRuns = 2
  Callers = {c1}
  Setups <- RunSetups
SPECIFICATION FairSpec
CHECK_DEADLOCK FALSE
INVARIANTS TypeOK FailedIffErr ActiveIsSupervised LateStepsBounded
INVARIANTS WaitingOnlyWhilePaused CountedRunExact CompletedMeansFinished
PROPERTIES RefinesLifecycle CancelledRunStops DisciplinedWaitReturns
