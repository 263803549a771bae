---------------------------- MODULE MCSimRuntime ----------------------------
(* The instances of SimRuntime that TLC checks. *)
EXTENDS SimRuntime, TLC

\* Runs that overlap, with every control call and a caller of Step.
Overlapping ==
    [ops |-> {"Pause", "Resume", "Stop", "Cancel", "Step"}, outcomes |-> {"more", "error", "panic"},
     limits |-> {"pred"}, ticks |-> 0, sequential |-> FALSE]

\* Runs that follow each other, with every limit and outcome, and no caller of Step.
OneAfterTheOther ==
    [ops |-> AllOps \ {"Step"}, outcomes |-> AllOutcomes, limits |-> AllLimits,
     ticks |-> 2, sequential |-> TRUE]

RunSetups == {Overlapping, OneAfterTheOther}

\* A client that calls RunN, and RunN again.
RunNSetups ==
    {[ops |-> {}, outcomes |-> {"more"}, limits |-> {"count"}, ticks |-> 1, sequential |-> TRUE]}

\* A client that pauses a run, steps it by hand and waits for it.
WaitSetups ==
    {[ops |-> {"Pause", "Step", "Wait"}, outcomes |-> {"more", "error"}, limits |-> {"count"},
      ticks |-> 1, sequential |-> TRUE]}
=============================================================================
