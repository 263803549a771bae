----------------------------- MODULE MCJobQueue -----------------------------
(* The instances of JobQueue that TLC checks. *)
EXTENDS JobQueue, TLC

Setup(coord, faultKinds, bound) == [coord |-> coord, faults |-> faultKinds, bound |-> bound]

\* Every fault, and the faults each guarantee tolerates.
FaultySetups ==
    {Setup("redis", {"crash", "drop"}, 3),
     Setup("redis", {"crash"}, 3), Setup("none", {"crash"}, 2),
     Setup("redis", {"drop"}, 3), Setup("none", {"drop"}, 2),
     Setup("redis", AllFaults, 2), Setup("none", AllFaults, 2)}

\* Workers crash.
CrashSetups == {Setup("redis", {"crash"}, 1)}
=============================================================================
