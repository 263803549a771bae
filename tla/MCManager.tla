----------------------------- MODULE MCManager -----------------------------
(* The instances of Api and Manager that TLC checks. *)
EXTENDS Api, TLC

Setup(cs, ops, n, r) == [callers |-> cs, ops |-> ops, objects |-> n, runs |-> r, faults |-> FALSE, timeouts |-> FALSE]

\* One client that uses everything, with and without failing statements, and two that
\* interleave, with and without timeouts.
MCSetups ==
    {Setup({"c1"}, AllOps, 2, 1),
     [Setup({"c1"}, {"Create", "Start", "Step", "Delete"}, 2, 1) EXCEPT !.faults = TRUE],
     [Setup({"c1"}, {"Create", "Start", "Step", "Delete"}, 1, 1) EXCEPT !.timeouts = TRUE],
     [Setup({"c1", "c2"}, {"Create", "Snapshot", "Delete"}, 1, 0) EXCEPT !.timeouts = TRUE],
     Setup({"c1", "c2"}, {"Create", "Start", "Stop", "Delete"}, 1, 1),
     Setup({"c1", "c2"}, {"Create", "Start", "Delete"}, 1, 2),
     Setup({"c1", "c2"}, {"Create", "Start", "Pause", "Resume", "Stop", "Step"}, 1, 2)}

\* Two clients, one of which deletes while the other starts.
MCDelete == {Setup({"c1", "c2"}, {"Create", "Start", "Delete"}, 1, 1)}
=============================================================================
