---------------------------- MODULE MCMigrations ----------------------------
(* The instances of Migrations that TLC checks. *)
EXTENDS Migrations, TLC

Setup(s, k, o) == [steps |-> s, known |-> k, overlap |-> o, faults |-> TRUE, restarts |-> 2]

Of(x, y, z) == [a |-> x, b |-> y, c |-> z]

\* Servers of different age that start together; servers and an operator who take turns,
\* or do not.
MCSetups ==
    {Setup(Of(0, 0, 0), Of(2, 2, 1), TRUE)}
    \cup {Setup(Of(0, n, 0), Of(2, k, 2), o) : n \in 1 .. 2, k \in 1 .. 2, o \in BOOLEAN}
=============================================================================
