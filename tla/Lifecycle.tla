----------------------------- MODULE Lifecycle -----------------------------
(***************************************************************************)
(* The lifecycle of a Simulation as its callers see it: the state that     *)
(* State() reports, the error that Wait() reports and the number of runs   *)
(* begun so far.  Which goroutine takes a transition, and when, is left    *)
(* open; SimRuntime is the detailed specification.                         *)
(*                                                                         *)
(* The transitions are those of pkg/simulation/runtime.go.  They are a     *)
(* superset of the diagram in docs/architecture/simulation.md:5-18: begin  *)
(* refuses only a running simulation, so a paused or a finished simulation *)
(* may be started again, and Step may fail a simulation in any state.      *)
(***************************************************************************)
EXTENDS Naturals

VARIABLES state, err, runs

lvars == <<state, err, runs>>

States == {"Idle", "Running", "Paused", "Stopped", "Completed", "Failed"}

Active == {"Running", "Paused"}

Errors == {"nil", "run", "step"}

LInit ==
    /\ state = "Idle"
    /\ err = "nil"
    /\ runs = 0

\* begin(): refuses a running simulation and forgets the last error.
Begin ==
    /\ state # "Running"
    /\ state' = "Running"
    /\ err' = "nil"
    /\ runs' = runs + 1

Suspend ==
    /\ state = "Running"
    /\ state' = "Paused"
    /\ UNCHANGED <<err, runs>>

Continue ==
    /\ state = "Paused"
    /\ state' = "Running"
    /\ UNCHANGED <<err, runs>>

\* Stop, the cancellation of a run, or a watcher.
Halt ==
    /\ state \in Active
    /\ state' = "Stopped"
    /\ UNCHANGED <<err, runs>>

Complete ==
    /\ state = "Running"
    /\ state' = "Completed"
    /\ UNCHANGED <<err, runs>>

\* A step failed or panicked, in a run or in a call of Step.
Fail ==
    /\ state' = "Failed"
    /\ err' \in Errors \ {"nil"}
    /\ UNCHANGED runs

LNext == Begin \/ Suspend \/ Continue \/ Halt \/ Complete \/ Fail

LSpec == LInit /\ [][LNext]_lvars
=============================================================================
