-------------------------------- MODULE Store --------------------------------
(***************************************************************************)
(* What internal/persistence/store.go keeps of one simulation ID: the      *)
(* status in its row, and whether it has snapshots.  Each method is one    *)
(* statement; PostgreSQL is external and executes it as a whole, or        *)
(* refuses it for the keys of migrations/0001.                             *)
(***************************************************************************)

CONSTANT
    None         \* no row

VARIABLES
    row,         \* the status in the row of the simulation, None without a row
    snaps        \* whether snapshots of the simulation are stored

rows == <<row, snaps>>

StoreInit == row = None /\ snaps = FALSE

\* INSERT; the primary key refuses a second row.
CreateSimulation == row = None /\ row' = "created" /\ UNCHANGED snaps

\* UPDATE changes a row that exists.
UpdateSimulationStatus(status) == row' = (IF row = None THEN None ELSE status) /\ UNCHANGED snaps

\* DELETE takes the snapshots along (ON DELETE CASCADE).
DeleteSimulation == row' = None /\ snaps' = FALSE

\* INSERT; the foreign key refuses a snapshot of a simulation without a row.
SaveSnapshot == row # None /\ snaps' = TRUE /\ UNCHANGED row
==============================================================================
