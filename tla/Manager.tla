------------------------------- MODULE Manager -------------------------------
(***************************************************************************)
(* The simulation manager of internal/runner/manager.go, seen at one       *)
(* simulation ID: the map entry, the Simulation objects that were built    *)
(* for the ID, its row in the database (Store), the gauge of active        *)
(* simulations, the requests under way and the watch goroutines.  Api has  *)
(* the HTTP requests around them.                                          *)
(*                                                                         *)
(* A request takes one step per critical section, database statement or    *)
(* call of the simulation, and requests interleave between them.  A        *)
(* Simulation is reduced to its state and its runs (SimRuntime has the     *)
(* rest); a run is live until its done channel is closed.                  *)
(***************************************************************************)
EXTENDS Store, Integers, Sequences

CONSTANTS
    Callers,     \* places for requests: as many can be under way at once
    Setups       \* who calls what: the callers, the operations they use, and bounds on
                 \* the objects that are built and the runs of each; whether statements
                 \* fail, and whether requests time out

AllOps == {"Create", "Start", "Pause", "Resume", "Stop", "Step", "Delete", "Replay", "Snapshot", "Restore"}

\* The statuses of a row.
Statuses == {"created", "running", "paused", "completed", "failed", "stopped"}

ASSUME ManagerAssumption ==
    /\ Setups \subseteq [callers : SUBSET Callers, ops : SUBSET AllOps, objects : Nat, runs : Nat,
                         faults : BOOLEAN, timeouts : BOOLEAN]
    /\ None \notin Statuses \cup Nat

VARIABLES
    setup,       \* the setup, fixed for ever
    expired,     \* the callers whose request context is done
    current,     \* Manager.sims[id]
    objects,     \* the Simulation objects: state, runs begun, and runs still live
    gauge,       \* SimulationActive
    calls,       \* the request each caller is in
    watches      \* the watch goroutines: how many there are of each

context == <<setup, expired>>
vars == <<context, current, objects, rows, gauge, calls, watches>>

Objects == DOMAIN objects
Active(o) == objects[o].state \in {"Running", "Paused"}

Idle == [op |-> "", pc |-> "idle", obj |-> None, status |-> ""]

StatusOf(s) ==
    CASE s = "Running" -> "running" [] s = "Paused" -> "paused" [] s = "Completed" -> "completed"
      [] s = "Failed" -> "failed" [] s = "Stopped" -> "stopped" [] OTHER -> "created"

\* The goroutines as a bag: none, one more, and one less.
NoWatches == [k \in {} |-> 0]
More(ws, k) == [j \in DOMAIN ws \cup {k} |-> IF j \notin DOMAIN ws THEN 1 ELSE IF j = k THEN ws[j] + 1 ELSE ws[j]]
Less(ws, k) == [j \in {i \in DOMAIN ws : i # k \/ ws[i] > 1} |-> IF j = k THEN ws[j] - 1 ELSE ws[j]]

Init ==
    /\ setup \in Setups
    /\ expired = {}
    /\ current = None /\ StoreInit
    /\ objects = <<>>
    /\ gauge = 0
    /\ calls = [c \in Callers |-> Idle]
    /\ watches = NoWatches

(* ---------------------------- the simulations --------------------------- *)

\* begin
Begun(o) == [state |-> "Running", runs |-> objects[o].runs + 1, live |-> objects[o].live \cup {objects[o].runs + 1}]

CanBegin(o) == objects[o].state # "Running" /\ objects[o].runs < setup.runs

\* Stop; of a simulation that is not active it changes nothing.
Halted(o) == IF Active(o) THEN [objects[o] EXCEPT !.state = "Stopped"] ELSE objects[o]

\* The loop of a run leaves a final state behind, some time before the run is done.
RunSettles(o) ==
    /\ objects[o].live # {}
    /\ \E s \in {"Completed", "Failed"} :
         /\ s = "Completed" => objects[o].state = "Running"
         /\ objects' = [objects EXCEPT ![o].state = s]
    /\ UNCHANGED <<context, current, rows, gauge, calls, watches>>

\* The finalizer of a run: an error or a panic fails the simulation whatever its state, also
\* that of a later run; otherwise one that still runs is completed.
RunEnds(o) ==
    /\ \E r \in objects[o].live, s \in {"Failed", IF objects[o].state = "Running" THEN "Completed" ELSE objects[o].state} :
         objects' = [objects EXCEPT ![o] = [state |-> s, runs |-> objects[o].runs, live |-> objects[o].live \ {r}]]
    /\ UNCHANGED <<context, current, rows, gauge, calls, watches>>

\* The context watcher of a run that ended, or the cancelled step of an earlier one, stops
\* the simulation: a later run, or one that was paused just when it met its limit.
LateHalt(o) ==
    /\ Active(o) /\ (objects[o].runs > 1 \/ (objects[o].runs = 1 /\ objects[o].live = {}))
    /\ objects' = [objects EXCEPT ![o] = Halted(o)]
    /\ UNCHANGED <<context, current, rows, gauge, calls, watches>>

(* ------------------------------- requests ------------------------------- *)

GoTo(c, pc) == calls' = [calls EXCEPT ![c].pc = pc]
\* The method returns and the handler has its answer; where no timer runs, nobody can tell
\* how that is written.
Answered(op, answer) ==
    IF setup.timeouts THEN [op |-> op, pc |-> "answer", obj |-> None, status |-> answer] ELSE Idle

Return(c, answer) == calls' = [calls EXCEPT ![c] = Answered(calls[c].op, answer)]

\* A statement of the request fails, or has been executed and its answer is lost.
Fails(c) == setup.faults \/ c \in expired
At(c, op, pc) == calls[c].op = op /\ calls[c].pc = pc
Obj(c) == calls[c].obj

NewObject == [state |-> "Idle", runs |-> 0, live |-> {}]

\* instantiate, of Create or Replay: it fails if there is no such model, or if the model's
\* own row cannot be written.
Instantiate(c, pc, refusal) ==
    \/ /\ Len(objects) < setup.objects
       /\ objects' = Append(objects, NewObject)
       /\ calls' = [calls EXCEPT ![c].pc = pc, ![c].obj = Len(objects) + 1]
    \/ Return(c, refusal) /\ UNCHANGED objects

\* A request arrives; all but Create look up their simulation.
Call(c) ==
    /\ c \in setup.callers /\ calls[c].pc = "idle"
    /\ \E op \in setup.ops :
         /\ op = "Create" => Len(objects) < setup.objects
         /\ calls' = [calls EXCEPT ![c] =
              IF op = "Create" THEN [op |-> op, pc |-> "begin", obj |-> None, status |-> ""]
              ELSE IF current = None THEN Answered(op, "not found")
              ELSE [op |-> op, pc |-> "begin", obj |-> current, status |-> ""]]
    /\ UNCHANGED <<context, current, objects, rows, gauge, watches>>

CreateBuilds(c) ==
    /\ At(c, "Create", "begin")
    /\ Instantiate(c, "insert", "bad request")
    /\ UNCHANGED <<context, current, rows, gauge, watches>>

CreateInserts(c) ==
    /\ At(c, "Create", "insert")
    /\ \/ CreateSimulation /\ GoTo(c, "publish")
       \/ (row # None \/ Fails(c)) /\ UNCHANGED rows /\ Return(c, "bad request")
       \/ Fails(c) /\ CreateSimulation /\ Return(c, "bad request")
    /\ UNCHANGED <<context, current, objects, gauge, watches>>

CreatePublishes(c) ==
    /\ At(c, "Create", "publish")
    /\ current' = Obj(c)
    /\ Return(c, "ok")
    /\ UNCHANGED <<context, objects, rows, gauge, watches>>

\* Start: the run begins and is counted.
StartBegins(c) ==
    /\ At(c, "Start", "begin")
    /\ IF CanBegin(Obj(c))
       THEN /\ objects' = [objects EXCEPT ![Obj(c)] = Begun(Obj(c))]
            /\ gauge' = gauge + 1
            /\ calls' = [calls EXCEPT ![c].pc = "status", ![c].status = "running"]
       ELSE Return(c, "conflict") /\ UNCHANGED <<objects, gauge>>
    /\ UNCHANGED <<context, current, rows, watches>>

\* control, with the state it demands and the state it leaves behind.
Control(c, op, from, to) ==
    /\ At(c, op, "begin")
    /\ IF objects[Obj(c)].state \in from
       THEN /\ objects' = [objects EXCEPT ![Obj(c)].state = to]
            /\ calls' = [calls EXCEPT ![c].pc = "status", ![c].status = StatusOf(to)]
       ELSE Return(c, "conflict") /\ UNCHANGED objects
    /\ UNCHANGED <<context, current, rows, gauge, watches>>

StepBegins(c) ==
    /\ At(c, "Step", "begin")
    /\ IF objects[Obj(c)].state # "Running" THEN GoTo(c, "step") ELSE Return(c, "conflict")
    /\ UNCHANGED <<context, current, objects, rows, gauge, watches>>

\* Step fails the simulation, in whatever state it is by now, and the request with it.
StepFails(c) ==
    /\ At(c, "Step", "step")
    /\ objects' = [objects EXCEPT ![Obj(c)].state = "Failed"]
    /\ Return(c, "internal")
    /\ UNCHANGED <<context, current, rows, gauge, watches>>

\* Step succeeds; the state is read for the status.
StepReads(c) ==
    /\ At(c, "Step", "step")
    /\ calls' = [calls EXCEPT ![c].pc = "status", ![c].status = StatusOf(objects[Obj(c)].state)]
    /\ UNCHANGED <<context, current, objects, rows, gauge, watches>>

\* Mutant: the status is inserted when there is no row to update.
StatusUpserted(status) == row' = status /\ UNCHANGED snaps

\* updateStatus, with a context of its own; an error is ignored.
StatusUpdated(status) == UpdateSimulationStatus(status) \/ (setup.faults /\ UNCHANGED rows)

Watch == [pc |-> "lookup", obj |-> None, run |-> 0, status |-> ""]

\* Start and Replay then leave a watch goroutine behind.
UpdateStatus(c) ==
    /\ calls[c].pc = "status"
    /\ StatusUpdated(calls[c].status)
    /\ watches' = IF calls[c].op \in {"Start", "Replay"} THEN More(watches, Watch) ELSE watches
    /\ Return(c, "ok")
    /\ UNCHANGED <<context, current, objects, gauge>>

\* Delete asks twice for the state: whether it is running ...
DeleteChecksRunning(c) ==
    /\ At(c, "Delete", "begin")
    /\ IF objects[Obj(c)].state = "Running" THEN Return(c, "internal") ELSE GoTo(c, "paused")
    /\ UNCHANGED <<context, current, objects, rows, gauge, watches>>

\* ... and whether it is paused.
DeleteChecksPaused(c) ==
    /\ At(c, "Delete", "paused")
    /\ IF objects[Obj(c)].state = "Paused" THEN Return(c, "internal") ELSE GoTo(c, "stop")
    /\ UNCHANGED <<context, current, objects, rows, gauge, watches>>

DeleteStops(c) ==
    /\ At(c, "Delete", "stop")
    /\ objects' = [objects EXCEPT ![Obj(c)] = Halted(Obj(c))]
    /\ GoTo(c, "unmap")
    /\ UNCHANGED <<context, current, rows, gauge, watches>>

\* The entry of the ID goes, whatever simulation it holds now.
DeleteUnmaps(c) ==
    /\ At(c, "Delete", "unmap")
    /\ current' = None
    /\ GoTo(c, "remove")
    /\ UNCHANGED <<context, objects, rows, gauge, watches>>

\* A row that cannot be removed stays, without an entry in the map.
DeleteRemovesRow(c) ==
    /\ At(c, "Delete", "remove")
    /\ \/ DeleteSimulation /\ Return(c, "ok")
       \/ Fails(c) /\ (DeleteSimulation \/ UNCHANGED rows) /\ Return(c, "internal")
    /\ UNCHANGED <<context, current, objects, gauge, watches>>

\* Snapshot refuses a running simulation; what it takes is SimRuntime's.
SnapshotTakes(c) ==
    /\ At(c, "Snapshot", "begin")
    /\ IF objects[Obj(c)].state = "Running" THEN Return(c, "conflict")
       ELSE GoTo(c, "save") \/ Return(c, "internal")
    /\ UNCHANGED <<context, current, objects, rows, gauge, watches>>

\* By now the simulation may be deleted.
SnapshotSaves(c) ==
    /\ At(c, "Snapshot", "save")
    /\ \/ SaveSnapshot /\ Return(c, "ok")
       \/ (row = None \/ Fails(c)) /\ UNCHANGED rows /\ Return(c, "internal")
       \/ Fails(c) /\ SaveSnapshot /\ Return(c, "internal")
    /\ UNCHANGED <<context, current, objects, gauge, watches>>

\* Restore of a snapshot the client sends, which may be refused; it leaves the state alone.
Restores(c) ==
    /\ At(c, "Restore", "begin")
    /\ Return(c, "bad request") \/ (objects[Obj(c)].state # "Running" /\ Return(c, "ok"))
    /\ UNCHANGED <<context, current, objects, rows, gauge, watches>>

\* Mutant: the old simulation is left as it is.
ReplayLeavesRunning(c) ==
    /\ At(c, "Replay", "begin")
    /\ GoTo(c, "build")
    /\ UNCHANGED <<context, current, objects, rows, gauge, watches>>

ReplayStops(c) ==
    /\ At(c, "Replay", "begin")
    /\ objects' = [objects EXCEPT ![Obj(c)] = Halted(Obj(c))]
    /\ GoTo(c, "build")
    /\ UNCHANGED <<context, current, rows, gauge, watches>>

ReplayBuilds(c) ==
    /\ At(c, "Replay", "build")
    /\ Instantiate(c, "swap", "internal")
    /\ UNCHANGED <<context, current, rows, gauge, watches>>

ReplaySwaps(c) ==
    /\ At(c, "Replay", "swap")
    /\ current' = Obj(c)
    /\ GoTo(c, "start")
    /\ UNCHANGED <<context, objects, rows, gauge, watches>>

ReplayStarts(c) ==
    /\ At(c, "Replay", "start")
    /\ IF CanBegin(Obj(c))
       THEN /\ objects' = [objects EXCEPT ![Obj(c)] = Begun(Obj(c))]
            /\ calls' = [calls EXCEPT ![c].pc = "status", ![c].status = "running"]
       ELSE Return(c, "conflict") /\ UNCHANGED objects
    /\ UNCHANGED <<context, current, rows, gauge, watches>>

CallStep(c) ==
    \/ CreateBuilds(c) \/ CreateInserts(c) \/ CreatePublishes(c)
    \/ StartBegins(c) \/ StepBegins(c) \/ StepFails(c) \/ StepReads(c)
    \/ Control(c, "Pause", {"Running"}, "Paused")
    \/ Control(c, "Resume", {"Paused"}, "Running")
    \/ Control(c, "Stop", {"Running", "Paused"}, "Stopped")
    \/ UpdateStatus(c) \/ SnapshotTakes(c) \/ SnapshotSaves(c) \/ Restores(c)
    \/ DeleteChecksRunning(c) \/ DeleteChecksPaused(c) \/ DeleteStops(c) \/ DeleteUnmaps(c) \/ DeleteRemovesRow(c)
    \/ ReplayStops(c) \/ ReplayBuilds(c) \/ ReplaySwaps(c) \/ ReplayStarts(c)

(* --------------------------- watch goroutines --------------------------- *)

WatchEnds(k) == watches' = Less(watches, k)
WatchGoTo(k, next) == watches' = More(Less(watches, k), next)

\* watch looks the ID up again: it may find another simulation, or none.
WatchFinds(k) ==
    /\ k.pc = "lookup"
    /\ IF current = None THEN WatchEnds(k)
       ELSE WatchGoTo(k, [k EXCEPT !.pc = "wait", !.obj = current, !.run = objects[current].runs])
    /\ UNCHANGED <<context, current, objects, rows, gauge, calls>>

\* Mutant: a simulation that failed is not counted as ended.
WatchCountsSuccess(k) ==
    /\ k.pc = "wait" /\ k.run \notin objects[k.obj].live
    /\ gauge' = IF objects[k.obj].state = "Failed" THEN gauge ELSE gauge - 1
    /\ WatchGoTo(k, [k EXCEPT !.pc = "read"])
    /\ UNCHANGED <<context, current, objects, rows, calls>>

\* Mutant: nobody waits.
WatchDoesNotWait(k) ==
    /\ k.pc = "wait"
    /\ gauge' = gauge - 1
    /\ WatchGoTo(k, [k EXCEPT !.pc = "read"])
    /\ UNCHANGED <<context, current, objects, rows, calls>>

\* Wait returns when the run that was the latest is done, or when there was none.
WatchWaits(k) ==
    /\ k.pc = "wait" /\ k.run \notin objects[k.obj].live
    /\ gauge' = gauge - 1
    /\ WatchGoTo(k, [k EXCEPT !.pc = "read"])
    /\ UNCHANGED <<context, current, objects, rows, calls>>

\* The state is read once more for the status.
WatchReads(k) ==
    /\ k.pc = "read"
    /\ WatchGoTo(k, [k EXCEPT !.pc = "write", !.status = StatusOf(objects[k.obj].state)])
    /\ UNCHANGED <<context, current, objects, rows, gauge, calls>>

WatchWrites(k) ==
    /\ k.pc = "write"
    /\ StatusUpdated(k.status)
    /\ WatchEnds(k)
    /\ UNCHANGED <<context, current, objects, gauge, calls>>

WatchStep(k) == WatchFinds(k) \/ WatchWaits(k) \/ WatchReads(k) \/ WatchWrites(k)

RunStep(o) == RunSettles(o) \/ RunEnds(o) \/ LateHalt(o)

(* ------------------------------ properties ------------------------------ *)

\* No request is under way; and no watch goroutine is left either.
NoCalls == \A c \in Callers : calls[c].pc = "idle"
Quiet == NoCalls /\ watches = NoWatches

\* One request at most is under way: no handler overlaps another.
Sequential == \A c, d \in setup.callers : c = d

(* Between requests, a simulation in the map has a row, however its requests were
   interleaved, and one that is not in the map has none; unless it was replayed while it
   was deleted, its ID was used for another simulation, or a statement failed. *)
MapMatchesRow ==
    NoCalls /\ (Sequential \/ ("Replay" \notin setup.ops /\ setup.objects = 1))
        => /\ current # None => row # None
           /\ ~setup.faults /\ ~setup.timeouts => (row # None => current # None)

(* When everything has settled, the row tells how a simulation that was started once has
   ended, because watch comes after the status that Start wrote.  Only a Stop that is slow
   to record itself can hide that the run it stopped has panicked. *)
FinalStatus ==
    /\ Quiet /\ current # None /\ ~setup.faults
    /\ setup.ops \subseteq {"Create", "Start", "Stop", "Delete"} /\ setup.runs = 1 /\ setup.objects = 1
    =>  \/ row = StatusOf(objects[current].state)
        \/ row = "stopped" /\ objects[current].state = "Failed" /\ "Stop" \in setup.ops

(* Where handlers do not overlap, a simulation that is active is never lost: whoever is
   running can be reached, and stopped, through the map. *)
ActiveIsReachable == Sequential /\ NoCalls => \A o \in Objects : Active(o) => o = current

(* The gauge of active simulations returns to zero when all watchers have ended, as long
   as nothing is deleted or replayed. *)
GaugeSettles == Quiet /\ setup.ops \cap {"Delete", "Replay"} = {} => gauge = 0

(* manager.go 301: "It refuses to delete a running simulation." *)
DeleteSparesActive == NoCalls /\ current = None => \A o \in Objects : ~Active(o)
==============================================================================
