------------------------------ MODULE Executor ------------------------------
(***************************************************************************)
(* The executors of pkg/simulation/executor.go, with the clock: a step of  *)
(* the run loop is a tick of the scheduler, one call of the model's Step,  *)
(* or one event.  The loop itself is SimRuntime's: here a step can begin   *)
(* whenever the last one has ended and, where only Run and Start begin     *)
(* steps, their limit allows it: Step, RunN and RunUntil ask for none.     *)
(***************************************************************************)
EXTENDS Scheduler, EventQueue

CONSTANTS
    Setups,      \* what the behaviours are about: the executor ("systems", "tick" or
                 \* "events"), who begins steps (only Run and Start, or
                 \* anybody), Config.MaxTime (0 for none), the times, priorities and
                 \* payloads of events and a bound on their number, and whether snapshots are taken
    MaxSteps,    \* bound: the ticks that are begun
    NoSave       \* no snapshot was taken

ASSUME ExecutorAssumption ==
    /\ MaxSteps \in Nat
    /\ Setups \subseteq [mode : {"systems", "tick", "events"}, entry : {"run", "any"}, maxTime : Nat,
                        times : SUBSET Nat, priorities : SUBSET Int, payloads : SUBSET {"none", "typed"}, events : Nat, saves : BOOLEAN]

VARIABLES
    setup,       \* the setup, fixed for ever
    tick, time,  \* the clock
    phase,       \* "init": Initialize runs; "idle"; "step": a step is under way
    event,       \* the event HandleEvent is working on, or the last one
    saved,       \* the last snapshot
    before,      \* history: the data when the last tick began
    begun,       \* history: the ticks that were begun
    fired,       \* history: the sequence numbers of the events that were handled
    lost         \* history: ... that were too late, or that a restore could not read

clockVars == <<tick, time>>
evVars == <<event, saved, fired, lost>>
tickVars == <<before, begun>>
vars == <<schedVars, queueVars, setup, clockVars, phase, evVars, tickVars>>

NoEvent == [time |-> 0, priority |-> 0, seq |-> 0, payload |-> "none"]

Init ==
    /\ InitScheduler /\ InitQueue
    /\ setup \in Setups
    /\ setup.mode # "systems" => plan = CHOOSE p \in Plans : TRUE
    /\ tick = 0 /\ time = 0
    /\ phase = "init"
    /\ event = NoEvent
    /\ saved = NoSave
    /\ before = data /\ begun = 0
    /\ fired = {} /\ lost = {}

(* ---------------------------- New, Initialize --------------------------- *)

\* newExecutor: the scheduler computes its levels, before Initialize is called.
Assign ==
    /\ setup.mode = "systems" /\ phase = "init"
    /\ AssignLevel
    /\ UNCHANGED <<queueVars, setup, clockVars, phase, evVars, tickVars>>

\* The model schedules an event, in Initialize or in HandleEvent.
Schedule ==
    /\ setup.mode = "events" /\ phase \in {"init", "step"}
    /\ seq < setup.events
    /\ \E t \in setup.times, p \in setup.priorities, payload \in setup.payloads : Push(t, p, payload)
    /\ UNCHANGED <<schedVars, setup, clockVars, phase, evVars, tickVars>>

RegisterPayload ==
    /\ setup.mode = "events" /\ phase \in {"init", "step"}
    /\ RegisterPayloadType
    /\ UNCHANGED <<schedVars, setup, clockVars, phase, evVars, tickVars>>

Initialized ==
    /\ phase = "init"
    /\ setup.mode = "systems" => Scheduled
    /\ phase' = "idle"
    /\ UNCHANGED <<schedVars, queueVars, setup, clockVars, evVars, tickVars>>

(* ----------------------------- tickExecutor ----------------------------- *)

\* TickModel.Step and Clock.Advance; an error of Step ends the run and changes nothing here.
ModelStep ==
    /\ setup.mode = "tick" /\ phase = "idle" /\ begun < MaxSteps
    /\ tick' = tick + 1
    /\ begun' = begun + 1
    /\ UNCHANGED <<schedVars, queueVars, setup, time, phase, evVars, before>>

(* -------------------------- systemTickExecutor -------------------------- *)

BeginTick ==
    /\ setup.mode = "systems" /\ phase = "idle" /\ begun < MaxSteps
    /\ TickBegins
    /\ phase' = "step"
    /\ before' = data /\ begun' = begun + 1
    /\ UNCHANGED <<queueVars, setup, clockVars, evVars>>

InTick ==
    /\ phase = "step" /\ ~crashed
    /\ (\E t \in DOMAIN tasks : TaskStep(t) \/ TaskPanics(t)) \/ (\E i \in DOMAIN levels : SystemReports(i)) \/ NextLevel \/ Cancel
    /\ UNCHANGED <<queueVars, setup, clockVars, phase, evVars, tickVars>>

\* The clock stays where it is.
AbortTick ==
    /\ phase = "step" /\ ~crashed
    /\ TickFails \/ \E t \in DOMAIN tasks : TickPanics(t)
    /\ phase' = "idle"
    /\ UNCHANGED <<queueVars, setup, clockVars, evVars, tickVars>>

EndTick ==
    /\ phase = "step" /\ ~crashed
    /\ TickSucceeds
    /\ tick' = tick + 1
    /\ phase' = "idle"
    /\ UNCHANGED <<queueVars, setup, time, evVars, tickVars>>

(* ----------------------------- eventExecutor ---------------------------- *)

\* defaultLimit, in a run of Run or Start: it is completed when the next event is due at
\* MaxTime or later.
Limit == setup.entry = "run" /\ setup.maxTime > 0 /\ (heap = <<>> \/ heap[1].time >= setup.maxTime)

EventStep ==
    /\ setup.mode = "events" /\ phase = "idle" /\ ~Limit
    /\ Pop
    /\ heap[1].time >= time
    /\ event' = heap[1] /\ time' = heap[1].time
    /\ phase' = "step"
    /\ fired' = fired \cup {heap[1].seq}
    /\ UNCHANGED <<schedVars, setup, tick, saved, lost, tickVars>>

\* The event is in the past: it is gone, and the step fails.
EventTooLate ==
    /\ setup.mode = "events" /\ phase = "idle" /\ ~Limit
    /\ Pop
    /\ heap[1].time < time
    /\ lost' = lost \cup {heap[1].seq}
    /\ UNCHANGED <<schedVars, setup, clockVars, phase, event, saved, fired, tickVars>>

\* HandleEvent returns; its error ends the run and changes nothing here.
EventHandled ==
    /\ setup.mode = "events" /\ phase = "step"
    /\ phase' = "idle"
    /\ UNCHANGED <<schedVars, queueVars, setup, clockVars, evVars, tickVars>>

(* ------------------------------- snapshots ------------------------------ *)

\* A snapshot of clock and queue; the other fields are history.
Save ==
    /\ setup.saves /\ phase = "idle" /\ saved = NoSave
    /\ saved' = [tick |-> tick, time |-> time, queue |-> QueueSnapshot, heap |-> heap,
                 fired |-> fired, lost |-> lost]
    /\ UNCHANGED <<schedVars, queueVars, setup, clockVars, phase, event, fired, lost, tickVars>>

\* The events that restore does not get to.
Unreadable(events) == {events[i].seq : i \in Readable(events) + 1 .. Len(events)}

\* The clock first, then the queue.
Load ==
    /\ phase = "idle" /\ saved # NoSave
    /\ tick' = saved.tick /\ time' = saved.time
    /\ RestoreQueue(saved.queue)
    /\ fired' = saved.fired
    /\ lost' = saved.lost \cup Unreadable(saved.queue.events)
    /\ UNCHANGED <<schedVars, setup, phase, event, saved, tickVars>>

\* A new process builds the simulation again.
Rebuild ==
    /\ phase = "idle" /\ saved # NoSave /\ registered
    /\ heap' = <<>> /\ seq' = 0 /\ registered' = FALSE
    /\ tick' = 0 /\ time' = 0
    /\ phase' = "init"
    /\ event' = NoEvent
    /\ fired' = {} /\ lost' = {}
    /\ UNCHANGED <<schedVars, setup, saved, tickVars>>

Next ==
    \/ Assign \/ Schedule \/ RegisterPayload \/ Initialized
    \/ ModelStep
    \/ BeginTick \/ InTick \/ AbortTick \/ EndTick
    \/ EventStep \/ EventTooLate \/ EventHandled
    \/ Save \/ Load \/ Rebuild

Spec == Init /\ [][Next]_vars

\* The goroutines of a step are scheduled, and Run returns.
Progress ==
    /\ phase = "step" /\ ~crashed
    /\ \/ ((\E t \in DOMAIN tasks : TaskStep(t)) \/ (\E i \in DOMAIN levels : SystemReports(i)) \/ NextLevel)
          /\ UNCHANGED <<queueVars, setup, clockVars, phase, evVars, tickVars>>
       \/ AbortTick \/ EndTick

FairSpec == Spec /\ WF_vars(Progress)

(* ------------------------------ properties ------------------------------ *)

(* A tick of a disciplined model that succeeds has done what the systems do one after the
   other in declared order, whatever the number of workers and the order of the goroutines
   (scheduler.go 13-20, README.md 81-82); a tick that fails does not move the clock. *)
TicksAreSerial ==
    [][Disciplined /\ tick' # tick /\ phase = "step" => tick' = tick + 1 /\ data' = SerialTick(before)]_vars

(* A tick never deadlocks, however many of its tasks fail: the goroutines put their errors
   into channels that nobody reads before all of them are done (scheduler.go 149-169). *)
TickReturns == setup.mode = "systems" /\ phase = "step" ~> phase = "idle" \/ crashed

(* Every event that was scheduled is queued once, was handled, or was lost with an error:
   none disappears, none is handled twice, and no two events share a sequence number. *)
EventsConserved ==
    /\ \A i, j \in DOMAIN heap : heap[i].seq = heap[j].seq => i = j
    /\ {heap[i].seq : i \in DOMAIN heap} = (1 .. seq) \ (fired \cup lost)
    /\ fired \cap lost = {}

(* An event is handled before every event still queued, in the total order of time,
   priority and scheduling, and never in the past of the clock (executor.go 53-61); where
   only Run and Start begin steps, never at MaxTime or later (runtime.go 307-316). *)
FiresInOrder ==
    [][event' # event /\ phase' = "step" =>
          /\ \A i \in DOMAIN heap' : Before(event', heap'[i])
          /\ time' = event'.time /\ time' >= time
          /\ setup.entry = "run" /\ setup.maxTime > 0 => time' < setup.maxTime]_vars

(* A restore that succeeds brings back the queue as it was saved, array and counters
   included, so that the run continues as the saved one would have; only payloads of
   types that were not registered have become opaque. *)
QueueRestored ==
    [][Load /\ Readable(saved.queue.events) = Len(saved.queue.events) =>
          /\ seq' = saved.queue.seq /\ tick' = saved.tick /\ time' = saved.time
          /\ Len(heap') = Len(saved.heap)
          /\ \A i \in DOMAIN heap' :
               \/ heap'[i] = saved.heap[i]
               \/ saved.queue.events[i].payload = "json" /\ heap'[i] = [saved.heap[i] EXCEPT !.payload = "raw"]]_vars
=============================================================================
