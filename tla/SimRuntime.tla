----------------------------- MODULE SimRuntime -----------------------------
(***************************************************************************)
(* The execution runtime of pkg/simulation/runtime.go: the state of one    *)
(* Simulation, the goroutine of every run started on it, the goroutine     *)
(* that watches the context of every run, and the callers of its API.      *)
(*                                                                         *)
(* One action is one critical section of s.mu, or one unlocked step        *)
(* between two of them.  The unlocked calls of exec.step, world.Snapshot   *)
(* and world.Restore are intervals: a program counter stays at "step",     *)
(* "snapshot" or "restore" from the call to its return.                    *)
(*                                                                         *)
(* A call that is refused (ErrAlreadyRunning, ErrNotRunning) changes       *)
(* nothing and is a stuttering step.                                       *)
(***************************************************************************)
EXTENDS Naturals

CONSTANTS
    MaxRuns,    \* bound: the runs begun in the life of the simulation
    Callers,    \* goroutines that call Step, Snapshot, Restore and Wait
    Setups      \* the models and the clients considered, see the assumption below

AllOps == {"Pause", "Resume", "Stop", "Cancel", "Step", "Snapshot", "Restore", "Wait"}

AllOutcomes == {"more", "drained", "error", "panic"}

AllLimits == {"none", "count", "pred"}

\* A setup says which calls the clients make besides those that begin a run,
\* what exec.step may do with the model, the limits runs are begun with, the n
\* of RunN or of Config.MaxTicks, and whether clients begin a run only when no
\* earlier one is live.
ASSUME RuntimeAssumption ==
    /\ MaxRuns \in Nat
    /\ Setups \subseteq [ops : SUBSET AllOps, outcomes : SUBSET AllOutcomes,
                         limits : SUBSET AllLimits, ticks : Nat, sequential : BOOLEAN]

Runs == 1 .. MaxRuns

NoRun == 0

VARIABLES
    setup,     \* the setup, fixed for ever
    state,     \* s.state
    err,       \* s.err: "nil", or where the error came from
    steps,     \* s.steps, saturating above MaxTicks (it is only compared with it)
    cancel,    \* the run whose cancel function s.cancel holds, or NoRun
    done,      \* the run whose done channel s.done holds: the latest run begun
    runPc,     \* where each run's goroutine is in run()
    runCtx,    \* TRUE when the run's context is cancelled
    runErr,    \* TRUE when the run's runErr is set or its step panicked
    limit,     \* the limit the run was begun with
    watcher,   \* the goroutine that watches the run's context
    callPc,    \* where each caller is in Step, Snapshot, Restore or Wait
    waitOn     \* the run whose done channel a caller of Wait has read

\* History, read by properties only.
VARIABLES
    finished,  \* "limit" or "drained" when that made the run leave its loop
    late       \* the steps the run began since the state last was Running

sim == <<setup, state, err, steps, cancel, done>>
run == <<runPc, runCtx, runErr, limit, watcher>>
calls == <<callPc, waitOn>>
history == <<finished, late>>
vars == <<sim, run, calls, history>>

Ops == setup.ops
Outcomes == setup.outcomes
MaxTicks == setup.ticks

States == {"Idle", "Running", "Paused", "Stopped", "Completed", "Failed"}

Active == {"Running", "Paused"}

RunPcs == {"unborn", "enter", "top", "waiting", "limit", "limitHit", "step", "stepped",
           "drained", "cancelled", "failing", "finalize", "cancel", "close", "done"}

\* The run has been begun and its goroutine has not closed its done channel.
Live(r) == runPc[r] \notin {"unborn", "done"}

Saturate(n, bound) == IF n < bound THEN n + 1 ELSE bound

-----------------------------------------------------------------------------
(* New *)

Init ==
    /\ setup \in Setups
    /\ state = "Idle" /\ err = "nil" /\ steps = 0 /\ cancel = NoRun /\ done = NoRun
    /\ runPc = [r \in Runs |-> "unborn"]
    /\ runCtx = [r \in Runs |-> FALSE]
    /\ runErr = [r \in Runs |-> FALSE]
    /\ limit = [r \in Runs |-> "none"]
    /\ watcher = [r \in Runs |-> "unborn"]
    /\ callPc = [c \in Callers |-> "idle"]
    /\ waitOn = [c \in Callers |-> NoRun]
    /\ finished = [r \in Runs |-> "no"]
    /\ late = [r \in Runs |-> 0]

-----------------------------------------------------------------------------
(* The calls that begin and control a run. *)

\* s.cond.Broadcast() applied to the program counters pcs: a woken loop takes
\* the lock again and re-reads the state.
Broadcast(pcs) == [r \in Runs |-> IF pcs[r] = "waiting" THEN "top" ELSE pcs[r]]

\* Mutant of ForgetErr: the error of the last run is kept.
KeepErr == UNCHANGED err

ForgetErr == err' = "nil"

\* begin(), and the call of run() by Run, RunN, RunUntil or the goroutine of
\* Start.  It refuses a running simulation only.
BeginRun(r) ==
    /\ r = done + 1
    /\ state # "Running"
    /\ setup.sequential => \A q \in Runs : ~ Live(q)
    /\ state' = "Running" /\ ForgetErr /\ steps' = 0 /\ done' = r
    /\ runPc' = [runPc EXCEPT ![r] = "enter"]
    /\ \E l \in setup.limits : limit' = [limit EXCEPT ![r] = l]
    /\ late' = [q \in Runs |-> 0]
    /\ UNCHANGED <<setup, cancel, runCtx, runErr, watcher, calls, finished>>

Pause ==
    /\ "Pause" \in Ops
    /\ state = "Running"
    /\ state' = "Paused"
    /\ UNCHANGED <<setup, err, steps, cancel, done, run, calls, history>>

\* Mutant of Resumable: any simulation can be resumed.
AlwaysResumable == TRUE

Resumable == state = "Paused"

\* Mutant of Resume: the sleeping loop is not woken.
ResumeSilently ==
    /\ "Resume" \in Ops
    /\ Resumable
    /\ state' = "Running"
    /\ late' = [q \in Runs |-> 0]
    /\ UNCHANGED <<setup, err, steps, cancel, done, run, calls, finished>>

Resume ==
    /\ "Resume" \in Ops
    /\ Resumable
    /\ state' = "Running"
    /\ runPc' = Broadcast(runPc)
    /\ late' = [q \in Runs |-> 0]
    /\ UNCHANGED <<setup, err, steps, cancel, done, runCtx, runErr, limit, watcher, calls, finished>>

\* Stop cancels the run whose cancel function is stored, if there is one.
Stop ==
    /\ "Stop" \in Ops
    /\ state \in Active
    /\ state' = "Stopped"
    /\ runCtx' = [r \in Runs |-> runCtx[r] \/ r = cancel]
    /\ runPc' = Broadcast(runPc)
    /\ UNCHANGED <<setup, err, steps, cancel, done, runErr, limit, watcher, calls, history>>

\* The context a run was begun with is cancelled by its owner.
Cancel(r) ==
    /\ "Cancel" \in Ops
    /\ Live(r) /\ ~ runCtx[r]
    /\ runCtx' = [runCtx EXCEPT ![r] = TRUE]
    /\ UNCHANGED <<sim, runPc, runErr, limit, watcher, calls, history>>

-----------------------------------------------------------------------------
(* run(): the goroutine of run r. *)

\* Run r moves from one program counter to another; nothing else about it changes.
GoTo(r, from, to) ==
    /\ runPc[r] = from
    /\ runPc' = [runPc EXCEPT ![r] = to]

\* Stores the run's cancel function and starts its watcher.
Enter(r) ==
    /\ GoTo(r, "enter", "top")
    /\ cancel' = r
    /\ watcher' = [watcher EXCEPT ![r] = "armed"]
    /\ UNCHANGED <<setup, state, err, steps, done, runCtx, runErr, limit, calls, history>>

\* Mutant of Top: a loop that is not paused goes on.
TopGoesOn(r) ==
    /\ \/ state = "Paused" /\ GoTo(r, "top", "waiting")
       \/ state # "Paused" /\ GoTo(r, "top", "limit")
    /\ UNCHANGED <<sim, runCtx, runErr, limit, watcher, calls, history>>

\* The head of the loop: sleep while paused, leave unless running.
Top(r) ==
    /\ \/ state = "Paused" /\ GoTo(r, "top", "waiting")
       \/ state = "Running" /\ GoTo(r, "top", "limit")
       \/ state \notin Active /\ GoTo(r, "top", "finalize")
    /\ UNCHANGED <<sim, runCtx, runErr, limit, watcher, calls, history>>

\* Mutant of CountReached: one step too many.
CountReachedLate == steps > MaxTicks

\* The limit of RunN and of Config.MaxTicks.
CountReached == steps >= MaxTicks

\* What limit() may answer for run r.  There may be none (Config without
\* MaxTicks), and the answer of a predicate, or of the event-queue limit of
\* event mode, is open.
LimitMayBeReached(r) == limit[r] = "pred" \/ (limit[r] = "count" /\ CountReached)

LimitMayNotBeReached(r) == limit[r] \in {"none", "pred"} \/ ~ CountReached

\* The limit is consulted without the lock, and before every step.
Limit(r) ==
    /\ \/ /\ LimitMayBeReached(r)
          /\ GoTo(r, "limit", "limitHit")
          /\ UNCHANGED late
       \/ /\ LimitMayNotBeReached(r)
          /\ GoTo(r, "limit", "step")
          /\ late' = [late EXCEPT ![r] = IF state = "Running" THEN 0 ELSE Saturate(@, 2)]
    /\ UNCHANGED <<sim, runCtx, runErr, limit, watcher, calls, finished>>

\* The predicate given to RunUntil panics.
LimitPanics(r) ==
    /\ limit[r] = "pred" /\ "panic" \in Outcomes
    /\ GoTo(r, "limit", "finalize")
    /\ runErr' = [runErr EXCEPT ![r] = TRUE]
    /\ UNCHANGED <<sim, runCtx, limit, watcher, calls, history>>

\* Mutant of CompleteIfRunning: the state is not checked again.
CompleteAlways == state' = "Completed"

CompleteIfRunning == state' = IF state = "Running" THEN "Completed" ELSE state

\* The locked section that follows a limit that was reached.
LimitHit(r) ==
    /\ GoTo(r, "limitHit", "finalize")
    /\ CompleteIfRunning
    /\ finished' = [finished EXCEPT ![r] = "limit"]
    /\ UNCHANGED <<setup, err, steps, cancel, done, runCtx, runErr, limit, watcher, calls, late>>

\* exec.step returns, or panics.  An error is a cancellation if the run's
\* context is cancelled by then.
StepReturns(r) ==
    /\ \/ "more" \in Outcomes /\ GoTo(r, "step", "stepped") /\ UNCHANGED runErr
       \/ "drained" \in Outcomes /\ GoTo(r, "step", "drained") /\ UNCHANGED runErr
       \/ /\ "error" \in Outcomes
          /\ GoTo(r, "step", IF runCtx[r] THEN "cancelled" ELSE "failing")
          /\ runErr' = [runErr EXCEPT ![r] = ~ runCtx[r]]
       \/ /\ "panic" \in Outcomes
          /\ GoTo(r, "step", "finalize")
          /\ runErr' = [runErr EXCEPT ![r] = TRUE]
    /\ UNCHANGED <<sim, runCtx, limit, watcher, calls, history>>

\* s.steps.Add(1), outside the lock.
Count(r) ==
    /\ GoTo(r, "stepped", "top")
    /\ steps' = Saturate(steps, MaxTicks + 1)
    /\ UNCHANGED <<setup, state, err, cancel, done, runCtx, runErr, limit, watcher, calls, history>>

\* No event is left.
Drained(r) ==
    /\ GoTo(r, "drained", "finalize")
    /\ CompleteIfRunning
    /\ finished' = [finished EXCEPT ![r] = "drained"]
    /\ UNCHANGED <<setup, err, steps, cancel, done, runCtx, runErr, limit, watcher, calls, late>>

\* Mutant of Cancelled: the context's error is stored as the run's error.
CancelledStoresErr(r) ==
    /\ GoTo(r, "cancelled", "finalize")
    /\ err' = "context canceled"
    /\ UNCHANGED <<setup, state, steps, cancel, done, runCtx, runErr, limit, watcher, calls, history>>

\* Mutant of Cancelled: the loop is left without recording the stop.
CancelledSilently(r) ==
    /\ GoTo(r, "cancelled", "finalize")
    /\ UNCHANGED <<sim, runCtx, runErr, limit, watcher, calls, history>>

\* The step failed because the run was cancelled: a stop, not a failure.
Cancelled(r) ==
    /\ runPc[r] = "cancelled"
    /\ \/ /\ state \in Active
          /\ state' = "Stopped"
          /\ runPc' = Broadcast([runPc EXCEPT ![r] = "finalize"])
       \/ /\ state \notin Active
          /\ runPc' = [runPc EXCEPT ![r] = "finalize"]
          /\ UNCHANGED state
    /\ UNCHANGED <<setup, err, steps, cancel, done, runCtx, runErr, limit, watcher, calls, history>>

\* The step failed: whatever the state is by now, it becomes Failed.
Failing(r) ==
    /\ runPc[r] = "failing"
    /\ state' = "Failed" /\ err' = "run"
    /\ runPc' = Broadcast([runPc EXCEPT ![r] = "finalize"])
    /\ UNCHANGED <<setup, steps, cancel, done, runCtx, runErr, limit, watcher, calls, history>>

\* The locked section of the deferred finalization.  It clears s.cancel
\* whichever run stored it.
Finalize(r) ==
    /\ runPc[r] = "finalize"
    /\ \/ /\ runErr[r]
          /\ state' = "Failed" /\ err' = "run"
          /\ runPc' = Broadcast([runPc EXCEPT ![r] = "cancel"])
       \/ /\ ~ runErr[r]
          /\ CompleteIfRunning
          /\ runPc' = [runPc EXCEPT ![r] = "cancel"]
          /\ UNCHANGED err
    /\ cancel' = NoRun
    /\ UNCHANGED <<setup, steps, done, runCtx, runErr, limit, watcher, calls, history>>

\* cancel(), after the lock is released.
CancelOwn(r) ==
    /\ GoTo(r, "cancel", "close")
    /\ runCtx' = [runCtx EXCEPT ![r] = TRUE]
    /\ UNCHANGED <<sim, runErr, limit, watcher, calls, history>>

\* Mutant of Close: not deferred, so that a run that panics or fails never gets there.
CloseUnlessFailed(r) ==
    /\ ~ runErr[r]
    /\ GoTo(r, "close", "done")
    /\ limit' = [limit EXCEPT ![r] = "none"]
    /\ late' = [late EXCEPT ![r] = 0]
    /\ UNCHANGED <<sim, runCtx, runErr, watcher, calls, finished>>

\* close(done), and the goroutine's locals are gone.
Close(r) ==
    /\ GoTo(r, "close", "done")
    /\ runErr' = [runErr EXCEPT ![r] = FALSE]
    /\ limit' = [limit EXCEPT ![r] = "none"]
    /\ late' = [late EXCEPT ![r] = 0]
    /\ UNCHANGED <<sim, runCtx, watcher, calls, finished>>

\* Mutant of Watch: the watcher sleeps until the simulation is no longer paused.
WatchAfterPause(r) ==
    /\ watcher[r] = "armed" /\ runCtx[r] /\ state # "Paused"
    /\ watcher' = [watcher EXCEPT ![r] = "exited"]
    /\ state' = IF state = "Running" THEN "Stopped" ELSE state
    /\ UNCHANGED <<setup, err, steps, cancel, done, runPc, runCtx, runErr, limit, calls, history>>

\* The watcher of run r: when its context is cancelled, by anyone, whatever is
\* running or paused is stopped.
Watch(r) ==
    /\ watcher[r] = "armed" /\ runCtx[r]
    /\ watcher' = [watcher EXCEPT ![r] = "exited"]
    /\ \/ /\ state \in Active
          /\ state' = "Stopped"
          /\ runPc' = Broadcast(runPc)
       \/ state \notin Active /\ UNCHANGED <<state, runPc>>
    /\ UNCHANGED <<setup, err, steps, cancel, done, runCtx, runErr, limit, calls, history>>

-----------------------------------------------------------------------------
(* Step, Snapshot, Restore and Wait: goroutine c of a client. *)

CallGoTo(c, from, to) ==
    /\ callPc[c] = from
    /\ callPc' = [callPc EXCEPT ![c] = to]

\* The state is checked under the lock and the lock is released.
CallBegins(c, op, pc) ==
    /\ op \in Ops
    /\ state # "Running"
    /\ CallGoTo(c, "idle", pc)
    /\ UNCHANGED <<sim, run, waitOn, history>>

StepCheck(c) == CallBegins(c, "Step", "step")

SnapshotCheck(c) == CallBegins(c, "Snapshot", "snapshot")

RestoreCheck(c) == CallBegins(c, "Restore", "restore")

\* exec.step returns to Step, or its panic unwinds it.
StepCallReturns(c) ==
    /\ \/ Outcomes \cap {"more", "drained"} # {} /\ CallGoTo(c, "step", "stepOk")
       \/ "error" \in Outcomes /\ CallGoTo(c, "step", "stepErr")
       \/ "panic" \in Outcomes /\ CallGoTo(c, "step", "idle")
    /\ UNCHANGED <<sim, run, waitOn, history>>

\* The second locked section of Step.
StepCommit(c) ==
    /\ \/ /\ CallGoTo(c, "stepOk", "idle")
          /\ steps' = Saturate(steps, MaxTicks + 1)
          /\ UNCHANGED <<state, err>>
       \/ /\ CallGoTo(c, "stepErr", "idle")
          /\ state' = "Failed" /\ err' = "step"
          /\ UNCHANGED steps
    /\ UNCHANGED <<setup, cancel, done, run, waitOn, history>>

SnapshotReturns(c) ==
    /\ CallGoTo(c, "snapshot", "idle")
    /\ UNCHANGED <<sim, run, waitOn, history>>

RestoreReturns(c) ==
    /\ CallGoTo(c, "restore", "idle")
    /\ UNCHANGED <<sim, run, waitOn, history>>

\* Wait reads the current done channel; with none it returns at once.
WaitBegins(c) ==
    /\ "Wait" \in Ops
    /\ done # NoRun
    /\ CallGoTo(c, "idle", "wait")
    /\ waitOn' = [waitOn EXCEPT ![c] = done]
    /\ UNCHANGED <<sim, run, history>>

WaitReturns(c) ==
    /\ CallGoTo(c, "wait", "idle")
    /\ runPc[waitOn[c]] = "done"
    /\ waitOn' = [waitOn EXCEPT ![c] = NoRun]
    /\ UNCHANGED <<sim, run, history>>

-----------------------------------------------------------------------------

\* The steps the goroutine of run r takes by itself.
RunStep(r) ==
    \/ Enter(r) \/ Top(r) \/ Limit(r) \/ LimitPanics(r) \/ LimitHit(r)
    \/ StepReturns(r) \/ Count(r)
    \/ Drained(r) \/ Cancelled(r) \/ Failing(r) \/ Finalize(r) \/ CancelOwn(r) \/ Close(r)

CallStart(c) == StepCheck(c) \/ SnapshotCheck(c) \/ RestoreCheck(c) \/ WaitBegins(c)

CallStep(c) ==
    StepCallReturns(c) \/ StepCommit(c) \/ SnapshotReturns(c) \/ RestoreReturns(c) \/ WaitReturns(c)

Next ==
    \/ \E r \in Runs : BeginRun(r) \/ Cancel(r) \/ RunStep(r) \/ Watch(r)
    \/ Pause \/ Resume \/ Stop
    \/ \E c \in Callers : CallStart(c) \/ CallStep(c)

Spec == Init /\ [][Next]_vars

\* Goroutines that can run are scheduled, the mutex is not starved, and a step
\* of the model returns.  Clients need not call anything.
Fairness ==
    /\ \A r \in Runs : WF_vars(RunStep(r)) /\ WF_vars(Watch(r))
    /\ \A c \in Callers : WF_vars(CallStep(c))

FairSpec == Spec /\ Fairness

-----------------------------------------------------------------------------
(* Invariants *)

\* The shape of the state.
TypeOK ==
    /\ setup \in Setups
    /\ state \in States
    /\ err \in {"nil", "run", "step"}
    /\ steps \in 0 .. MaxTicks + 1
    /\ cancel \in Runs \cup {NoRun}
    /\ done \in Runs \cup {NoRun}
    /\ runPc \in [Runs -> RunPcs]
    /\ runCtx \in [Runs -> BOOLEAN]
    /\ runErr \in [Runs -> BOOLEAN]
    /\ limit \in [Runs -> AllLimits]
    /\ watcher \in [Runs -> {"unborn", "armed", "exited"}]
    /\ callPc \in [Callers -> {"idle", "step", "stepOk", "stepErr", "snapshot", "restore", "wait"}]
    /\ waitOn \in [Callers -> Runs \cup {NoRun}]
    /\ finished \in [Runs -> {"no", "limit", "drained"}]
    /\ late \in [Runs -> 0 .. 2]

\* State() reports Failed exactly when there is an error to report: begin, the
\* loop, the finalizer and Step always write s.state and s.err together.
FailedIffErr == state = "Failed" <=> err # "nil"

\* A running or paused simulation always has a goroutine that will still stop
\* it: the watcher of the latest run has not exited, or has yet to be started.
\* Nobody else stops a simulation that was paused or resumed after its loop ended.
ActiveIsSupervised ==
    state \in Active => done # NoRun /\ watcher[done] # "exited"

\* Pause, Stop and cancellation take effect at the next step boundary: a loop
\* that read Running may begin one step after the state changed, never two.
LateStepsBounded == \A r \in Runs : late[r] <= 1

\* Clients that begin a run only when no earlier one is live, and do not call Step.
Disciplined == setup.sequential /\ "Step" \notin Ops

\* Under disciplined clients, a loop asleep in cond.Wait has not missed the
\* wake-up that ends its sleep.
WaitingOnlyWhilePaused == Disciplined => \A r \in Runs : runPc[r] = "waiting" => state = "Paused"

\* A run of RunN, or one with MaxTicks, that reaches its limit has performed
\* exactly that number of steps (begin resets the counter of the last run),
\* under disciplined clients.
CountedRunExact ==
    Disciplined /\ done # NoRun /\ limit[done] = "count" /\ finished[done] = "limit" => steps = MaxTicks

\* StateCompleted means that execution finished normally: the loop of the
\* latest run reached its limit or ran out of events, under disciplined clients.
CompletedMeansFinished ==
    Disciplined /\ state = "Completed" => finished[done] # "no"

\* RunN executes exactly n steps, then stops: when it returns, the counter is n
\* (stated for models that neither fail nor drain, and clients that only call RunN).
RunNExact ==
    done # NoRun /\ runPc[done] = "close" /\ limit[done] = "count" => steps = MaxTicks

-----------------------------------------------------------------------------
(* Refinement and liveness *)

L == INSTANCE Lifecycle WITH runs <- done

\* Whatever the goroutines of old and new runs do, callers only ever observe
\* the transitions of Lifecycle.
RefinesLifecycle == L!LSpec

\* A simulation whose latest run is cancelled, by Stop, by its owner or by its
\* own finalizer, does not stay Running or Paused.
LatestCancelled == done # NoRun /\ runCtx[done]
CancelledRunStops == LatestCancelled ~> (~ LatestCancelled \/ state \notin Active)

\* Wait() always returns: once the simulation is neither running nor paused,
\* the done channel of every run is closed unless it becomes active again.
WaitAlwaysReturns ==
    \A r \in Runs : (Live(r) /\ state \notin Active) ~> (~ Live(r) \/ state \in Active)

\* Disciplined clients, who have at most one run to wait for, do get that.
NothingLive == \A r \in Runs : ~ Live(r)
DisciplinedWaitReturns ==
    (Disciplined /\ ~ NothingLive /\ state \notin Active) ~> (NothingLive \/ state \in Active)
=============================================================================
