-------------------------- MODULE SimRuntimeProofs --------------------------
(***************************************************************************)
(* Theorems about SimRuntime for any number of runs, callers and ticks.    *)
(***************************************************************************)
EXTENDS SimRuntime, TLAPS

\* Runs are begun in order, and a run's watcher is started when it is entered.
RunsBorn ==
    \A r \in Runs :
       /\ runPc[r] = "unborn" <=> r > done
       /\ watcher[r] = "unborn" <=> runPc[r] \in {"unborn", "enter"}

\* A loop past the check of the state owes nothing: it read Running, and no
\* step of its run has begun since.
LateSteps ==
    \A r \in Runs :
       /\ late[r] <= 1
       /\ state = "Running" \/ runPc[r] = "limit" => late[r] = 0

\* The inductive invariant of every client.
RuntimeInv == TypeOK /\ FailedIffErr /\ RunsBorn /\ ActiveIsSupervised /\ LateSteps

-----------------------------------------------------------------------------

\* New establishes the invariant.
LEMMA InitInv == Init => RuntimeInv
BY RuntimeAssumption DEF Init, RuntimeInv, TypeOK, FailedIffErr, RunsBorn, ActiveIsSupervised,
   LateSteps,
       MaxTicks, Runs, NoRun, States, Active, RunPcs, AllLimits

\* Every step of every goroutine keeps the state well typed.
LEMMA NextTypeOK == TypeOK /\ [Next]_vars => TypeOK'
<1> SUFFICES ASSUME TypeOK, [Next]_vars PROVE TypeOK'
    BY Zenon
<1>m. MaxTicks \in Nat /\ setup.limits \subseteq AllLimits
    BY RuntimeAssumption, Zenon DEF TypeOK, MaxTicks
<1> USE DEF TypeOK, States, Active, RunPcs, MaxTicks
<1>1. ASSUME NEW r \in Runs, BeginRun(r) PROVE TypeOK'
    BY <1>1, <1>m DEF BeginRun, ForgetErr, calls
<1>2. CASE Pause
    BY <1>2, Zenon DEF Pause, run, calls, history
<1>3. CASE Resume
    BY <1>3 DEF Resume, Resumable, Broadcast, calls
<1>4. CASE Stop
    BY <1>4, Zenon DEF Stop, Broadcast, calls, history
<1>5. ASSUME NEW r \in Runs, Cancel(r) PROVE TypeOK'
    BY <1>5, Zenon DEF Cancel, sim, calls, history
<1>6. ASSUME NEW r \in Runs, RunStep(r) PROVE TypeOK'
  <2>1. CASE Enter(r)
    BY <2>1, Zenon DEF Enter, GoTo, calls, history
  <2>2. CASE Top(r)
    BY <2>2 DEF Top, GoTo, sim, calls, history
  <2>3. CASE Limit(r)
    <3>1. runPc' \in [Runs -> RunPcs]
      BY <2>3 DEF Limit, GoTo
    <3>2. late' \in [Runs -> 0 .. 2]
      BY <2>3 DEF Limit, Saturate
    <3> QED
      BY <2>3, <3>1, <3>2, Zenon DEF Limit, sim, calls
  <2>4. CASE LimitPanics(r)
    BY <2>4, Zenon DEF LimitPanics, GoTo, sim, calls, history
  <2>5. CASE LimitHit(r)
    BY <2>5, Zenon DEF LimitHit, GoTo, CompleteIfRunning, calls
  <2>6. CASE StepReturns(r)
    <3>1. runPc' \in [Runs -> RunPcs]
      BY <2>6 DEF StepReturns, GoTo
    <3>2. runErr' \in [Runs -> BOOLEAN]
      BY <2>6, Zenon DEF StepReturns
    <3> QED
      BY <2>6, <3>1, <3>2, Zenon DEF StepReturns, sim, calls, history
  <2>7. CASE Count(r)
    BY <2>7, <1>m DEF Count, GoTo, Saturate, calls, history
  <2>8. CASE Drained(r)
    BY <2>8, Zenon DEF Drained, GoTo, CompleteIfRunning, calls
  <2>9. CASE Cancelled(r)
    BY <2>9, Zenon DEF Cancelled, Broadcast, calls, history
  <2>10. CASE Failing(r)
    BY <2>10, Zenon DEF Failing, Broadcast, calls, history
  <2>11. CASE Finalize(r)
    BY <2>11, Zenon DEF Finalize, CompleteIfRunning, Broadcast, calls, history
  <2>12. CASE CancelOwn(r)
    BY <2>12, Zenon DEF CancelOwn, GoTo, sim, calls, history
  <2>13. CASE Close(r)
    BY <2>13 DEF Close, GoTo, AllLimits, sim, calls
  <2> QED
    BY <1>6, <2>1, <2>2, <2>3, <2>4, <2>5, <2>6, <2>7, <2>8, <2>9, <2>10, <2>11, <2>12, <2>13, Zenon
       DEF RunStep
<1>7. ASSUME NEW r \in Runs, Watch(r) PROVE TypeOK'
    BY <1>7 DEF Watch, Broadcast, calls, history
<1>8. ASSUME NEW c \in Callers, CallStart(c) PROVE TypeOK'
  <2>1. CASE StepCheck(c)
    BY <2>1, Zenon DEF StepCheck, CallBegins, CallGoTo, sim, run, history
  <2>2. CASE SnapshotCheck(c)
    BY <2>2, Zenon DEF SnapshotCheck, CallBegins, CallGoTo, sim, run, history
  <2>3. CASE RestoreCheck(c)
    BY <2>3, Zenon DEF RestoreCheck, CallBegins, CallGoTo, sim, run, history
  <2>4. CASE WaitBegins(c)
    BY <2>4, Zenon DEF WaitBegins, CallGoTo, sim, run, history
  <2> QED
    BY <1>8, <2>1, <2>2, <2>3, <2>4, Zenon DEF CallStart
<1>9. ASSUME NEW c \in Callers, CallStep(c) PROVE TypeOK'
  <2>1. CASE StepCallReturns(c)
    BY <2>1 DEF StepCallReturns, CallGoTo, sim, run, history
  <2>2. CASE StepCommit(c)
    BY <2>2, <1>m DEF StepCommit, CallGoTo, Saturate, run, history
  <2>3. CASE SnapshotReturns(c)
    BY <2>3, Zenon DEF SnapshotReturns, CallGoTo, sim, run, history
  <2>4. CASE RestoreReturns(c)
    BY <2>4, Zenon DEF RestoreReturns, CallGoTo, sim, run, history
  <2>5. CASE WaitReturns(c)
    BY <2>5, Zenon DEF WaitReturns, CallGoTo, sim, run, history
  <2> QED
    BY <1>9, <2>1, <2>2, <2>3, <2>4, <2>5, Zenon DEF CallStep
<1>10. CASE UNCHANGED vars
    BY <1>10, Zenon DEF vars, sim, run, calls, history
<1> QED
    BY <1>1, <1>2, <1>3, <1>4, <1>5, <1>6, <1>7, <1>8, <1>9, <1>10, Zenon DEF Next

-----------------------------------------------------------------------------

\* Every step of every goroutine keeps the invariant.
LEMMA NextInv == RuntimeInv /\ [Next]_vars => RuntimeInv'
<1> SUFFICES ASSUME RuntimeInv, [Next]_vars
             PROVE  FailedIffErr' /\ RunsBorn' /\ ActiveIsSupervised' /\ LateSteps'
    BY NextTypeOK, Zenon DEF RuntimeInv
<1>t. /\ done \in Runs \cup {NoRun}
      /\ runPc \in [Runs -> RunPcs]
      /\ watcher \in [Runs -> {"unborn", "armed", "exited"}]
      /\ late \in [Runs -> 0 .. 2]
    BY Zenon DEF RuntimeInv, TypeOK
<1>i. FailedIffErr /\ RunsBorn /\ ActiveIsSupervised /\ LateSteps
    BY Zenon DEF RuntimeInv
<1> DEFINE Goal == FailedIffErr' /\ RunsBorn' /\ ActiveIsSupervised' /\ LateSteps'
<1> USE DEF FailedIffErr, RunsBorn, ActiveIsSupervised, LateSteps, Active, NoRun
<1>1. ASSUME NEW r \in Runs, BeginRun(r) PROVE Goal
  <2>1. done' = r /\ done' = done + 1 /\ UNCHANGED watcher
    BY <1>1, Zenon DEF BeginRun, ForgetErr
  <2>2. \A q \in Runs : runPc'[q] = IF q = r THEN "enter" ELSE runPc[q]
    BY <1>1, <1>t, Zenon DEF BeginRun, ForgetErr
  <2>3. RunsBorn'
    BY <2>1, <2>2, <1>t, <1>i
  <2>4. FailedIffErr' /\ LateSteps'
    BY <1>1 DEF BeginRun, ForgetErr
  <2>5. ActiveIsSupervised'
    BY <2>1, <1>t, <1>i DEF Runs
  <2> QED
    BY <2>3, <2>4, <2>5, Zenon
<1>2. CASE Pause
    BY <1>2, <1>t, <1>i, Zenon DEF Pause, run, history
<1>3. CASE Resume
    BY <1>3, <1>t, <1>i DEF Resume, Resumable, Broadcast
<1>4. CASE Stop
    BY <1>4, <1>t, <1>i, Zenon DEF Stop, Broadcast, history
<1>5. ASSUME NEW r \in Runs, Cancel(r) PROVE Goal
    BY <1>5, <1>t, <1>i, Zenon DEF Cancel, sim, history
<1>6. ASSUME NEW r \in Runs, RunStep(r) PROVE Goal
  <2>1. CASE Enter(r)
    <3>1. \A q \in Runs : /\ runPc'[q] = IF q = r THEN "top" ELSE runPc[q]
                          /\ watcher'[q] = IF q = r THEN "armed" ELSE watcher[q]
      BY <2>1, <1>t, Zenon DEF Enter, GoTo
    <3>2. runPc[r] = "enter" /\ UNCHANGED <<state, err, done, late>>
      BY <2>1, Zenon DEF Enter, GoTo, history
    <3> QED
      BY <3>1, <3>2, <1>t, <1>i, Zenon
  <2>2. CASE Top(r)
    <3>1. UNCHANGED <<state, err, done, watcher, late>>
      BY <2>2, Zenon DEF Top, sim, history
    <3>2. /\ runPc[r] = "top"
          /\ \/ state # "Running" /\ runPc'[r] \in {"waiting", "finalize"}
             \/ state = "Running" /\ runPc'[r] = "limit"
          /\ \A q \in Runs \ {r} : runPc'[q] = runPc[q]
      BY <2>2, <1>t, <1>i, Zenon DEF Top, GoTo
    <3> QED
      BY <3>1, <3>2, <1>i, Zenon
  <2>3. CASE Limit(r)
    BY <2>3, <1>t, <1>i DEF Limit, GoTo, Saturate, sim
  <2>4. CASE LimitPanics(r)
    BY <2>4, <1>t, <1>i, Zenon DEF LimitPanics, GoTo, sim, history
  <2>5. CASE LimitHit(r)
    BY <2>5, <1>t, <1>i, Zenon DEF LimitHit, GoTo, CompleteIfRunning
  <2>6. CASE StepReturns(r)
    BY <2>6, <1>t, <1>i DEF StepReturns, GoTo, sim, history
  <2>7. CASE Count(r)
    BY <2>7, <1>t, <1>i, Zenon DEF Count, GoTo, history
  <2>8. CASE Drained(r)
    BY <2>8, <1>t, <1>i, Zenon DEF Drained, GoTo, CompleteIfRunning
  <2>9. CASE Cancelled(r)
    <3>1. CASE state \in Active
      <4>1. runPc[r] = "cancelled" /\ state' = "Stopped" /\ UNCHANGED <<err, done, watcher, late>>
        BY <2>9, <3>1, Zenon DEF Cancelled, history
      <4>2. \A q \in Runs : runPc'[q] = IF q = r THEN "finalize"
                              ELSE IF runPc[q] = "waiting" THEN "top" ELSE runPc[q]
        BY <2>9, <3>1, <1>t, Zenon DEF Cancelled, Broadcast
      <4> QED
        BY <3>1, <4>1, <4>2, <1>t, <1>i, Zenon
    <3>2. CASE state \notin Active
      <4>1. runPc[r] = "cancelled" /\ UNCHANGED <<state, err, done, watcher, late>>
        BY <2>9, <3>2, Zenon DEF Cancelled, history
      <4>2. \A q \in Runs : runPc'[q] = IF q = r THEN "finalize" ELSE runPc[q]
        BY <2>9, <3>2, <1>t, <1>i, Zenon DEF Cancelled
      <4> QED
        BY <4>1, <4>2, <1>i, Zenon
    <3> QED
      BY <3>1, <3>2, Zenon
  <2>10. CASE Failing(r)
    BY <2>10, <1>t, <1>i, Zenon DEF Failing, Broadcast, history
  <2>11. CASE Finalize(r)
    BY <2>11, <1>t, <1>i DEF Finalize, CompleteIfRunning, Broadcast, history
  <2>12. CASE CancelOwn(r)
    BY <2>12, <1>t, <1>i, Zenon DEF CancelOwn, GoTo, sim, history
  <2>13. CASE Close(r)
    BY <2>13, <1>t, <1>i DEF Close, GoTo, sim
  <2> QED
    BY <1>6, <2>1, <2>2, <2>3, <2>4, <2>5, <2>6, <2>7, <2>8, <2>9, <2>10, <2>11, <2>12, <2>13, Zenon
       DEF RunStep
<1>7. ASSUME NEW r \in Runs, Watch(r) PROVE Goal
    BY <1>7, <1>t, <1>i DEF Watch, Broadcast, history
<1>8. ASSUME NEW c \in Callers, CallStart(c) PROVE Goal
    BY Zenon, <1>8, <1>i DEF CallStart, StepCheck, SnapshotCheck, RestoreCheck, WaitBegins,
       CallBegins,
                sim, run, history
<1>9. ASSUME NEW c \in Callers, CallStep(c) PROVE Goal
    BY Zenon, <1>9, <1>i DEF CallStep, StepCallReturns, StepCommit, SnapshotReturns, RestoreReturns,
                WaitReturns, sim, run, history
<1>10. CASE UNCHANGED vars
    BY <1>10, <1>i, Zenon DEF vars, sim, run, history
<1> QED
    BY <1>1, <1>2, <1>3, <1>4, <1>5, <1>6, <1>7, <1>8, <1>9, <1>10, Zenon DEF Next

\* The invariant holds in every reachable state.
LEMMA RuntimeInvariant == Spec => []RuntimeInv
BY InitInv, NextInv, PTL DEF Spec

\* The state is well typed, for any number of runs, callers and ticks.
THEOREM TypeCorrectness == Spec => []TypeOK
BY RuntimeInvariant, PTL DEF RuntimeInv

\* State() is Failed exactly when s.err is set, whatever goroutines of old runs do.
THEOREM FailureIsReported == Spec => []FailedIffErr
BY RuntimeInvariant, PTL DEF RuntimeInv

\* A running or paused simulation always has a watcher that can still stop it.
THEOREM Supervision == Spec => []ActiveIsSupervised
BY RuntimeInvariant, PTL DEF RuntimeInv

\* A loop begins at most one step after the simulation stopped running.
THEOREM StepBoundary == Spec => []LateStepsBounded
<1>1. RuntimeInv => LateStepsBounded
    BY Zenon DEF RuntimeInv, LateSteps, LateStepsBounded
<1> QED
    BY <1>1, RuntimeInvariant, PTL

-----------------------------------------------------------------------------
(* The runtime implements Lifecycle. *)

\* Every step of every goroutine is a transition of Lifecycle, or invisible.
LEMMA NextRefines == RuntimeInv /\ [Next]_vars => [L!LNext]_(L!lvars)
<1> SUFFICES ASSUME RuntimeInv, [Next]_vars PROVE L!LNext \/ UNCHANGED <<state, err, done>>
    BY Zenon DEF L!lvars
<1> DEFINE Goal == L!LNext \/ UNCHANGED <<state, err, done>>
<1> USE DEF L!LNext, L!Begin, L!Suspend, L!Continue, L!Halt, L!Complete, L!Fail, L!Errors,
            L!Active, Active
<1>1. ASSUME NEW r \in Runs, BeginRun(r) PROVE Goal
    BY <1>1, Zenon DEF BeginRun, ForgetErr, RuntimeInv, TypeOK, Runs, NoRun
<1>2. CASE Pause
    BY <1>2, Zenon DEF Pause
<1>3. CASE Resume
    BY <1>3, Zenon DEF Resume, Resumable
<1>4. CASE Stop
    BY <1>4, Zenon DEF Stop
<1>5. ASSUME NEW r \in Runs, Cancel(r) PROVE Goal
    BY <1>5, Zenon DEF Cancel, sim
<1>6. ASSUME NEW r \in Runs, RunStep(r) PROVE Goal
  <2>1. CASE LimitHit(r) \/ Drained(r) \/ Cancelled(r) \/ Failing(r) \/ Finalize(r)
    BY <2>1, Zenon DEF LimitHit, Drained, Cancelled, Failing, Finalize, CompleteIfRunning
  <2>2. CASE \/ Enter(r) \/ Top(r) \/ Limit(r) \/ LimitPanics(r) \/ StepReturns(r) \/ Count(r)
             \/ CancelOwn(r) \/ Close(r)
    BY <2>2, Zenon DEF Enter, Top, Limit, LimitPanics, StepReturns, Count, CancelOwn, Close, sim
  <2> QED
    BY <1>6, <2>1, <2>2, Zenon DEF RunStep
<1>7. ASSUME NEW r \in Runs, Watch(r) PROVE Goal
    BY <1>7, Zenon DEF Watch
<1>8. ASSUME NEW c \in Callers, CallStart(c) PROVE Goal
    BY <1>8, Zenon DEF CallStart, StepCheck, SnapshotCheck, RestoreCheck, WaitBegins, CallBegins,
       sim
<1>9. ASSUME NEW c \in Callers, CallStep(c) PROVE Goal
    BY Zenon, <1>9 DEF CallStep, StepCallReturns, StepCommit, SnapshotReturns, RestoreReturns,
                WaitReturns, sim
<1>10. CASE UNCHANGED vars
    BY <1>10, Zenon DEF vars, sim
<1> QED
    BY <1>1, <1>2, <1>3, <1>4, <1>5, <1>6, <1>7, <1>8, <1>9, <1>10, Zenon DEF Next

\* Callers observe only the transitions of Lifecycle, although goroutines of
\* any number of runs write the state.
THEOREM Refinement == Spec => RefinesLifecycle
<1>1. Init => L!LInit
    BY Zenon DEF Init, L!LInit, NoRun
<1> QED
    BY <1>1, NextRefines, RuntimeInvariant, PTL DEF Spec, RefinesLifecycle, L!LSpec

-----------------------------------------------------------------------------
(* Clients that begin a run only when no earlier one is live, and that do not *)
(* call Step.                                                                  *)

\* The setup never changes.
LEMMA SetupFixed == [Next]_vars => setup' = setup
<1> SUFFICES ASSUME Next PROVE setup' = setup
    BY Zenon DEF vars, sim
<1>1. ASSUME NEW r \in Runs, BeginRun(r) \/ Cancel(r) \/ RunStep(r) \/ Watch(r) PROVE setup' = setup
  <2>1. CASE BeginRun(r) \/ Cancel(r) \/ Watch(r)
    BY <2>1, Zenon DEF BeginRun, Cancel, Watch, sim
  <2>2. CASE RunStep(r)
    BY Zenon, <2>2 DEF RunStep, Enter, Top, Limit, LimitPanics, LimitHit, StepReturns, Count,
       Drained,
                Cancelled, Failing, Finalize, CancelOwn, Close, sim
  <2> QED
    BY <1>1, <2>1, <2>2, Zenon
<1>2. CASE Pause \/ Resume \/ Stop
    BY <1>2, Zenon DEF Pause, Resume, Stop
<1>3. ASSUME NEW c \in Callers, CallStart(c) \/ CallStep(c) PROVE setup' = setup
    BY Zenon, <1>3 DEF CallStart, CallStep, StepCheck, SnapshotCheck, RestoreCheck, CallBegins,
       WaitBegins,
                StepCallReturns, StepCommit, SnapshotReturns, RestoreReturns, WaitReturns, sim
<1> QED
    BY <1>1, <1>2, <1>3, Zenon DEF Next

Leaving == {"finalize", "cancel", "close", "done"}

\* Only the latest run is live, and no caller is inside Step.
OneRun ==
    /\ \A r \in Runs : r # done => runPc[r] \in {"unborn", "done"}
    /\ \A c \in Callers : callPc[c] \notin {"step", "stepOk", "stepErr"}

\* A loop that ended neither on its limit, nor without events, nor in an error
\* left because the simulation was no longer active.
LeftInactive ==
    \A r \in Runs :
       /\ finished[r] # "no" => runPc[r] \in Leaving
       /\ runPc[r] = "finalize" /\ ~ runErr[r] /\ finished[r] = "no" => state \notin Active

\* The counter of a counted run stays below its limit until the limit is reached.
Counting ==
    done # NoRun /\ limit[done] = "count" =>
       /\ steps <= MaxTicks
       /\ runPc[done] \in {"step", "stepped"} => steps < MaxTicks
       /\ runPc[done] = "limitHit" => steps = MaxTicks
       /\ finished[done] = "limit" => steps = MaxTicks

NoLostWakeup == \A r \in Runs : runPc[r] = "waiting" => state = "Paused"

CompletedByRun == state = "Completed" => done # NoRun /\ finished[done] # "no"

\* The inductive invariant of disciplined clients.
DisciplinedInv ==
    RuntimeInv /\ OneRun /\ NoLostWakeup /\ LeftInactive /\ Counting /\ CompletedByRun

\* Every step keeps the invariant of disciplined clients.
LEMMA DisciplinedNext ==
    ASSUME Disciplined, DisciplinedInv, [Next]_vars
    PROVE  DisciplinedInv'
<1>r. RuntimeInv /\ RuntimeInv'
    BY NextInv, Zenon DEF DisciplinedInv
<1>t. /\ steps \in 0 .. MaxTicks + 1 /\ MaxTicks \in Nat
      /\ done \in Runs \cup {NoRun}
      /\ runPc \in [Runs -> RunPcs]
      /\ runErr \in [Runs -> BOOLEAN]
      /\ limit \in [Runs -> AllLimits]
      /\ finished \in [Runs -> {"no", "limit", "drained"}]
      /\ late \in [Runs -> 0 .. 2]
      /\ callPc \in [Callers -> {"idle", "step", "stepOk", "stepErr", "snapshot", "restore", "wait"}]
      /\ RunsBorn
      /\ \A r \in Runs : r # NoRun
      /\ MaxTicks' = MaxTicks
    BY <1>r, SetupFixed, RuntimeAssumption DEF RuntimeInv, TypeOK, Runs, NoRun, MaxTicks
<1> DEFINE Goal == OneRun' /\ NoLostWakeup' /\ LeftInactive' /\ Counting' /\ CompletedByRun'
<1> SUFFICES Goal
    BY <1>r, Zenon DEF DisciplinedInv
<1> USE DEF Disciplined, DisciplinedInv, OneRun, NoLostWakeup, LeftInactive,
            Counting, CompletedByRun, Leaving, Active
<1>1. ASSUME NEW r \in Runs, BeginRun(r) PROVE Goal
  <2>1. \A q \in Runs : runPc[q] \in {"unborn", "done"}
    BY <1>1, Zenon DEF BeginRun, ForgetErr, Live
  <2>2. runPc[r] = "unborn"
    BY <1>1, <1>t DEF BeginRun, ForgetErr, RunsBorn
  <2>3. \A q \in Runs : runPc'[q] = IF q = r THEN "enter" ELSE runPc[q]
    BY <1>1, <1>t, Zenon DEF BeginRun, ForgetErr
  <2>4. /\ state' = "Running" /\ steps' = 0 /\ done' = r
        /\ UNCHANGED <<runErr, finished, callPc>>
    BY <1>1, Zenon DEF BeginRun, ForgetErr, calls
  <2>5. finished[r] = "no"
    BY <2>2, Zenon
  <2>6. OneRun' /\ NoLostWakeup'
    BY <2>1, <2>3, <2>4, Zenon
  <2>7. LeftInactive'
    BY <2>1, <2>2, <2>3, <2>4, Zenon
  <2>8. Counting' /\ CompletedByRun'
    BY <2>3, <2>4, <2>5, <1>t
  <2> QED
    BY <2>6, <2>7, <2>8, Zenon
<1>2. CASE Pause
    BY <1>2, <1>t, Zenon DEF Pause, run, calls, history
<1>3. CASE Resume
    BY <1>3, <1>t, Zenon DEF Resume, Resumable, Broadcast, calls
<1>4. CASE Stop
    BY <1>4, <1>t, Zenon DEF Stop, Broadcast, calls, history
<1>5. ASSUME NEW r \in Runs, Cancel(r) PROVE Goal
    BY <1>5, <1>t, Zenon DEF Cancel, sim, calls, history
<1>6. ASSUME NEW r \in Runs, RunStep(r) PROVE Goal
  <2>1. CASE Enter(r)
    <3>1. r = done /\ runPc[r] = "enter"
      BY <2>1, <1>t, Zenon DEF Enter, GoTo
    <3>2. \A q \in Runs : runPc'[q] = IF q = r THEN "top" ELSE runPc[q]
      BY <2>1, <1>t, Zenon DEF Enter, GoTo
    <3>3. UNCHANGED <<state, steps, done, runErr, limit, finished, callPc>>
      BY <2>1, Zenon DEF Enter, calls, history
    <3> QED
      BY <3>1, <3>2, <3>3, <1>t, Zenon
  <2>2. CASE Top(r)
    <3>1. r = done
      BY <2>2, <1>t, Zenon DEF Top, GoTo
    <3>2. OneRun'
      BY <2>2, <3>1, <1>t, Zenon DEF Top, GoTo, sim, calls, history
    <3>3. NoLostWakeup'
      BY <2>2, <3>1, <1>t DEF Top, GoTo, sim, calls, history
    <3>4. LeftInactive'
      BY <2>2, <3>1, <1>t DEF Top, GoTo, sim, calls, history
    <3>5. Counting'
      BY <2>2, <3>1, <1>t, Zenon DEF Top, GoTo, sim, calls, history
    <3>6. CompletedByRun'
      BY <2>2, <3>1, <1>t, Zenon DEF Top, GoTo, sim, calls, history
    <3> QED
      BY <3>2, <3>3, <3>4, <3>5, <3>6, Zenon
  <2>3. CASE Limit(r)
    <3>1. r = done
      BY <2>3, <1>t, Zenon DEF Limit, GoTo
    <3>2. OneRun'
      BY <2>3, <3>1, <1>t, Zenon DEF Limit, GoTo, LimitMayBeReached, LimitMayNotBeReached,
         CountReached, sim, calls
    <3>3. NoLostWakeup'
      BY <2>3, <3>1, <1>t DEF Limit, GoTo, LimitMayBeReached, LimitMayNotBeReached, CountReached,
         sim, calls
    <3>4. LeftInactive'
      <4>1. \A q \in Runs : runPc'[q] = runPc[q] \/ (runPc[q] = "limit" /\ runPc'[q] # "finalize")
        BY <2>3, <1>t DEF Limit, GoTo
      <4>2. UNCHANGED <<state, runErr, finished>>
        BY <2>3, Zenon DEF Limit, sim
      <4> QED
        BY <4>1, <4>2, Zenon
    <3>5. Counting'
      BY <2>3, <3>1, <1>t DEF Limit, GoTo, LimitMayBeReached, LimitMayNotBeReached, CountReached,
         sim, calls
    <3>6. CompletedByRun'
      BY <2>3, <3>1, <1>t, Zenon DEF Limit, GoTo, LimitMayBeReached, LimitMayNotBeReached,
         CountReached, sim, calls
    <3> QED
      BY <3>2, <3>3, <3>4, <3>5, <3>6
  <2>4. CASE LimitPanics(r)
    BY <2>4, <1>t, Zenon DEF LimitPanics, GoTo, sim, calls, history
  <2>5. CASE LimitHit(r)
    BY <2>5, <1>t DEF LimitHit, GoTo, CompleteIfRunning, calls
  <2>6. CASE StepReturns(r)
    <3>1. r = done
      BY <2>6, <1>t, Zenon DEF StepReturns, GoTo
    <3>2. OneRun'
      BY <2>6, <3>1, <1>t, Zenon DEF StepReturns, GoTo, sim, calls, history
    <3>3. NoLostWakeup'
      BY <2>6, <3>1, <1>t DEF StepReturns, GoTo, sim, calls, history
    <3>4. LeftInactive'
      <4>1. runPc[r] = "step" /\ finished[r] = "no"
        BY <2>6, Zenon DEF StepReturns, GoTo
      <4>2. \A q \in Runs \ {r} : runPc'[q] = runPc[q]
        BY <2>6, <1>t, Zenon DEF StepReturns, GoTo
      <4>3. \A q \in Runs \ {r} : runErr'[q] = runErr[q]
        BY <2>6, <1>t, Zenon DEF StepReturns
      <4>4. runPc'[r] = "finalize" => runErr' = [runErr EXCEPT ![r] = TRUE]
        BY <2>6, <1>t DEF StepReturns, GoTo
      <4>5. runPc'[r] = "finalize" => runErr'[r]
        BY <4>4, <1>t, Zenon
      <4>6. UNCHANGED <<state, finished>>
        BY <2>6, Zenon DEF StepReturns, sim, history
      <4> QED
        BY <4>1, <4>2, <4>3, <4>5, <4>6, Zenon
    <3>5. Counting'
      BY <2>6, <3>1, <1>t, Zenon DEF StepReturns, GoTo, sim, calls, history
    <3>6. CompletedByRun'
      BY <2>6, <3>1, <1>t, Zenon DEF StepReturns, GoTo, sim, calls, history
    <3> QED
      BY <3>2, <3>3, <3>4, <3>5, <3>6
  <2>7. CASE Count(r)
    <3>1. r = done
      BY <2>7, <1>t, Zenon DEF Count, GoTo
    <3>2. OneRun'
      BY <2>7, <3>1, <1>t, Zenon DEF Count, GoTo, Saturate, calls, history
    <3>3. NoLostWakeup'
      BY <2>7, <3>1, <1>t, Zenon DEF Count, GoTo, Saturate, calls, history
    <3>4. LeftInactive'
      BY <2>7, <3>1, <1>t, Zenon DEF Count, GoTo, Saturate, calls, history
    <3>5. Counting'
      BY <2>7, <3>1, <1>t DEF Count, GoTo, Saturate, calls, history
    <3>6. CompletedByRun'
      BY <2>7, <3>1, <1>t, Zenon DEF Count, GoTo, Saturate, calls, history
    <3> QED
      BY <3>2, <3>3, <3>4, <3>5, <3>6
  <2>8. CASE Drained(r)
    BY <2>8, <1>t DEF Drained, GoTo, CompleteIfRunning, calls
  <2>9. CASE Cancelled(r)
    <3>1. r = done
      BY <2>9, <1>t, Zenon DEF Cancelled
    <3>2. OneRun'
      BY <2>9, <3>1, <1>t, Zenon DEF Cancelled, Broadcast, calls, history
    <3>3. NoLostWakeup'
      BY <2>9, <3>1, <1>t, Zenon DEF Cancelled, Broadcast, calls, history
    <3>4. LeftInactive'
      BY <2>9, <3>1, <1>t, Zenon DEF Cancelled, Broadcast, calls, history
    <3>5. Counting'
      BY <2>9, <3>1, <1>t, Zenon DEF Cancelled, Broadcast, calls, history
    <3>6. CompletedByRun'
      BY <2>9, <3>1, <1>t, Zenon DEF Cancelled, Broadcast, calls, history
    <3> QED
      BY <3>2, <3>3, <3>4, <3>5, <3>6
  <2>10. CASE Failing(r)
    BY <2>10, <1>t, Zenon DEF Failing, Broadcast, calls, history
  <2>11. CASE Finalize(r)
    <3>1. r = done /\ runPc[r] = "finalize"
      BY <2>11, <1>t, Zenon DEF Finalize
    <3>2. \A q \in Runs : runPc[q] = "waiting" => q = r
      BY <3>1, Zenon
    <3>3. \A q \in Runs : runPc'[q] = IF q = r THEN "cancel" ELSE runPc[q]
      BY <2>11, <3>1, <3>2, <1>t, Zenon DEF Finalize, Broadcast
    <3>4. UNCHANGED <<steps, done, runErr, limit, finished, callPc>>
      BY <2>11, Zenon DEF Finalize, calls, history
    <3>5. OneRun' /\ NoLostWakeup' /\ LeftInactive'
      BY <3>1, <3>2, <3>3, <3>4, Zenon
    <3>6. Counting'
      BY <3>1, <3>3, <3>4, <1>t, Zenon
    <3>7. CompletedByRun'
      BY <2>11, <3>1, <3>4, <1>t, Zenon DEF Finalize, CompleteIfRunning
    <3> QED
      BY <3>5, <3>6, <3>7, Zenon
  <2>12. CASE CancelOwn(r)
    BY <2>12, <1>t, Zenon DEF CancelOwn, GoTo, sim, calls, history
  <2>13. CASE Close(r)
    BY <2>13, <1>t DEF Close, GoTo, sim, calls
  <2> QED
    BY <1>6, <2>1, <2>2, <2>3, <2>4, <2>5, <2>6, <2>7, <2>8, <2>9, <2>10, <2>11, <2>12, <2>13, Zenon
       DEF RunStep
<1>7. ASSUME NEW r \in Runs, Watch(r) PROVE Goal
  <2>1. \/ state' = "Stopped" /\ \A q \in Runs : runPc'[q] = IF runPc[q] = "waiting" THEN "top"
                                                               ELSE runPc[q]
        \/ UNCHANGED <<state, runPc>>
    BY <1>7, Zenon DEF Watch, Broadcast
  <2>2. UNCHANGED <<steps, done, runErr, limit, finished, callPc>>
    BY <1>7, Zenon DEF Watch, calls, history
  <2>3. OneRun' /\ NoLostWakeup' /\ LeftInactive'
    BY <2>1, <2>2, <1>t, Zenon
  <2>4. Counting' /\ CompletedByRun'
    BY <2>1, <2>2, <1>t
  <2> QED
    BY <2>3, <2>4, Zenon
<1>8. ASSUME NEW c \in Callers, CallStart(c) PROVE Goal
    BY <1>8, <1>t DEF CallStart, StepCheck, SnapshotCheck, RestoreCheck, WaitBegins, CallBegins,
                      CallGoTo, sim, run, history
<1>9. ASSUME NEW c \in Callers, CallStep(c) PROVE Goal
    BY <1>9, <1>t DEF CallStep, StepCallReturns, StepCommit, SnapshotReturns, RestoreReturns,
                      WaitReturns, CallGoTo, sim, run, history
<1>10. CASE UNCHANGED vars
    BY <1>10, <1>t, Zenon DEF vars, sim, run, calls, history
<1> QED
    BY <1>1, <1>2, <1>3, <1>4, <1>5, <1>6, <1>7, <1>8, <1>9, <1>10, Zenon DEF Next

\* The invariant of disciplined clients holds in every reachable state of theirs.
LEMMA DisciplinedInvariant == Spec => [](Disciplined => DisciplinedInv)
<1>1. Init => DisciplinedInv
    BY InitInv DEF Init, DisciplinedInv, OneRun, NoLostWakeup, LeftInactive, Counting,
                   CompletedByRun, Runs, NoRun
<1>2. [Next]_vars => (Disciplined' <=> Disciplined)
    BY SetupFixed, Zenon DEF Disciplined, Ops
<1>3. (Disciplined => DisciplinedInv) /\ [Next]_vars => (Disciplined => DisciplinedInv)'
    BY <1>2, DisciplinedNext, Zenon
<1> QED
    BY <1>1, <1>3, PTL DEF Spec

\* Disciplined clients: a loop asleep in Pause has not missed its wake-up.
THEOREM NoWakeupLost == Spec => []WaitingOnlyWhilePaused
<1>1. (Disciplined => DisciplinedInv) => WaitingOnlyWhilePaused
    BY Zenon DEF DisciplinedInv, NoLostWakeup, WaitingOnlyWhilePaused
<1> QED
    BY <1>1, DisciplinedInvariant, PTL

\* Disciplined clients: a counted run that reaches its limit has performed
\* exactly that many steps.
THEOREM ExactCounts == Spec => []CountedRunExact
<1>1. (Disciplined => DisciplinedInv) => CountedRunExact
    BY Zenon DEF DisciplinedInv, Counting, CountedRunExact
<1> QED
    BY <1>1, DisciplinedInvariant, PTL

\* Disciplined clients: Completed is reported only for a run that finished.
THEOREM CompletionIsReal == Spec => []CompletedMeansFinished
<1>1. (Disciplined => DisciplinedInv) => CompletedMeansFinished
    BY Zenon DEF DisciplinedInv, CompletedByRun, CompletedMeansFinished
<1> QED
    BY <1>1, DisciplinedInvariant, PTL
=============================================================================
