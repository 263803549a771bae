----------------------------- MODULE Scheduler -----------------------------
(***************************************************************************)
(* One tick of a model made of systems (pkg/simulation/scheduler.go).      *)
(* newScheduler sorts the systems into levels, one by one; run executes    *)
(* the levels in order, the systems of a level and the shards of a system  *)
(* concurrently.  A task is a shard of a system: <<system, shard>>.        *)
(*                                                                         *)
(* A plan fixes the model and its configuration: the systems in declared   *)
(* order, with the entities entitySet finds for them (module World), the   *)
(* entities that hold each component, the number of workers and the        *)
(* faults.  An entity stands for the index of its row: two IDs of one      *)
(* index, of which one is stale, are the same entity here.  What a system  *)
(* computes is kept as a term: which system wrote a cell, and from which   *)
(* values.                                                                 *)
(***************************************************************************)
EXTENDS Partition, FiniteSets, Functions

CONSTANTS
    Entities,    \* entities
    Comps,       \* components
    Plans        \* the models and configurations

Access == [reads : SUBSET Comps, writes : SUBSET Comps]

\* A system is asked for its lists twice: "known" has the answers when the levels are
\* computed, before Initialize has registered the components of the model.
SystemType ==
    [reads : SUBSET Comps, writes : SUBSET Comps, known : Access, serial : BOOLEAN, entities : Seq(Entities)]

Faults == {"error", "panic", "cancel"}

\* entitySet returns every entity that holds a component of the system; every entity for
\* a system without components.
ASSUME PlansAssumption ==
    \A p \in Plans :
        /\ p.systems \in Seq(SystemType)
        /\ p.holds \in [Comps -> SUBSET Entities]
        /\ p.workers \in Nat \ {0}
        /\ p.faults \subseteq Faults
        /\ \A i \in DOMAIN p.systems :
             LET s == p.systems[i]
             IN  IF s.reads \cup s.writes = {} THEN UNION {p.holds[c] : c \in Comps} \subseteq Range(s.entities)
                 ELSE Range(s.entities) = UNION {p.holds[c] : c \in s.reads \cup s.writes}

VARIABLES
    plan,      \* the plan, fixed for ever
    levels,    \* the level of each system that has one already
    level,     \* the level being run, 0 between two steps
    tasks,     \* the tasks of that level: how far each is
    reported,  \* the systems whose error is in the channel of the level
    data,      \* the value of each component of each entity
    cancelled, \* TRUE when the context of the run is cancelled
    crashed    \* TRUE when a panic has ended the process

schedVars == <<plan, levels, level, tasks, reported, data, cancelled, crashed>>

Systems == DOMAIN plan.systems
System(i) == plan.systems[i]

\* A cell nobody has written yet.
Untouched == <<0>>

InitScheduler ==
    /\ plan \in Plans
    /\ levels = <<>>
    /\ level = 0
    /\ tasks = <<>>
    /\ reported = {}
    /\ data = [c \in Comps |-> [e \in Entities |-> Untouched]]
    /\ cancelled = FALSE
    /\ crashed = FALSE

(* ------------------------------ the levels ------------------------------ *)

Known(i) == System(i).known

\* Mutant: a later system that overwrites what an earlier one reads is no conflict.
ConflictsForward(i, j) ==
    \/ Known(i).writes \cap Known(j).writes # {}
    \/ Known(j).writes \cap Known(i).reads # {}

Conflicts(i, j) ==
    \/ Known(i).writes \cap Known(j).reads # {}
    \/ Known(i).writes \cap Known(j).writes # {}
    \/ Known(j).writes \cap Known(i).reads # {}

\* dependencyLevels, one turn of its loop: the next system goes one level above the
\* highest level of the earlier systems it conflicts with.
AssignLevel ==
    LET i == Len(levels) + 1
        below == {levels[j] : j \in {k \in 1 .. Len(levels) : Conflicts(i, k)}}
    IN  /\ i \in Systems
        /\ \E lvl \in {0} \cup below :
             /\ \A l \in below : l <= lvl
             /\ levels' = Append(levels, lvl + 1)
        /\ UNCHANGED <<plan, level, tasks, reported, data, cancelled, crashed>>

Scheduled == Len(levels) = Len(plan.systems)

\* No system has a level above this one.
LastLevel(l) == \A i \in DOMAIN levels : levels[i] <= l

(* ------------------------------ the tasks ------------------------------- *)

ShardsOf(i) == Shards(System(i).entities, IF System(i).serial THEN 1 ELSE plan.workers)

\* The tasks of a level: a system without entities has none.
TasksOf(l) ==
    UNION {{i} \X DOMAIN ShardsOf(i) : i \in {j \in DOMAIN levels : levels[j] = l /\ System(j).entities # <<>>}}

Shard(t) == ShardsOf(t[1])[t[2]]

\* A system with one shard runs it without a goroutine of its own.
Sharded(t) == Len(ShardsOf(t[1])) > 1

SystemsOf(l) == {i \in DOMAIN levels : levels[i] = l}

\* runLevelParallel: the systems of the level have goroutines.
Parallel == Cardinality(SystemsOf(level)) > 1

\* Run is called in a goroutine of the scheduler, and not in the one of the run.
Spawned(t) == Sharded(t) \/ Parallel

NewTasks(l) == [t \in TasksOf(l) |-> [pc |-> "ready", at |-> 1, new |-> Untouched]]

Done(t) == tasks[t].pc \in {"ok", "failed"}
Running(t) == tasks[t].pc \in {"run", "write"}

\* Mutant: the channel has room for one error.
ErrCapOne(n) == 1

\* The capacity of the channel errCh of n goroutines.
ErrCap(n) == n

(* ------------------------------- one shard ------------------------------ *)

\* What system i sees of an entity.
Seen(d, i, e) == [c \in System(i).reads \cup System(i).writes |-> d[c][e]]

\* What system i computes for the q-th entity of a shard: from that entity alone, but
\* a serial system may also look at the entity ahead of it.
Computed(d, i, shard, q) ==
    IF System(i).serial /\ q > 1
    THEN <<i, Seen(d, i, shard[q]), Seen(d, i, shard[q - 1])>>
    ELSE <<i, Seen(d, i, shard[q])>>

\* SetShard for every component that the system writes and the entity holds.
Stored(d, i, e, v) ==
    [c \in Comps |-> IF c \in System(i).writes /\ e \in plan.holds[c] THEN [d[c] EXCEPT ![e] = v] ELSE d[c]]

\* runSystem: a sharded task takes a place on the semaphore of its system, which has at
\* least one for every shard.
TaskStarts(t) ==
    /\ tasks[t].pc = "ready"
    /\ Sharded(t) => Cardinality({u \in DOMAIN tasks : u[1] = t[1] /\ Running(u)}) < plan.workers
    /\ tasks' = [tasks EXCEPT ![t] = [pc |-> "run", at |-> 1, new |-> Untouched]]
    /\ UNCHANGED <<plan, levels, level, reported, data, cancelled, crashed>>

\* runSystem: ... or gives up because the context is done.
TaskGivesUp(t) ==
    /\ tasks[t].pc = "ready"
    /\ Sharded(t) /\ cancelled
    /\ tasks' = [tasks EXCEPT ![t] = [pc |-> "error", at |-> 1, new |-> Untouched]]
    /\ UNCHANGED <<plan, levels, level, reported, data, cancelled, crashed>>

\* Run reads what it needs for its next entity ...
TaskReads(t) ==
    LET k == tasks[t]
    IN  /\ k.pc = "run" /\ k.at <= Len(Shard(t))
        /\ tasks' = [tasks EXCEPT ![t] = [pc |-> "write", at |-> k.at, new |-> Computed(data, t[1], Shard(t), k.at)]]
        /\ UNCHANGED <<plan, levels, level, reported, data, cancelled, crashed>>

\* ... and writes the result without a lock.
TaskWrites(t) ==
    LET k == tasks[t]
    IN  /\ k.pc = "write"
        /\ data' = Stored(data, t[1], Shard(t)[k.at], k.new)
        /\ tasks' = [tasks EXCEPT ![t] = [pc |-> "run", at |-> k.at + 1, new |-> Untouched]]
        /\ UNCHANGED <<plan, levels, level, reported, cancelled, crashed>>

\* Run returns: at the end of its shard, or early with an error of its own or that of
\* the context.  A sharded task has left its semaphore, and has yet to report the error.
TaskReturns(t) ==
    LET k == tasks[t]
    IN  /\ k.pc = "run"
        /\ \E pc \in {"ok", IF Sharded(t) THEN "error" ELSE "failed"} :
             /\ pc = "ok" => k.at > Len(Shard(t))
             /\ pc # "ok" => "error" \in plan.faults \/ cancelled
             /\ tasks' = [tasks EXCEPT ![t] = [pc |-> pc, at |-> k.at, new |-> Untouched]]
        /\ UNCHANGED <<plan, levels, level, reported, data, cancelled, crashed>>

\* runConcurrent, called by runSystem: the error goes to the channel of the system, where
\* those of the tasks that have failed are.
TaskReports(t) ==
    /\ tasks[t].pc = "error"
    /\ Cardinality({u \in DOMAIN tasks : u[1] = t[1] /\ tasks[u].pc = "failed"}) < ErrCap(Len(ShardsOf(t[1])))
    /\ tasks' = [tasks EXCEPT ![t] = [pc |-> "failed", at |-> tasks[t].at, new |-> Untouched]]
    /\ UNCHANGED <<plan, levels, level, reported, data, cancelled, crashed>>

\* runConcurrent, called by runLevelParallel: runSystem has returned an error, and it goes
\* to the channel of the level.
SystemReports(i) ==
    /\ level > 0 /\ Parallel /\ i \in SystemsOf(level) \ reported
    /\ \A t \in DOMAIN tasks : t[1] = i => Done(t)
    /\ \E t \in DOMAIN tasks : t[1] = i /\ tasks[t].pc = "failed"
    /\ Cardinality(reported) < ErrCap(Cardinality(SystemsOf(level)))
    /\ reported' = reported \cup {i}
    /\ UNCHANGED <<plan, levels, level, tasks, data, cancelled, crashed>>

\* A panic of Run in a goroutine of runConcurrent, which does not recover it.
TaskPanics(t) ==
    /\ "panic" \in plan.faults
    /\ tasks[t].pc = "run" /\ Spawned(t)
    /\ crashed' = TRUE
    /\ UNCHANGED <<plan, levels, level, tasks, reported, data, cancelled>>

\* A panic of Run in the goroutine of the run, which recovers it: the step is over.
TickPanics(t) ==
    /\ "panic" \in plan.faults
    /\ tasks[t].pc = "run" /\ ~Spawned(t)
    /\ level' = 0 /\ tasks' = <<>> /\ reported' = {}
    /\ UNCHANGED <<plan, levels, data, cancelled, crashed>>

TaskStep(t) ==
    \/ TaskStarts(t) \/ TaskGivesUp(t) \/ TaskReads(t) \/ TaskWrites(t) \/ TaskReturns(t)
    \/ TaskReports(t)

(* -------------------------------- a tick -------------------------------- *)

\* A step begins; after a cancellation it is one of a new run, with a new context.
TickBegins ==
    /\ Scheduled /\ level = 0
    /\ level' = 1
    /\ tasks' = NewTasks(1) /\ reported' = {}
    /\ cancelled' = FALSE
    /\ UNCHANGED <<plan, levels, data, crashed>>

\* Mutant: the level ends when its first task is done.
LevelDoneEarly == tasks = <<>> \/ \E t \in DOMAIN tasks : Done(t)

\* runConcurrent waits for all its goroutines.
LevelDone ==
    \A t \in DOMAIN tasks : Done(t) /\ (Parallel /\ tasks[t].pc = "failed" => t[1] \in reported)

Failed == \E t \in DOMAIN tasks : tasks[t].pc = "failed"

NextLevel ==
    /\ level > 0 /\ LevelDone /\ ~Failed /\ ~LastLevel(level)
    /\ level' = level + 1
    /\ tasks' = NewTasks(level + 1) /\ reported' = {}
    /\ UNCHANGED <<plan, levels, data, cancelled, crashed>>

\* run returns the first error: the levels that are left are not run.
TickFails ==
    /\ level > 0 /\ LevelDone /\ Failed
    /\ level' = 0 /\ tasks' = <<>> /\ reported' = {}
    /\ UNCHANGED <<plan, levels, data, cancelled, crashed>>

TickSucceeds ==
    /\ level > 0 /\ LevelDone /\ ~Failed /\ LastLevel(level)
    /\ level' = 0 /\ tasks' = <<>> /\ reported' = {}
    /\ UNCHANGED <<plan, levels, data, cancelled, crashed>>

\* Stop, or the end of the caller's context, while a step is under way.
Cancel ==
    /\ "cancel" \in plan.faults
    /\ level > 0 /\ ~cancelled
    /\ cancelled' = TRUE
    /\ UNCHANGED <<plan, levels, level, tasks, reported, data, crashed>>

\* A step of the scheduler; Executor adds the clock and the other modes.
SchedNext ==
    \/ AssignLevel \/ TickBegins \/ NextLevel \/ TickFails \/ TickSucceeds \/ Cancel
    \/ \E t \in DOMAIN tasks : TaskStep(t) \/ TaskPanics(t) \/ TickPanics(t)
    \/ \E i \in DOMAIN levels : SystemReports(i)

(* ------------------------------ properties ------------------------------ *)

\* System i over all its entities, one after the other.
RunAlone(d, i) ==
    LET es == System(i).entities
        after[q \in 0 .. Len(es)] ==
            IF q = 0 THEN d ELSE Stored(after[q - 1], i, es[q], Computed(after[q - 1], i, es, q))
    IN  after[Len(es)]

\* The systems one after the other, in declared order.
SerialTick(d) ==
    LET after[i \in 0 .. Len(plan.systems)] == IF i = 0 THEN d ELSE RunAlone(after[i - 1], i)
    IN  after[Len(plan.systems)]

\* Two lists of which one writes what the other touches.
Collide(a, b) == a.writes \cap (b.reads \cup b.writes) # {}

\* What the scheduler relies on without asking: systems that will collide have declared so
\* when the levels are computed (a model that knows no IDs by then returns zeros, which
\* collide), and no entity set has two IDs of one index.
Disciplined ==
    /\ \A i, j \in Systems : i # j /\ Collide(System(i), System(j)) => Collide(Known(i), Known(j))
    /\ \A i \in Systems : \A q, r \in DOMAIN System(i).entities :
         System(i).entities[q] = System(i).entities[r] => q = r

\* The cells a task may still read or write.
Cells(t, comps) == comps \X Range(Shard(t))

(* Two tasks that can run at the same time never touch the same component of the same
   entity when one of them writes it, if the model is disciplined: the guarantee GetShard
   and SetShard rely on (component.go 285-304). *)
RaceFree ==
    \A t, u \in DOMAIN tasks :
        Disciplined /\ t # u /\ ~Done(t) /\ ~Done(u) =>
            LET s == System(t[1])
            IN  Cells(t, s.writes) \cap Cells(u, System(u[1]).reads \cup System(u[1]).writes) = {}
=============================================================================
