# A TLA+ model of the simulator

This directory models the discrete-time / discrete-event simulation engine of
this repository and the services around it. TLC checks the models on small
instances; TLAPS proves their main invariants for all values of the constants.
`PROJECT.json` relates every definition to the source lines it models and lists
the runs, the mutants that show each property can fail, and the hazards.

## 1. The system

| part | source | state | operations |
|---|---|---|---|
| runtime | `pkg/simulation/runtime.go`, `state.go` | state, error, step count, cancel function, done channel, one goroutine per run, one context watcher per run | `Run`, `RunN`, `RunUntil`, `Start`, `Pause`, `Resume`, `Stop`, `Step`, `Wait`, `Snapshot`, `Restore` |
| world | `entity.go`, `component.go`, `tags.go`, `resource.go`, `world.go`, `snapshot.go` | sparse sets, free list, generations, columns, tags, resources, structural revision | create, destroy, set, remove, tag, snapshot, restore |
| scheduler | `scheduler.go` | dependency levels, cached entity sets | one parallel tick |
| events and clock | `event.go`, `executor.go`, `clock.go`, `schedule.go` | heap of events, sequence counter, tick and time | schedule, pop, advance |
| manager | `internal/runner/manager.go` | map of live simulations, status rows, watchers | create, start, stop, step, snapshot, restore, replay, delete |
| job queue | `internal/queue/queue.go`, `internal/coord/redis.go` | job messages, claims, dead letters | enqueue, claim, run, release, retry, dead-letter |
| workers | `internal/workers`, `cmd/worker` | consumers | run a job, publish its result |
| brokers | `internal/broker` | queues, unacknowledged deliveries | publish, consume, ack, nack, reconnect |
| persistence | `internal/persistence`, `internal/database` | rows | SQL |
| migrations | `internal/database/migrate.go`, `cmd/migrate`, `migrations` | schema, rows of `schema_migrations` | `Migrate`, `Rollback` |
| API | `internal/api`, `internal/auth`, `internal/ratelimit` | tokens, limiter | HTTP handlers |
| others | `pkg/rng`, `internal/registry`, metrics, tracing, examples | | |

How they interact: an HTTP request reaches the manager, which builds a
`Simulation` (runtime) around a `World` and calls its control methods from any
goroutine; the runtime's loop calls an executor once per step, which runs the
scheduler or the model (tick mode) or one event (event mode). The queue hands jobs to worker processes, each
of which builds a simulation of its own, runs it and publishes the result.

The hard behaviours: runs that overlap because `begin` refuses only `Running`;
finalizers and watchers of an old run that write the state of a new one; lost
wake-ups; state that is checked under a lock and used after it; generations and
swap removal over long histories; cached entity sets under concurrent structural
changes; restores that fail half way; at-least-once delivery, worker crashes and
retries around a claim that outlives its worker.

## 2. Modules

| module | models | notes |
|---|---|---|
| `Lifecycle` | what a caller of a simulation may observe | abstract specification |
| `SimRuntime` | the runtime: one action per critical section of `s.mu`, or per unlocked step between two | implements `Lifecycle` |
| `SimRuntimeProofs` | its theorems | |
| `JobQueue` | queue, workers, broker and Redis as far as the queue uses them | faults are chosen by `setup` |
| `JobQueueProofs` | its theorems | |
| `SparseSet` | the index structure of entities and columns | operators only |
| `Entities`, `Components` | `EntityManager`, `ComponentStore` and `Column` | actions are the locked methods |
| `AbstractWorld` | what a world promises: sets, maps, save and restore | abstract specification |
| `World` | the composition, tags, resources, snapshots, cached entity sets | implements `AbstractWorld` |
| `WorldProofs` | the theorems about worlds and cached entity sets, and that `World` implements `AbstractWorld` | |
| `Partition` | `partition` | operators only |
| `Scheduler` | one tick: levels, tasks, semaphores, errors, panics | part of `Executor` |
| `EventQueue` | the heap of events, its snapshots and restores | part of `Executor` |
| `Executor` | the three executors, the clock, saving and loading | composes the two above |
| `SchedulerProofs` | the theorems about ticks: shards cover the entities and never race, parallel ticks are serial ones | |
| `EventQueueProofs` | the theorems about events: heap, order, conservation, restore | |
| `Store` | the statements on the row and the snapshots of a simulation | part of `Manager` |
| `Manager` | requests, watch goroutines, map, row and gauge, at one simulation ID | part of `Api` |
| `Api` | HTTP requests to the manager, their answers and the timeout | net/http is external |
| `ManagerProofs` | the theorems about `Manager`, `Store` and `Api` | |
| `Delivery` | what a broker promises of each message | abstract specification |
| `Broker` | the calls of a broker: publishers and consumers, their contexts | part of the next two |
| `MemoryBroker` | the in-memory broker: one channel, `Publish`, `Consume`, `Close` | |
| `RabbitMQ` | the RabbitMQ client: shared channel, `reconnect`, retries; server and network | the server is external |
| `Brokers` | the broker of a worker, one of the two | implements `Delivery` |
| `BrokersProofs` | that both implement `Delivery`, and no connection leaks | |
| `Migrations` | `Migrate` and `Rollback` by processes that share a database | PostgreSQL is external |
| `MigrationsProofs` | its theorems | |
| `MC*` | the instances TLC checks | |

**SimRuntime.** `state`, `err`, `steps`, `cancel`, `done` are the fields of
`Simulation`; `runPc`, `runCtx`, `runErr`, `limit` and `watcher` are the local
state of each run's goroutine and its watcher; `callPc` that of the callers of
`Step`, `Snapshot`, `Restore` and `Wait`. `exec.step` is an interval with an
outcome (`more`, `drained`, `error`, `panic`); the world itself is not part of
this module. `finished` and `late` are history variables.

**JobQueue.** `queue` is a bag of messages at the broker, `held` the
unacknowledged deliveries, `claims` the Redis keys, `retries` the backoff
goroutines of `handleFailure`. `setup` fixes, per behaviour, whether the workers
use Redis and which faults happen: worker crash, dropped connection, Redis error,
shutdown. There are no publisher confirms: a drop requeues the delivery in hand, and it
fails, or destroys without an error, a publication of that moment, be it a job, a retry, a
dead letter or a result; and when the connection cannot be replaced `Consume` returns and
the worker exits (`Exit`), its backoff goroutines with it. `lost` is history: the jobs
whose only message, or whose result, was destroyed in one of these ways. A claim never
expires in the model (24 hours in the code).

**World.** The variables are the fields of the stores; sequences are the dense
slices in their order, and `sparse` is total because slices grow zeroed. `model`
fixes which operations a model uses and bounds its structural changes. `gone` and
`torn` are history. Snapshots are taken and restored while nothing else changes
the world, as the comment of `Restore` demands; `entitySet` interleaves with
everything else. `Json` says what becomes of a value that is encoded and decoded: another
value (unexported fields are lost), nothing because it cannot be encoded, in which case
`Snapshot` fails, or an encoding that cannot be decoded. The only assumption is that what
has survived once survives again. A `Restore` can fail at a component, at a resource, or at
the events (`RestoreFailsAtEvents`, a payload that cannot be decoded), and leaves behind
what it has replaced by then; the events themselves are in `EventQueue`.

**Executor.** `plan` fixes a model of systems (what each reads and writes, which
entities `entitySet` finds for it) and its workers and faults; `setup` fixes the
executor, who begins steps, the limit and the events a model may schedule. `newExecutor`
asks a system for its lists before `Initialize` (`runtime.go` 44, 57), and the levels come
from these answers (`known`); the lists in use afterwards may differ. An entity stands for
the index of its row, because columns are keyed by index: an entity set that has a stale ID
and the ID that took over its index has one entity twice. `Disciplined` names the models
for which nothing of this matters: systems that collide have declared a collision by then
(IDs that are still zero collide too), and no entity is twice in a set. Others do race, and
their ticks are part of the runs. An error goes through the channel of the shards and then
through that of the level, each with room for `ErrCap` errors and read when all goroutines
are done. `MaxTime` is asked by `Run` and `Start` only: with `entry` "any" events fire at
and after it. What a system computes is
a term built from the values it saw, so that two executions agree only if every
system saw the same values. `AssignLevel` is one turn of the loop of
`dependencyLevels`. A task reads and writes in two steps, as `GetShard` and
`SetShard` take no lock. `before`, `begun`, `fired` and `lost` are history. The
data of systems are not saved here: `World` has the snapshot of components.

**Manager.** A caller is a place for one request: a client that is answered a timeout and
sends again, while the handler of its first request goes on, takes a second place.
`current` is the entry of the map, `row` the status in the database,
`objects` every `Simulation` ever built for the ID, each reduced to its state and
the runs whose `done` channel is open; `RunSettles`, `RunEnds` and `LateHalt` are
what the goroutines of `SimRuntime` can do to it. `setup` fixes who calls what,
whether database statements fail and whether requests time out. A statement that
fails may have been executed (`Fails`): the answer can be lost with the context.

**Api.** `web` is the response of a request and its timer, `timedOut` and `wrote` the
two flags of `timeoutWriter`; handler and timer take one step per load, store and
write. A panic of `Step`, on the goroutine of the request, leaves the simulation as it was
and is answered by the Recoverer, which is outside the timeout (`StepPanics`). When the
deadline passes, the context of the request is done (`expired`) and
its statements may fail. A body is reduced to who has written to it. Where `setup`
has no timeouts nobody can see how an answer is written, and a request ends when the
manager returns. After the handler's return a late timer writes to a buffer net/http
may have given to another request (`TimerWritesLate`), and two unsynchronised writes to
one header map may end the process (`HeadersCollide`): both are outcomes of a data race.

**Brokers.** Every `Publish` and every `Consume` is a process with a program counter.
`MemoryBroker` has the channel (`queue`, `buf`); `RabbitMQ` has connections, numbered
as they are dialled: `reconnect` closes, dials and opens a channel in three steps under its
lock, each of which can fail; `current` is the connection the client holds, `live` those the server
still knows, `open` those that still work, `ch` the channel a call has read. A message
on its way to the server is in `sending`, an acknowledgement in `answer`; `ready`,
`unacked` and `settled` are the queue at the server, which requeues what a lost
connection had not acknowledged. `Delivery` sees only where each message is: unsent,
on its way (`open`), ready, held or settled. One queue is modelled; queues are independent.

**Migrations.** One action per statement; the two migrations of the repository are
reduced to what they create and need. A transaction is a copy of the database that
`Commit` publishes; scripts of two transactions exclude each other because all of
them touch the table `simulations`. `setup` fixes who migrates, who rolls back how
many steps, which versions each binary knows, whether processes overlap and how often
a failed one is started again. `Orderly` names the clients for whom the results hold.

## 3. Runs

Passing runs:

| run | what it shows |
|---|---|
| `runtime_runs` | two setups: runs that overlap, with a caller of `Step` and all control calls, and clients that begin a run after the last one has ended. For both `FailedIffErr`, `ActiveIsSupervised`, `LateStepsBounded`, `RefinesLifecycle`, and `CancelledRunStops` under fairness; for the second, no lost wake-up, exact counts, `Completed` only for finished runs, and `Wait` returns (`DisciplinedWaitReturns`) |
| `queue_safety` | exclusion, one result, no loss, bounded executions, dead letters only after all attempts; each under the faults it tolerates; when connections drop, with Redis and without, every enqueued job is settled unless a publication of it was destroyed (`JobAccounted`, `JobSettles`) |
| `world_store` | sparse sets linked, free list exact, stale IDs dead, cached sets current, refinement of `AbstractWorld`; restores, also partial ones and those of a new process, leave no row or tag of an entity the world does not know (`OwnersKnown`) |
| `executor_steps` | parallel ticks of disciplined models equal serial ones (`TicksAreSerial`) and never race; ticks return however many tasks and systems fail at once (`TickReturns`); events fire in order and none is lost silently; a restored queue continues as the saved one |
| `manager_requests` | map and rows agree, the final status is right, no running simulation is lost where handlers do not overlap, the gauge settles; with timeouts, a response that reports one carries nothing of the handler (`TimeoutIsClean`) |
| `migrations_servers` | servers of different age that start together, or servers and an operator who rolls back, with crashes and restarts: the schema is always that of the recorded versions (`SchemaMatchesRows`), a call that succeeds has done its work (`DoneIsDone`), every call ends |
| `brokers_calls` | two publishers and a consumer: both brokers implement `Delivery` (`ImplementsDelivery`: no message invented, delivered to two, queued twice by a retry, or forgotten before its handler was done), no connection leaks although a channel can fail to open on a new one, closing the in-memory broker ends every call, and no call to RabbitMQ is stuck although reconnections close each other's connections (`CallsSettle`) |

Violations (a document or comment of the repository and the code disagree; see `findings`):

| run | what it shows |
|---|---|
| `runtime_runn` | two consecutive `RunN`: the watcher of the first stops the second early |
| `runtime_wait` | a `Step` that fails while the loop sleeps in `Pause` leaves `Wait` blocked for ever |
| `queue_crash_loss` | a worker that dies holding the claim loses the job |
| `world_stale` | a destroyed ID reads the row of the entity that took over its index |
| `manager_delete` | a `Start` during `Delete` leaves a running simulation that nobody can reach |

Bounds. Two runs suffice for every overlap of an old and a new run; a third would
meet the same code with the second as the old one. Two workers suffice to contend
for a claim; `MaxAttempts` 1 or 2 has a first attempt, a retry and a last one.
Three entities give a hole in front, in the middle and at the end of a dense slice; three
generations reach the wrap of the counter. The models of `MCModels` combine few
operations each so that histories are long (up to eight structural changes) where
they matter. Thirteen plans have disjoint and colliding systems, serial ones, lists that
change in `Initialize`, a stale row, no entities and no systems, and errors, panics or a
stop in any of their tasks. Five entities on four workers give a short and an empty shard, three systems
a level of two and one above it, two ticks a second step after a failed or stopped
one; four events fill three levels of a heap. Two places for requests and two objects meet
every interleaving of two requests and a replaced simulation; timeouts have a setup of
their own, without runs where two requests meet. A channel of one place is full with one
message; two publishers and a consumer are enough for one to close the connection
another has just opened, one drop makes all of them reconnect, and `MaxConns` 6 is more
than they ever dial. Three processes give two
servers that race and an operator, two restarts a second failure.
`CHECK_DEADLOCK` is off where all runs may have ended, all jobs be settled, all
requests be answered, all calls have returned, or a bound be used up.

Fairness. `SimRuntime`: weak fairness of each goroutine's steps (Go schedules
runnable goroutines) and of watchers; none of clients, who need never call
anything. `JobQueue`: weak fairness of each worker's steps, of delivery and of the
backoff goroutines; faults are bounded and never required. `Executor`:
weak fairness of the steps inside a tick (goroutines are scheduled, `Run` returns);
a panic that ends the process ends the tick too. `Migrations`: weak fairness of the
statements of a process that has started (PostgreSQL answers); none of its start.
`Brokers`: weak fairness of the steps of every call and of the server; handlers return.
Nobody need call, cancel, drop or close anything.

## 4. Proofs

`SimRuntimeProofs`, for any number of runs, callers and ticks: `TypeCorrectness`,
`FailureIsReported`, `Supervision`, `StepBoundary` and `Refinement`; and, for clients
whose runs follow each other and who do not call `Step`, `NoWakeupLost`, `ExactCounts`
and `CompletionIsReal`. The inductive invariant `RuntimeInv` adds to the checked
ones that runs which are not begun yet have no state (`RunsBorn`) and where a
late step can come from (`LateSteps`). `DisciplinedInv` adds that at most one run
is live (`OneRun`), that a run which left its loop has left an inactive state
behind (`LeftInactive`), and what the counter is worth at each place of the loop (`Counting`).

`JobQueueProofs`, for any jobs, workers and attempts: `TypeCorrectness`,
`DeadLettering` (from `AttemptsPaid`: a message with attempt number k has k
failed executions behind it), `Exclusion` and `Idempotency` (from `ClaimInv`: whoever
works on a job holds its claim, while Redis answers), `NoJobLost` (when only connections
drop; from `ClaimsBacked`: a claim is backed by a result, by somebody who still works on
the job or by its entry in `lost`) and
`BoundedExecutions` (from `ExecutionsPaid`: a job has one holder, queued, held or
waiting for a retry, and every execution so far is paid for by an attempt of that
holder or by a crash).

`WorldProofs`, for any numbers of entities, generations, components and models:
`TypeCorrectness`, `SparseSets`, `FreeList` and `StaleIds`, all
from `Consistency` (`WorldInv`). Its parts are `EntityInv` (the entity manager is
linked, its free list exact, and every destroyed ID has a generation that its
index has left behind), `ColumnInv` (every column is linked and as long as its
data), `LabelInv` (tags, resource, revision, cache) and `SnapInv` (the saved
snapshot is one that a consistent world wrote: a restore is as good as its
snapshot). The lemmas about `Link`, `Unlink`, `SwapRemove` and `Rebuild` carry
the index arithmetic once for entities and columns.

It also has `FreshCache` (`CacheFresh`) and `Refinement`
(`World` implements `AbstractWorld`, every step a step on sets and maps or a stutter).
`SetInv` says that a call of `entitySet` whose revision is still current has read a
prefix of what one atomic read would see; what `Merged` computes is shown by induction.
`KnownOwners` (`OwnersKnown`) has an invariant of its own, `OwnerInv`: in a `Tame` model
(components registered in `Initialize`, values that can be decoded) every column is that of
a declared component and its rows belong to IDs the manager holds, and the same is true of
the snapshot with the IDs held when it was taken. The second half is needed for `Restore`,
which replaces the IDs first; since no column of a tame model can fail to decode, it has
replaced all rows and tags before anything can stop it, at a resource or an event.

`SchedulerProofs`, for any systems, entities, workers and order of the goroutines:
`ShardsDisjoint` and `ShardsCover`, from `ShardsAreSlices` (shard i is the positions
from (i-1)c+1 to the smaller of ic and n, where c is n / w rounded up);
`NoRaces`, from `SchedInv`: two systems of the same level do not conflict
(`LevelsApart`, because a system goes above every earlier one it conflicts with),
the tasks are always those of one level (`TasksOfLevel`), and the
shards of a system are disjoint; and `SerialTicks` (`TicksAreSerial`). The last follows
a tick cell by cell. Let S[k] be the data after the first k systems, one after the
other. `TickInv` says that a cell whose writers so far are exactly the first ones up to
k has the value it has in S[k] (`Agrees`), and that a task about to write carries what
its system computes in S. It is inductive because the systems that conflict with one of
the current level are done when they come before it and not begun when they come after
it (`OthersExecuted`): so what a task reads is what its system would have found
(`ReadCell`), and what it writes is not overwritten too early. What the serial tick
computes, a recursion over systems and entities, is described by induction
(`AloneFacts`, `SerialFacts`). The assumptions are those on a plan (an entity set has
every holder of a component) and that a system touches what it declares, entity
by entity, unless it is serial; both theorems are about `Disciplined` plans, as `RaceFree`
and `TicksAreSerial` are.

`EventQueueProofs`, for any events, times, priorities, payloads and snapshots:
`FiringOrder` (`FiresInOrder`), `Conservation` (`EventsConserved`) and `ExactQueue`
(`QueueRestored`). `up` and `down` of container/heap are loops; one turn keeps the heap
ordered but for one place (`Rising`, `Sinking`) and the loop ends with that place in
order too, so `HeapPush` and `HeapPop` keep order and events (`PushFacts`, `PopFacts`)
and the root comes before all others (`RootIsFirst`). Pushing the events of an ordered
array in its order never moves one (`PushStays`): this is why a restore gives back the
very array that was saved. `QueueInv` has the order of the heap, every sequence number in
one place, and the same of the saved snapshot with the history it was taken in
(`SavedOK`).

`BrokersProofs`, for any messages, consumers, capacity, drops
and reconnections: `Delivers` (every step of either broker is a step of `Delivery` or
leaves every message where it is) and `NoLeak`. For the in-memory broker the invariant
is that a message is at one place (`Once`: in the channel at most once, and not both
there and with a caller). For RabbitMQ, `RInv`: only the current connection is live or,
between dialling and opening its channel, the new one, and whoever is inside `reconnect`
holds the lock and has closed the old connection (`RConnected`); every message is unsent, on
its way, queued, held or settled, and nowhere twice (`RPlaced`); what is
under way or unacknowledged hangs on a live connection, and a handler whose connection is
open has its message and has not answered (`RHeld`).

`ManagerProofs`, for any number of requests at a time, objects and bounds: `TypeCorrectness`;
`CleanTimeouts` (from `CleanInv`: whoever speaks for the timer has set `timedOut`
before); `Reachability` (from `AloneInv`: where handlers do not overlap, an active
object is the current one); `MapAndRow` (from `SingleInv`: an entry has a row, and a row
without an entry belongs to a `Create` or a `Delete` that is under way); `RowTellsEnd`
(from `FinalInv`: how far the one run is on its way to the row, through `Start`, the
watch goroutine and its status); `GaugeReturns` (from `GaugeInv`: the gauge is the
number of starts that have yet to spawn their goroutine and of goroutines that have
yet to lower it, two sets whose sizes are given by bijections).

`MigrationsProofs`, for any processes, faults and restarts, and the two versions of the
repository: `SchemaIsRecorded` (`SchemaMatchesRows`) and `DoneMeansDone` (`DoneIsDone`),
both for `Orderly` clients. The inductive invariant `OrderlyInv` adds to the first that at
most one transaction is open (`Exclusive`), that it holds the next script, and its row,
applied to the database as it still is (`InTx`), that whatever a process has not to do any
more is done (`Progress`), and that who rolls back knows all rows (`AllKnown`). Without
`Progress` a `Migrate` could record version 2 alone: it has read its rows before the loop.

Every invariant, action property and refinement that a passing run checks is proved.
Only model-checked is liveness (`CallsSettle`, `CancelledRunStops`, `CloseReleases`,
`DisciplinedWaitReturns`, `EveryCallEnds`, `JobSettles`, `TickReturns`): it rests on
fairness and `ENABLED`, about which the prover does not reason.

## 5. What the code does that the models describe without a run

* A snapshot right after `Pause` observes the step in flight
  (`docs/architecture/risk-review.md` records it).
* The finalizer of a stopped run marks a run begun meanwhile as `Completed` and clears
  its cancel function; a
  `Pause` that meets the limit ends as `Stopped` though nobody stopped.
* "`MaxTime`, if > 0, stops an event-mode run once simulation time reaches it"
  (`config.go` 21), but `Step`, `RunN` and `RunUntil` never ask for it: an event at or
  after `MaxTime` fires in them.
* A model that gives its component IDs to its systems in `Initialize` is asked for them
  before: lists of IDs that are still zero conflict with each other, which is safe, but a
  system whose lists are empty until then conflicts with nobody and may race.
* A job, a retry, a dead letter or a result that is written to a connection while it is
  lost is gone without an error. A worker whose reconnection fails once exits, with its
  retries in backoff.
* A worker stopped during the backoff of a retry drops the retry; the gauge
  `queue_depth` is counted down for retries that were never counted up.
* A run begun after `Stop` steps the world while the last step of the stopped run
  is in flight, though execution is "single-threaded by design" (`runtime.go` 19-21).
* A `Restore` that fails half way has replaced the entities and not bumped the
  revision: cached entity sets pass for current ones (`snapshot.go` 180-181).
  `CacheFresh` holds until then.
* A `Stop` in the middle of a parallel tick leaves some of its shards done and others
  not (`scheduler.go` 136-142), in a state that may be saved, though "a snapshot is
  never taken mid-tick" (`runtime.go` 106-107).
* `Rollback` "undoes the most recent steps applied migrations" (`migrate.go` 129) only
  for versions its binary knows: an older binary passes over version 2 and undoes
  version 1 below it, or undoes nothing and reports success. A `Migrate` and a
  `Rollback` that overlap can leave version 2 recorded without version 1.
* `Workers` = 1 does not "force fully serial execution of systems" (`config.go`
  23-25): every system of a level has a semaphore of its own.
* A panic of a system in a goroutine of `runConcurrent` ends the process; only one
  in the goroutine of the run becomes a failed state.
* `partition` makes at most as many shards as entities, contiguous, the last ones
  possibly empty; its comment says "exactly workers shards", that of the scheduler
  "index % workers". A queue that cannot be restored loses the events that follow.
* The gauge of active simulations ("currently running") stays up when `Delete`
  comes before the lookup of `watch`, and goes below zero with `Replay`, which
  counts down only. A late status of `Pause`, `Resume` or `Stop` overwrites the
  final one. A `Replay` during `Delete` leaves an entry without a row.
* Dense slices are in creation order only until the first destruction
  (`entity.go` says creation order); a column registered after a snapshot
  keeps its rows through a restore.
* A `Delete` or `Create` whose context ends can have changed the database although it
  reports an error: a row without an entry, whose ID no `Create` can use again.
* The guard of the timeout "suppresses the superfluous WriteHeader noise when a handler
  races with the timeout" (`server.go` 146-147) only if one of them is done before the
  other asks: otherwise both send a header, and the text of the timeout may follow the
  body of a 200. A handler that returns just after the timer has set `timedOut` leaves an
  empty 200 behind, where 503 is promised (`server.go` 145); `stop()` does not wait.
* "Dropped connections and closed consume channels are recovered with bounded exponential
  backoff" (`rabbitmq.go` 16-17): a `Consume` whose channel is
  closed before it has declared its queue returns the error instead. `Consume` ends
  before "ctx is cancelled" (`broker.go` 27) also when `Close` is called.
* `ErrClosed` "is returned by Publish/Consume after Close" (`memory.go` 107), but
  `Consume` never asks, and the queue of a `Consume` after `Close` is never closed. A
  `Nack(true)` at a full channel by the only consumer waits until `Close`.
* `Release` deletes a claim whoever has set it, after a claim that failed open that of
  another worker (`queue.go` 134). A run that the worker's context cut short is
  published as completed (`runjob.go` 67-84).
* A server with `ADMIN_USERNAME` set inserts its administrator at every start
  (`cmd/api/main.go` 64-70): from the second start on, or with a second replica, the
  INSERT violates the unique name and the server exits.

## 6. Not modelled

* Queries, streams, and the decoding of requests and configurations change no state.
* Authentication: hashes and tokens are cryptography. Rate limit: one atomic script at
  Redis and a comparison; a refused request never reaches the manager.
* The rows of models and users, and the conversions between rows and records: one
  statement each, without control of their own. Generated SQL, metrics and tracing.
* The generators of `pkg/rng` and the streams derived from them are 64-bit arithmetic,
  out of reach of TLC beyond toy widths.
* The registry keeps an immutable table of models that is filled before anything runs.
* The examples are models that run on the engine, not part of it.
* Liveness stays with TLC: the prover has no support for fairness here.
