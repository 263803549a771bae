------------------------------ MODULE JobQueue ------------------------------
(***************************************************************************)
(* The asynchronous job system: internal/queue over a broker, with the     *)
(* Redis claim of internal/coord and the workers of internal/workers.      *)
(*                                                                         *)
(* A message is a job and the attempt it stands for.  The broker keeps a   *)
(* message it has delivered until it is acknowledged, and delivers it      *)
(* again when the channel or the consumer is gone (RabbitMQ, QoS 1).       *)
(* Queues are bags: RabbitMQ requeues out of order.                        *)
(***************************************************************************)
EXTENDS Integers, FiniteSets

CONSTANTS
    Jobs,         \* job IDs
    Workers,      \* worker processes, one consumer each
    MaxAttempts,  \* Job.MaxAttempts, the same for every job
    Setups        \* the deployments: with Redis (REDIS_ADDR) or without it, the
                  \* faults that may happen besides a job that fails, and a
                  \* bound on how often they do

AllFaults == {"crash", "drop", "shutdown", "redis"}

ASSUME QueueAssumption ==
    /\ MaxAttempts \in Nat \ {0}
    /\ Setups \subseteq [coord : {"redis", "none"}, faults : SUBSET AllFaults, bound : Nat]

Msgs == [job : Jobs, attempt : 0 .. MaxAttempts]

VARIABLES
    setup,     \* the deployment, fixed for ever
    enqueued,  \* the jobs Enqueue has published
    queue,     \* simulator.jobs: how many copies of each message are ready
    dlq,       \* the jobs published to simulator.jobs.dlq
    results,   \* how many results were published for each job
    claims,    \* the job:processed: keys that exist in Redis
    pc,        \* where each worker is in the callback of Consume
    msg,       \* the message it is working on
    held,      \* TRUE while that delivery is unacknowledged on a live channel
    retries,   \* the messages its backoff goroutines will publish
    stopping,  \* TRUE when the worker's context is cancelled (SIGTERM)
    finished,  \* how often the handler returned for each job (q.done())
    lost,      \* the jobs whose only message, or whose result, was destroyed before
               \* the broker had it (kept for the properties)
    faults     \* the faults so far

broker == <<enqueued, queue, dlq, results>>
worker == <<pc, msg, held, retries, stopping>>
system == <<broker, claims, worker, finished, lost, faults>>
vars == <<setup, system>>

HasCoord == setup.coord = "redis"

Faults == setup.faults

Pcs == {"idle", "claim", "run", "release", "failed", "dead", "ok"}

NoMsg == [job |-> "none", attempt |-> 0]

NoMsgs == [m \in Msgs |-> 0]

Add(bag, m) == [bag EXCEPT ![m] = @ + 1]

Take(bag, m) == [bag EXCEPT ![m] = @ - 1]

\* The worker holds, or believes it holds, the claim of job j.
Holds(w, j) == pc[w] \in {"run", "release"} /\ msg[w].job = j

Fault(f) == f \in Faults /\ faults < setup.bound /\ faults' = faults + 1

Goto(w, from, to) == pc[w] = from /\ pc' = [pc EXCEPT ![w] = to]

Init ==
    /\ setup \in Setups
    /\ enqueued = {} /\ queue = NoMsgs /\ dlq = {} /\ results = [j \in Jobs |-> 0]
    /\ claims = {}
    /\ pc = [w \in Workers |-> "idle"]
    /\ msg = [w \in Workers |-> NoMsg]
    /\ held = [w \in Workers |-> FALSE]
    /\ retries = [w \in Workers |-> NoMsgs]
    /\ stopping = [w \in Workers |-> FALSE]
    /\ finished = [j \in Jobs |-> 0]
    /\ lost = {}
    /\ faults = 0

-----------------------------------------------------------------------------

\* Enqueue: the first attempt is published.
Enqueue(j) ==
    /\ j \notin enqueued
    /\ enqueued' = enqueued \cup {j}
    /\ queue' = Add(queue, [job |-> j, attempt |-> 0])
    /\ UNCHANGED <<dlq, results, claims, worker, finished, lost, faults>>

\* Nothing confirms a publication: the connection drops before the broker has it.
EnqueueLost(j) ==
    /\ j \notin enqueued
    /\ Fault("drop")
    /\ enqueued' = enqueued \cup {j}
    /\ lost' = lost \cup {j}
    /\ UNCHANGED <<queue, dlq, results, claims, worker, finished>>

\* The consumer receives a message; its select may prefer one to ctx.Done().
Deliver(w, m) ==
    /\ queue[m] > 0
    /\ Goto(w, "idle", "claim")
    /\ queue' = Take(queue, m)
    /\ msg' = [msg EXCEPT ![w] = m]
    /\ held' = [held EXCEPT ![w] = TRUE]
    /\ UNCHANGED <<enqueued, dlq, results, claims, retries, stopping, finished, lost, faults>>

\* The callback returns: the worker waits for the next message.
Return(w) ==
    /\ pc' = [pc EXCEPT ![w] = "idle"]
    /\ msg' = [msg EXCEPT ![w] = NoMsg]
    /\ held' = [held EXCEPT ![w] = FALSE]

\* A Redis call of worker w fails: Redis is away, or the context is cancelled.
RedisFails(w) == Fault("redis") \/ (stopping[w] /\ UNCHANGED faults)

\* The queue once the broker has taken back what worker w has not acknowledged.
Requeued(w) == IF held[w] THEN Add(queue, msg[w]) ELSE queue

\* The connection of worker w is gone, and its unacknowledged delivery is requeued.
Drop(w) ==
    /\ Fault("drop")
    /\ queue' = Requeued(w)
    /\ held' = [held EXCEPT ![w] = FALSE]

\* A publication of worker w fails: the connection is gone, or the context is cancelled.
PublishFails(w) == Drop(w) \/ (stopping[w] /\ UNCHANGED <<faults, queue, held>>)

\* Mutant of ClaimWon: the key is looked up and not set.
ClaimWonWithoutKey(w) ==
    /\ HasCoord
    /\ msg[w].job \notin claims
    /\ Goto(w, "claim", "run")
    /\ UNCHANGED <<broker, claims, msg, held, retries, stopping, finished, lost, faults>>

\* SETNX sets the key: this worker processes the job.
ClaimWon(w) ==
    /\ HasCoord
    /\ msg[w].job \notin claims
    /\ Goto(w, "claim", "run")
    /\ claims' = claims \cup {msg[w].job}
    /\ UNCHANGED <<broker, msg, held, retries, stopping, finished, lost, faults>>

\* The key exists: the delivery is a duplicate, acknowledged and dropped.
ClaimLost(w) ==
    /\ HasCoord
    /\ pc[w] = "claim" /\ msg[w].job \in claims
    /\ Return(w)
    /\ UNCHANGED <<broker, claims, retries, stopping, finished, lost, faults>>

\* Redis fails, with or without having set the key, and the job is processed.
ClaimFailsOpen(w) ==
    /\ HasCoord
    /\ Goto(w, "claim", "run")
    /\ RedisFails(w)
    /\ claims' \in {claims, claims \cup {msg[w].job}}
    /\ UNCHANGED <<broker, msg, held, retries, stopping, finished, lost>>

\* Without Redis there is no claim.
NoClaim(w) ==
    /\ ~ HasCoord
    /\ Goto(w, "claim", "run")
    /\ UNCHANGED <<broker, claims, msg, held, retries, stopping, finished, lost, faults>>

\* RunJob runs the simulation and publishes its result; a failed simulation
\* is a result too.
RunJobSucceeds(w) ==
    /\ Goto(w, "run", "ok")
    /\ results' = [results EXCEPT ![msg[w].job] = @ + 1]
    /\ UNCHANGED <<enqueued, queue, dlq, claims, msg, held, retries, stopping, finished, lost, faults>>

\* RunJob fails before the simulation runs: bad payload, unknown model,
\* configuration or initialization error.
RunJobFails(w) ==
    /\ Goto(w, "run", "release")
    /\ UNCHANGED <<broker, claims, msg, held, retries, stopping, finished, lost, faults>>

\* The simulation ran and its result could not be published.
ResultNotPublished(w) ==
    /\ Goto(w, "run", "release")
    /\ PublishFails(w)
    /\ UNCHANGED <<enqueued, dlq, results, claims, msg, retries, stopping, finished, lost>>

\* The result was written and its connection drops before the broker has it.  The message
\* is requeued, but with Redis the claim stays and nobody runs the job again.
ResultLost(w) ==
    /\ Goto(w, "run", "ok")
    /\ Drop(w)
    /\ lost' = IF HasCoord THEN lost \cup {msg[w].job} ELSE lost
    /\ UNCHANGED <<enqueued, dlq, results, claims, msg, retries, stopping, finished>>

\* q.done()
Done(j) == finished' = [finished EXCEPT ![j] = @ + 1]

\* Mutant of Release: the claim is kept after a failure.
KeepClaim(w) ==
    /\ Goto(w, "release", "failed")
    /\ Done(msg[w].job)
    /\ UNCHANGED <<broker, claims, msg, held, retries, stopping, lost, faults>>

\* The claim is released so that the retry can claim the job again.
Release(w) ==
    /\ Goto(w, "release", "failed")
    /\ claims' = IF HasCoord THEN claims \ {msg[w].job} ELSE claims
    /\ Done(msg[w].job)
    /\ UNCHANGED <<broker, msg, held, retries, stopping, lost, faults>>

\* Redis fails, with or without having deleted the key: the error is ignored.
ReleaseFails(w) ==
    /\ HasCoord
    /\ Goto(w, "release", "failed")
    /\ RedisFails(w)
    /\ claims' \in {claims, claims \ {msg[w].job}}
    /\ Done(msg[w].job)
    /\ UNCHANGED <<broker, msg, held, retries, stopping, lost>>

\* The message is acknowledged and its job handed to the DLQ ...
AckForDLQ(w) ==
    /\ pc' = [pc EXCEPT ![w] = "dead"]
    /\ held' = [held EXCEPT ![w] = FALSE]
    /\ UNCHANGED <<msg, retries>>

\* ... or to a backoff goroutine that will publish message m.
AckForRetry(w, m) ==
    /\ retries' = [retries EXCEPT ![w] = Add(@, m)]
    /\ Return(w)

NextAttempt(m) == [m EXCEPT !.attempt = @ + 1]

\* Mutant of HandleFailure: the last attempt is skipped.
HandleFailureEarly(w) ==
    /\ pc[w] = "failed"
    /\ \/ msg[w].attempt + 1 >= MaxAttempts /\ AckForDLQ(w)
       \/ msg[w].attempt + 1 < MaxAttempts /\ AckForRetry(w, NextAttempt(msg[w]))
    /\ UNCHANGED <<broker, claims, stopping, finished, lost, faults>>

\* Mutant of HandleFailure: the attempt is not counted.
HandleFailureUncounted(w) ==
    /\ pc[w] = "failed"
    /\ \/ msg[w].attempt >= MaxAttempts /\ AckForDLQ(w)
       \/ msg[w].attempt < MaxAttempts /\ AckForRetry(w, msg[w])
    /\ UNCHANGED <<broker, claims, stopping, finished, lost, faults>>

\* handleFailure: the message is retried after a backoff, or dead-lettered when
\* its attempts are used up.
HandleFailure(w) ==
    /\ pc[w] = "failed"
    /\ \/ msg[w].attempt >= MaxAttempts /\ AckForDLQ(w)
       \/ msg[w].attempt < MaxAttempts /\ AckForRetry(w, NextAttempt(msg[w]))
    /\ UNCHANGED <<broker, claims, stopping, finished, lost, faults>>

DeadLetter(w) ==
    /\ pc[w] = "dead"
    /\ dlq' = dlq \cup {msg[w].job}
    /\ Return(w)
    /\ UNCHANGED <<enqueued, queue, results, claims, retries, stopping, finished, lost, faults>>

\* The publication fails, and the error is ignored, or is lost with the connection.
DeadLetterLost(w) ==
    /\ pc[w] = "dead"
    /\ PublishFails(w)
    /\ Return(w)
    /\ lost' = lost \cup {msg[w].job}
    /\ UNCHANGED <<enqueued, dlq, results, claims, retries, stopping, finished>>

\* Mutant of AckSuccess: the claim is released after a success, too.
AckSuccessReleases(w) ==
    /\ pc[w] = "ok"
    /\ Done(msg[w].job)
    /\ claims' = claims \ {msg[w].job}
    /\ Return(w)
    /\ UNCHANGED <<broker, retries, stopping, lost, faults>>

\* A successful job is acknowledged, after its result was published.
AckSuccess(w) ==
    /\ pc[w] = "ok"
    /\ Done(msg[w].job)
    /\ Return(w)
    /\ UNCHANGED <<broker, claims, retries, stopping, lost, faults>>

\* Mutant of Retry: the cases of the select are swapped.
RetryWhenStopped(w, m) ==
    /\ stopping[w] /\ retries[w][m] > 0
    /\ retries' = [retries EXCEPT ![w] = Take(@, m)]
    /\ queue' = Add(queue, m)
    /\ UNCHANGED <<enqueued, dlq, results, claims, pc, msg, held, stopping, finished, lost, faults>>

\* A backoff goroutine publishes the next attempt.
Retry(w, m) ==
    /\ retries[w][m] > 0
    /\ retries' = [retries EXCEPT ![w] = Take(@, m)]
    /\ queue' = Add(queue, m)
    /\ UNCHANGED <<enqueued, dlq, results, claims, pc, msg, held, stopping, finished, lost, faults>>

\* The publication fails or is lost with the connection, or the worker is stopped first:
\* the attempt is gone.
RetryLost(w, m) ==
    /\ retries[w][m] > 0
    /\ PublishFails(w)
    /\ retries' = [retries EXCEPT ![w] = Take(@, m)]
    /\ lost' = lost \cup {m.job}
    /\ UNCHANGED <<enqueued, dlq, results, claims, pc, msg, stopping, finished>>

-----------------------------------------------------------------------------
(* Faults *)

\* The connection of worker w drops in the middle of a job, and the worker goes on with
\* a delivery it can no longer acknowledge.
ConnectionDrop(w) ==
    /\ held[w]
    /\ Drop(w)
    /\ UNCHANGED <<enqueued, dlq, results, claims, pc, msg, retries, stopping, finished, lost>>

\* The backoff goroutines of worker w end with its process.
ForgetRetries(w) ==
    /\ retries' = [retries EXCEPT ![w] = NoMsgs]
    /\ lost' = lost \cup {m.job : m \in {n \in Msgs : retries[w][n] > 0}}

\* Worker process w dies, and is started again.
Crash(w) ==
    /\ Fault("crash")
    /\ queue' = Requeued(w)
    /\ ForgetRetries(w)
    /\ stopping' = [stopping EXCEPT ![w] = FALSE]
    /\ Return(w)
    /\ UNCHANGED <<enqueued, dlq, results, claims, finished>>

\* SIGTERM: the context of Run is cancelled.
Shutdown(w) ==
    /\ ~ stopping[w]
    /\ Fault("shutdown")
    /\ stopping' = [stopping EXCEPT ![w] = TRUE]
    /\ UNCHANGED <<broker, claims, pc, msg, held, retries, finished, lost>>

\* Consume returns, because the context is cancelled or because it could not reconnect
\* (the queue cannot be declared on the dead channel, and that error is final).  The
\* process ends; another one takes its place.
Exit(w) ==
    /\ pc[w] = "idle"
    /\ (stopping[w] /\ UNCHANGED faults) \/ Fault("drop")
    /\ stopping' = [stopping EXCEPT ![w] = FALSE]
    /\ ForgetRetries(w)
    /\ UNCHANGED <<broker, claims, pc, msg, held, finished>>

-----------------------------------------------------------------------------

\* The steps of the callback of Consume.
WorkerStep(w) ==
    \/ ClaimWon(w) \/ ClaimLost(w) \/ ClaimFailsOpen(w) \/ NoClaim(w)
    \/ RunJobSucceeds(w) \/ RunJobFails(w) \/ ResultNotPublished(w) \/ ResultLost(w)
    \/ Release(w) \/ ReleaseFails(w) \/ HandleFailure(w)
    \/ DeadLetter(w) \/ DeadLetterLost(w) \/ AckSuccess(w)

Next ==
    /\ setup' = setup
    /\ \/ \E j \in Jobs : Enqueue(j) \/ EnqueueLost(j)
       \/ \E w \in Workers :
             \/ WorkerStep(w)
             \/ ConnectionDrop(w) \/ Crash(w) \/ Shutdown(w) \/ Exit(w)
             \/ \E m \in Msgs : Deliver(w, m) \/ Retry(w, m) \/ RetryLost(w, m)

Spec == Init /\ [][Next]_vars

\* Workers go on, the broker delivers what is ready, timers fire.  Nothing is
\* assumed of clients and of faults.
Fairness ==
    \A w \in Workers :
       /\ WF_system(WorkerStep(w))
       /\ WF_system(\E m \in Msgs : Deliver(w, m))
       /\ WF_system(\E m \in Msgs : Retry(w, m))

FairSpec == Spec /\ Fairness

-----------------------------------------------------------------------------
(* Properties *)

\* The shape of the state; a worker has a message exactly while it works on one.
TypeOK ==
    /\ setup \in Setups
    /\ enqueued \subseteq Jobs
    /\ queue \in [Msgs -> Nat]
    /\ dlq \subseteq Jobs
    /\ results \in [Jobs -> Nat]
    /\ claims \subseteq Jobs
    /\ pc \in [Workers -> Pcs]
    /\ msg \in [Workers -> Msgs \cup {NoMsg}]
    /\ \A w \in Workers : pc[w] # "idle" => msg[w] \in Msgs
    /\ held \in [Workers -> BOOLEAN]
    /\ \A w \in Workers : held[w] => pc[w] # "idle"
    /\ retries \in [Workers -> [Msgs -> Nat]]
    /\ stopping \in [Workers -> BOOLEAN]
    /\ finished \in [Jobs -> Nat]
    /\ lost \subseteq Jobs
    /\ faults \in Nat /\ faults <= setup.bound

\* Workers use Redis, it answers, and no worker is stopped by a signal.
RedisAnswers == HasCoord /\ Faults \cap {"redis", "shutdown"} = {}

\* The claim excludes: as long as Redis answers, two workers never process the
\* same job at the same time, although the broker delivers it twice or a worker
\* crashes.
OneRunner ==
    RedisAnswers =>
       \A v, w \in Workers : \A j \in Jobs : Holds(v, j) /\ Holds(w, j) => v = w

\* Idempotency: as long as Redis answers, at most one result is ever published
\* for a job, whatever is delivered again afterwards.
OneResult == RedisAnswers => \A j \in Jobs : results[j] <= 1

\* Job j has a result or is dead-lettered.
Settled(j) == results[j] > 0 \/ j \in dlq

\* Somebody still has job j: the broker, a worker or a backoff goroutine.
Pending(j) ==
    \/ \E m \in Msgs : m.job = j /\ queue[m] > 0
    \/ \E w \in Workers : pc[w] # "idle" /\ msg[w].job = j
    \/ \E w \in Workers, m \in Msgs : m.job = j /\ retries[w][m] > 0

\* No job is lost: an enqueued job is settled or somebody still has it.
NothingLost == \A j \in enqueued : Settled(j) \/ Pending(j)

\* Nothing but connections fails.
OnlyDrops == Faults \subseteq {"drop"}

\* When only connections drop, a job disappears in no other way than these: its first
\* message, a retry or a dead letter was written to a connection that dropped, its retry
\* was in backoff in a process that could not reconnect, or, with Redis, its result was
\* written to a connection that dropped.  Requeued messages, duplicates that are dropped
\* and acknowledgements that are lost cost no job.
JobAccounted == OnlyDrops => \A j \in enqueued : Settled(j) \/ Pending(j) \/ j \in lost

\* When only workers crash, a job is executed at most once for the first attempt
\* and once per retry, and once more for each worker that dies between the end of
\* an execution and its acknowledgement; and with Redis it is dead-lettered only if
\* none of these executions produced a result.
ExecutionsBounded ==
    Faults \subseteq {"crash"} =>
       /\ \A j \in Jobs : finished[j] <= MaxAttempts + 1 + faults
       /\ HasCoord => \A j \in dlq : results[j] = 0

\* A job is dead-lettered only after its final attempt: its first one and all of
\* its MaxAttempts retries have failed, whatever faults interfere.
DeadAfterAllAttempts == \A j \in dlq : finished[j] > MaxAttempts

\* When only connections drop, every enqueued job gets a result or is dead-lettered,
\* unless it is lost with a publication or a backoff goroutine.
JobSettles == \A j \in Jobs : OnlyDrops /\ j \in enqueued ~> Settled(j) \/ j \in lost
=============================================================================
