--------------------------- MODULE JobQueueProofs ---------------------------
(***************************************************************************)
(* Theorems about JobQueue for any jobs, workers and numbers of attempts   *)
(* and faults.                                                             *)
(***************************************************************************)
EXTENDS JobQueue, TLAPS

\* The next attempt of a message that is not the last one is a message.
LEMMA NextAttemptMsg ==
    ASSUME NEW m \in Msgs, m.attempt < MaxAttempts
    PROVE  /\ NextAttempt(m) \in Msgs
           /\ NextAttempt(m).job = m.job
           /\ NextAttempt(m).attempt = m.attempt + 1
BY QueueAssumption DEF Msgs, NextAttempt

\* A message names a job and an attempt.
LEMMA MsgFields ==
    /\ \A m \in Msgs : m.job \in Jobs /\ m.attempt \in 0 .. MaxAttempts
    /\ \A j \in Jobs : [job |-> j, attempt |-> 0] \in Msgs
BY QueueAssumption DEF Msgs

\* The deployment is fixed.
LEMMA SetupKept == [Next]_vars => setup' = setup
BY Zenon DEF Next, vars

\* A publication that fails leaves the queue, the deliveries and the faults well typed.
LEMMA FailureTyped ==
    ASSUME TypeOK, setup' = setup, NEW w \in Workers, PublishFails(w)
    PROVE  /\ queue' \in [Msgs -> Nat] /\ held' \in [Workers -> BOOLEAN]
           /\ \A v \in Workers : held'[v] => held[v]
           /\ faults' \in Nat /\ faults' <= setup'.bound
<1>1. /\ queue \in [Msgs -> Nat] /\ held \in [Workers -> BOOLEAN] /\ setup.bound \in Nat
      /\ faults \in Nat /\ faults <= setup.bound /\ (held[w] => msg[w] \in Msgs)
    BY QueueAssumption DEF TypeOK
<1>2. CASE Drop(w)
    BY <1>1, <1>2 DEF Drop, Requeued, Add, Fault
<1>3. CASE UNCHANGED <<faults, queue, held>>
    BY <1>1, <1>3, Zenon
<1> QED
    BY <1>2, <1>3, Zenon DEF PublishFails

\* The jobs of lost retries are jobs.
LEMMA ForgottenTyped ==
    ASSUME TypeOK, NEW w \in Workers, ForgetRetries(w)
    PROVE  lost' \subseteq Jobs /\ retries' \in [Workers -> [Msgs -> Nat]]
<1>1. lost' \subseteq Jobs
    BY MsgFields, Zenon DEF ForgetRetries, TypeOK
<1>2. NoMsgs \in [Msgs -> Nat]
    BY DEF NoMsgs
<1>3. retries' \in [Workers -> [Msgs -> Nat]]
    BY <1>2, Zenon DEF ForgetRetries, TypeOK
<1> QED
    BY <1>1, <1>3

\* Every step keeps the state well typed.
LEMMA NextTypeOK == TypeOK /\ [Next]_vars => TypeOK'
<1> SUFFICES ASSUME TypeOK, [Next]_vars PROVE TypeOK'
    BY Zenon
<1>s. setup' = setup
    BY SetupKept, Zenon
<1> USE QueueAssumption, <1>s DEF TypeOK, Pcs
<1>1. ASSUME NEW j \in Jobs, Enqueue(j) PROVE TypeOK'
    BY <1>1, MsgFields DEF Enqueue, Add, worker
<1>11. ASSUME NEW j \in Jobs, EnqueueLost(j) PROVE TypeOK'
    BY <1>11, MsgFields DEF EnqueueLost, Fault, worker
<1>2. ASSUME NEW w \in Workers, WorkerStep(w) PROVE TypeOK'
  <2>1. CASE ClaimWon(w)
    BY <2>1, MsgFields, Zenon DEF ClaimWon, Goto, broker
  <2>2. CASE ClaimLost(w)
    BY <2>2, Zenon DEF ClaimLost, Return, broker
  <2>3. CASE ClaimFailsOpen(w)
    BY <2>3, MsgFields DEF ClaimFailsOpen, Goto, RedisFails, Fault, broker
  <2>4. CASE NoClaim(w)
    BY <2>4, Zenon DEF NoClaim, Goto, broker
  <2>5. CASE RunJobSucceeds(w)
    BY <2>5, MsgFields DEF RunJobSucceeds, Goto, broker
  <2>6. CASE RunJobFails(w)
    BY <2>6, Zenon DEF RunJobFails, Goto, broker
  <2>7. CASE ResultNotPublished(w)
    BY <2>7, FailureTyped, Zenon DEF ResultNotPublished, Goto
  <2>8. CASE Release(w)
    BY <2>8, MsgFields DEF Release, Goto, Done, broker
  <2>9. CASE ReleaseFails(w)
    BY <2>9, MsgFields DEF ReleaseFails, Goto, RedisFails, Fault, Done, broker
  <2>10. CASE HandleFailure(w)
    <3>1. CASE AckForDLQ(w)
      BY <2>10, <3>1, Zenon DEF HandleFailure, AckForDLQ, broker
    <3>2. CASE msg[w].attempt < MaxAttempts /\ AckForRetry(w, NextAttempt(msg[w]))
      <4>1. NextAttempt(msg[w]) \in Msgs
        BY <2>10, <3>2, NextAttemptMsg, Zenon DEF HandleFailure
      <4> QED
        BY <2>10, <3>2, <4>1 DEF HandleFailure, AckForRetry, Add, Return, broker
    <3> QED
      BY <2>10, <3>1, <3>2, Zenon DEF HandleFailure
  <2>11. CASE DeadLetter(w)
    BY <2>11, MsgFields, Zenon DEF DeadLetter, Return, broker
  <2>12. CASE DeadLetterLost(w)
    BY <2>12, MsgFields, FailureTyped, ZenonT(30) DEF DeadLetterLost, Return
  <2>13. CASE AckSuccess(w)
    BY <2>13, MsgFields DEF AckSuccess, Return, Done, broker
  <2>14. CASE ResultLost(w)
    BY <2>14, MsgFields DEF ResultLost, Goto, Drop, Requeued, Add, Fault, broker
  <2> QED
    BY <1>2, <2>1, <2>2, <2>3, <2>4, <2>5, <2>6, <2>7, <2>8, <2>9, <2>10, <2>11, <2>12, <2>13, <2>14, Zenon
       DEF WorkerStep
<1>3. ASSUME NEW w \in Workers, ConnectionDrop(w) PROVE TypeOK'
    BY <1>3 DEF ConnectionDrop, Drop, Requeued, Add, Fault, broker
<1>4. ASSUME NEW w \in Workers, Crash(w) PROVE TypeOK'
  <2>1. queue' \in [Msgs -> Nat] /\ faults' \in Nat /\ faults' <= setup'.bound
    BY <1>4 DEF Crash, Requeued, Add, Fault
  <2> QED
    BY <1>4, <2>1, ForgottenTyped, Zenon DEF Crash, Return
<1>5. ASSUME NEW w \in Workers, Shutdown(w) PROVE TypeOK'
    BY <1>5 DEF Shutdown, Fault, broker
<1>6. ASSUME NEW w \in Workers, Exit(w) PROVE TypeOK'
  <2>1. faults' \in Nat /\ faults' <= setup'.bound
    BY <1>6 DEF Exit, Fault
  <2> QED
    BY <1>6, <2>1, ForgottenTyped, Zenon DEF Exit, broker
<1>7. ASSUME NEW w \in Workers, NEW m \in Msgs, Deliver(w, m) PROVE TypeOK'
    BY <1>7 DEF Deliver, Goto, Take, broker
<1>8. ASSUME NEW w \in Workers, NEW m \in Msgs, Retry(w, m) PROVE TypeOK'
    BY <1>8 DEF Retry, Add, Take, broker
<1>9. ASSUME NEW w \in Workers, NEW m \in Msgs, RetryLost(w, m) PROVE TypeOK'
  <2>1. /\ queue' \in [Msgs -> Nat] /\ held' \in [Workers -> BOOLEAN]
        /\ \A v \in Workers : held'[v] => held[v]
        /\ faults' \in Nat /\ faults' <= setup'.bound
    BY <1>9, FailureTyped, Zenon DEF RetryLost
  <2>2. retries' \in [Workers -> [Msgs -> Nat]]
    BY <1>9 DEF RetryLost, Take
  <2>3. lost' \subseteq Jobs
    BY <1>9, MsgFields, Zenon DEF RetryLost
  <2> QED
    BY <1>9, <2>1, <2>2, <2>3, Zenon DEF RetryLost
<1>10. CASE UNCHANGED vars
    BY <1>10, Zenon DEF vars, system, broker, worker
<1> QED
    BY <1>1, <1>2, <1>3, <1>4, <1>5, <1>6, <1>7, <1>8, <1>9, <1>10, <1>11, Zenon DEF Next

\* New processes, an empty broker and an empty Redis are well typed.
LEMMA InitTypeOK == Init => TypeOK
BY QueueAssumption DEF Init, TypeOK, Pcs, NoMsgs

\* The state is well typed under any faults.
THEOREM TypeCorrectness == Spec => []TypeOK
BY InitTypeOK, NextTypeOK, PTL DEF Spec

-----------------------------------------------------------------------------
(* Dead-lettering, under any faults. *)

\* The attempt a message carries has been paid for with that many failures.
AttemptsPaid ==
    /\ \A m \in Msgs : queue[m] > 0 => finished[m.job] >= m.attempt
    /\ \A w \in Workers, m \in Msgs : retries[w][m] > 0 => finished[m.job] >= m.attempt
    /\ \A w \in Workers : pc[w] # "idle" => finished[msg[w].job] >= msg[w].attempt
    /\ \A w \in Workers : pc[w] \in {"failed", "dead"} => finished[msg[w].job] > msg[w].attempt
    /\ \A w \in Workers : pc[w] = "dead" => msg[w].attempt >= MaxAttempts
    /\ DeadAfterAllAttempts

\* Every step keeps the attempts paid for.
LEMMA NextAttemptsPaid == TypeOK /\ AttemptsPaid /\ [Next]_vars => AttemptsPaid'
<1> SUFFICES ASSUME TypeOK, AttemptsPaid, [Next]_vars PROVE AttemptsPaid'
    BY Zenon
<1> USE QueueAssumption, MsgFields DEF TypeOK, AttemptsPaid, DeadAfterAllAttempts
<1>1. ASSUME NEW j \in Jobs, Enqueue(j) PROVE AttemptsPaid'
    BY <1>1 DEF Enqueue, Add, worker
<1>11. ASSUME NEW j \in Jobs, EnqueueLost(j) PROVE AttemptsPaid'
    BY <1>11, MsgFields DEF EnqueueLost, Fault, worker
<1>2. ASSUME NEW w \in Workers, WorkerStep(w) PROVE AttemptsPaid'
  <2>1. CASE ClaimWon(w)
    BY <2>1, Zenon DEF ClaimWon, Goto, broker
  <2>2. CASE ClaimLost(w)
    BY <2>2, Zenon DEF ClaimLost, Return, broker
  <2>3. CASE ClaimFailsOpen(w)
    BY <2>3, Zenon DEF ClaimFailsOpen, Goto, RedisFails, Fault, broker
  <2>4. CASE NoClaim(w)
    BY <2>4, Zenon DEF NoClaim, Goto, broker
  <2>5. CASE RunJobSucceeds(w)
    BY <2>5, Zenon DEF RunJobSucceeds, Goto, broker
  <2>6. CASE RunJobFails(w)
    BY <2>6, Zenon DEF RunJobFails, Goto, broker
  <2>7. CASE ResultNotPublished(w)
    BY <2>7, Zenon DEF ResultNotPublished, Goto, PublishFails, Drop, Requeued, Add, Fault, broker
  <2>8. CASE Release(w)
    BY <2>8 DEF Release, Goto, Done, broker
  <2>9. CASE ReleaseFails(w)
    BY <2>9, SMTT(20) DEF ReleaseFails, Goto, RedisFails, Fault, Done, broker
  <2>10. CASE HandleFailure(w)
    <3>1. CASE msg[w].attempt >= MaxAttempts /\ AckForDLQ(w)
      BY <2>10, <3>1, Zenon DEF HandleFailure, AckForDLQ, broker
    <3>2. CASE msg[w].attempt < MaxAttempts /\ AckForRetry(w, NextAttempt(msg[w]))
      <4> DEFINE n == NextAttempt(msg[w])
      <4>1. n \in Msgs /\ finished[n.job] >= n.attempt
        BY <2>10, <3>2, NextAttemptMsg DEF HandleFailure
      <4>2. \A v \in Workers, m \in Msgs : retries'[v][m] > 0 => retries[v][m] > 0 \/ m = n
        BY <2>10, <3>2, <4>1, Zenon DEF AckForRetry, Add
      <4>3. \A v \in Workers : pc'[v] # "idle" => pc'[v] = pc[v] /\ msg'[v] = msg[v]
        BY <2>10, <3>2, Zenon DEF AckForRetry, Return
      <4> HIDE DEF n
      <4> QED
        BY <2>10, <4>1, <4>2, <4>3, Zenon DEF HandleFailure, broker
    <3> QED
      BY <2>10, <3>1, <3>2, Zenon DEF HandleFailure
  <2>11. CASE DeadLetter(w)
    BY <2>11 DEF DeadLetter, Return, broker
  <2>12. CASE DeadLetterLost(w)
    BY <2>12, Zenon DEF DeadLetterLost, Return, PublishFails, Drop, Requeued, Add, Fault, broker
  <2>13. CASE AckSuccess(w)
    <3>1. \A j \in Jobs : finished'[j] >= finished[j] /\ finished'[j] \in Nat
      BY <2>13 DEF AckSuccess, Done
    <3>2. \A v \in Workers : pc'[v] # "idle" => pc'[v] = pc[v] /\ msg'[v] = msg[v]
      BY <2>13, Zenon DEF AckSuccess, Return
    <3>3. UNCHANGED <<queue, dlq, retries>>
      BY <2>13, Zenon DEF AckSuccess, broker
    <3>4. \A v \in Workers : pc[v] # "idle" => msg[v].job \in Jobs /\ msg[v].attempt \in Nat
      OBVIOUS
    <3>5. \A m \in Msgs : m.job \in Jobs /\ m.attempt \in Nat
      OBVIOUS
    <3>6. finished \in [Jobs -> Nat] /\ dlq \subseteq Jobs /\ MaxAttempts \in Nat
      BY Zenon
    <3> HIDE QueueAssumption, MsgFields DEF TypeOK
    <3> QED
      BY <3>1, <3>2, <3>3, <3>4, <3>5, <3>6
  <2>14. CASE ResultLost(w)
    BY <2>14, MsgFields DEF ResultLost, Goto, Drop, Requeued, Add, Fault, broker
  <2> QED
    BY <1>2, <2>1, <2>2, <2>3, <2>4, <2>5, <2>6, <2>7, <2>8, <2>9, <2>10, <2>11, <2>12, <2>13, <2>14, Zenon
       DEF WorkerStep
<1>3. ASSUME NEW w \in Workers, ConnectionDrop(w) PROVE AttemptsPaid'
    BY <1>3, Zenon DEF ConnectionDrop, Drop, Requeued, Add, Fault, broker
<1>4. ASSUME NEW w \in Workers, Crash(w) PROVE AttemptsPaid'
    BY <1>4 DEF Crash, ForgetRetries, Requeued, Add, Return, NoMsgs, Fault, broker
<1>5. ASSUME NEW w \in Workers, Shutdown(w) PROVE AttemptsPaid'
    BY <1>5, Zenon DEF Shutdown, Fault, broker
<1>6. ASSUME NEW w \in Workers, Exit(w) PROVE AttemptsPaid'
    BY <1>6 DEF Exit, ForgetRetries, Fault, NoMsgs, broker
<1>7. ASSUME NEW w \in Workers, NEW m \in Msgs, Deliver(w, m) PROVE AttemptsPaid'
    BY <1>7, Zenon DEF Deliver, Goto, Take, broker
<1>8. ASSUME NEW w \in Workers, NEW m \in Msgs, Retry(w, m) PROVE AttemptsPaid'
    BY <1>8, Zenon DEF Retry, Add, Take, broker
<1>9. ASSUME NEW w \in Workers, NEW m \in Msgs, RetryLost(w, m) PROVE AttemptsPaid'
    BY <1>9 DEF RetryLost, Take, PublishFails, Drop, Requeued, Add, Fault, broker
<1>10. CASE UNCHANGED vars
    BY <1>10, Zenon DEF vars, system, broker, worker
<1> QED
    BY <1>1, <1>2, <1>3, <1>4, <1>5, <1>6, <1>7, <1>8, <1>9, <1>10, <1>11, Zenon DEF Next

\* A job reaches the DLQ only after its first attempt and all its retries failed.
THEOREM DeadLettering == Spec => []DeadAfterAllAttempts
<1>1. Init => AttemptsPaid
    BY DEF Init, AttemptsPaid, DeadAfterAllAttempts, NoMsgs
<1>2. AttemptsPaid => DeadAfterAllAttempts
    BY Zenon DEF AttemptsPaid
<1> QED
    BY <1>1, <1>2, NextAttemptsPaid, TypeCorrectness, PTL DEF Spec

-----------------------------------------------------------------------------
(* Exclusion, as long as Redis answers. *)

\* The claim of a job is held by the only worker that processes it, and kept
\* for ever by its result.
ClaimInv ==
    /\ \A w \in Workers : ~ stopping[w]
    /\ \A w \in Workers, j \in Jobs : Holds(w, j) => j \in claims /\ results[j] = 0
    /\ \A j \in Jobs : results[j] > 0 => j \in claims
    /\ \A v, w \in Workers, j \in Jobs : Holds(v, j) /\ Holds(w, j) => v = w
    /\ \A j \in Jobs : results[j] <= 1

\* Every step keeps the claim.
LEMMA NextClaimInv ==
    ASSUME RedisAnswers, TypeOK, ClaimInv, [Next]_vars
    PROVE  ClaimInv'
<1> USE MsgFields DEF RedisAnswers, HasCoord, Faults, TypeOK, ClaimInv, Holds
<1>1. ASSUME NEW j \in Jobs, Enqueue(j) PROVE ClaimInv'
    BY <1>1, Zenon DEF Enqueue, Add, worker
<1>11. ASSUME NEW j \in Jobs, EnqueueLost(j) PROVE ClaimInv'
    BY <1>11, MsgFields DEF EnqueueLost, Fault, worker
<1>2. ASSUME NEW w \in Workers, WorkerStep(w) PROVE ClaimInv'
  <2>1. CASE ClaimWon(w)
    BY <2>1 DEF ClaimWon, Goto, broker
  <2>2. CASE ClaimLost(w)
    BY <2>2 DEF ClaimLost, Return, broker
  <2>3. CASE ClaimFailsOpen(w)
    BY <2>3, Zenon DEF ClaimFailsOpen, Goto, RedisFails, Fault, broker
  <2>4. CASE NoClaim(w)
    BY <2>4, Zenon DEF NoClaim, Goto, broker
  <2>5. CASE RunJobSucceeds(w)
    BY <2>5 DEF RunJobSucceeds, Goto, broker
  <2>6. CASE RunJobFails(w)
    BY <2>6 DEF RunJobFails, Goto, broker
  <2>7. CASE ResultNotPublished(w)
    BY <2>7 DEF ResultNotPublished, Goto, PublishFails, Drop, Requeued, Add, Fault, broker
  <2>8. CASE Release(w)
    BY <2>8 DEF Release, Goto, Done, broker
  <2>9. CASE ReleaseFails(w)
    BY <2>9, Zenon DEF ReleaseFails, Goto, RedisFails, Fault, Done, broker
  <2>10. CASE HandleFailure(w)
    <3>1. \A v \in Workers : pc'[v] \in {"run", "release", "ok"} => pc'[v] = pc[v] /\ msg'[v] = msg[v]
      BY <2>10 DEF HandleFailure, AckForDLQ, AckForRetry, Return
    <3>2. UNCHANGED <<results, claims, stopping>>
      BY <2>10, Zenon DEF HandleFailure, broker
    <3> HIDE MsgFields DEF TypeOK, RedisAnswers
    <3> QED
      BY <3>1, <3>2
  <2>11. CASE DeadLetter(w)
    BY <2>11 DEF DeadLetter, Return, broker
  <2>12. CASE DeadLetterLost(w)
    BY <2>12 DEF DeadLetterLost, Return, PublishFails, Drop, Requeued, Add, Fault, broker
  <2>13. CASE AckSuccess(w)
    BY <2>13 DEF AckSuccess, Return, Done, broker
  <2>14. CASE ResultLost(w)
    BY <2>14, MsgFields DEF ResultLost, Goto, Drop, Requeued, Add, Fault, broker
  <2> QED
    BY <1>2, <2>1, <2>2, <2>3, <2>4, <2>5, <2>6, <2>7, <2>8, <2>9, <2>10, <2>11, <2>12, <2>13, <2>14, Zenon
       DEF WorkerStep
<1>3. ASSUME NEW w \in Workers, ConnectionDrop(w) PROVE ClaimInv'
    BY <1>3, Zenon DEF ConnectionDrop, Drop, Requeued, Add, Fault, broker
<1>4. ASSUME NEW w \in Workers, Crash(w) PROVE ClaimInv'
    BY <1>4 DEF Crash, ForgetRetries, Requeued, Add, Return, NoMsgs, Fault, broker
<1>5. ASSUME NEW w \in Workers, Shutdown(w) PROVE ClaimInv'
    BY <1>5, Zenon DEF Shutdown, Fault, broker
<1>6. ASSUME NEW w \in Workers, Exit(w) PROVE ClaimInv'
    BY <1>6, Zenon DEF Exit, ForgetRetries, Fault, NoMsgs, broker
<1>7. ASSUME NEW w \in Workers, NEW m \in Msgs, Deliver(w, m) PROVE ClaimInv'
    BY <1>7 DEF Deliver, Goto, Take, broker
<1>8. ASSUME NEW w \in Workers, NEW m \in Msgs, Retry(w, m) PROVE ClaimInv'
    BY <1>8, Zenon DEF Retry, Add, Take, broker
<1>9. ASSUME NEW w \in Workers, NEW m \in Msgs, RetryLost(w, m) PROVE ClaimInv'
    BY <1>9, Zenon DEF RetryLost, Take, PublishFails, Drop, Requeued, Add, Fault, broker
<1>10. CASE UNCHANGED vars
    BY <1>10, Zenon DEF vars, system, broker, worker
<1> QED
    BY <1>1, <1>2, <1>3, <1>4, <1>5, <1>6, <1>7, <1>8, <1>9, <1>10, <1>11, Zenon DEF Next

\* As long as Redis answers, the claims exclude.
LEMMA ClaimsExclude == Spec => [](RedisAnswers => ClaimInv)
<1> DEFINE Claimed == RedisAnswers => ClaimInv
<1>1. Init => Claimed
    BY DEF Init, ClaimInv, Holds
<1>2. TypeOK /\ Claimed /\ [Next]_vars => Claimed'
  <2> SUFFICES ASSUME TypeOK, Claimed, [Next]_vars, RedisAnswers' PROVE ClaimInv'
    BY Zenon
  <2>1. RedisAnswers
    BY SetupKept, Zenon DEF RedisAnswers, HasCoord, Faults
  <2> QED
    BY <2>1, NextClaimInv, Zenon
<1> QED
    BY <1>1, <1>2, TypeCorrectness, PTL DEF Spec

\* As long as Redis answers, two workers never process the same job at the same
\* time, whatever crashes, dropped connections and failed publications do.
THEOREM Exclusion == Spec => []OneRunner
<1>1. (RedisAnswers => ClaimInv) => OneRunner
    BY Zenon DEF ClaimInv, OneRunner
<1> QED
    BY <1>1, ClaimsExclude, PTL

\* As long as Redis answers, at most one result is published for a job, whatever
\* is delivered again.
THEOREM Idempotency == Spec => []OneResult
<1>1. (RedisAnswers => ClaimInv) => OneResult
    BY Zenon DEF ClaimInv, OneResult
<1> QED
    BY <1>1, ClaimsExclude, PTL

-----------------------------------------------------------------------------
(* No job is lost but with a publication or a process, when only connections drop. *)

\* A claim stands for a result, for one that was lost, or for a worker that processes
\* the job.
ClaimsBacked == \A j \in claims : results[j] > 0 \/ j \in lost \/ \E w \in Workers : Holds(w, j)

\* Every step keeps the claims backed.
LEMMA NextClaimsBacked ==
    ASSUME HasCoord, OnlyDrops, TypeOK, ClaimInv, ClaimsBacked, [Next]_vars
    PROVE  ClaimsBacked'
<1> USE MsgFields DEF HasCoord, Faults, OnlyDrops, TypeOK, ClaimInv, ClaimsBacked, Holds
<1>1. ASSUME NEW j \in Jobs, Enqueue(j) PROVE ClaimsBacked'
    BY <1>1, Zenon DEF Enqueue, Add, worker
<1>11. ASSUME NEW j \in Jobs, EnqueueLost(j) PROVE ClaimsBacked'
    BY <1>11, Zenon DEF EnqueueLost, Fault, worker
<1>2. ASSUME NEW w \in Workers, WorkerStep(w) PROVE ClaimsBacked'
  <2>1. CASE ClaimWon(w)
    BY <2>1 DEF ClaimWon, Goto, broker
  <2>2. CASE ClaimLost(w)
    BY <2>2, Zenon DEF ClaimLost, Return, broker
  <2>3. CASE ClaimFailsOpen(w)
    BY <2>3 DEF ClaimFailsOpen, Goto, RedisFails, Fault, broker
  <2>4. CASE NoClaim(w)
    BY <2>4, Zenon DEF NoClaim, Goto, broker
  <2>5. CASE RunJobSucceeds(w)
    BY <2>5 DEF RunJobSucceeds, Goto, broker
  <2>6. CASE RunJobFails(w)
    BY <2>6 DEF RunJobFails, Goto, broker
  <2>7. CASE ResultNotPublished(w)
    BY <2>7 DEF ResultNotPublished, Goto, PublishFails, Drop, Requeued, Add, Fault, broker
  <2>8. CASE Release(w)
    BY <2>8, Zenon DEF Release, Goto, Done, broker
  <2>9. CASE ReleaseFails(w)
    BY <2>9 DEF ReleaseFails, Goto, RedisFails, Fault, Done, broker
  <2>10. CASE HandleFailure(w)
    BY <2>10, SMTT(20) DEF HandleFailure, AckForDLQ, AckForRetry, NextAttempt, Add, Return, broker
  <2>11. CASE DeadLetter(w)
    BY <2>11, Zenon DEF DeadLetter, Return, broker
  <2>12. CASE DeadLetterLost(w)
    BY <2>12, Zenon DEF DeadLetterLost, Return, PublishFails, Drop, Requeued, Add, Fault, broker
  <2>13. CASE AckSuccess(w)
    BY <2>13, Zenon DEF AckSuccess, Return, Done, broker
  <2>14. CASE ResultLost(w)
    BY <2>14 DEF ResultLost, Goto, Drop, Fault, broker
  <2> QED
    BY <1>2, <2>1, <2>2, <2>3, <2>4, <2>5, <2>6, <2>7, <2>8, <2>9, <2>10, <2>11, <2>12, <2>13, <2>14, Zenon
       DEF WorkerStep
<1>3. ASSUME NEW w \in Workers, ConnectionDrop(w) PROVE ClaimsBacked'
    BY <1>3, Zenon DEF ConnectionDrop, Drop, Requeued, Add, Fault, broker
<1>4. ASSUME NEW w \in Workers, Crash(w) PROVE ClaimsBacked'
    BY <1>4 DEF Crash, ForgetRetries, Requeued, Add, Return, NoMsgs, Fault, broker
<1>5. ASSUME NEW w \in Workers, Shutdown(w) PROVE ClaimsBacked'
    BY <1>5, Zenon DEF Shutdown, Fault, broker
<1>6. ASSUME NEW w \in Workers, Exit(w) PROVE ClaimsBacked'
    BY <1>6, Zenon DEF Exit, ForgetRetries, Fault, NoMsgs, broker
<1>7. ASSUME NEW w \in Workers, NEW m \in Msgs, Deliver(w, m) PROVE ClaimsBacked'
    BY <1>7, Zenon DEF Deliver, Goto, Take, broker
<1>8. ASSUME NEW w \in Workers, NEW m \in Msgs, Retry(w, m) PROVE ClaimsBacked'
    BY <1>8, Zenon DEF Retry, Add, Take, broker
<1>9. ASSUME NEW w \in Workers, NEW m \in Msgs, RetryLost(w, m) PROVE ClaimsBacked'
    BY <1>9, Zenon DEF RetryLost, Take, PublishFails, Drop, Requeued, Add, Fault, broker
<1>10. CASE UNCHANGED vars
    BY <1>10, Zenon DEF vars, system, broker, worker
<1> QED
    BY <1>1, <1>2, <1>3, <1>4, <1>5, <1>6, <1>7, <1>8, <1>9, <1>10, <1>11, Zenon DEF Next

\* No worker has received a signal.
NobodyStops == \A w \in Workers : ~ stopping[w]

\* Without signals no worker is ever stopping.
LEMMA NextNobodyStops ==
    ASSUME "shutdown" \notin Faults, TypeOK, NobodyStops, [Next]_vars
    PROVE  NobodyStops'
<1>1. ASSUME NEW w \in Workers, Shutdown(w) PROVE FALSE
    BY <1>1, Zenon DEF Shutdown, Fault
<1>2. ASSUME NEW w \in Workers, Crash(w) \/ Exit(w) PROVE NobodyStops'
    BY <1>2, Zenon DEF Crash, Exit, TypeOK, NobodyStops
<1>3. ASSUME NEW w \in Workers, WorkerStep(w) PROVE stopping' = stopping
    BY Zenon, <1>3 DEF WorkerStep, ClaimWon, ClaimLost, ClaimFailsOpen, NoClaim, RunJobSucceeds,
       RunJobFails,
       ResultNotPublished, ResultLost, Release, ReleaseFails, HandleFailure, DeadLetter, DeadLetterLost, AckSuccess
<1>4. ASSUME NEW w \in Workers, ConnectionDrop(w) PROVE stopping' = stopping
    BY <1>4, Zenon DEF ConnectionDrop
<1>5. ASSUME NEW w \in Workers, NEW m \in Msgs, Deliver(w, m) \/ Retry(w, m) \/ RetryLost(w, m)
      PROVE  stopping' = stopping
    BY <1>5, Zenon DEF Deliver, Retry, RetryLost
<1>6. ASSUME NEW j \in Jobs, Enqueue(j) \/ EnqueueLost(j) PROVE stopping' = stopping
    BY <1>6, Zenon DEF Enqueue, EnqueueLost, worker
<1>7. CASE UNCHANGED vars
    BY <1>7, Zenon DEF vars, system, worker, NobodyStops
<1> QED
    BY <1>1, <1>2, <1>3, <1>4, <1>5, <1>6, <1>7, Zenon DEF Next, NobodyStops

\* Worker w will bring job j on: it has not run it yet, and holds the only claim or
\* the delivery, or has failed and acknowledged it.
Carries(w, j) ==
    /\ pc[w] \notin {"idle", "ok"} /\ msg[w].job = j
    /\ HasCoord \/ held[w] \/ pc[w] = "dead"

\* Job j is settled or lost, or somebody brings it on.
Kept(j) ==
    \/ Settled(j) \/ j \in lost
    \/ \E m \in Msgs : m.job = j /\ queue[m] > 0
    \/ \E w \in Workers : Carries(w, j)
    \/ \E w \in Workers, m \in Msgs : m.job = j /\ retries[w][m] > 0

\* A step of worker w that takes nothing from the broker or from the backoff goroutines
\* keeps a job, if it keeps the one w has.
LEMMA StepKeeps ==
    ASSUME NEW w \in Workers, NEW j, Kept(j), setup' = setup,
           \A v \in Workers \ {w} : pc'[v] = pc[v] /\ msg'[v] = msg[v] /\ held'[v] = held[v],
           \A m \in Msgs : queue[m] > 0 => queue'[m] > 0,
           \A v \in Workers, m \in Msgs : retries[v][m] > 0 => retries'[v][m] > 0,
           Settled(j) => Settled(j)', lost \subseteq lost',
           Carries(w, j) => Kept(j)'
    PROVE  Kept(j)'
<1>1. CASE Settled(j) \/ j \in lost
    BY <1>1, Zenon DEF Kept
<1>2. CASE \E m \in Msgs : m.job = j /\ queue[m] > 0
    BY <1>2, Zenon DEF Kept
<1>3. ASSUME NEW v \in Workers, Carries(v, j) PROVE Kept(j)'
  <2>1. CASE v = w
    BY <1>3, <2>1, Zenon
  <2>2. CASE v # w
    <3>1. Carries(v, j)'
      BY <1>3, <2>2, Zenon DEF Carries, HasCoord
    <3> QED
      BY <3>1, Zenon DEF Kept
  <2> QED
    BY <2>1, <2>2
<1>4. CASE \E v \in Workers, m \in Msgs : m.job = j /\ retries[v][m] > 0
    BY <1>4, Zenon DEF Kept
<1> QED
    BY <1>1, <1>2, <1>3, <1>4, Zenon DEF Kept

\* Every step keeps every job.
LEMMA NextKept ==
    ASSUME OnlyDrops, TypeOK, NobodyStops, HasCoord => ClaimsBacked, [Next]_vars,
           NEW j \in enqueued, Kept(j)
    PROVE  Kept(j)'
<1>t. /\ queue \in [Msgs -> Nat] /\ retries \in [Workers -> [Msgs -> Nat]]
      /\ pc \in [Workers -> Pcs] /\ msg \in [Workers -> Msgs \cup {NoMsg}]
      /\ held \in [Workers -> BOOLEAN]
      /\ \A w \in Workers : pc[w] # "idle" => msg[w] \in Msgs
      /\ results \in [Jobs -> Nat] /\ j \in Jobs
    BY Zenon DEF TypeOK
<1>s. setup' = setup
    BY SetupKept, Zenon
<1>f. /\ Faults \subseteq {"drop"}
      /\ \A w \in Workers : ~ stopping[w] /\ ~ RedisFails(w)
      /\ \A w \in Workers : PublishFails(w) => Drop(w)
    BY Zenon DEF OnlyDrops, NobodyStops, RedisFails, PublishFails, Fault
<1>d. ASSUME NEW w \in Workers, Drop(w)
      PROVE  /\ \A m \in Msgs : queue[m] > 0 => queue'[m] > 0
             /\ held[w] /\ msg[w] \in Msgs => queue'[msg[w]] > 0
             /\ \A v \in Workers \ {w} : held'[v] = held[v]
    BY <1>d, <1>t DEF Drop, Requeued, Add
<1>1. ASSUME NEW i \in Jobs, Enqueue(i) PROVE Kept(j)'
  <2>1. \A m \in Msgs : queue[m] > 0 => queue'[m] > 0
    BY <1>1, <1>t, MsgFields DEF Enqueue, Add
  <2>2. UNCHANGED <<dlq, results, pc, msg, held, retries, lost>>
    BY <1>1, Zenon DEF Enqueue, worker
  <2> QED
    BY <1>s, <2>1, <2>2, Zenon DEF Kept, Settled, Carries, HasCoord
<1>2. ASSUME NEW i \in Jobs, EnqueueLost(i) PROVE Kept(j)'
  <2>1. UNCHANGED <<queue, dlq, results, pc, msg, held, retries>> /\ lost \subseteq lost'
    BY <1>2, Zenon DEF EnqueueLost, worker
  <2> QED
    BY <1>s, <2>1, Zenon DEF Kept, Settled, Carries, HasCoord
<1>3. ASSUME NEW w \in Workers, WorkerStep(w) PROVE Kept(j)'
  <2>1. CASE ClaimWon(w) \/ NoClaim(w) \/ RunJobFails(w) \/ Release(w)
    <3>1. /\ pc[w] \notin {"idle", "ok"} => pc'[w] \notin {"idle", "ok"}
          /\ pc[w] # "dead"
          /\ \A v \in Workers \ {w} : pc'[v] = pc[v]
      BY <2>1, <1>t, Zenon DEF ClaimWon, NoClaim, RunJobFails, Release, Goto
    <3>2. UNCHANGED <<queue, dlq, results, msg, held, retries, lost>>
      BY <2>1, Zenon DEF ClaimWon, NoClaim, RunJobFails, Release, broker
    <3>3. Carries(w, j) => Carries(w, j)'
      BY <1>s, <3>1, <3>2, Zenon DEF Carries, HasCoord
    <3>4. Carries(w, j) => Kept(j)'
      BY <3>3, Zenon DEF Kept
    <3> QED
      BY <1>s, <3>1, <3>2, <3>4, StepKeeps, Zenon DEF Settled
  <2>2. CASE ClaimLost(w)
    <3>1. /\ pc[w] = "claim"
          /\ \A v \in Workers \ {w} : pc'[v] = pc[v] /\ msg'[v] = msg[v] /\ held'[v] = held[v]
      BY <2>2, <1>t, Zenon DEF ClaimLost, Return
    <3>2. UNCHANGED <<queue, dlq, results, retries, lost>> /\ HasCoord /\ msg[w].job \in claims
      BY <2>2, Zenon DEF ClaimLost, broker
    <3>3. ASSUME j = msg[w].job PROVE Kept(j)'
      <4>1. CASE results[j] > 0 \/ j \in lost
        BY <3>2, <4>1, Zenon DEF Kept, Settled
      <4>2. ASSUME NEW v \in Workers, Holds(v, j) PROVE Kept(j)'
        <5>1. v # w
          BY <3>1, <4>2, Zenon DEF Holds
        <5>2. Carries(v, j)'
          BY <1>s, <3>1, <3>2, <4>2, <5>1, Zenon DEF Holds, Carries, HasCoord
        <5> QED
          BY <5>2, Zenon DEF Kept
      <4> QED
        BY <3>2, <3>3, <4>1, <4>2, Zenon DEF ClaimsBacked
    <3> QED
      BY <1>s, <3>1, <3>2, <3>3, StepKeeps, Zenon DEF Settled, Carries
  <2>3. CASE RunJobSucceeds(w)
    <3>1. /\ pc[w] = "run"
          /\ \A v \in Workers \ {w} : pc'[v] = pc[v]
      BY <2>3, <1>t, Zenon DEF RunJobSucceeds, Goto
    <3>2. UNCHANGED <<queue, dlq, msg, held, retries, lost>>
      BY <2>3, Zenon DEF RunJobSucceeds
    <3>3. results'[j] \in Nat /\ results'[j] >= results[j] /\ (msg[w].job = j => results'[j] > 0)
      BY <2>3, <1>t DEF RunJobSucceeds
    <3>4. (Settled(j) => Settled(j)') /\ (Carries(w, j) => Settled(j)')
      BY <1>t, <3>2, <3>3 DEF Settled, Carries
    <3>5. Carries(w, j) => Kept(j)'
      BY <3>4, Zenon DEF Kept
    <3> QED
      BY <1>s, <3>1, <3>2, <3>4, <3>5, StepKeeps, Zenon
  <2>4. CASE ResultLost(w)
    <3>1. /\ pc[w] = "run"
          /\ \A v \in Workers \ {w} : pc'[v] = pc[v]
      BY <2>4, <1>t, Zenon DEF ResultLost, Goto
    <3>2. /\ UNCHANGED <<dlq, results, msg, retries>> /\ Drop(w)
          /\ lost' = IF HasCoord THEN lost \cup {msg[w].job} ELSE lost
      BY <2>4, Zenon DEF ResultLost
    <3>3. ASSUME Carries(w, j) PROVE Kept(j)'
      <4>1. CASE HasCoord
        BY <3>2, <3>3, <4>1, Zenon DEF Carries, Kept
      <4>2. CASE held[w]
        BY <1>t, <1>d, <3>1, <3>2, <3>3, <4>2, Zenon DEF Carries, Kept
      <4> QED
        BY <3>1, <3>3, <4>1, <4>2, Zenon DEF Carries
    <3> QED
      BY <1>s, <1>d, <3>1, <3>2, <3>3, StepKeeps, Zenon DEF Settled
  <2>5. CASE ResultNotPublished(w)
    <3>1. /\ pc[w] = "run" /\ pc'[w] = "release"
          /\ \A v \in Workers \ {w} : pc'[v] = pc[v]
      BY <2>5, <1>t, Zenon DEF ResultNotPublished, Goto
    <3>2. UNCHANGED <<dlq, results, msg, retries, lost>> /\ Drop(w)
      BY <2>5, <1>f, Zenon DEF ResultNotPublished
    <3>3. ASSUME Carries(w, j) PROVE Kept(j)'
      <4>1. CASE HasCoord
        <5>1. Carries(w, j)'
          BY <1>s, <3>1, <3>2, <3>3, <4>1 DEF Carries, HasCoord
        <5> QED
          BY <5>1, Zenon DEF Kept
      <4>2. CASE held[w]
        BY <1>t, <1>d, <3>1, <3>2, <3>3, <4>2, Zenon DEF Carries, Kept
      <4> QED
        BY <3>1, <3>3, <4>1, <4>2, Zenon DEF Carries
    <3> QED
      BY <1>s, <1>d, <3>1, <3>2, <3>3, StepKeeps, Zenon DEF Settled
  <2>6. CASE HandleFailure(w) /\ AckForDLQ(w)
    <3>1. /\ pc'[w] = "dead"
          /\ \A v \in Workers \ {w} : pc'[v] = pc[v] /\ held'[v] = held[v]
      BY <2>6, <1>t, Zenon DEF AckForDLQ
    <3>2. UNCHANGED <<queue, dlq, results, msg, retries, lost>>
      BY <2>6, Zenon DEF HandleFailure, AckForDLQ, broker
    <3>3. Carries(w, j) => Carries(w, j)'
      BY <3>1, <3>2 DEF Carries
    <3>4. Carries(w, j) => Kept(j)'
      BY <3>3, Zenon DEF Kept
    <3> QED
      BY <1>s, <3>1, <3>2, <3>4, StepKeeps, Zenon DEF Settled
  <2>7. CASE HandleFailure(w) /\ msg[w].attempt < MaxAttempts /\ AckForRetry(w, NextAttempt(msg[w]))
    <3> DEFINE n == NextAttempt(msg[w])
    <3>1. n \in Msgs /\ n.job = msg[w].job
      BY <2>7, <1>t, NextAttemptMsg, Zenon DEF HandleFailure
    <3>2. /\ retries'[w][n] > 0
          /\ \A v \in Workers, m \in Msgs : retries[v][m] > 0 => retries'[v][m] > 0
      BY <2>7, <1>t, <3>1 DEF AckForRetry, Add
    <3>3. \A v \in Workers \ {w} : pc'[v] = pc[v] /\ msg'[v] = msg[v] /\ held'[v] = held[v]
      BY <2>7, <1>t, Zenon DEF AckForRetry, Return
    <3>4. UNCHANGED <<queue, dlq, results, lost>>
      BY <2>7, Zenon DEF HandleFailure, broker
    <3> HIDE DEF n
    <3>5. Carries(w, j) => Kept(j)'
      BY <3>1, <3>2, Zenon DEF Carries, Kept
    <3> QED
      BY <1>s, <3>2, <3>3, <3>4, <3>5, StepKeeps, Zenon DEF Settled
  <2>8. CASE DeadLetter(w) \/ DeadLetterLost(w)
    <3>1. \A v \in Workers \ {w} : pc'[v] = pc[v] /\ msg'[v] = msg[v] /\ held'[v] = held[v]
      BY <2>8, <1>t, Zenon DEF DeadLetter, DeadLetterLost, Return
    <3>2. /\ UNCHANGED <<results, retries>> /\ dlq \subseteq dlq' /\ lost \subseteq lost'
          /\ msg[w].job \in dlq' \cup lost'
      BY <2>8, Zenon DEF DeadLetter, DeadLetterLost
    <3>3. \A m \in Msgs : queue[m] > 0 => queue'[m] > 0
      BY <2>8, <1>f, <1>d, Zenon DEF DeadLetter, DeadLetterLost
    <3>4. Carries(w, j) => Kept(j)'
      BY <3>2, Zenon DEF Carries, Kept, Settled
    <3> QED
      BY <1>s, <3>1, <3>2, <3>3, <3>4, StepKeeps, Zenon DEF Settled
  <2>9. CASE AckSuccess(w)
    <3>1. /\ pc[w] = "ok"
          /\ \A v \in Workers \ {w} : pc'[v] = pc[v] /\ msg'[v] = msg[v] /\ held'[v] = held[v]
      BY <2>9, <1>t, Zenon DEF AckSuccess, Return
    <3>2. UNCHANGED <<queue, dlq, results, retries, lost>> /\ ~ Carries(w, j)
      BY <2>9, <3>1, Zenon DEF AckSuccess, Carries, broker
    <3> QED
      BY <1>s, <3>1, <3>2, StepKeeps, Zenon DEF Settled
  <2>10. ~ ClaimFailsOpen(w) /\ ~ ReleaseFails(w)
    BY <1>f, Zenon DEF ClaimFailsOpen, ReleaseFails
  <2> QED
    BY <1>3, <2>1, <2>2, <2>3, <2>4, <2>5, <2>6, <2>7, <2>8, <2>9, <2>10, Zenon DEF WorkerStep, HandleFailure
<1>4. ASSUME NEW w \in Workers, ConnectionDrop(w) PROVE Kept(j)'
  <2>1. UNCHANGED <<dlq, results, pc, msg, retries, lost>> /\ Drop(w) /\ held[w]
    BY <1>4, Zenon DEF ConnectionDrop
  <2>2. Carries(w, j) => Kept(j)'
    BY <1>t, <1>d, <2>1, Zenon DEF Carries, Kept
  <2> QED
    BY <1>s, <1>d, <2>1, <2>2, StepKeeps, Zenon DEF Settled
<1>5. ASSUME NEW w \in Workers, Exit(w) PROVE Kept(j)'
  <2>1. /\ \A v \in Workers \ {w} : retries'[v] = retries[v]
        /\ \A m \in Msgs : retries[w][m] > 0 => m.job \in lost'
        /\ lost \subseteq lost'
    BY <1>5, <1>t, Zenon DEF Exit, ForgetRetries
  <2>2. UNCHANGED <<queue, dlq, results, pc, msg, held>>
    BY <1>5, Zenon DEF Exit, broker
  <2>3. ASSUME NEW v \in Workers, NEW m \in Msgs, m.job = j, retries[v][m] > 0 PROVE Kept(j)'
    BY <2>1, <2>3, Zenon DEF Kept
  <2> QED
    BY <1>s, <2>1, <2>2, <2>3, Zenon DEF Kept, Settled, Carries, HasCoord
<1>6. ASSUME NEW w \in Workers, NEW m \in Msgs, Deliver(w, m) PROVE Kept(j)'
  <2>1. /\ pc[w] = "idle" /\ pc'[w] = "claim" /\ msg'[w] = m /\ held'[w]
        /\ \A v \in Workers \ {w} : pc'[v] = pc[v] /\ msg'[v] = msg[v] /\ held'[v] = held[v]
    BY <1>6, <1>t, Zenon DEF Deliver, Goto
  <2>2. \A n \in Msgs : n # m => queue'[n] = queue[n]
    BY <1>6, <1>t, Zenon DEF Deliver, Take
  <2>3. UNCHANGED <<dlq, results, retries, lost>>
    BY <1>6, Zenon DEF Deliver
  <2>4. m.job = j => Carries(w, j)'
    BY <2>1 DEF Carries
  <2>5. \A v \in Workers : Carries(v, j) => Carries(v, j)'
    BY <1>s, <2>1, Zenon DEF Carries, HasCoord
  <2> QED
    BY <2>2, <2>3, <2>4, <2>5, Zenon DEF Kept, Settled
<1>7. ASSUME NEW w \in Workers, NEW m \in Msgs, Retry(w, m) PROVE Kept(j)'
  <2>1. /\ queue'[m] > 0
        /\ \A n \in Msgs : queue[n] > 0 => queue'[n] > 0
        /\ \A v \in Workers, n \in Msgs : n # m => retries'[v][n] = retries[v][n]
    BY <1>7, <1>t DEF Retry, Add, Take
  <2>2. UNCHANGED <<dlq, results, pc, msg, held, lost>>
    BY <1>7, Zenon DEF Retry
  <2> QED
    BY <1>s, <2>1, <2>2, Zenon DEF Kept, Settled, Carries, HasCoord
<1>8. ASSUME NEW w \in Workers, NEW m \in Msgs, RetryLost(w, m) PROVE Kept(j)'
  <2>1. /\ lost \subseteq lost' /\ m.job \in lost' /\ Drop(w)
        /\ UNCHANGED <<dlq, results, pc, msg>>
    BY <1>8, <1>f, Zenon DEF RetryLost
  <2>2. \A v \in Workers, n \in Msgs : n # m => retries'[v][n] = retries[v][n]
    BY <1>8, <1>t DEF RetryLost, Take
  <2>3. CASE m.job = j
    BY <2>1, <2>3, Zenon DEF Kept
  <2>4. CASE m.job # j
    <3>1. ASSUME NEW v \in Workers, Carries(v, j) PROVE Kept(j)'
      <4>1. CASE v = w /\ held[w]
        BY <1>t, <1>d, <2>1, <3>1, <4>1, Zenon DEF Carries, Kept
      <4>2. CASE v # w \/ ~ held[w]
        <5>1. Carries(v, j)'
          BY <1>s, <1>t, <1>d, <2>1, <3>1, <4>2, Zenon DEF Carries, HasCoord
        <5> QED
          BY <5>1, Zenon DEF Kept
      <4> QED
        BY <4>1, <4>2, Zenon
    <3>2. ASSUME NEW v \in Workers, NEW n \in Msgs, n.job = j, retries[v][n] > 0 PROVE Kept(j)'
      BY <2>2, <2>4, <3>2, Zenon DEF Kept
    <3> QED
      BY <1>d, <2>1, <3>1, <3>2, Zenon DEF Kept, Settled
  <2> QED
    BY <2>3, <2>4, Zenon
<1>9. CASE UNCHANGED vars
    BY <1>s, <1>9, Zenon DEF vars, system, broker, worker, Kept, Settled, Carries, HasCoord
<1>10. \A w \in Workers : ~ Crash(w) /\ ~ Shutdown(w)
    BY <1>f, Zenon DEF Crash, Shutdown, Fault
<1> QED
    BY <1>1, <1>2, <1>3, <1>4, <1>5, <1>6, <1>7, <1>8, <1>9, <1>10, Zenon DEF Next

\* A job that is enqueued is in the queue, or its message was lost.
LEMMA EnqueuedKept ==
    ASSUME TypeOK, NEW j \in enqueued', j \notin enqueued, [Next]_vars
    PROVE  Kept(j)'
<1>1. ASSUME NEW i \in Jobs, Enqueue(i) PROVE Kept(j)'
  <2>1. i = j /\ queue' = Add(queue, [job |-> j, attempt |-> 0])
    BY <1>1, Zenon DEF Enqueue
  <2>2. queue'[[job |-> j, attempt |-> 0]] > 0
    BY <1>1, <2>1, MsgFields DEF Add, TypeOK
  <2>3. [job |-> j, attempt |-> 0] \in Msgs /\ [job |-> j, attempt |-> 0].job = j
    BY <1>1, <2>1, MsgFields, Zenon
  <2> QED
    BY <2>2, <2>3, Zenon DEF Kept
<1>2. ASSUME NEW i \in Jobs, EnqueueLost(i) PROVE Kept(j)'
    BY <1>2, Zenon DEF EnqueueLost, Kept
<1>3. ASSUME NEW w \in Workers, WorkerStep(w) PROVE enqueued' = enqueued
    BY Zenon, <1>3 DEF WorkerStep, ClaimWon, ClaimLost, ClaimFailsOpen, NoClaim, RunJobSucceeds,
       RunJobFails, ResultNotPublished, ResultLost, Release, ReleaseFails, HandleFailure, DeadLetter,
       DeadLetterLost, AckSuccess, broker
<1>4. ASSUME NEW w \in Workers, ConnectionDrop(w) \/ Crash(w) \/ Shutdown(w) \/ Exit(w)
      PROVE  enqueued' = enqueued
    BY <1>4, Zenon DEF ConnectionDrop, Crash, Shutdown, Exit, broker
<1>5. ASSUME NEW w \in Workers, NEW m \in Msgs, Deliver(w, m) \/ Retry(w, m) \/ RetryLost(w, m)
      PROVE  enqueued' = enqueued
    BY <1>5, Zenon DEF Deliver, Retry, RetryLost
<1>6. CASE UNCHANGED vars
    BY <1>6, Zenon DEF vars, system, broker
<1> QED
    BY <1>1, <1>2, <1>3, <1>4, <1>5, <1>6, Zenon DEF Next

\* When only connections drop, with Redis or without, every enqueued job has a result,
\* is dead-lettered, is still with the broker, a worker or a backoff goroutine, or was
\* destroyed with an unconfirmed publication or a process that could not reconnect.
THEOREM NoJobLost == Spec => []JobAccounted
<1> DEFINE Inv == OnlyDrops => /\ NobodyStops /\ \A j \in enqueued : Kept(j)
                               /\ HasCoord => ClaimInv /\ ClaimsBacked
<1>1. Init => Inv
    BY DEF Init, NobodyStops, ClaimInv, ClaimsBacked, Holds
<1>2. TypeOK /\ Inv /\ [Next]_vars => Inv'
  <2> SUFFICES ASSUME TypeOK, Inv, [Next]_vars, OnlyDrops'
               PROVE  /\ NobodyStops' /\ \A j \in enqueued' : Kept(j)'
                      /\ HasCoord' => ClaimInv' /\ ClaimsBacked'
    BY Zenon
  <2>1. OnlyDrops /\ "shutdown" \notin Faults /\ (HasCoord' => HasCoord /\ RedisAnswers)
    BY SetupKept DEF OnlyDrops, RedisAnswers, HasCoord, Faults
  <2>2. ASSUME NEW j \in enqueued' PROVE Kept(j)'
    BY <2>1, EnqueuedKept, NextKept, Zenon
  <2> QED
    BY <2>1, <2>2, NextNobodyStops, NextClaimInv, NextClaimsBacked, Zenon
<1>3. Inv => JobAccounted
    BY Zenon DEF JobAccounted, Kept, Carries, Pending
<1> QED
    BY <1>1, <1>2, <1>3, TypeCorrectness, PTL DEF Spec

-----------------------------------------------------------------------------
(* How often a job is executed when only workers crash *)


\* A job is in one place only: one copy of one message of it is ready, or one
\* worker works on it, or one backoff goroutine will publish it.
OneHolder ==
    /\ \A m, n \in Msgs : queue[m] > 0 /\ queue[n] > 0 /\ m.job = n.job => m = n
    /\ \A m \in Msgs : queue[m] <= 1
    /\ \A v, w \in Workers : pc[v] # "idle" /\ pc[w] # "idle" /\ msg[v].job = msg[w].job => v = w
    /\ \A v, w \in Workers, m, n \in Msgs :
          retries[v][m] > 0 /\ retries[w][n] > 0 /\ m.job = n.job => v = w /\ m = n
    /\ \A w \in Workers, m \in Msgs : retries[w][m] <= 1
    /\ \A w \in Workers, m \in Msgs : queue[m] > 0 /\ pc[w] # "idle" => msg[w].job # m.job
    /\ \A w \in Workers, m, n \in Msgs : queue[m] > 0 /\ retries[w][n] > 0 => n.job # m.job
    /\ \A v, w \in Workers, m \in Msgs : pc[v] # "idle" /\ retries[w][m] > 0 => msg[v].job # m.job

\* Only an enqueued job is anywhere, has been executed or is dead-lettered.
OnlyEnqueued ==
    /\ \A m \in Msgs : queue[m] > 0 => m.job \in enqueued
    /\ \A w \in Workers : pc[w] # "idle" => msg[w].job \in enqueued
    /\ \A w \in Workers, m \in Msgs : retries[w][m] > 0 => m.job \in enqueued
    /\ \A j \in Jobs : finished[j] > 0 => j \in enqueued
    /\ dlq \subseteq enqueued

\* No step of the system but its crashes is a fault, and nobody is stopped.
LEMMA NoOtherFault ==
    ASSUME Faults \subseteq {"crash"}, NobodyStops, NEW w \in Workers
    PROVE  /\ ~ RedisFails(w) /\ ~ PublishFails(w)
           /\ ~ ClaimFailsOpen(w) /\ ~ ResultNotPublished(w) /\ ~ ResultLost(w) /\ ~ ReleaseFails(w)
           /\ ~ DeadLetterLost(w) /\ ~ ConnectionDrop(w) /\ ~ Shutdown(w) /\ ~ Exit(w)
           /\ \A m \in Msgs : ~ RetryLost(w, m)
BY Zenon DEF NobodyStops, RedisFails, PublishFails, Drop, Fault, ClaimFailsOpen, ResultNotPublished, ResultLost,
   ReleaseFails, DeadLetterLost, ConnectionDrop, Shutdown, Exit, RetryLost

\* And no first message is lost.
LEMMA NoEnqueueLost ==
    ASSUME Faults \subseteq {"crash"}, NEW j \in Jobs
    PROVE  ~ EnqueueLost(j)
BY Zenon DEF EnqueueLost, Fault

\* Nobody else has the job a worker works on.
LEMMA OnlyHolder ==
    ASSUME OneHolder, NEW w \in Workers, pc[w] # "idle"
    PROVE  /\ \A m \in Msgs : queue[m] > 0 => m.job # msg[w].job
           /\ \A v \in Workers, m \in Msgs : retries[v][m] > 0 => m.job # msg[w].job
           /\ \A v \in Workers \ {w} : pc[v] # "idle" => msg[v].job # msg[w].job
BY Zenon DEF OneHolder

\* The step puts no message anywhere: it passes on or gives up what it has.
NothingAdded ==
    /\ \A m \in Msgs : queue'[m] \in Nat /\ queue'[m] <= queue[m]
    /\ \A w \in Workers, m \in Msgs : retries'[w][m] \in Nat /\ retries'[w][m] <= retries[w][m]
    /\ \A w \in Workers : pc'[w] # "idle" => pc[w] # "idle" /\ msg'[w] = msg[w]
    /\ enqueued' = enqueued

\* Such a step keeps jobs in one place.
LEMMA NothingAddedKeeps ==
    ASSUME TypeOK, OneHolder, NothingAdded
    PROVE  OneHolder'
<1>1. \A m \in Msgs : queue[m] \in Nat /\ queue'[m] \in Nat /\ queue'[m] <= queue[m]
    BY Zenon DEF TypeOK, NothingAdded
<1>2. \A w \in Workers, m \in Msgs :
         retries[w][m] \in Nat /\ retries'[w][m] \in Nat /\ retries'[w][m] <= retries[w][m]
    BY Zenon DEF TypeOK, NothingAdded
<1>3. \A m \in Msgs : queue'[m] > 0 => queue[m] > 0
    BY <1>1
<1>4. \A w \in Workers, m \in Msgs : retries'[w][m] > 0 => retries[w][m] > 0
    BY <1>2
<1>5. \A w \in Workers : pc'[w] # "idle" => pc[w] # "idle" /\ msg'[w] = msg[w]
    BY Zenon DEF NothingAdded
<1> QED
    BY <1>1, <1>2, <1>3, <1>4, <1>5 DEF OneHolder

\* The steps of a callback put a message somewhere only to retry it.
LEMMA WorkerAdds ==
    ASSUME TypeOK, Faults \subseteq {"crash"}, NobodyStops, NEW w \in Workers, WorkerStep(w)
    PROVE  NothingAdded \/ (HandleFailure(w) /\ msg[w].attempt < MaxAttempts /\ AckForRetry(w, NextAttempt(msg[w])))
<1>1. CASE HandleFailure(w) /\ AckForDLQ(w)
    BY <1>1 DEF HandleFailure, AckForDLQ, TypeOK, NothingAdded, broker
<1>2. CASE ClaimWon(w) \/ NoClaim(w) \/ RunJobSucceeds(w) \/ RunJobFails(w) \/ Release(w)
    BY <1>2 DEF ClaimWon, NoClaim, RunJobSucceeds, RunJobFails, Release, Goto, TypeOK,
       NothingAdded, broker
<1>3. CASE ClaimLost(w) \/ DeadLetter(w) \/ AckSuccess(w)
    BY <1>3 DEF ClaimLost, DeadLetter, AckSuccess, Return, TypeOK, NothingAdded, broker
<1> QED
    BY <1>1, <1>2, <1>3, NoOtherFault, Zenon DEF WorkerStep, HandleFailure

\* Every step keeps a job in one place, and only if it is enqueued.
LEMMA NextOneHolder ==
    ASSUME Faults \subseteq {"crash"}, TypeOK, NobodyStops, OneHolder, OnlyEnqueued, [Next]_vars
    PROVE  OneHolder' /\ OnlyEnqueued'
<1> USE MsgFields
<1>t. /\ queue \in [Msgs -> Nat] /\ retries \in [Workers -> [Msgs -> Nat]]
      /\ pc \in [Workers -> Pcs] /\ msg \in [Workers -> Msgs \cup {NoMsg}]
      /\ \A w \in Workers : pc[w] # "idle" => msg[w] \in Msgs
      /\ \A w \in Workers : held[w] => pc[w] # "idle"
      /\ finished \in [Jobs -> Nat]
    BY Zenon DEF TypeOK
<1>1. ASSUME NEW j \in Jobs, Enqueue(j) PROVE OneHolder' /\ OnlyEnqueued'
  <2> DEFINE n == [job |-> j, attempt |-> 0]
  <2>1. n \in Msgs /\ n.job = j /\ j \notin enqueued
    BY <1>1, Zenon DEF Enqueue
  <2>2. /\ \A m \in Msgs : m # n => queue'[m] = queue[m]
        /\ queue'[n] = queue[n] + 1
        /\ enqueued' = enqueued \cup {j}
        /\ UNCHANGED <<retries, pc, msg, finished, dlq>>
    BY <1>1, <1>t, <2>1, Zenon DEF Enqueue, Add, worker
  <2> HIDE DEF n
  <2>3. /\ \A m \in Msgs : m.job = j => ~ (queue[m] > 0)
        /\ \A w \in Workers : pc[w] # "idle" => msg[w].job # j
        /\ \A w \in Workers, m \in Msgs : retries[w][m] > 0 => m.job # j
    BY <2>1, Zenon DEF OnlyEnqueued
  <2>4. queue'[n] = 1
    BY <1>t, <2>1, <2>2, <2>3
  <2>5. \A m \in Msgs : queue'[m] <= 1 /\ (queue'[m] > 0 => queue[m] > 0 \/ m = n)
    BY <2>2, <2>4 DEF OneHolder
  <2>6. OneHolder'
    BY <2>1, <2>2, <2>3, <2>5 DEF OneHolder
  <2>7. OnlyEnqueued'
    BY <1>t, <2>1, <2>2, <2>5, Zenon DEF OnlyEnqueued
  <2> QED
    BY <2>6, <2>7, Zenon
<1>2. ASSUME NEW w \in Workers, WorkerStep(w) PROVE OneHolder' /\ OnlyEnqueued'
  <2>1. CASE NothingAdded
    <3>1. OneHolder'
      BY <2>1, NothingAddedKeeps, Zenon
    <3>2. \A j \in Jobs : finished'[j] > 0 => finished[j] > 0 \/ (pc[w] # "idle" /\ msg[w].job = j)
      BY Zenon, <1>2, <1>t, NoOtherFault DEF WorkerStep, ClaimWon, ClaimLost, NoClaim,
         RunJobSucceeds,
         RunJobFails, Release, HandleFailure, DeadLetter, AckSuccess, Done, Goto
    <3>3. \A j \in dlq' : j \in dlq \/ (pc[w] # "idle" /\ msg[w].job = j)
      BY Zenon, <1>2, NoOtherFault DEF WorkerStep, ClaimWon, ClaimLost, NoClaim, RunJobSucceeds,
         RunJobFails, Release, HandleFailure, DeadLetter, AckSuccess, broker
    <3>4. /\ \A m \in Msgs : queue'[m] > 0 => queue[m] > 0
          /\ \A v \in Workers, m \in Msgs : retries'[v][m] > 0 => retries[v][m] > 0
      BY <1>t, <2>1 DEF NothingAdded
    <3> QED
      BY <2>1, <3>1, <3>2, <3>3, <3>4 DEF OnlyEnqueued, NothingAdded
  <2>2. CASE HandleFailure(w) /\ msg[w].attempt < MaxAttempts /\ AckForRetry(w, NextAttempt(msg[w]))
    <3> DEFINE n == NextAttempt(msg[w])
    <3>1. n \in Msgs /\ n.job = msg[w].job /\ pc[w] # "idle"
      BY <1>t, <2>2, NextAttemptMsg, Zenon DEF HandleFailure
    <3>2. /\ \A v \in Workers, m \in Msgs : ~ (v = w /\ m = n) => retries'[v][m] = retries[v][m]
          /\ retries'[w][n] = retries[w][n] + 1
      BY <1>t, <2>2, <3>1, Zenon DEF AckForRetry, Add
    <3>3. /\ pc'[w] = "idle"
          /\ \A v \in Workers : v # w => pc'[v] = pc[v] /\ msg'[v] = msg[v]
      BY <1>t, <2>2, Zenon DEF AckForRetry, Return
    <3>4. UNCHANGED <<enqueued, queue, dlq, finished>>
      BY <2>2, Zenon DEF HandleFailure, broker
    <3> HIDE DEF n
    <3>5. /\ \A m \in Msgs : queue[m] > 0 => m.job # n.job
          /\ \A v \in Workers, m \in Msgs : retries[v][m] > 0 => m.job # n.job
          /\ \A v \in Workers \ {w} : pc[v] # "idle" => msg[v].job # n.job
      BY <3>1, OnlyHolder, Zenon
    <3>6. retries'[w][n] = 1
      BY <1>t, <3>1, <3>2, <3>5
    <3>7. \A v \in Workers, m \in Msgs :
             retries'[v][m] <= 1 /\ (retries'[v][m] > 0 => retries[v][m] > 0 \/ (v = w /\ m = n))
      BY <3>2, <3>6 DEF OneHolder
    <3>8. OneHolder'
      BY <3>1, <3>3, <3>4, <3>5, <3>7 DEF OneHolder
    <3>9. OnlyEnqueued'
      BY <3>1, <3>3, <3>4, <3>7 DEF OnlyEnqueued
    <3> QED
      BY <3>8, <3>9, Zenon
  <2> QED
    BY <1>2, <2>1, <2>2, WorkerAdds, Zenon
<1>4. ASSUME NEW w \in Workers, Crash(w) PROVE OneHolder' /\ OnlyEnqueued'
  <2>1. /\ pc'[w] = "idle"
        /\ \A v \in Workers : v # w => pc'[v] = pc[v] /\ msg'[v] = msg[v]
    BY <1>4, <1>t, Zenon DEF Crash, Return
  <2>2. /\ \A v \in Workers \ {w} : retries'[v] = retries[v]
        /\ \A m \in Msgs : retries'[w][m] = 0
        /\ UNCHANGED <<enqueued, dlq, finished>>
    BY <1>4, <1>t, Zenon DEF Crash, ForgetRetries, NoMsgs
  <2>5. \A v \in Workers, m \in Msgs :
           retries'[v][m] <= 1 /\ (retries'[v][m] > 0 => retries[v][m] > 0)
    BY <2>2 DEF OneHolder
  <2>3. CASE held[w]
    <3>1. pc[w] # "idle" /\ msg[w] \in Msgs
      BY <1>t, <2>3, Zenon
    <3>2. queue'[msg[w]] = queue[msg[w]] + 1 /\ \A m \in Msgs : m # msg[w] => queue'[m] = queue[m]
      BY <1>4, <1>t, <2>3, <3>1, Zenon DEF Crash, Requeued, Add
    <3>3. /\ \A m \in Msgs : queue[m] > 0 => m.job # msg[w].job
          /\ \A v \in Workers, m \in Msgs : retries[v][m] > 0 => m.job # msg[w].job
          /\ \A v \in Workers \ {w} : pc[v] # "idle" => msg[v].job # msg[w].job
      BY <3>1, OnlyHolder, Zenon
    <3>4. queue'[msg[w]] = 1
      BY <1>t, <3>1, <3>2, <3>3
    <3>5. \A m \in Msgs : queue'[m] <= 1 /\ (queue'[m] > 0 => queue[m] > 0 \/ m = msg[w])
      BY <3>2, <3>4 DEF OneHolder
    <3>6. OneHolder'
      BY <2>1, <2>5, <3>1, <3>3, <3>5 DEF OneHolder
    <3>7. OnlyEnqueued'
      BY <2>1, <2>2, <2>5, <3>1, <3>5, Zenon DEF OnlyEnqueued
    <3> QED
      BY <3>6, <3>7
  <2>4. CASE ~ held[w]
    <3>1. queue' = queue
      BY <1>4, <2>4, Zenon DEF Crash, Requeued
    <3>2. NothingAdded
      BY <1>t, <2>1, <2>2, <3>1 DEF NothingAdded
    <3>3. OnlyEnqueued'
      BY <1>t, <2>1, <2>2, <3>1 DEF OnlyEnqueued
    <3> QED
      BY <3>2, <3>3, NothingAddedKeeps, Zenon
  <2> QED
    BY <2>3, <2>4, Zenon
<1>7. ASSUME NEW w \in Workers, NEW m \in Msgs, Deliver(w, m) PROVE OneHolder' /\ OnlyEnqueued'
  <2>1. /\ queue[m] > 0 /\ queue'[m] = queue[m] - 1
        /\ \A n \in Msgs : n # m => queue'[n] = queue[n]
    BY <1>7, <1>t, Zenon DEF Deliver, Take
  <2>2. /\ pc[w] = "idle" /\ msg'[w] = m
        /\ \A v \in Workers : v # w => pc'[v] = pc[v] /\ msg'[v] = msg[v]
        /\ UNCHANGED <<enqueued, retries, finished, dlq>>
    BY <1>7, <1>t, Zenon DEF Deliver, Goto
  <2>3. /\ \A n \in Msgs : queue[n] > 0 /\ n.job = m.job => n = m
        /\ \A v \in Workers, n \in Msgs : retries[v][n] > 0 => n.job # m.job
        /\ \A v \in Workers : pc[v] # "idle" => msg[v].job # m.job
    BY <2>1 DEF OneHolder
  <2>4. queue'[m] = 0
    BY <1>t, <2>1 DEF OneHolder
  <2>5. \A n \in Msgs : queue'[n] <= 1 /\ (queue'[n] > 0 => queue[n] > 0 /\ n # m)
    BY <2>1, <2>4 DEF OneHolder
  <2>6. OneHolder'
    BY <2>2, <2>3, <2>5 DEF OneHolder
  <2>7. OnlyEnqueued'
    BY <2>1, <2>2, <2>5, Zenon DEF OnlyEnqueued
  <2> QED
    BY <2>6, <2>7, Zenon
<1>8. ASSUME NEW w \in Workers, NEW m \in Msgs, Retry(w, m) PROVE OneHolder' /\ OnlyEnqueued'
  <2>1. /\ retries[w][m] > 0 /\ retries'[w][m] = retries[w][m] - 1
        /\ \A v \in Workers, n \in Msgs : ~ (v = w /\ n = m) => retries'[v][n] = retries[v][n]
    BY <1>8, <1>t, Zenon DEF Retry, Take
  <2>2. /\ queue'[m] = queue[m] + 1
        /\ \A n \in Msgs : n # m => queue'[n] = queue[n]
        /\ UNCHANGED <<enqueued, pc, msg, finished, dlq>>
    BY <1>8, <1>t, Zenon DEF Retry, Add
  <2>3. /\ \A n \in Msgs : queue[n] > 0 => n.job # m.job
        /\ \A v \in Workers, n \in Msgs : retries[v][n] > 0 /\ n.job = m.job => v = w /\ n = m
        /\ \A v \in Workers : pc[v] # "idle" => msg[v].job # m.job
    BY <2>1 DEF OneHolder
  <2>4. retries'[w][m] = 0 /\ queue'[m] = 1
    BY <1>t, <2>1, <2>2, <2>3 DEF OneHolder
  <2>5. \A n \in Msgs : queue'[n] <= 1 /\ (queue'[n] > 0 => queue[n] > 0 \/ n = m)
    BY <2>2, <2>4 DEF OneHolder
  <2>6. \A v \in Workers, n \in Msgs :
           retries'[v][n] <= 1 /\ (retries'[v][n] > 0 => retries[v][n] > 0 /\ ~ (v = w /\ n = m))
    BY <2>1, <2>4 DEF OneHolder
  <2>7. OneHolder'
    BY <2>2, <2>3, <2>5, <2>6 DEF OneHolder
  <2>8. OnlyEnqueued'
    BY <2>1, <2>2, <2>5, <2>6, Zenon DEF OnlyEnqueued
  <2> QED
    BY <2>7, <2>8
<1>10. CASE UNCHANGED vars
    BY <1>10 DEF vars, system, broker, worker, OneHolder, OnlyEnqueued
<1> QED
    BY <1>1, <1>2, <1>4, <1>7, <1>8, <1>10, NoOtherFault, NoEnqueueLost, Zenon DEF Next

\* A job has been executed no more often than the attempt it is at accounts for,
\* once more when this attempt has just failed, and once more for each crash.
ExecutionsPaid ==
    /\ \A m \in Msgs : queue[m] > 0 => finished[m.job] <= m.attempt + faults
    /\ \A w \in Workers, m \in Msgs : retries[w][m] > 0 => finished[m.job] <= m.attempt + faults
    /\ \A w \in Workers : pc[w] # "idle" =>
          finished[msg[w].job] <= msg[w].attempt + faults + (IF pc[w] \in {"failed", "dead"} THEN 1 ELSE 0)
    /\ \A j \in Jobs : finished[j] <= MaxAttempts + 1 + faults

\* The end of an execution is paid for by the attempt: nobody else has the job.
LEMMA DonePaid ==
    ASSUME TypeOK, OneHolder, ExecutionsPaid, NEW w \in Workers, pc[w] \in {"release", "ok"},
           Done(msg[w].job), UNCHANGED <<queue, faults, retries>>,
           \A v \in Workers \ {w} : pc'[v] = pc[v] /\ msg'[v] = msg[v],
           pc'[w] = "idle" \/ (pc'[w] = "failed" /\ msg'[w] = msg[w])
    PROVE  ExecutionsPaid'
<1> DEFINE j == msg[w].job
<1>1. j \in Jobs /\ msg[w].attempt \in 0 .. MaxAttempts /\ MaxAttempts \in Nat /\ faults \in Nat
    BY MsgFields, QueueAssumption, Zenon DEF TypeOK
<1>2. finished[j] \in Nat /\ finished[j] <= msg[w].attempt + faults
    BY <1>1 DEF ExecutionsPaid, TypeOK
<1>3. finished'[j] = finished[j] + 1 /\ \A i \in Jobs : i # j => finished'[i] = finished[i]
    BY <1>1, Zenon DEF Done, TypeOK
<1>4. /\ \A m \in Msgs : queue[m] > 0 => m.job # j
      /\ \A v \in Workers, m \in Msgs : retries[v][m] > 0 => m.job # j
      /\ \A v \in Workers \ {w} : pc[v] # "idle" => msg[v].job # j
    BY OnlyHolder, Zenon
<1>5. \A v \in Workers \ {w} : pc[v] # "idle" => msg[v].job \in Jobs
    BY MsgFields, Zenon DEF TypeOK
<1> HIDE DEF j
<1>6. \A m \in Msgs : queue'[m] > 0 => finished'[m.job] <= m.attempt + faults'
    BY <1>3, <1>4, MsgFields, Zenon DEF ExecutionsPaid
<1>7. \A v \in Workers, m \in Msgs : retries'[v][m] > 0 => finished'[m.job] <= m.attempt + faults'
    BY <1>3, <1>4, MsgFields, Zenon DEF ExecutionsPaid
<1>8. \A v \in Workers \ {w} : pc'[v] # "idle" =>
         finished'[msg'[v].job] <= msg'[v].attempt + faults' + (IF pc'[v] \in {"failed", "dead"} THEN 1 ELSE 0)
    BY <1>3, <1>4, <1>5 DEF ExecutionsPaid
<1>9. pc'[w] # "idle" =>
         finished'[msg'[w].job] <= msg'[w].attempt + faults' + (IF pc'[w] \in {"failed", "dead"} THEN 1 ELSE 0)
    BY <1>1, <1>2, <1>3 DEF j
<1>10. \A i \in Jobs : finished'[i] <= MaxAttempts + 1 + faults'
    BY <1>1, <1>2, <1>3 DEF ExecutionsPaid
<1> QED
    BY <1>6, <1>7, <1>8, <1>9, <1>10, Zenon DEF ExecutionsPaid

\* Every step keeps the executions paid for.
LEMMA NextExecutionsPaid ==
    ASSUME Faults \subseteq {"crash"}, TypeOK, NobodyStops, OneHolder, OnlyEnqueued, ExecutionsPaid,
           [Next]_vars
    PROVE  ExecutionsPaid'
<1> USE MsgFields
<1>t. /\ queue \in [Msgs -> Nat] /\ retries \in [Workers -> [Msgs -> Nat]]
      /\ pc \in [Workers -> Pcs] /\ msg \in [Workers -> Msgs \cup {NoMsg}]
      /\ \A w \in Workers : pc[w] # "idle" => msg[w] \in Msgs
      /\ \A w \in Workers : held[w] => pc[w] # "idle"
      /\ finished \in [Jobs -> Nat] /\ faults \in Nat
    BY Zenon DEF TypeOK
<1>1. ASSUME NEW j \in Jobs, Enqueue(j) PROVE ExecutionsPaid'
  <2> DEFINE n == [job |-> j, attempt |-> 0]
  <2>1. n \in Msgs /\ n.job = j /\ n.attempt = 0 /\ finished[j] = 0
    BY <1>1, <1>t DEF Enqueue, OnlyEnqueued
  <2>2. /\ \A m \in Msgs : m # n => queue'[m] = queue[m]
        /\ UNCHANGED <<retries, pc, msg, finished, faults>>
    BY <1>1, <1>t, <2>1, Zenon DEF Enqueue, Add, worker
  <2> HIDE DEF n
  <2> QED
    BY <1>t, <2>1, <2>2 DEF ExecutionsPaid
<1>2. ASSUME NEW w \in Workers, WorkerStep(w) PROVE ExecutionsPaid'
  <2>1. CASE ClaimWon(w) \/ NoClaim(w) \/ RunJobSucceeds(w) \/ RunJobFails(w)
    <3>1. UNCHANGED <<queue, retries, msg, finished, faults>>
      BY <2>1, Zenon DEF ClaimWon, NoClaim, RunJobSucceeds, RunJobFails, broker
    <3>2. /\ pc[w] \in {"claim", "run"} /\ pc'[w] \in {"run", "ok", "release"}
          /\ \A v \in Workers \ {w} : pc'[v] = pc[v]
      BY <1>t, <2>1, Zenon DEF ClaimWon, NoClaim, RunJobSucceeds, RunJobFails, Goto
    <3> QED
      BY <3>1, <3>2, Zenon DEF ExecutionsPaid
  <2>2. CASE ClaimLost(w) \/ DeadLetter(w)
    <3>1. UNCHANGED <<queue, retries, finished, faults>>
      BY <2>2, Zenon DEF ClaimLost, DeadLetter, broker
    <3>2. pc'[w] = "idle" /\ \A v \in Workers \ {w} : pc'[v] = pc[v] /\ msg'[v] = msg[v]
      BY <1>t, <2>2, Zenon DEF ClaimLost, DeadLetter, Return
    <3> QED
      BY <3>1, <3>2, Zenon DEF ExecutionsPaid
  <2>3. CASE Release(w)
    <3>1. UNCHANGED <<queue, retries, msg, faults>> /\ Done(msg[w].job)
      BY <2>3, Zenon DEF Release, broker
    <3>2. pc[w] = "release" /\ pc'[w] = "failed" /\ \A v \in Workers \ {w} : pc'[v] = pc[v]
      BY <1>t, <2>3, Zenon DEF Release, Goto
    <3> QED
      BY <3>1, <3>2, DonePaid, Zenon
  <2>4. CASE AckSuccess(w)
    <3>1. UNCHANGED <<queue, retries, faults>> /\ Done(msg[w].job)
      BY <2>4, Zenon DEF AckSuccess, broker
    <3>2. pc[w] = "ok" /\ pc'[w] = "idle" /\ \A v \in Workers \ {w} : pc'[v] = pc[v] /\ msg'[v] = msg[v]
      BY <1>t, <2>4, Zenon DEF AckSuccess, Return
    <3> QED
      BY <3>1, <3>2, DonePaid, Zenon
  <2>5. CASE HandleFailure(w) /\ AckForDLQ(w)
    <3>1. UNCHANGED <<queue, retries, msg, finished, faults>>
      BY <2>5, Zenon DEF HandleFailure, AckForDLQ, broker
    <3>2. pc[w] = "failed" /\ pc'[w] = "dead" /\ \A v \in Workers \ {w} : pc'[v] = pc[v]
      BY <1>t, <2>5, Zenon DEF HandleFailure, AckForDLQ
    <3> QED
      BY <3>1, <3>2, Zenon DEF ExecutionsPaid
  <2>6. CASE HandleFailure(w) /\ msg[w].attempt < MaxAttempts /\ AckForRetry(w, NextAttempt(msg[w]))
    <3> DEFINE n == NextAttempt(msg[w])
    <3>1. n \in Msgs /\ n.job = msg[w].job /\ n.attempt = msg[w].attempt + 1 /\ pc[w] = "failed"
      BY <1>t, <2>6, NextAttemptMsg, Zenon DEF HandleFailure
    <3>2. \A v \in Workers, m \in Msgs : ~ (v = w /\ m = n) => retries'[v][m] = retries[v][m]
      BY <1>t, <2>6, <3>1, Zenon DEF AckForRetry, Add
    <3>3. pc'[w] = "idle" /\ \A v \in Workers \ {w} : pc'[v] = pc[v] /\ msg'[v] = msg[v]
      BY <1>t, <2>6, Zenon DEF AckForRetry, Return
    <3>4. UNCHANGED <<queue, finished, faults>>
      BY <2>6, Zenon DEF HandleFailure, broker
    <3>5. finished[n.job] <= n.attempt + faults
      BY <1>t, <3>1 DEF ExecutionsPaid
    <3> HIDE DEF n
    <3> QED
      BY <3>2, <3>3, <3>4, <3>5 DEF ExecutionsPaid
  <2> QED
    BY <1>2, <2>1, <2>2, <2>3, <2>4, <2>5, <2>6, NoOtherFault, Zenon DEF WorkerStep, HandleFailure
<1>4. ASSUME NEW w \in Workers, Crash(w) PROVE ExecutionsPaid'
  <2>1. pc'[w] = "idle" /\ \A v \in Workers \ {w} : pc'[v] = pc[v] /\ msg'[v] = msg[v]
    BY <1>4, <1>t, Zenon DEF Crash, Return
  <2>2. /\ \A v \in Workers \ {w} : retries'[v] = retries[v]
        /\ \A m \in Msgs : ~ (retries'[w][m] > 0)
        /\ finished' = finished /\ faults' = faults + 1
    BY <1>4, <1>t DEF Crash, ForgetRetries, NoMsgs, Fault
  <2>3. \A m \in Msgs : queue'[m] > 0 => queue[m] > 0 \/ (pc[w] # "idle" /\ m = msg[w])
    BY <1>4, <1>t, Zenon DEF Crash, Requeued, Add
  <2>4. /\ \A m \in Msgs : finished[m.job] \in Nat /\ m.attempt \in Nat
        /\ \A v \in Workers : pc[v] # "idle" => finished[msg[v].job] \in Nat /\ msg[v].attempt \in Nat
        /\ faults \in Nat /\ MaxAttempts \in Nat
    BY <1>t, QueueAssumption
  <2>5. \A m \in Msgs : queue'[m] > 0 => finished'[m.job] <= m.attempt + faults'
    BY <2>2, <2>3, <2>4 DEF ExecutionsPaid
  <2>6. \A v \in Workers, m \in Msgs : retries'[v][m] > 0 => finished'[m.job] <= m.attempt + faults'
    BY <2>2, <2>4 DEF ExecutionsPaid
  <2>7. \A v \in Workers : pc'[v] # "idle" =>
           finished'[msg'[v].job] <= msg'[v].attempt + faults' + (IF pc'[v] \in {"failed", "dead"} THEN 1 ELSE 0)
    BY <2>1, <2>2, <2>4 DEF ExecutionsPaid
  <2>8. \A j \in Jobs : finished'[j] <= MaxAttempts + 1 + faults'
    BY <1>t, <2>2, <2>4 DEF ExecutionsPaid
  <2> QED
    BY <2>5, <2>6, <2>7, <2>8, Zenon DEF ExecutionsPaid
<1>7. ASSUME NEW w \in Workers, NEW m \in Msgs, Deliver(w, m) PROVE ExecutionsPaid'
  <2>1. queue[m] > 0 /\ \A n \in Msgs : queue'[n] > 0 => queue[n] > 0
    BY <1>7, <1>t, Zenon DEF Deliver, Take
  <2>2. /\ pc'[w] = "claim" /\ msg'[w] = m
        /\ \A v \in Workers \ {w} : pc'[v] = pc[v] /\ msg'[v] = msg[v]
        /\ UNCHANGED <<retries, finished, faults>>
    BY <1>7, <1>t, Zenon DEF Deliver, Goto
  <2>3. finished[m.job] <= m.attempt + faults + 0
    BY <1>t, <2>1 DEF ExecutionsPaid
  <2> QED
    BY <2>1, <2>2, <2>3, Zenon DEF ExecutionsPaid
<1>8. ASSUME NEW w \in Workers, NEW m \in Msgs, Retry(w, m) PROVE ExecutionsPaid'
  <2>1. retries[w][m] > 0 /\ \A v \in Workers, n \in Msgs : retries'[v][n] > 0 => retries[v][n] > 0
    BY <1>8, <1>t, Zenon DEF Retry, Take
  <2>2. /\ \A n \in Msgs : n # m => queue'[n] = queue[n]
        /\ UNCHANGED <<pc, msg, finished, faults>>
    BY <1>8, <1>t, Zenon DEF Retry, Add
  <2> QED
    BY <2>1, <2>2, Zenon DEF ExecutionsPaid
<1>10. CASE UNCHANGED vars
    BY <1>10, Zenon DEF vars, system, broker, worker, ExecutionsPaid
<1> QED
    BY <1>1, <1>2, <1>4, <1>7, <1>8, <1>10, NoOtherFault, NoEnqueueLost, Zenon DEF Next

\* Nobody has job j.
Nowhere(j) ==
    /\ \A m \in Msgs : queue[m] > 0 => m.job # j
    /\ \A w \in Workers : pc[w] # "idle" => msg[w].job # j
    /\ \A w \in Workers, m \in Msgs : retries[w][m] > 0 => m.job # j

\* A job whose attempt has failed has no result, and a dead-lettered job has none
\* and is nowhere else.
DeadHasNoResult ==
    /\ \A w \in Workers : pc[w] \in {"failed", "dead"} => results[msg[w].job] = 0
    /\ \A j \in dlq : results[j] = 0 /\ Nowhere(j)

\* Every step keeps the results away from what has failed.
LEMMA NextDeadHasNoResult ==
    ASSUME Faults \subseteq {"crash"}, HasCoord, TypeOK, NobodyStops, ClaimInv, OneHolder,
           OnlyEnqueued, DeadHasNoResult, [Next]_vars
    PROVE  DeadHasNoResult'
<1> USE MsgFields
<1>t. /\ queue \in [Msgs -> Nat] /\ retries \in [Workers -> [Msgs -> Nat]]
      /\ pc \in [Workers -> Pcs] /\ msg \in [Workers -> Msgs \cup {NoMsg}]
      /\ \A w \in Workers : pc[w] # "idle" => msg[w] \in Msgs
      /\ \A w \in Workers : held[w] => pc[w] # "idle"
      /\ results \in [Jobs -> Nat] /\ dlq \subseteq Jobs
    BY Zenon DEF TypeOK
<1>1. ASSUME NEW j \in Jobs, Enqueue(j) PROVE DeadHasNoResult'
  <2> DEFINE n == [job |-> j, attempt |-> 0]
  <2>1. n \in Msgs /\ n.job = j /\ j \notin dlq
    BY <1>1, Zenon DEF Enqueue, OnlyEnqueued
  <2>2. /\ \A m \in Msgs : m # n => queue'[m] = queue[m]
        /\ UNCHANGED <<retries, pc, msg, results, dlq>>
    BY <1>1, <1>t, <2>1, Zenon DEF Enqueue, Add, worker
  <2> HIDE DEF n
  <2>3. ASSUME NEW i \in dlq PROVE Nowhere(i)'
    BY <2>1, <2>2, Zenon DEF DeadHasNoResult, Nowhere
  <2> QED
    BY <2>2, <2>3, Zenon DEF DeadHasNoResult
<1>2. ASSUME NEW w \in Workers, WorkerStep(w) PROVE DeadHasNoResult'
  <2>1. CASE ClaimWon(w) \/ NoClaim(w) \/ RunJobFails(w)
    <3>1. UNCHANGED <<queue, retries, msg, results, dlq>>
      BY <2>1, Zenon DEF ClaimWon, NoClaim, RunJobFails, broker
    <3>2. /\ pc[w] # "idle" /\ pc'[w] \in {"run", "release"}
          /\ \A v \in Workers \ {w} : pc'[v] = pc[v]
      BY <1>t, <2>1, Zenon DEF ClaimWon, NoClaim, RunJobFails, Goto
    <3> QED
      BY <3>1, <3>2 DEF DeadHasNoResult, Nowhere
  <2>2. CASE ClaimLost(w) \/ AckSuccess(w)
    <3>1. UNCHANGED <<queue, retries, results, dlq>>
      BY <2>2, Zenon DEF ClaimLost, AckSuccess, broker
    <3>2. pc'[w] = "idle" /\ \A v \in Workers \ {w} : pc'[v] = pc[v] /\ msg'[v] = msg[v]
      BY <1>t, <2>2, Zenon DEF ClaimLost, AckSuccess, Return
    <3> QED
      BY <3>1, <3>2 DEF DeadHasNoResult, Nowhere
  <2>3. CASE RunJobSucceeds(w)
    <3>1. pc[w] = "run" /\ pc'[w] = "ok" /\ \A v \in Workers \ {w} : pc'[v] = pc[v]
      BY <1>t, <2>3, Zenon DEF RunJobSucceeds, Goto
    <3>2. PICK j \in Jobs : j = msg[w].job
      BY <1>t, <3>1, Zenon
    <3>3. UNCHANGED <<queue, retries, msg, dlq>> /\ \A i \in Jobs : i # j => results'[i] = results[i]
      BY <1>t, <2>3, <3>2, Zenon DEF RunJobSucceeds
    <3>4. j \notin dlq /\ \A v \in Workers \ {w} : pc[v] # "idle" => msg[v].job \in Jobs /\ msg[v].job # j
      BY <1>t, <3>1, <3>2, OnlyHolder, Zenon DEF DeadHasNoResult, Nowhere
    <3>5. ASSUME NEW i \in dlq PROVE results'[i] = 0 /\ Nowhere(i)'
      BY <1>t, <3>1, <3>3, <3>4 DEF DeadHasNoResult, Nowhere
    <3>6. \A v \in Workers : pc'[v] \in {"failed", "dead"} => results'[msg'[v].job] = 0
      BY <3>1, <3>3, <3>4 DEF DeadHasNoResult
    <3> QED
      BY <3>3, <3>5, <3>6, Zenon DEF DeadHasNoResult
  <2>4. CASE Release(w)
    <3>1. UNCHANGED <<queue, retries, msg, results, dlq>>
      BY <2>4, Zenon DEF Release, broker
    <3>2. pc[w] = "release" /\ \A v \in Workers \ {w} : pc'[v] = pc[v]
      BY <1>t, <2>4, Zenon DEF Release, Goto
    <3>3. results[msg[w].job] = 0
      BY <1>t, <3>2, Zenon DEF ClaimInv, Holds
    <3> QED
      BY <3>1, <3>2, <3>3 DEF DeadHasNoResult, Nowhere
  <2>5. CASE HandleFailure(w) /\ AckForDLQ(w)
    <3>1. UNCHANGED <<queue, retries, msg, results, dlq>>
      BY <2>5, Zenon DEF HandleFailure, AckForDLQ, broker
    <3>2. pc[w] = "failed" /\ pc'[w] = "dead" /\ \A v \in Workers \ {w} : pc'[v] = pc[v]
      BY <1>t, <2>5, Zenon DEF HandleFailure, AckForDLQ
    <3> QED
      BY <3>1, <3>2 DEF DeadHasNoResult, Nowhere
  <2>6. CASE HandleFailure(w) /\ msg[w].attempt < MaxAttempts /\ AckForRetry(w, NextAttempt(msg[w]))
    <3> DEFINE n == NextAttempt(msg[w])
    <3>1. n \in Msgs /\ n.job = msg[w].job /\ pc[w] = "failed"
      BY <1>t, <2>6, NextAttemptMsg, Zenon DEF HandleFailure
    <3>2. \A v \in Workers, m \in Msgs : ~ (v = w /\ m = n) => retries'[v][m] = retries[v][m]
      BY <1>t, <2>6, <3>1, Zenon DEF AckForRetry, Add
    <3>3. pc'[w] = "idle" /\ \A v \in Workers \ {w} : pc'[v] = pc[v] /\ msg'[v] = msg[v]
      BY <1>t, <2>6, Zenon DEF AckForRetry, Return
    <3>4. UNCHANGED <<queue, results, dlq>>
      BY <2>6, Zenon DEF HandleFailure, broker
    <3>5. n.job \notin dlq
      BY <3>1, Zenon DEF DeadHasNoResult, Nowhere
    <3> HIDE DEF n
    <3> QED
      BY <3>2, <3>3, <3>4, <3>5 DEF DeadHasNoResult, Nowhere
  <2>7. CASE DeadLetter(w)
    <3>1. pc[w] = "dead" /\ pc'[w] = "idle" /\ \A v \in Workers \ {w} : pc'[v] = pc[v] /\ msg'[v] = msg[v]
      BY <1>t, <2>7, Zenon DEF DeadLetter, Return
    <3>2. PICK j \in Jobs : j = msg[w].job
      BY <1>t, <3>1, Zenon
    <3>3. UNCHANGED <<queue, retries, results>> /\ dlq' = dlq \cup {j}
      BY <2>7, <3>2, Zenon DEF DeadLetter
    <3>4. results[j] = 0
      BY <3>1, <3>2, Zenon DEF DeadHasNoResult
    <3>5. Nowhere(j)'
      BY <3>1, <3>2, <3>3, OnlyHolder DEF Nowhere
    <3>6. ASSUME NEW i \in dlq PROVE results'[i] = 0 /\ Nowhere(i)'
      BY <3>1, <3>3 DEF DeadHasNoResult, Nowhere
    <3> QED
      BY <3>1, <3>3, <3>4, <3>5, <3>6 DEF DeadHasNoResult
  <2> QED
    BY <1>2, <2>1, <2>2, <2>3, <2>4, <2>5, <2>6, <2>7, NoOtherFault, Zenon
       DEF WorkerStep, HandleFailure
<1>4. ASSUME NEW w \in Workers, Crash(w) PROVE DeadHasNoResult'
  <2>1. pc'[w] = "idle" /\ \A v \in Workers \ {w} : pc'[v] = pc[v] /\ msg'[v] = msg[v]
    BY <1>4, <1>t, Zenon DEF Crash, Return
  <2>2. /\ \A v \in Workers \ {w} : retries'[v] = retries[v]
        /\ \A m \in Msgs : ~ (retries'[w][m] > 0)
        /\ UNCHANGED <<results, dlq>>
    BY <1>4, <1>t DEF Crash, ForgetRetries, NoMsgs
  <2>3. \A m \in Msgs : queue'[m] > 0 => queue[m] > 0 \/ (pc[w] # "idle" /\ m = msg[w])
    BY <1>4, <1>t, Zenon DEF Crash, Requeued, Add
  <2> QED
    BY <2>1, <2>2, <2>3 DEF DeadHasNoResult, Nowhere
<1>7. ASSUME NEW w \in Workers, NEW m \in Msgs, Deliver(w, m) PROVE DeadHasNoResult'
  <2>1. queue[m] > 0 /\ \A n \in Msgs : queue'[n] > 0 => queue[n] > 0
    BY <1>7, <1>t, Zenon DEF Deliver, Take
  <2>2. /\ pc'[w] = "claim" /\ msg'[w] = m
        /\ \A v \in Workers \ {w} : pc'[v] = pc[v] /\ msg'[v] = msg[v]
        /\ UNCHANGED <<retries, results, dlq>>
    BY <1>7, <1>t, Zenon DEF Deliver, Goto
  <2> QED
    BY <2>1, <2>2, SMTT(20) DEF DeadHasNoResult, Nowhere
<1>8. ASSUME NEW w \in Workers, NEW m \in Msgs, Retry(w, m) PROVE DeadHasNoResult'
  <2>1. retries[w][m] > 0 /\ \A v \in Workers, n \in Msgs : retries'[v][n] > 0 => retries[v][n] > 0
    BY <1>8, <1>t, Zenon DEF Retry, Take
  <2>2. /\ \A n \in Msgs : n # m => queue'[n] = queue[n]
        /\ UNCHANGED <<pc, msg, results, dlq>>
    BY <1>8, <1>t, Zenon DEF Retry, Add
  <2>3. ASSUME NEW i \in dlq PROVE Nowhere(i)'
    BY <2>1, <2>2 DEF DeadHasNoResult, Nowhere
  <2> QED
    BY <2>2, <2>3, Zenon DEF DeadHasNoResult
<1>10. CASE UNCHANGED vars
    BY <1>10, Zenon DEF vars, system, broker, worker, DeadHasNoResult, Nowhere
<1> QED
    BY <1>1, <1>2, <1>4, <1>7, <1>8, <1>10, NoOtherFault, NoEnqueueLost, Zenon DEF Next

\* When only workers crash, no job is executed more often than its attempts and the
\* crashes account for, and with Redis a dead-lettered job has no result.
THEOREM BoundedExecutions == Spec => []ExecutionsBounded
<1> DEFINE Inv == Faults \subseteq {"crash"} =>
                     /\ NobodyStops /\ OneHolder /\ OnlyEnqueued /\ ExecutionsPaid
                     /\ HasCoord => ClaimInv /\ DeadHasNoResult
<1>1. Init => Inv
  <2> SUFFICES ASSUME Init PROVE Inv
    BY Zenon
  <2>1. NobodyStops /\ OnlyEnqueued
    BY DEF Init, NobodyStops, OnlyEnqueued, NoMsgs
  <2>2. OneHolder /\ ExecutionsPaid
    BY QueueAssumption DEF Init, OneHolder, ExecutionsPaid, NoMsgs
  <2>3. ClaimInv /\ DeadHasNoResult
    BY DEF Init, ClaimInv, DeadHasNoResult, Holds, NoMsgs
  <2> QED
    BY <2>1, <2>2, <2>3, Zenon
<1>2. TypeOK /\ Inv /\ [Next]_vars => Inv'
  <2> SUFFICES ASSUME TypeOK, Inv, [Next]_vars, (Faults \subseteq {"crash"})'
               PROVE  /\ NobodyStops' /\ OneHolder' /\ OnlyEnqueued' /\ ExecutionsPaid'
                      /\ HasCoord' => ClaimInv' /\ DeadHasNoResult'
    BY Zenon
  <2>1. Faults \subseteq {"crash"} /\ (HasCoord' => HasCoord /\ RedisAnswers)
    BY SetupKept, Zenon DEF RedisAnswers, HasCoord, Faults
  <2>2. NobodyStops'
    BY <2>1, NextNobodyStops, Zenon
  <2> QED
    BY <2>1, <2>2, NextOneHolder, NextExecutionsPaid, NextClaimInv, NextDeadHasNoResult, Zenon
<1>3. Inv => ExecutionsBounded
    BY Zenon DEF ExecutionsBounded, ExecutionsPaid, DeadHasNoResult
<1> QED
    BY <1>1, <1>2, <1>3, TypeCorrectness, PTL DEF Spec
==============================================================================
