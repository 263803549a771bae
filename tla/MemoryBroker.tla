---------------------------- MODULE MemoryBroker ----------------------------
(***************************************************************************)
(* The in-memory broker of internal/broker/memory.go, seen at one queue:   *)
(* its channel, its done channel, the calls of Publish and of Consume, and *)
(* Close.  Publish looks at m.closed, finds or makes the queue and then    *)
(* waits at the channel, each in a step of its own; so does a requeue,     *)
(* which is a Publish from inside the handler.                             *)
(***************************************************************************)
EXTENDS Broker, Sequences

CONSTANT Cap  \* the capacity of a queue's channel, 1024

ASSUME MemoryAssumption == Cap \in Nat

VARIABLES
    queue,  \* m.queues[name]: "none", "open", or "done" once its done channel is closed
    buf     \* its channel

mvars == <<queue, buf, pc, body, stopping, closed, handled>>

MInit == CallsInit /\ queue = "none" /\ buf = <<>>

InBuf(m) == \E i \in DOMAIN buf : buf[i] = m

\* getQueue: a queue that is made after Close has a done channel nobody closes.
GetQueue == queue' = IF queue = "none" THEN "open" ELSE queue

-----------------------------------------------------------------------------
(* Publish *)

MPublishCalled(m) ==
    /\ GoTo(m, "idle", "check")
    /\ UNCHANGED <<queue, buf, body, stopping, closed, handled>>

MPublishChecks(m) ==
    /\ GoTo(m, "check", IF closed THEN "failed" ELSE "get")
    /\ UNCHANGED <<queue, buf, body, stopping, closed, handled>>

MPublishGets(m) ==
    /\ GoTo(m, "get", "send")
    /\ GetQueue
    /\ UNCHANGED <<buf, body, stopping, closed, handled>>

MPublishSends(m) ==
    /\ GoTo(m, "send", "ok")
    /\ Len(buf) < Cap
    /\ buf' = Append(buf, m)
    /\ UNCHANGED <<queue, body, stopping, closed, handled>>

\* The queue is closed, or the context is cancelled (the one of a retry never is).
MPublishGivesUp(m) ==
    /\ stopping \/ queue = "done"
    /\ GoTo(m, "send", "failed")
    /\ UNCHANGED <<queue, buf, body, stopping, closed, handled>>

-----------------------------------------------------------------------------
(* Consume *)

\* Consume does not look at m.closed.
MConsumeCalled(k) ==
    /\ GoTo(k, "idle", "loop")
    /\ GetQueue
    /\ UNCHANGED <<buf, body, stopping, closed, handled>>

MConsumeReceives(k) ==
    /\ GoTo(k, "loop", "handler")
    /\ buf # <<>>
    /\ buf' = Tail(buf)
    /\ body' = [body EXCEPT ![k] = Head(buf)]
    /\ UNCHANGED <<queue, stopping, closed, handled>>

MConsumeReturns(k) ==
    /\ stopping \/ queue = "done"
    /\ GoTo(k, "loop", "returned")
    /\ UNCHANGED <<queue, buf, body, stopping, closed, handled>>

\* The handler acknowledges the message, or rejects it by Nack or by an error.
MHandlerSettles(k, from) ==
    /\ HandlerEnds(k, from)
    /\ handled' = handled \cup {body[k]}
    /\ UNCHANGED <<queue, buf, stopping, closed>>

\* Nack(true) is a Publish with context.Background().  A closed broker refuses
\* it: the handler gets the error, and the message is gone as if rejected.
MNackRequeues(k) ==
    \/ /\ ~ closed
       /\ GoTo(k, "handler", "requeue")
       /\ UNCHANGED <<queue, buf, body, stopping, closed, handled>>
    \/ closed /\ MHandlerSettles(k, "handler")

MRequeueSends(k) ==
    /\ HandlerEnds(k, "requeue")
    /\ Len(buf) < Cap
    /\ buf' = Append(buf, body[k])
    /\ UNCHANGED <<queue, stopping, closed, handled>>

\* Mutant of MRequeueGivesUp: only the context, which is never cancelled, is watched.
RequeueInsists(k) == FALSE /\ MHandlerSettles(k, "requeue")

MRequeueGivesUp(k) == queue = "done" /\ MHandlerSettles(k, "requeue")

-----------------------------------------------------------------------------

MClose ==
    /\ ~ closed
    /\ closed' = TRUE
    /\ queue' = IF queue = "none" THEN "none" ELSE "done"
    /\ UNCHANGED <<buf, pc, body, stopping, handled>>

\* The context of the calls is cancelled.
MStop ==
    /\ ~ stopping
    /\ stopping' = TRUE
    /\ UNCHANGED <<queue, buf, pc, body, closed, handled>>

MPublishStep(m) == MPublishChecks(m) \/ MPublishGets(m) \/ MPublishSends(m) \/ MPublishGivesUp(m)

MConsumeStep(k) ==
    \/ MConsumeReceives(k) \/ MConsumeReturns(k)
    \/ MHandlerSettles(k, "handler") \/ MRequeueSends(k) \/ MRequeueGivesUp(k)

MNext ==
    \/ \E m \in Msgs : MPublishCalled(m) \/ MPublishStep(m)
    \/ \E k \in Consumers : MConsumeCalled(k) \/ MConsumeStep(k) \/ MNackRequeues(k)
    \/ MClose \/ MStop

MSpec == MInit /\ [][MNext]_mvars

-----------------------------------------------------------------------------

\* Where message m is, in the terms of Delivery.
MWhere(m) ==
    IF InBuf(m) THEN "ready"
    ELSE IF \E k \in Consumers : body[k] = m THEN "held"
    ELSE IF pc[m] = "idle" THEN "unsent"
    ELSE IF pc[m] = "ok" THEN "settled"
    ELSE "open"
=============================================================================
