------------------------------ MODULE Brokers -------------------------------
(***************************************************************************)
(* The broker of a worker: the in-memory one or RabbitMQ, as the           *)
(* environment of cmd/worker says, and what both of them promise.          *)
(***************************************************************************)
EXTENDS MemoryBroker, RabbitMQ

VARIABLE kind  \* BROKER

vars == <<kind, mvars, rvars>>
memory == <<queue, buf>>
rabbit == <<server, network, client, ch>>

Init == kind \in {"memory", "rabbitmq"} /\ MInit /\ RInit

Next ==
    \/ kind = "memory" /\ MNext /\ UNCHANGED <<kind, rabbit>>
    \/ kind = "rabbitmq" /\ RNext /\ UNCHANGED <<kind, memory>>

\* The steps of a call that has what it waits for, the end of a handler among them.
MemoryStep(p) ==
    /\ kind = "memory" /\ UNCHANGED <<kind, rabbit>>
    /\ \/ p \in Msgs /\ MPublishStep(p)
       \/ p \in Consumers /\ MConsumeStep(p)

RabbitStep(p) ==
    /\ kind = "rabbitmq" /\ UNCHANGED <<kind, memory>>
    /\ \/ p \in Msgs /\ PublishStep(p)
       \/ p \in Consumers /\ ConsumeStep(p)

RabbitServer == kind = "rabbitmq" /\ ServerStep /\ UNCHANGED <<kind, memory>>

Fairness ==
    /\ \A p \in Calls : WF_vars(MemoryStep(p)) /\ WF_vars(RabbitStep(p))
    /\ WF_vars(RabbitServer)

Spec == Init /\ [][Next]_vars /\ Fairness

-----------------------------------------------------------------------------

Promise == INSTANCE Delivery WITH
    where <- [m \in Msgs |-> IF kind = "memory" THEN MWhere(m) ELSE RWhere(m)]

\* Both brokers deliver what was published and nothing else, put the message of
\* a Publish into the queue at most once even when it is tried twice, and
\* forget no message before a handler was done with it, whatever calls, drops
\* and reconnections come in between.
ImplementsDelivery == Promise!DSpec

\* Whoever leaves reconnect, or fails anywhere in it, has left no connection behind: the
\* only connections that may be open are the one r.conn holds and the one that whoever is
\* in reconnect has just dialled.
NoConnectionLeak ==
    \A c \in live : c = current \/ (c = dialled /\ mu /\ \E p \in Calls : pc[p] = "channel")

\* Closing the in-memory broker ends every call that waits at the queue, a
\* requeue from inside a handler among them, even if the channel is full and
\* nobody's context is cancelled.
CloseReleases ==
    (kind = "memory" /\ queue = "done") ~> (\A p \in Calls : Ended(p))

\* With RabbitMQ no call is stuck: a Publish returns, and a Consume whose
\* channel is gone consumes from a new one or returns, although each of them
\* closes the channel the others have just opened.
Consuming(k) == pc[k] = "handler" \/ (pc[k] = "loop" /\ ch[k] \in open)
CallsSettle ==
    (kind = "rabbitmq" /\ \E p \in Calls : ~ Ended(p) /\ ~ Consuming(p))
        ~> (\A p \in Calls : Ended(p) \/ Consuming(p))
=============================================================================
