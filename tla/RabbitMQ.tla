------------------------------ MODULE RabbitMQ ------------------------------
(***************************************************************************)
(* The RabbitMQ broker of internal/broker/rabbitmq.go, seen at one queue:  *)
(* the calls of Publish and of Consume share r.conn and r.ch, and each     *)
(* replaces them by reconnect when its own attempt fails.  A connection    *)
(* has one channel, so the two are one here, numbered in the order they    *)
(* are dialled.                                                            *)
(*                                                                         *)
(* The server is external: it keeps the durable queue and what it has      *)
(* delivered to each consumer and not seen acknowledged, and puts that     *)
(* back when the consumer's connection ends.  What the client writes is    *)
(* under way until the server takes it, and lost if the connection drops   *)
(* first.                                                                  *)
(***************************************************************************)
EXTENDS Broker

CONSTANTS
    MaxConns,  \* bound: the connections ever dialled
    MaxDrops   \* bound: the connections the network drops

ASSUME RabbitAssumption == MaxConns \in Nat \ {0} /\ MaxDrops \in Nat

Conns == 1 .. MaxConns

VARIABLES
    ready,     \* server: the messages in the queue
    unacked,   \* server: the message delivered to each consumer, by Qos(1) one
    settled,   \* server: the messages it has forgotten
    live,      \* the connections the server knows
    open,      \* those of them the client has not begun to close
    sending,   \* the messages that are written and not yet taken
    answer,    \* the acknowledgement of each consumer that is
    drops,     \* how many connections the network has dropped
    dialled,   \* how many connections were dialled
    current,   \* r.conn and r.ch
    mu,        \* r.mu: TRUE while somebody is in reconnect
    ch         \* the channel each call has read from r.ch

server == <<ready, unacked, settled>>
network == <<live, open, sending, answer, drops>>
client == <<dialled, current, mu>>
rest == <<stopping, closed, handled>>
rvars == <<server, network, client, ch, pc, body, rest>>

\* NewRabbitMQ has dialled.
RInit ==
    /\ CallsInit
    /\ ready = {} /\ settled = {} /\ unacked = [k \in Consumers |-> None]
    /\ live = {1} /\ open = {1} /\ drops = 0
    /\ sending = {} /\ answer = [k \in Consumers |-> "none"]
    /\ dialled = 1 /\ current = 1 /\ mu = FALSE
    /\ ch = [p \in Calls |-> 1]

\* Locking r.mu, reading r.ch and unlocking.
ReadChannel(p) == ~ mu /\ ch' = [ch EXCEPT ![p] = current]

\* What is written on connection c has been taken.
Taken(c) ==
    /\ \A m \in sending : ch[m] # c
    /\ \A k \in Consumers : ch[k] = c => answer[k] = "none"

\* The end of connection c: the server puts back what was delivered on it.
End(c) ==
    /\ live' = live \ {c}
    /\ open' = open \ {c}
    /\ ready' = ready \cup {m \in Msgs : \E k \in Consumers : ch[k] = c /\ unacked[k] = m}
    /\ unacked' = [k \in Consumers |-> IF ch[k] = c THEN None ELSE unacked[k]]
    /\ UNCHANGED settled

-----------------------------------------------------------------------------
(* reconnect, called by Publish and by Consume *)

\* From the start of ch.Close on nothing can be written to the channel ...
ReconnectLocks(p) ==
    /\ ~ mu
    /\ GoTo(p, "reconnect", "close")
    /\ mu' = TRUE
    /\ open' = open \ {current}
    /\ UNCHANGED <<server, live, sending, answer, drops, dialled, current, ch, body, rest>>

\* ... and the server ends the connection after it took what was written before.
ReconnectCloses(p) ==
    /\ Taken(current)
    /\ GoTo(p, "close", "dial")
    /\ End(current)
    /\ UNCHANGED <<sending, answer, drops, client, ch, body, rest>>

ReconnectDials(p) ==
    /\ dialled < MaxConns
    /\ GoTo(p, "dial", "channel")
    /\ dialled' = dialled + 1
    /\ live' = live \cup {dialled + 1}
    /\ open' = open \cup {dialled + 1}
    /\ UNCHANGED <<server, sending, answer, drops, current, mu, ch, body, rest>>

\* r.conn and r.ch are replaced when the channel is open, too.
ReconnectOpens(p, to) ==
    /\ dialled \in live
    /\ GoTo(p, "channel", to)
    /\ current' = dialled
    /\ mu' = FALSE
    /\ UNCHANGED <<server, network, dialled, ch, body, rest>>

\* Mutant of ReconnectFails: the error path does not unlock.
ReconnectFailsLocked(p, to) ==
    /\ GoTo(p, "dial", to)
    /\ UNCHANGED <<server, network, client, ch, body, rest>>

\* A failed dial leaves r.ch on the channel that was closed.
ReconnectFails(p, to) ==
    /\ GoTo(p, "dial", to)
    /\ mu' = FALSE
    /\ UNCHANGED <<server, network, dialled, current, ch, body, rest>>

\* Mutant of ChannelFails: the error path does not close the new connection.
ChannelFailsOpen(p, to) ==
    /\ GoTo(p, "channel", to)
    /\ mu' = FALSE
    /\ UNCHANGED <<server, network, dialled, current, ch, body, rest>>

\* So does a connection that has no channel: it is closed again, unused.
ChannelFails(p, to) ==
    /\ GoTo(p, "channel", to)
    /\ live' = live \ {dialled}
    /\ open' = open \ {dialled}
    /\ mu' = FALSE
    /\ UNCHANGED <<server, sending, answer, drops, dialled, current, ch, body, rest>>

Reconnect(p, done, failed) ==
    \/ ReconnectLocks(p) \/ ReconnectCloses(p) \/ ReconnectDials(p) \/ ReconnectOpens(p, done)
    \/ ReconnectFails(p, failed) \/ ChannelFails(p, failed)

-----------------------------------------------------------------------------
(* Publish *)

PublishCalled(m) ==
    /\ GoTo(m, "idle", "read")
    /\ UNCHANGED <<server, network, client, ch, body, rest>>

PublishReads(m) ==
    /\ ReadChannel(m)
    /\ GoTo(m, "read", "declare") \/ GoTo(m, "reread", "redeclare")
    /\ UNCHANGED <<server, network, client, body, rest>>

PublishDeclares(m) ==
    /\ ch[m] \in open
    /\ GoTo(m, "declare", "write") \/ GoTo(m, "redeclare", "rewrite")
    /\ UNCHANGED <<server, network, client, ch, body, rest>>

PublishWrites(m) ==
    /\ ch[m] \in open
    /\ GoTo(m, "write", "ok") \/ GoTo(m, "rewrite", "ok")
    /\ sending' = sending \cup {m}
    /\ UNCHANGED <<server, live, open, answer, drops, client, ch, body, rest>>

\* The first failure leads to reconnect, unless the context is cancelled (the
\* one of a retry never is); the second is returned.
PublishFails(m) ==
    /\ ch[m] \notin open
    /\ \/ GoTo(m, "declare", "reconnect") \/ GoTo(m, "write", "reconnect")
       \/ stopping /\ (GoTo(m, "declare", "failed") \/ GoTo(m, "write", "failed"))
       \/ GoTo(m, "redeclare", "failed") \/ GoTo(m, "rewrite", "failed")
    /\ UNCHANGED <<server, network, client, ch, body, rest>>

PublishStep(m) ==
    \/ PublishReads(m) \/ PublishDeclares(m) \/ PublishWrites(m) \/ PublishFails(m)
    \/ Reconnect(m, "reread", "failed")

-----------------------------------------------------------------------------
(* Consume *)

ConsumeCalled(k) ==
    /\ GoTo(k, "idle", "top")
    /\ UNCHANGED <<server, network, client, ch, body, rest>>

ConsumeReads(k) ==
    /\ ~ stopping
    /\ ReadChannel(k)
    /\ GoTo(k, "top", "declare")
    /\ UNCHANGED <<server, network, client, body, rest>>

\* QueueDeclare, Qos and Consume: an error is not errChannelClosed, and is returned.
ConsumeDeclares(k) ==
    /\ GoTo(k, "declare", IF ch[k] \in open THEN "loop" ELSE "returned")
    /\ UNCHANGED <<server, network, client, ch, body, rest>>

\* Mutant of ConsumeReceives: the queue is consumed with autoAck.
ReceiveAutoAck(k, m) ==
    /\ ch[k] \in open
    /\ GoTo(k, "loop", "handler")
    /\ m \in ready
    /\ ready' = ready \ {m} /\ settled' = settled \cup {m}
    /\ body' = [body EXCEPT ![k] = m]
    /\ UNCHANGED <<unacked, network, client, ch, rest>>

\* Qos(1): the server delivers when it has seen the message before acknowledged.
ConsumeReceives(k, m) ==
    /\ ch[k] \in open
    /\ GoTo(k, "loop", "handler")
    /\ m \in ready /\ unacked[k] = None
    /\ ready' = ready \ {m}
    /\ unacked' = [unacked EXCEPT ![k] = m]
    /\ body' = [body EXCEPT ![k] = m]
    /\ UNCHANGED <<settled, network, client, ch, rest>>

\* Ack and Nack go to the channel the message came from; when it is closed they
\* fail, and the consumer goes on as if they had not.
HandlerReturns(k, how) ==
    /\ HandlerEnds(k, "handler")
    /\ IF ch[k] \in open
         THEN /\ answer' = [answer EXCEPT ![k] = how]
              /\ handled' = IF how = "settle" THEN handled \cup {body[k]} ELSE handled
         ELSE UNCHANGED <<answer, handled>>
    /\ UNCHANGED <<server, live, open, sending, drops, client, ch, stopping, closed>>

ConsumeLosesChannel(k) ==
    /\ ch[k] \notin open
    /\ GoTo(k, "loop", "backoff")
    /\ UNCHANGED <<server, network, client, ch, body, rest>>

BackoffEnds(k) ==
    /\ GoTo(k, "backoff", "reconnect")
    /\ UNCHANGED <<server, network, client, ch, body, rest>>

ConsumeCancelled(k) ==
    /\ stopping
    /\ \E at \in {"top", "loop", "backoff"} : GoTo(k, at, "returned")
    /\ UNCHANGED <<server, network, client, ch, body, rest>>

ConsumeStep(k) ==
    \/ ConsumeReads(k) \/ ConsumeDeclares(k) \/ ConsumeLosesChannel(k)
    \/ BackoffEnds(k) \/ ConsumeCancelled(k)
    \/ Reconnect(k, "top", "top")

HandlerStep(k) == \E how \in {"settle", "requeue"} : HandlerReturns(k, how)

-----------------------------------------------------------------------------
(* The server and the network, external *)

ServerTakesMessage(m) ==
    /\ m \in sending /\ ch[m] \in live
    /\ sending' = sending \ {m}
    /\ ready' = ready \cup {m}
    /\ UNCHANGED <<unacked, settled, live, open, answer, drops, client, ch, pc, body, rest>>

ServerTakesAnswer(k) ==
    /\ answer[k] # "none" /\ ch[k] \in live
    /\ answer' = [answer EXCEPT ![k] = "none"]
    /\ unacked' = [unacked EXCEPT ![k] = None]
    /\ IF answer[k] = "settle"
         THEN settled' = settled \cup {unacked[k]} /\ UNCHANGED ready
         ELSE ready' = ready \cup {unacked[k]} /\ UNCHANGED settled
    /\ UNCHANGED <<live, open, sending, drops, client, ch, pc, body, rest>>

Drop(c) ==
    /\ c \in live /\ drops < MaxDrops
    /\ drops' = drops + 1
    /\ End(c)
    /\ sending' = {m \in sending : ch[m] # c}
    /\ answer' = [k \in Consumers |-> IF ch[k] = c THEN "none" ELSE answer[k]]
    /\ UNCHANGED <<client, ch, pc, body, rest>>

Stop ==
    /\ ~ stopping
    /\ stopping' = TRUE
    /\ UNCHANGED <<server, network, client, ch, pc, body, closed, handled>>

\* The worker's main closes the broker when its Consume has returned.
Close ==
    /\ ~ closed /\ ~ mu
    /\ \A k \in Consumers : Ended(k)
    /\ closed' = TRUE
    /\ Taken(current)
    /\ End(current)
    /\ UNCHANGED <<sending, answer, drops, client, ch, pc, body, stopping, handled>>

ServerStep ==
    \/ \E m \in Msgs : ServerTakesMessage(m)
    \/ \E k \in Consumers : ServerTakesAnswer(k)

RNext ==
    \/ \E m \in Msgs : PublishCalled(m) \/ PublishStep(m)
    \/ \E k \in Consumers :
         \/ ConsumeCalled(k) \/ ConsumeStep(k) \/ HandlerStep(k)
         \/ \E m \in Msgs : ConsumeReceives(k, m)
    \/ ServerStep \/ Stop \/ Close
    \/ \E c \in Conns : Drop(c)

RSpec == RInit /\ [][RNext]_rvars

-----------------------------------------------------------------------------

\* Where message m is, in the terms of Delivery.
RWhere(m) ==
    IF m \in settled THEN "settled"
    ELSE IF m \in ready THEN "ready"
    ELSE IF \E k \in Consumers : unacked[k] = m THEN "held"
    ELSE IF pc[m] = "idle" THEN "unsent"
    ELSE "open"
=============================================================================
