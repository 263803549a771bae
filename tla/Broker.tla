------------------------------- MODULE Broker -------------------------------
(***************************************************************************)
(* The callers of a Broker, internal/broker/broker.go: each message is     *)
(* published by one call of Publish, and the calls of Consume run handlers *)
(* until their context is cancelled.  MemoryBroker and RabbitMQ say what   *)
(* the calls do.                                                           *)
(***************************************************************************)
EXTENDS Naturals

CONSTANTS
    Msgs,       \* the messages, each of one call of Publish
    Consumers,  \* the calls of Consume
    None        \* no message, nobody

ASSUME CallsAssumption ==
    /\ Msgs \cap Consumers = {}
    /\ None \notin Msgs \cup Consumers

Calls == Msgs \cup Consumers

VARIABLES
    pc,        \* where each call is
    body,      \* the message each handler works on
    stopping,  \* TRUE when the context of the calls is cancelled
    closed,    \* TRUE when Close was called
    handled    \* history: the messages a handler has acknowledged or rejected

CallsInit ==
    /\ pc = [p \in Calls |-> "idle"]
    /\ body = [k \in Consumers |-> None]
    /\ stopping = FALSE /\ closed = FALSE /\ handled = {}

GoTo(p, from, to) == pc[p] = from /\ pc' = [pc EXCEPT ![p] = to]

\* The handler of k ends, with k's call going on at the next message.
HandlerEnds(k, from) ==
    /\ GoTo(k, from, "loop")
    /\ body' = [body EXCEPT ![k] = None]

Ended(p) == pc[p] \in {"idle", "ok", "failed", "returned"}
=============================================================================
