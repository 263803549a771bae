------------------------------ MODULE Delivery ------------------------------
(***************************************************************************)
(* What a Broker of internal/broker/broker.go promises of the messages of  *)
(* one queue: each call of Publish puts its message into the queue at most *)
(* once, a message is delivered from the queue only, and it goes away only *)
(* after a handler was done with it; a delivery that ends otherwise puts   *)
(* it back.                                                                *)
(***************************************************************************)

CONSTANT Msgs  \* the messages, each of one call of Publish

VARIABLES
    where,    \* where each message is
    handled   \* the messages that a handler has acknowledged or rejected

Places == {"unsent", "open", "ready", "held", "settled"}

DInit == where = [m \in Msgs |-> "unsent"] /\ handled = {}

Move(m, from, to) == where[m] = from /\ where' = [where EXCEPT ![m] = to]

\* Publish is called ...
Send(m) == Move(m, "unsent", "open") /\ UNCHANGED handled

\* ... and its message arrives, or never does.
Arrive(m) == Move(m, "open", "ready") /\ UNCHANGED handled

Deliver(m) == Move(m, "ready", "held") /\ UNCHANGED handled

\* A handler has acknowledged or rejected the message.
Handle(m) ==
    /\ where[m] \notin {"unsent", "open"}
    /\ handled' = handled \cup {m}
    /\ UNCHANGED where

\* The broker forgets a message, at once or some time after it was handled.
Settle(m) ==
    /\ Move(m, "held", "settled")
    /\ handled' \in {handled, handled \cup {m}}
    /\ m \in handled'

\* Deliveries that end otherwise, several when a connection ends.
Requeue(S) ==
    /\ \A m \in S : where[m] = "held"
    /\ where' = [m \in Msgs |-> IF m \in S THEN "ready" ELSE where[m]]
    /\ UNCHANGED handled

DNext ==
    \/ \E m \in Msgs : Send(m) \/ Arrive(m) \/ Deliver(m) \/ Handle(m) \/ Settle(m)
    \/ \E S \in SUBSET Msgs : Requeue(S)

DSpec == DInit /\ [][DNext]_<<where, handled>>
=============================================================================
