--------------------------------- MODULE Api ---------------------------------
(***************************************************************************)
(* HTTP requests to the manager: the handlers of internal/api/handlers.go  *)
(* and the timeout of internal/api/server.go, whose timer and handler      *)
(* write one response without a lock.  They meet in two atomic flags,      *)
(* timedOut and wrote; each load, store and write is a step.               *)
(*                                                                         *)
(* net/http is external: the first header counts, a handler that ends      *)
(* without one has answered 200, and what is written after that is lost or *)
(* lands in the response that has got the buffer.                          *)
(***************************************************************************)
EXTENDS Manager, FiniteSets

VARIABLES
    web,         \* the response and the timer of each caller's request
    down         \* whether the process has died

apiVars == <<vars, web, down>>

NoResponse == [timer |-> "off", timedOut |-> FALSE, wrote |-> FALSE, header |-> "none", body |-> {}]

ApiInit == Init /\ web = [c \in Callers |-> NoResponse] /\ down = FALSE

manager == <<setup, current, objects, rows, gauge, watches>>

\* The middleware arms the timer and the handler calls the manager.  A caller is a place
\* for one request: it is free again when the handler and the timer have ended, so that a
\* client that is answered a timeout and sends the next request takes a second place.
Request(c) ==
    /\ web[c] = NoResponse
    /\ Call(c)
    /\ web' = [web EXCEPT ![c].timer = IF setup.timeouts THEN "armed" ELSE "off"]
    /\ UNCHANGED down

(* ------------------------------ the handler ----------------------------- *)

\* The first header counts.
Headed(w, status) == IF w.header = "none" THEN [w EXCEPT !.header = status] ELSE w

\* The handler returns: the timer is stopped, unless it has fired.
Finish(c, w) ==
    /\ calls' = [calls EXCEPT ![c] = Idle]
    /\ expired' = expired \ {c}
    /\ web' = [web EXCEPT ![c] = IF w.timer \in {"off", "armed", "done"} THEN NoResponse ELSE Headed(w, "ok")]

HandlerGoTo(c, pc, w) ==
    /\ GoTo(c, pc)
    /\ web' = [web EXCEPT ![c] = w]
    /\ UNCHANGED expired

\* WriteHeader: nothing is written once the timer has spoken.
HandlerAsks(c) ==
    /\ calls[c].pc = "answer"
    /\ HandlerGoTo(c, IF web[c].timedOut THEN "write" ELSE "header", web[c])
    /\ UNCHANGED <<manager, down>>

HandlerClaims(c) ==
    /\ calls[c].pc = "header"
    /\ HandlerGoTo(c, "send", [web[c] EXCEPT !.wrote = TRUE])
    /\ UNCHANGED <<manager, down>>

HandlerHeads(c) ==
    /\ calls[c].pc = "send"
    /\ HandlerGoTo(c, "write", Headed(web[c], calls[c].status))
    /\ UNCHANGED <<manager, down>>

\* Mutant: the body is written whatever has happened to the header.
HandlerInsists(c) ==
    /\ calls[c].pc = "write"
    /\ HandlerGoTo(c, "body", web[c])
    /\ UNCHANGED <<manager, down>>

\* Write asks again; a successful Delete has no body.
HandlerAsksAgain(c) ==
    /\ calls[c].pc = "write"
    /\ IF web[c].timedOut \/ (calls[c].op = "Delete" /\ calls[c].status = "ok")
       THEN Finish(c, web[c])
       ELSE HandlerGoTo(c, "body", web[c])
    /\ UNCHANGED <<manager, down>>

\* wrote is set again, and the body follows the header that was sent.
HandlerWrites(c) ==
    /\ calls[c].pc = "body"
    /\ Finish(c, [Headed(web[c], "ok") EXCEPT !.wrote = TRUE, !.body = @ \cup {"handler"}])
    /\ UNCHANGED <<manager, down>>

\* Step panics, on the goroutine of the request, and the simulation keeps its state.  The
\* Recoverer, outside the timeout, answers without a body and without asking.
StepPanics(c) ==
    /\ At(c, "Step", "step")
    /\ Finish(c, Headed(web[c], "internal"))
    /\ UNCHANGED <<manager, down>>

(* ------------------------------- the timer ------------------------------ *)

\* The response is forgotten when both have ended.
TimerGoTo(c, pc, w) ==
    /\ web' = [web EXCEPT ![c] = IF pc = "done" /\ calls[c].pc = "idle" THEN NoResponse ELSE [w EXCEPT !.timer = pc]]
    /\ UNCHANGED <<manager, calls, down>>

\* The deadline passes, or the client is gone: the context of the request is done.
Deadline(c) ==
    /\ web[c].timer = "armed"
    /\ expired' = expired \cup {c}
    /\ TimerGoTo(c, "fired", web[c])

\* The callback of the timer leaves a response that has begun alone.
TimerAsks(c) ==
    /\ web[c].timer = "fired"
    /\ TimerGoTo(c, IF web[c].wrote THEN "done" ELSE "asked", web[c])
    /\ UNCHANGED expired

TimerSpeaks(c) ==
    /\ web[c].timer = "asked"
    /\ TimerGoTo(c, "head", [web[c] EXCEPT !.timedOut = TRUE])
    /\ UNCHANGED expired

TimerHeads(c) ==
    /\ web[c].timer = "head"
    /\ TimerGoTo(c, "body", Headed(web[c], "timeout"))
    /\ UNCHANGED expired

TimerWrites(c) ==
    /\ web[c].timer = "body" /\ calls[c].pc # "idle"
    /\ TimerGoTo(c, "done", [web[c] EXCEPT !.body = @ \cup {"timeout"}])
    /\ UNCHANGED expired

\* The handler has returned, and the buffer may be another request's by now.
TimerWritesLate(c) ==
    /\ web[c].timer = "body" /\ calls[c].pc = "idle"
    /\ \E ds \in SUBSET {d \in Callers : calls[d].pc # "idle"} :
         /\ Cardinality(ds) <= 1
         /\ web' = [d \in Callers |-> IF d = c THEN NoResponse
                                     ELSE IF d \in ds THEN [web[d] EXCEPT !.body = @ \cup {"timeout"}] ELSE web[d]]
    /\ UNCHANGED <<expired, manager, calls, down>>

\* Timer and handler set the same header map, or one sets it while the other sends it,
\* unsynchronised: the Go runtime may notice and end the process.
HeadersCollide(c) ==
    /\ web[c].timer = "head"
    /\ \/ calls[c].pc = "answer" /\ ~(calls[c].op = "Delete" /\ calls[c].status = "ok")
       \/ calls[c].pc = "send"
    /\ down' = TRUE
    /\ UNCHANGED <<vars, web>>

HandlerStep(c) ==
    \/ HandlerAsks(c) \/ HandlerClaims(c) \/ HandlerHeads(c) \/ HandlerAsksAgain(c) \/ HandlerWrites(c)
    \/ StepPanics(c)

TimerStep(c) ==
    \/ Deadline(c) \/ TimerAsks(c) \/ TimerSpeaks(c) \/ TimerHeads(c) \/ TimerWrites(c) \/ TimerWritesLate(c)
    \/ HeadersCollide(c)

ManagerStep ==
    /\ \/ \E o \in Objects : RunStep(o)
       \/ \E c \in Callers : CallStep(c)
       \/ \E k \in DOMAIN watches : WatchStep(k)
    /\ UNCHANGED <<web, down>>

Next == ~down /\ (ManagerStep \/ \E c \in Callers : Request(c) \/ HandlerStep(c) \/ TimerStep(c))

Spec == ApiInit /\ [][Next]_apiVars

(* ------------------------------ properties ------------------------------ *)

(* server.go 175: "timeoutWriter suppresses handler writes after a timeout has been
   reported."  A response that says the request timed out never carries what the handler
   wrote, however the two interleave; the other way round they do mix. *)
TimeoutIsClean == \A c \in Callers : web[c].header = "timeout" => "handler" \notin web[c].body
==============================================================================
