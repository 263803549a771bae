---------------------------- MODULE ManagerProofs ----------------------------
(***************************************************************************)
(* Theorems about the manager, its store and the server around it, for any *)
(* clients, requests and bounds: types; responses after a timeout; what a  *)
(* single client can rely on; the map and the row of one simulation; the   *)
(* status its row ends with; and the gauge of active simulations.          *)
(***************************************************************************)
EXTENDS Api, TLAPS

-----------------------------------------------------------------------------
(* Types *)

Answers == {"not found", "bad request", "ok", "conflict", "internal"}

Writing == {"answer", "header", "send", "write", "body"}

Settled == {"idle"} \cup Writing

Pcs == Settled \cup {"begin", "insert", "publish", "status", "step", "paused", "stop", "unmap",
                     "remove", "save", "build", "swap", "start"}

CallRecs == [op : AllOps \cup {""}, pc : Pcs, obj : Nat \cup {None},
             status : Statuses \cup Answers \cup {""}]

States == {"Idle", "Running", "Paused", "Completed", "Failed", "Stopped"}

ObjRecs == [state : States, runs : Nat, live : SUBSET Nat]

\* What a call may be, with n objects.
CallOK(call, n) ==
    /\ call \in CallRecs
    /\ call.obj \in 1 .. n \cup {None}
    /\ call.pc \in {"answer", "header", "send"} => call.status \in Answers
    /\ call.pc = "status" => call.status \in Statuses
    /\ call.pc \in Settled => call.obj = None
    /\ call.pc \notin Settled /\ call.obj = None => call.op = "Create" /\ call.pc = "begin"

CallsOK ==
    /\ setup \in Setups
    /\ objects \in Seq(ObjRecs)
    /\ current \in 1 .. Len(objects) \cup {None}
    /\ calls \in [Callers -> CallRecs]
    /\ \A c \in Callers : CallOK(calls[c], Len(objects)) /\ (calls[c].pc # "idle" => c \in setup.callers)

\* What statusOf returns for each state.
LEMMA StatusFacts ==
    /\ StatusOf("Idle") = "created" /\ StatusOf("Running") = "running" /\ StatusOf("Paused") = "paused"
    /\ StatusOf("Completed") = "completed" /\ StatusOf("Failed") = "failed" /\ StatusOf("Stopped") = "stopped"
    /\ \A s \in States : StatusOf(s) \in Statuses
<1>1. StatusOf("Idle") = "created" /\ StatusOf("Running") = "running" /\ StatusOf("Paused") = "paused"
    /\ StatusOf("Completed") = "completed" /\ StatusOf("Failed") = "failed" /\ StatusOf("Stopped") = "stopped"
  BY Zenon DEF StatusOf
<1> QED BY <1>1, Zenon DEF States, Statuses

\* The returns of a method.
LEMMA AnsweredOK ==
    ASSUME NEW op \in AllOps \cup {""}, NEW a \in Answers, NEW n \in Nat
    PROVE  CallOK(Answered(op, a), n) /\ Answered(op, a).pc \in {"idle", "answer"} /\ Answered(op, a).obj = None
           /\ Answered(op, a) \in CallRecs
BY ManagerAssumption, Zenon DEF Answered, Idle, CallOK, CallRecs, Pcs, Settled, Writing, Answers,
   Statuses

\* An object is replaced.
LEMMA ObjectReplaced ==
    ASSUME objects \in Seq(ObjRecs), NEW o \in 1 .. Len(objects), NEW new \in ObjRecs,
           objects' = [objects EXCEPT ![o] = new]
    PROVE  /\ objects' \in Seq(ObjRecs) /\ Len(objects') = Len(objects)
           /\ \A i \in 1 .. Len(objects) : objects'[i] = IF i = o THEN new ELSE objects[i]
<1>1. Len(objects) \in Nat /\ objects \in [1 .. Len(objects) -> ObjRecs]
  OBVIOUS
<1>2. objects' \in [1 .. Len(objects) -> ObjRecs]
  BY <1>1, Zenon
<1> QED BY <1>1, <1>2
\* How a request moves on.
Moves(c) ==
    \/ \E a \in Answers : Return(c, a)
    \/ /\ Obj(c) # None
       /\ \/ \E pc \in Pcs \ (Settled \cup {"status"}) : GoTo(c, pc)
          \/ \E s \in Statuses : calls' = [calls EXCEPT ![c].pc = "status", ![c].status = s]

\* A request builds an object, changes the state of its object, or leaves all alone.
Touches(c) ==
    \/ UNCHANGED objects /\ Moves(c)
    \/ \E new \in ObjRecs : /\ Obj(c) # None /\ objects' = [objects EXCEPT ![Obj(c)] = new]
                            /\ Moves(c)
    \/ /\ objects' = Append(objects, NewObject)
       /\ \E pc \in {"insert", "swap"} :
             calls' = [calls EXCEPT ![c].pc = pc, ![c].obj = Len(objects) + 1]

\* A step of a request leaves the setup, the other requests and the responses alone.
LEMMA CallTouches ==
    ASSUME CallsOK, NEW c \in Callers, CallStep(c)
    PROVE  Touches(c) /\ calls[c].pc \notin Settled /\ UNCHANGED context
<1>0. /\ CallOK(calls[c], Len(objects)) /\ calls[c] \in CallRecs /\ setup \in Setups
      /\ \A o \in 1 .. Len(objects) : objects[o] \in ObjRecs
  BY DEF CallsOK
<1>1. ASSUME calls[c].pc \notin Settled, calls[c].op # "Create" \/ calls[c].pc # "begin"
      PROVE  Obj(c) \in 1 .. Len(objects) /\ Obj(c) # None /\ objects[Obj(c)] \in ObjRecs
  BY <1>0, <1>1, Zenon DEF CallOK, Obj
<1>2. CASE CreateBuilds(c) \/ ReplayBuilds(c)
  BY <1>2, Zenon DEF CreateBuilds, ReplayBuilds, Instantiate, At, Touches, Moves, Settled,
     Writing, Answers, context
<1>3. CASE CreateInserts(c) \/ CreatePublishes(c)
  BY <1>1, <1>3, Zenon DEF CreateInserts, CreatePublishes, At, Touches, Moves, Pcs, Settled,
     Writing, Answers, context
<1>4. CASE StartBegins(c) \/ ReplayStarts(c)
  <2>1. Obj(c) # None /\ objects[Obj(c)] \in ObjRecs /\ calls[c].pc \notin Settled
    BY <1>1, <1>4, Zenon DEF StartBegins, ReplayStarts, At, Settled, Writing
  <2>2. Begun(Obj(c)) \in ObjRecs
    BY <2>1 DEF Begun, ObjRecs, States
  <2> QED
    BY <1>4, <2>1, <2>2, Zenon DEF StartBegins, ReplayStarts, Touches, Moves, Statuses, Answers,
       context
<1>5. ASSUME NEW op, NEW from, NEW to \in States, Control(c, op, from, to), op # "Create" PROVE Touches(c) /\ calls[c].pc \notin Settled /\ UNCHANGED context
  <2>1. Obj(c) # None /\ objects[Obj(c)] \in ObjRecs /\ calls[c].pc \notin Settled
    BY <1>1, <1>5, Zenon DEF Control, At, Settled, Writing
  <2>2. [objects[Obj(c)] EXCEPT !.state = to] \in ObjRecs
    BY <2>1, Zenon DEF ObjRecs
  <2> QED
    BY <1>5, <2>1, <2>2, StatusFacts, Zenon DEF Control, Touches, Moves, Answers, context
<1>6. CASE StepBegins(c) \/ StepFails(c) \/ StepReads(c)
  <2>1. Obj(c) # None /\ objects[Obj(c)] \in ObjRecs /\ calls[c].pc \notin Settled
    BY <1>1, <1>6, Zenon DEF StepBegins, StepFails, StepReads, At, Settled, Writing
  <2>2. [objects[Obj(c)] EXCEPT !.state = "Failed"] \in ObjRecs /\ objects[Obj(c)].state \in States
    BY <2>1, Zenon DEF ObjRecs, States
  <2> QED
    BY <1>6, <2>1, <2>2, StatusFacts, Zenon
       DEF StepBegins, StepFails, StepReads, Touches, Moves, Pcs, Settled, Writing, Answers, context
<1>7. CASE UpdateStatus(c) \/ SnapshotTakes(c) \/ SnapshotSaves(c) \/ Restores(c)
  <2>1. Obj(c) # None /\ calls[c].pc \notin Settled
    BY <1>1, <1>7, Zenon DEF UpdateStatus, SnapshotTakes, SnapshotSaves, Restores, At, Settled,
       Writing
  <2> QED
    BY <1>7, <2>1, Zenon DEF UpdateStatus, SnapshotTakes, SnapshotSaves, Restores, Touches, Moves,
       Pcs, Settled, Writing, Answers, context
<1>8. CASE DeleteChecksRunning(c) \/ DeleteChecksPaused(c) \/ DeleteUnmaps(c) \/ DeleteRemovesRow(c) \/ ReplaySwaps(c)
  <2>1. Obj(c) # None /\ calls[c].pc \notin Settled
    BY <1>1, <1>8, Zenon DEF DeleteChecksRunning, DeleteChecksPaused, DeleteUnmaps,
       DeleteRemovesRow, ReplaySwaps, At, Settled, Writing
  <2> QED
    BY <1>8, <2>1, Zenon DEF DeleteChecksRunning, DeleteChecksPaused, DeleteUnmaps,
       DeleteRemovesRow, ReplaySwaps, Touches, Moves, Pcs, Settled, Writing, Answers, context
<1>9. CASE DeleteStops(c) \/ ReplayStops(c)
  <2>1. Obj(c) # None /\ objects[Obj(c)] \in ObjRecs /\ calls[c].pc \notin Settled
    BY <1>1, <1>9, Zenon DEF DeleteStops, ReplayStops, At, Settled, Writing
  <2>2. Halted(Obj(c)) \in ObjRecs
    BY <2>1, Zenon DEF Halted, ObjRecs, States
  <2> QED
    BY <1>9, <2>1, <2>2, Zenon DEF DeleteStops, ReplayStops, Touches, Moves, Pcs, Settled,
       Writing, context
<1> QED
  BY <1>2, <1>3, <1>4, <1>5, <1>6, <1>7, <1>8, <1>9, Zenon DEF CallStep, States
\* What is left by a step of the call: a well-formed call, and every other as it was.
Followed(c) ==
    /\ calls' \in [Callers -> CallRecs] /\ \A d \in Callers \ {c} : calls'[d] = calls[d]
    /\ CallOK(calls'[c], Len(objects')) /\ calls'[c].pc \notin {"header", "send", "write", "body"}
    /\ calls'[c].pc \in Writing => setup.timeouts

\* A request that moves on is well formed again, and no other call changes.
LEMMA TouchedOK ==
    ASSUME CallsOK, NEW c \in Callers, Touches(c), calls[c].pc \notin Settled, UNCHANGED context
    PROVE  /\ Followed(c)
           /\ objects' \in Seq(ObjRecs) /\ Len(objects') >= Len(objects)
<1>0. /\ CallOK(calls[c], Len(objects)) /\ calls[c] \in CallRecs /\ calls \in [Callers -> CallRecs]
      /\ objects \in Seq(ObjRecs) /\ Len(objects) \in Nat
  BY DEF CallsOK
<1>1. ASSUME Moves(c), Len(objects') = Len(objects)
      PROVE  Followed(c)
  <2>1. CASE \E a \in Answers : Return(c, a)
    <3>1. PICK a \in Answers : Return(c, a)
      BY <2>1, Zenon
    <3>2. calls[c].op \in AllOps \cup {""}
      BY <1>0, Zenon DEF CallRecs
    <3>3. calls' = [calls EXCEPT ![c] = Answered(calls[c].op, a)]
      BY <3>1, Zenon DEF Return
    <3>4. Answered(calls[c].op, a).pc \in Writing => setup.timeouts
      BY Zenon DEF Answered, Idle, Writing
    <3> QED
      BY <1>0, <1>1, <3>2, <3>3, <3>4, AnsweredOK, Zenon DEF Followed
  <2>2. ASSUME Obj(c) # None, NEW pc \in Pcs \ (Settled \cup {"status"}), GoTo(c, pc)
        PROVE  Followed(c)
    <3>1. PICK new \in CallRecs : calls' = [calls EXCEPT ![c] = new] /\ new = [calls[c] EXCEPT !.pc = pc]
      BY <1>0, <2>2, Zenon DEF GoTo, CallRecs
    <3>2. CallOK(new, Len(objects)) /\ new.pc = pc
      BY <1>0, <2>2, <3>1, Zenon DEF CallOK, CallRecs, Settled, Writing, Obj
    <3> QED
      BY <1>0, <1>1, <2>2, <3>1, <3>2, Zenon DEF Settled, Writing, Followed
  <2>3. ASSUME Obj(c) # None, NEW s \in Statuses,
               calls' = [calls EXCEPT ![c].pc = "status", ![c].status = s]
        PROVE  Followed(c)
    <3>1. PICK new \in CallRecs : calls' = [calls EXCEPT ![c] = new]
                                 /\ new = [calls[c] EXCEPT !.pc = "status", !.status = s]
      BY <1>0, <2>3, Zenon DEF CallRecs, Pcs
    <3>2. CallOK(new, Len(objects)) /\ new.pc = "status"
      BY <1>0, <2>3, <3>1, Zenon DEF CallOK, CallRecs, Settled, Writing, Obj
    <3> QED
      BY <1>0, <1>1, <2>3, <3>1, <3>2, Zenon DEF Writing, Followed
  <2> QED
    BY <1>1, <2>1, <2>2, <2>3, Zenon DEF Moves
<1>2. CASE UNCHANGED objects /\ Moves(c)
  BY <1>0, <1>1, <1>2
<1>3. ASSUME NEW new \in ObjRecs, Obj(c) # None, objects' = [objects EXCEPT ![Obj(c)] = new], Moves(c)
      PROVE  /\ Len(objects') = Len(objects) /\ objects' \in Seq(ObjRecs)
  <2>1. Obj(c) \in 1 .. Len(objects)
    BY <1>0, <1>3, Zenon DEF CallOK, Obj
  <2> QED
    BY <1>0, <1>3, <2>1, ObjectReplaced, Zenon
<1>4. ASSUME objects' = Append(objects, NewObject), NEW pc \in {"insert", "swap"},
             calls' = [calls EXCEPT ![c].pc = pc, ![c].obj = Len(objects) + 1]
      PROVE  /\ Followed(c)
             /\ objects' \in Seq(ObjRecs) /\ Len(objects') >= Len(objects)
  <2>1. NewObject \in ObjRecs
    BY Zenon DEF NewObject, ObjRecs, States
  <2>2. objects' \in Seq(ObjRecs) /\ Len(objects') = Len(objects) + 1
    BY <1>0, <1>4, <2>1
  <2>3. PICK new \in CallRecs : calls' = [calls EXCEPT ![c] = new]
                               /\ new = [calls[c] EXCEPT !.pc = pc, !.obj = Len(objects) + 1]
    <3>1. pc \in Pcs /\ Len(objects) + 1 \in Nat
      BY <1>0 DEF Pcs
    <3>2. [calls[c] EXCEPT !.pc = pc, !.obj = Len(objects) + 1] \in CallRecs
      BY <1>0, <3>1, Zenon DEF CallRecs
    <3> QED
      BY <1>0, <1>4, <3>2, Zenon
  <2>4. Len(objects) + 1 # None /\ Len(objects) + 1 \in 1 .. Len(objects')
    BY <1>0, <2>2, ManagerAssumption
  <2>5. CallOK(new, Len(objects')) /\ new.pc = pc
    <3>1. /\ new.pc = pc /\ new.obj = Len(objects) + 1 /\ new \in CallRecs
          /\ pc \notin Settled /\ pc # "status" /\ pc \notin {"answer", "header", "send"}
      BY <1>0, <2>3, Zenon DEF CallRecs, Settled, Writing
    <3> QED
      BY <2>4, <3>1, Zenon DEF CallOK
  <2> QED
    BY <1>0, <1>4, <2>2, <2>3, <2>5 DEF Writing, Followed
<1>5. CASE \E new \in ObjRecs : /\ Obj(c) # None /\ objects' = [objects EXCEPT ![Obj(c)] = new]
                                /\ Moves(c)
  <2>1. Len(objects') = Len(objects) /\ objects' \in Seq(ObjRecs) /\ Moves(c)
    BY <1>3, <1>5, Zenon
  <2> QED
    BY <1>0, <1>1, <2>1
<1> QED
  BY <1>2, <1>4, <1>5, Zenon DEF Touches
\* A request publishes its own object or removes the entry.
LEMMA CurrentMoves == ASSUME NEW c, CallStep(c) PROVE current' \in {current, None, Obj(c)}
BY Zenon DEF CallStep, CreateBuilds, CreateInserts, CreatePublishes, StartBegins, StepBegins,
   StepFails, StepReads,
       Control, UpdateStatus, SnapshotTakes, SnapshotSaves, Restores, DeleteChecksRunning, DeleteChecksPaused,
       DeleteStops, DeleteUnmaps, DeleteRemovesRow, ReplayStops, ReplayBuilds, ReplaySwaps, ReplayStarts

\* More objects do no harm to a call.
LEMMA CallOKGrows ==
    ASSUME NEW call, NEW n \in Nat, NEW m \in Nat, n <= m, CallOK(call, n)
    PROVE  CallOK(call, m)
<1>1. \A o \in 1 .. n : o \in 1 .. m
  OBVIOUS
<1> QED
  BY <1>1, Zenon DEF CallOK

\* A run changes its object and nothing else.
LEMMA RunOK ==
    ASSUME CallsOK, NEW o \in Objects, RunStep(o)
    PROVE  /\ \E new \in ObjRecs : objects' = [objects EXCEPT ![o] = new]
           /\ objects' \in Seq(ObjRecs) /\ Len(objects') = Len(objects) /\ o \in 1 .. Len(objects)
           /\ UNCHANGED <<setup, expired, current, row, snaps, gauge, calls, watches>>
<1>1. o \in 1 .. Len(objects) /\ objects[o] \in ObjRecs /\ objects \in Seq(ObjRecs)
  BY DEF CallsOK, Objects
<1>2. UNCHANGED <<setup, expired, current, row, snaps, gauge, calls, watches>>
  BY Zenon DEF RunStep, RunSettles, RunEnds, LateHalt, context, rows
<1>3. \E new \in ObjRecs : objects' = [objects EXCEPT ![o] = new]
  <2>1. CASE RunSettles(o)
    <3>1. \A s \in {"Completed", "Failed"} : [objects[o] EXCEPT !.state = s] \in ObjRecs
      BY <1>1, Zenon DEF ObjRecs, States
    <3> QED
      BY <2>1, <3>1, Zenon DEF RunSettles
  <2>2. CASE RunEnds(o)
    <3>1. PICK r \in objects[o].live,
               s \in {"Failed", IF objects[o].state = "Running" THEN "Completed" ELSE objects[o].state} :
             objects' = [objects EXCEPT ![o] = [state |-> s, runs |-> objects[o].runs, live |-> objects[o].live \ {r}]]
      BY <2>2, Zenon DEF RunEnds
    <3>2. [state |-> s, runs |-> objects[o].runs, live |-> objects[o].live \ {r}] \in ObjRecs
      BY <1>1, Zenon DEF ObjRecs, States
    <3> QED
      BY <3>1, <3>2, Zenon
  <2>3. CASE LateHalt(o)
    <3>1. Halted(o) \in ObjRecs
      BY <1>1, Zenon DEF Halted, ObjRecs, States
    <3> QED
      BY <2>3, <3>1, Zenon DEF LateHalt
  <2> QED
    BY <2>1, <2>2, <2>3, Zenon DEF RunStep
<1> QED
  BY <1>1, <1>2, <1>3, ObjectReplaced, Zenon

Webs == [timer : {"off", "armed", "fired", "asked", "head", "body", "done"}, timedOut : BOOLEAN,
         wrote : BOOLEAN, header : {"none", "timeout"} \cup Answers, body : SUBSET {"handler", "timeout"}]

TypeInv ==
    /\ CallsOK
    /\ web \in [Callers -> Webs]
    /\ ~ setup.timeouts => expired = {} /\ \A c \in Callers : web[c].timer = "off" /\ calls[c].pc \notin Writing

\* A step of the manager keeps the types.
LEMMA ManagerTyped == ASSUME TypeInv, ManagerStep PROVE TypeInv' /\ UNCHANGED <<setup, expired, web>>
<1>1. ASSUME NEW o \in Objects, RunStep(o), UNCHANGED <<web, down>> PROVE TypeInv' /\ UNCHANGED <<setup, expired, web>>
  <2>1. CallsOK
    BY Zenon DEF TypeInv
  <2>2. /\ objects' \in Seq(ObjRecs) /\ Len(objects') = Len(objects)
        /\ UNCHANGED <<setup, expired, current, calls, web>>
    BY <1>1, <2>1, RunOK, Zenon
  <2> QED
    BY <2>1, <2>2, Zenon DEF TypeInv, CallsOK
<1>2. ASSUME NEW c \in Callers, CallStep(c), UNCHANGED <<web, down>> PROVE TypeInv' /\ UNCHANGED <<setup, expired, web>>
  <2>1. CallsOK
    BY Zenon DEF TypeInv
  <2>2. Touches(c) /\ calls[c].pc \notin Settled /\ UNCHANGED <<context, setup, expired, web>>
    BY <1>2, <2>1, CallTouches, Zenon DEF context
  <2>3. Followed(c) /\ objects' \in Seq(ObjRecs) /\ Len(objects') >= Len(objects)
    BY <2>1, <2>2, TouchedOK, Zenon
  <2>4. current' \in {current, None, Obj(c)}
    BY <1>2, CurrentMoves, Zenon
  <2>5. CallOK(calls[c], Len(objects)) /\ Len(objects) \in Nat /\ Len(objects') \in Nat /\ c \in setup.callers
    BY <2>1, <2>2, <2>3 DEF CallsOK, Settled
  <2>6. current' \in 1 .. Len(objects') \cup {None}
    BY <2>1, <2>3, <2>4, <2>5 DEF CallsOK, CallOK, Obj
  <2>7. \A d \in Callers : CallOK(calls'[d], Len(objects')) /\ (calls'[d].pc # "idle" => d \in setup.callers)
    BY <2>1, <2>3, <2>5, CallOKGrows, Zenon DEF Followed, CallsOK
  <2>8. CallsOK'
    BY <2>1, <2>2, <2>3, <2>6, <2>7, Zenon DEF CallsOK, Followed
  <2> QED
    BY <2>2, <2>3, <2>8, Zenon DEF TypeInv, Followed
<1>3. ASSUME NEW k, WatchStep(k), UNCHANGED <<web, down>> PROVE TypeInv' /\ UNCHANGED <<setup, expired, web>>
  <2>1. UNCHANGED <<setup, expired, current, objects, calls, web>>
    BY <1>3, Zenon DEF WatchStep, WatchFinds, WatchWaits, WatchReads, WatchWrites, context
  <2> QED
    BY <2>1, Zenon DEF TypeInv, CallsOK
<1> QED
  BY <1>1, <1>2, <1>3, Zenon DEF ManagerStep
\* The first header counts.
LEMMA HeadedWeb ==
    ASSUME NEW w \in Webs, NEW status \in {"timeout"} \cup Answers
    PROVE  /\ Headed(w, status) \in Webs
           /\ Headed(w, status).header = IF w.header = "none" THEN status ELSE w.header
           /\ Headed(w, status).timer = w.timer /\ Headed(w, status).timedOut = w.timedOut
           /\ Headed(w, status).wrote = w.wrote /\ Headed(w, status).body = w.body
BY Zenon DEF Headed, Webs

\* A fresh response is one.
LEMMA NoResponseWeb == NoResponse \in Webs
BY Zenon DEF NoResponse, Webs

\* A request arrives.
LEMMA RequestTyped ==
    ASSUME TypeInv, NEW c \in Callers, Request(c)
    PROVE  /\ TypeInv' /\ UNCHANGED <<setup, expired, current, objects, row, snaps, gauge, watches>>
           /\ calls[c].pc = "idle" /\ calls'[c].pc \in {"idle", "begin", "answer"}
           /\ \A d \in Callers \ {c} : calls'[d] = calls[d] /\ web'[d] = web[d]
           /\ web[c] = NoResponse /\ web'[c] \in Webs /\ web'[c].header = "none"
           /\ web'[c].body = {} /\ web'[c].timer \in {"off", "armed"}
<1>1. /\ UNCHANGED <<setup, expired, current, objects, row, snaps, gauge, watches>> /\ web[c] = NoResponse
      /\ calls[c].pc = "idle" /\ c \in setup.callers
      /\ web' = [web EXCEPT ![c].timer = IF setup.timeouts THEN "armed" ELSE "off"]
  BY Zenon DEF Request, Call, context, rows
<1>11. PICK op \in setup.ops : calls' = [calls EXCEPT ![c] =
          IF op = "Create" THEN [op |-> op, pc |-> "begin", obj |-> None, status |-> ""]
          ELSE IF current = None THEN Answered(op, "not found")
          ELSE [op |-> op, pc |-> "begin", obj |-> current, status |-> ""]]
  BY Zenon DEF Request, Call
<1>12. PICK new :
          new = IF op = "Create" THEN [op |-> op, pc |-> "begin", obj |-> None, status |-> ""]
                ELSE IF current = None THEN Answered(op, "not found")
                ELSE [op |-> op, pc |-> "begin", obj |-> current, status |-> ""]
  BY Zenon
<1>2. calls' = [calls EXCEPT ![c] = new]
  BY <1>11, <1>12, Zenon
<1>3. op \in AllOps /\ current \in 1 .. Len(objects) \cup {None} /\ Len(objects) \in Nat
  BY ManagerAssumption DEF TypeInv, CallsOK
<1>4. new \in CallRecs /\ CallOK(new, Len(objects)) /\ new.pc \in {"idle", "begin", "answer"}
  <2>1. CASE op = "Create" \/ current # None
    <3>1. PICK x \in 1 .. Len(objects) \cup {None} :
             /\ new = [op |-> op, pc |-> "begin", obj |-> x, status |-> ""]
             /\ x = None => op = "Create"
      BY <1>12, <1>3, <2>1, Zenon
    <3>2. x \in Nat \cup {None} /\ "begin" \in Pcs
      BY <1>3 DEF Pcs
    <3>3. new \in CallRecs
      BY <1>3, <3>1, <3>2, Zenon DEF CallRecs
    <3> QED
      BY <3>1, <3>3, Zenon DEF CallOK, Settled, Writing
  <2>2. CASE op # "Create" /\ current = None
    BY <1>12, <1>3, <2>2, AnsweredOK, Zenon DEF Answers
  <2> QED
    BY <2>1, <2>2, Zenon
<1>5. new.pc \in Writing => setup.timeouts
  BY <1>12, Zenon DEF Writing, Answered, Idle
<1>6. web'[c] = [NoResponse EXCEPT !.timer = IF setup.timeouts THEN "armed" ELSE "off"]
      /\ \A d \in Callers \ {c} : web'[d] = web[d]
  BY <1>1, Zenon DEF TypeInv
<1>7. /\ web'[c] \in Webs /\ web'[c].header = "none" /\ web'[c].body = {}
      /\ web'[c].timer = IF setup.timeouts THEN "armed" ELSE "off"
  BY <1>6, Zenon DEF NoResponse, Webs
<1>8. web' \in [Callers -> Webs]
  BY <1>1, <1>6, <1>7, Zenon DEF TypeInv
<1>9. /\ calls' \in [Callers -> CallRecs] /\ calls'[c] = new
      /\ \A d \in Callers \ {c} : calls'[d] = calls[d]
  BY <1>2, <1>4, Zenon DEF TypeInv, CallsOK
<1>10. CallsOK'
  BY <1>1, <1>4, <1>9, Zenon DEF TypeInv, CallsOK
<1> QED
  BY <1>1, <1>4, <1>5, <1>6, <1>7, <1>8, <1>9, <1>10 DEF TypeInv

\* The handler writes its response, or is done with it.
Moved(c, new, w) ==
    /\ new.pc \in Settled \ {"answer"} /\ new.obj = None
    /\ new.pc \in {"header", "send"} => new.status = calls[c].status /\ calls[c].pc \in {"answer", "header"}
    /\ new.pc # "idle" => calls[c].pc \in Writing
    /\ w.timer \in {"off", web[c].timer}

HandlerMoves(c) ==
    \E new \in CallRecs, w \in Webs :
       /\ calls' = [calls EXCEPT ![c] = new] /\ web' = [web EXCEPT ![c] = w]
       /\ Moved(c, new, w)

\* What a step of a handler does.
LEMMA HandlerTyped ==
    ASSUME TypeInv, NEW c \in Callers, HandlerStep(c)
    PROVE  /\ TypeInv' /\ UNCHANGED <<setup, current, objects, row, snaps, gauge, watches>>
           /\ calls[c].pc \in Writing \cup {"step"} /\ calls'[c].pc \in Settled
           /\ \A d \in Callers \ {c} : calls'[d] = calls[d] /\ web'[d] = web[d]
<1>1. UNCHANGED <<setup, current, objects, row, snaps, gauge, watches>> /\ calls[c].pc \in Writing \cup {"step"}
  BY Zenon DEF HandlerStep, HandlerAsks, HandlerClaims, HandlerHeads, HandlerAsksAgain, HandlerWrites, StepPanics,
     At, manager, rows, Writing
<1>2. expired' \subseteq expired
  BY Zenon DEF HandlerStep, HandlerAsks, HandlerClaims, HandlerHeads, HandlerAsksAgain, HandlerWrites, StepPanics,
     HandlerGoTo, Finish
<1>3. /\ web[c] \in Webs /\ CallOK(calls[c], Len(objects)) /\ calls[c] \in CallRecs
      /\ calls \in [Callers -> CallRecs] /\ web \in [Callers -> Webs]
      /\ (calls[c].pc \in Writing => calls[c].obj = None)
      /\ (calls[c].pc \in {"answer", "header", "send"} => calls[c].status \in Answers)
  BY <1>1, Zenon DEF TypeInv, CallsOK, CallOK, Settled
<1>4. ASSUME NEW w \in Webs, Finish(c, w), w.timer = web[c].timer PROVE HandlerMoves(c)
  <2>1. Idle \in CallRecs /\ Idle.pc = "idle" /\ Idle.obj = None
    BY Zenon DEF Idle, CallRecs, Pcs, Settled
  <2>2. PICK h : h = IF w.timer \in {"off", "armed", "done"} THEN NoResponse ELSE Headed(w, "ok")
    BY Zenon
  <2>a. NoResponse \in Webs /\ NoResponse.timer = "off"
    BY NoResponseWeb, Zenon DEF NoResponse
  <2>b. Headed(w, "ok") \in Webs /\ Headed(w, "ok").timer = web[c].timer
    BY <1>4, HeadedWeb, Zenon DEF Answers
  <2>3. h \in Webs /\ h.timer \in {"off", web[c].timer}
    BY <2>2, <2>a, <2>b, Zenon
  <2>4. calls' = [calls EXCEPT ![c] = Idle] /\ web' = [web EXCEPT ![c] = h]
    BY <1>4, <2>2, Zenon DEF Finish
  <2>5. Moved(c, Idle, h)
    BY <2>1, <2>3, Zenon DEF Moved, Settled
  <2> QED
    BY <2>1, <2>3, <2>4, <2>5, Zenon DEF HandlerMoves
<1>5. ASSUME NEW w \in Webs, NEW pc \in {"header", "send", "write", "body"}, HandlerGoTo(c, pc, w),
             w.timer = web[c].timer, calls[c].pc \in Writing,
             pc \in {"header", "send"} => calls[c].pc \in {"answer", "header"}
      PROVE  HandlerMoves(c)
  <2>1. PICK new : new = [calls[c] EXCEPT !.pc = pc]
    BY Zenon
  <2>2. /\ new \in CallRecs /\ new.pc = pc /\ new.obj = None /\ new.status = calls[c].status
        /\ calls' = [calls EXCEPT ![c] = new]
    BY <1>3, <1>5, <2>1, Zenon DEF HandlerGoTo, GoTo, CallRecs, Pcs, Settled, Writing
  <2>3. Moved(c, new, w)
    BY <1>5, <2>2, Zenon DEF Moved, Settled, Writing
  <2> QED
    BY <1>5, <2>2, <2>3, Zenon DEF HandlerGoTo, HandlerMoves
<1>6. HandlerMoves(c)
  <2>1. CASE HandlerAsks(c)
    <3>1. calls[c].pc = "answer" /\ calls[c].pc \in Writing
      BY <2>1, Zenon DEF HandlerAsks, Writing
    <3> QED
      BY <1>3, <1>5, <2>1, <3>1, Zenon DEF HandlerAsks
  <2>a. CASE HandlerClaims(c)
    <3>1. [web[c] EXCEPT !.wrote = TRUE] \in Webs /\ [web[c] EXCEPT !.wrote = TRUE].timer = web[c].timer
      BY <1>3, Zenon DEF Webs
    <3>2. calls[c].pc = "header" /\ calls[c].pc \in Writing
      BY <2>a, Zenon DEF HandlerClaims, Writing
    <3> QED
      BY <1>5, <2>a, <3>1, <3>2, Zenon DEF HandlerClaims
  <2>2. CASE HandlerHeads(c)
    <3>1. calls[c].pc = "send" /\ calls[c].pc \in Writing
      BY <2>2, Zenon DEF HandlerHeads, Writing
    <3>2. Headed(web[c], calls[c].status) \in Webs /\ Headed(web[c], calls[c].status).timer = web[c].timer
      BY <1>3, <3>1, HeadedWeb, Zenon
    <3> QED
      BY <1>5, <2>2, <3>1, <3>2, Zenon DEF HandlerHeads
  <2>3. CASE HandlerAsksAgain(c)
    <3>1. calls[c].pc = "write" /\ calls[c].pc \in Writing
      BY <2>3, Zenon DEF HandlerAsksAgain, Writing
    <3> QED
      BY <1>3, <1>4, <1>5, <2>3, <3>1, Zenon DEF HandlerAsksAgain
  <2>4. CASE HandlerWrites(c)
    <3>1. Headed(web[c], "ok") \in Webs /\ Headed(web[c], "ok").timer = web[c].timer
      BY <1>3, HeadedWeb, Zenon DEF Answers
    <3>2. PICK w : w = [Headed(web[c], "ok") EXCEPT !.wrote = TRUE, !.body = @ \cup {"handler"}]
      BY Zenon
    <3>3. w \in Webs /\ w.timer = web[c].timer
      BY <3>1, <3>2, Zenon DEF Webs
    <3> QED
      BY <1>4, <2>4, <3>2, <3>3, Zenon DEF HandlerWrites
  <2>5. CASE StepPanics(c)
    <3>1. Headed(web[c], "internal") \in Webs /\ Headed(web[c], "internal").timer = web[c].timer
      BY <1>3, HeadedWeb, Zenon DEF Answers
    <3> QED
      BY <1>4, <2>5, <3>1, Zenon DEF StepPanics
  <2> QED
    BY <2>1, <2>2, <2>3, <2>4, <2>5, <2>a, Zenon DEF HandlerStep
<1>7. PICK new \in CallRecs, w \in Webs :
         /\ calls' = [calls EXCEPT ![c] = new] /\ web' = [web EXCEPT ![c] = w]
         /\ Moved(c, new, w)
  BY <1>6, Zenon DEF HandlerMoves
<1>8. CallOK(new, Len(objects)) /\ new.pc \in Settled
  BY <1>3, <1>7, Zenon DEF CallOK, Moved, Settled, Writing
<1>9. /\ calls' \in [Callers -> CallRecs] /\ web' \in [Callers -> Webs] /\ calls'[c] = new
      /\ \A d \in Callers \ {c} : calls'[d] = calls[d] /\ web'[d] = web[d]
  BY <1>3, <1>7, Zenon
<1>10. c \in setup.callers
  BY <1>1, Zenon DEF TypeInv, CallsOK, Writing
<1>11. CallsOK'
  BY <1>1, <1>8, <1>9, <1>10, Zenon DEF TypeInv, CallsOK
<1>12. ASSUME ~ setup.timeouts
       PROVE  expired' = {} /\ \A d \in Callers : web'[d].timer = "off" /\ calls'[d].pc \notin Writing
  <2>1. new.pc = "idle" /\ web'[c].timer = "off"
    BY <1>3, <1>7, <1>9, <1>12, Zenon DEF TypeInv, Moved
  <2> QED
    BY <1>2, <1>9, <1>12, <2>1, Zenon DEF TypeInv, Writing
<1> QED
  BY <1>1, <1>8, <1>9, <1>11, <1>12, Zenon DEF TypeInv
\* The timer changes responses only, and the context of its request.
LEMMA TimerTyped ==
    ASSUME TypeInv, NEW c \in Callers, TimerStep(c)
    PROVE  /\ TypeInv' /\ UNCHANGED <<setup, current, objects, row, snaps, gauge, calls, watches>>
           /\ setup.timeouts
<1>1. UNCHANGED <<setup, current, objects, row, snaps, gauge, calls, watches>>
  BY Zenon DEF TimerStep, Deadline, TimerAsks, TimerSpeaks, TimerHeads, TimerWrites,
     TimerWritesLate,
         HeadersCollide, TimerGoTo, manager, rows, vars, context
<1>2. web[c].timer # "off"
  BY Zenon DEF TimerStep, Deadline, TimerAsks, TimerSpeaks, TimerHeads, TimerWrites,
     TimerWritesLate, HeadersCollide
<1>3. setup.timeouts /\ web \in [Callers -> Webs] /\ web[c] \in Webs
  BY <1>2, Zenon DEF TypeInv
<1>4. ASSUME NEW pc \in {"fired", "asked", "head", "body", "done"}, NEW w \in Webs, TimerGoTo(c, pc, w)
      PROVE  web' \in [Callers -> Webs]
  <2>1. [w EXCEPT !.timer = pc] \in Webs
    BY Zenon DEF Webs
  <2> QED
    BY <1>3, <1>4, <2>1, NoResponseWeb, Zenon DEF TimerGoTo
<1>5. web' \in [Callers -> Webs]
  <2>1. CASE Deadline(c)
    BY <1>3, <1>4, <2>1, Zenon DEF Deadline
  <2>2. CASE TimerAsks(c)
    BY <1>3, <1>4, <2>2, Zenon DEF TimerAsks
  <2>3. CASE TimerSpeaks(c)
    <3>1. [web[c] EXCEPT !.timedOut = TRUE] \in Webs
      BY <1>3, Zenon DEF Webs
    <3> QED
      BY <1>4, <2>3, <3>1, Zenon DEF TimerSpeaks
  <2>4. CASE TimerHeads(c)
    BY <1>3, <1>4, <2>4, HeadedWeb, Zenon DEF TimerHeads
  <2>5. CASE TimerWrites(c)
    <3>1. [web[c] EXCEPT !.body = @ \cup {"timeout"}] \in Webs
      BY <1>3, Zenon DEF Webs
    <3> QED
      BY <1>4, <2>5, <3>1, Zenon DEF TimerWrites
  <2>6. CASE TimerWritesLate(c)
    <3>1. \A d \in Callers : [web[d] EXCEPT !.body = @ \cup {"timeout"}] \in Webs
      BY <1>3, Zenon DEF Webs
    <3> QED
      BY <1>3, <2>6, <3>1, NoResponseWeb DEF TimerWritesLate
  <2>7. CASE HeadersCollide(c)
    BY <1>3, <2>7, Zenon DEF HeadersCollide
  <2> QED
    BY <2>1, <2>2, <2>3, <2>4, <2>5, <2>6, <2>7, Zenon DEF TimerStep
<1> QED
  BY <1>1, <1>3, <1>5, Zenon DEF TypeInv, CallsOK

\* Every step keeps the types.
LEMMA NextTypeInv == TypeInv /\ [Next]_apiVars => TypeInv'
<1> SUFFICES ASSUME TypeInv, [Next]_apiVars PROVE TypeInv'
  BY Zenon
<1>1. CASE UNCHANGED apiVars
  BY <1>1, Zenon DEF apiVars, vars, context, TypeInv, CallsOK
<1>2. CASE ManagerStep
  BY <1>2, ManagerTyped, Zenon
<1>3. ASSUME NEW c \in Callers, Request(c) \/ HandlerStep(c) \/ TimerStep(c) PROVE TypeInv'
  BY <1>3, RequestTyped, HandlerTyped, TimerTyped, Zenon
<1> QED
  BY <1>1, <1>2, <1>3, Zenon DEF Next

\* ... and they hold at first.
LEMMA InitTypeInv == ApiInit => TypeInv
<1> SUFFICES ASSUME ApiInit PROVE TypeInv
  BY Zenon
<1>1. Idle \in CallRecs /\ CallOK(Idle, 0) /\ Idle.pc = "idle"
  BY Zenon DEF Idle, CallRecs, CallOK, Pcs, Settled, Writing
<1>2. objects = <<>> /\ Len(objects) = 0 /\ objects \in Seq(ObjRecs)
  BY DEF ApiInit, Init
<1> QED
  BY <1>1, <1>2, NoResponseWeb, Zenon DEF ApiInit, Init, TypeInv, CallsOK, NoResponse, Writing

\* Requests, objects and responses are well formed, for any callers and any setups: a
\* request that works on an object has one, and an answer is one the handlers know.
THEOREM TypeCorrectness == Spec => []TypeInv
BY InitTypeInv, NextTypeInv, PTL DEF Spec

\* A header that does not come from the handler's answer.
Lost == {"none", "timeout"}

\* A call and its response: who speaks for the timer has set timedOut before; a handler
\* that goes on to its body has seen a header of its own, or has lost to the timer.
Clean(call, w) ==
    /\ w.header = "timeout" \/ w.timer \in {"head", "body"} => w.timedOut
    /\ call.pc = "write" /\ ~ w.timedOut => w.header \notin Lost
    /\ call.pc = "body" \/ "handler" \in w.body => w.header \notin Lost

CleanInv == \A c \in Callers : Clean(calls[c], web[c])

\* A response nobody has written to is clean.
LEMMA CleanNoResponse ==
    ASSUME NEW call, call.pc \notin {"write", "body"}, NEW w, w.header = "none", w.body = {}, w.timer \in {"off", "armed"}
    PROVE  Clean(call, w)
BY Zenon DEF Clean

\* The handler.
LEMMA HandlerClean ==
    ASSUME TypeInv, CleanInv, NEW c \in Callers, HandlerStep(c)
    PROVE  Clean(calls'[c], web'[c])
<1>1. /\ web[c] \in Webs /\ calls[c] \in CallRecs /\ Clean(calls[c], web[c])
      /\ calls \in [Callers -> CallRecs] /\ web \in [Callers -> Webs]
      /\ (calls[c].pc \in {"answer", "header", "send"} => calls[c].status \in Answers)
  BY Zenon DEF TypeInv, CallsOK, CallOK, CleanInv
<1>2. ASSUME NEW w \in Webs, Finish(c, w), w.header = "timeout" \/ w.timer \in {"head", "body"} => w.timedOut,
             "handler" \in w.body => w.header \notin Lost
      PROVE  Clean(calls'[c], web'[c])
  <2>1. calls'[c].pc = "idle"
    BY <1>1, <1>2, Zenon DEF Finish, Idle
  <2>2. CASE web'[c] = NoResponse
    BY <2>1, <2>2, CleanNoResponse DEF NoResponse
  <2>3. CASE web'[c] = Headed(w, "ok")
    <3>1. PICK h : h = Headed(w, "ok")
      BY Zenon
    <3>2. /\ h.header = (IF w.header = "none" THEN "ok" ELSE w.header)
          /\ h.timer = w.timer /\ h.timedOut = w.timedOut /\ h.body = w.body
      BY <3>1, HeadedWeb, Zenon DEF Answers
    <3>3. web'[c] = h
      BY <2>3, <3>1, Zenon
    <3> QED
      BY <1>2, <2>1, <3>2, <3>3, Zenon DEF Clean, Lost
  <2> QED
    BY <1>1, <1>2, <2>2, <2>3, Zenon DEF Finish
<1>3. ASSUME NEW pc, NEW w, HandlerGoTo(c, pc, w) PROVE calls'[c].pc = pc /\ web'[c] = w
  BY <1>1, <1>3, Zenon DEF HandlerGoTo, GoTo, CallRecs
<1>4. CASE HandlerAsks(c)
  <2>1. web'[c] = web[c] /\ calls'[c].pc = IF web[c].timedOut THEN "write" ELSE "header"
    BY <1>3, <1>4, Zenon DEF HandlerAsks
  <2> QED
    BY <1>1, <2>1, Zenon DEF Clean
<1>a. CASE HandlerClaims(c)
  <2>1. web'[c] = [web[c] EXCEPT !.wrote = TRUE] /\ calls'[c].pc = "send"
    BY <1>3, <1>a, Zenon DEF HandlerClaims
  <2>2. /\ web'[c].header = web[c].header /\ web'[c].timer = web[c].timer
        /\ web'[c].timedOut = web[c].timedOut /\ web'[c].body = web[c].body
    BY <1>1, <2>1, Zenon DEF Webs
  <2> QED
    BY <1>1, <2>1, <2>2, Zenon DEF Clean
<1>5. CASE HandlerHeads(c)
  <2>3. web'[c] = Headed(web[c], calls[c].status) /\ calls'[c].pc = "write" /\ calls[c].status \in Answers
    BY <1>1, <1>3, <1>5, Zenon DEF HandlerHeads
  <2>4. PICK h : h = Headed(web[c], calls[c].status)
    BY Zenon
  <2>6. /\ h.header = (IF web[c].header = "none" THEN calls[c].status ELSE web[c].header)
        /\ h.timer = web[c].timer /\ h.timedOut = web[c].timedOut /\ h.body = web[c].body /\ web'[c] = h
    BY <1>1, <2>3, <2>4, HeadedWeb, Zenon
  <2>5. calls[c].status \notin Lost
    BY <2>3, Zenon DEF Answers, Lost
  <2> QED
    BY <1>1, <2>3, <2>5, <2>6, Zenon DEF Clean, Lost
<1>6. CASE HandlerAsksAgain(c)
  <2>1. CASE Finish(c, web[c])
    BY <1>1, <1>2, <2>1, Zenon DEF Clean
  <2>2. CASE ~ web[c].timedOut /\ HandlerGoTo(c, "body", web[c])
    <3>1. calls[c].pc = "write" /\ web'[c] = web[c] /\ calls'[c].pc = "body"
      BY <1>3, <1>6, <2>2, Zenon DEF HandlerAsksAgain
    <3> QED
      BY <1>1, <2>2, <3>1, Zenon DEF Clean
  <2> QED
    BY <1>6, <2>1, <2>2, Zenon DEF HandlerAsksAgain
<1>7. CASE HandlerWrites(c)
  <2>1. PICK v \in Webs : v = Headed(web[c], "ok") /\ v.header = web[c].header /\ v.timer = web[c].timer
                          /\ v.timedOut = web[c].timedOut /\ web[c].header \notin Lost
    BY <1>1, <1>7, HeadedWeb, Zenon DEF HandlerWrites, Clean, Lost, Answers
  <2>2. PICK w \in Webs : w = [v EXCEPT !.wrote = TRUE, !.body = @ \cup {"handler"}]
    BY <2>1, Zenon DEF Webs
  <2>3. w.header = v.header /\ w.timer = v.timer /\ w.timedOut = v.timedOut
    BY <2>1, <2>2 DEF Webs
  <2>4. Finish(c, w)
    BY <1>7, <2>1, <2>2, Zenon DEF HandlerWrites
  <2> QED
    BY <1>1, <1>2, <2>1, <2>3, <2>4, Zenon DEF Clean
<1>8. CASE StepPanics(c)
  <2>1. PICK w : w = Headed(web[c], "internal")
    BY Zenon
  <2>2. /\ w \in Webs /\ w.header = (IF web[c].header = "none" THEN "internal" ELSE web[c].header)
        /\ w.timer = web[c].timer /\ w.timedOut = web[c].timedOut /\ w.body = web[c].body
    BY <1>1, <2>1, HeadedWeb, Zenon DEF Answers
  <2>3. Finish(c, w)
    BY <1>8, <2>1, Zenon DEF StepPanics
  <2> QED
    BY <1>1, <1>2, <2>2, <2>3, Zenon DEF Clean, Lost
<1> QED
  BY <1>4, <1>5, <1>6, <1>7, <1>8, <1>a, Zenon DEF HandlerStep

\* The timer.
LEMMA TimerClean ==
    ASSUME TypeInv, CleanInv, NEW c \in Callers, TimerStep(c)
    PROVE  \A d \in Callers : Clean(calls'[d], web'[d])
<1>1. /\ web[c] \in Webs /\ Clean(calls[c], web[c]) /\ web \in [Callers -> Webs]
      /\ \A d \in Callers : Clean(calls[d], web[d]) /\ web[d] \in Webs
      /\ calls' = calls
  BY TimerTyped, Zenon DEF TypeInv, CleanInv
<1>2. ASSUME NEW pc \in {"fired", "asked", "head", "body", "done"}, NEW w \in Webs, TimerGoTo(c, pc, w),
             w.timedOut = web[c].timedOut \/ w.timedOut, pc \in {"head", "body"} => w.timedOut,
             w.header = web[c].header \/ (web[c].header = "none" /\ w.header = "timeout" /\ w.timedOut),
             "handler" \in w.body => "handler" \in web[c].body
      PROVE  \A d \in Callers : Clean(calls'[d], web'[d])
  <2>1. \A d \in Callers \ {c} : web'[d] = web[d]
    BY <1>1, <1>2, Zenon DEF TimerGoTo
  <2>2. CASE pc = "done" /\ calls[c].pc = "idle"
    <3>1. web'[c] = NoResponse
      BY <1>1, <1>2, <2>2, Zenon DEF TimerGoTo
    <3>2. Clean(calls'[c], web'[c])
      BY <1>1, <2>2, <3>1, CleanNoResponse DEF NoResponse
    <3> QED
      BY <1>1, <2>1, <3>2, Zenon
  <2>3. CASE ~ (pc = "done" /\ calls[c].pc = "idle")
    <3>1. web'[c] = [w EXCEPT !.timer = pc]
      BY <1>1, <1>2, <2>3, Zenon DEF TimerGoTo
    <3>2. web'[c].timer = pc /\ web'[c].header = w.header /\ web'[c].timedOut = w.timedOut /\ web'[c].body = w.body
      BY <3>1, Zenon DEF Webs
    <3>3. Clean(calls'[c], web'[c])
      BY <1>1, <1>2, <3>2, Zenon DEF Clean, Lost
    <3> QED
      BY <1>1, <2>1, <3>3
  <2> QED
    BY <2>2, <2>3, Zenon
<1>3. CASE Deadline(c)
  BY <1>1, <1>2, <1>3, Zenon DEF Deadline
<1>4. CASE TimerAsks(c)
  BY <1>1, <1>2, <1>4, Zenon DEF TimerAsks
<1>5. CASE TimerSpeaks(c)
  <2>1. PICK w : w = [web[c] EXCEPT !.timedOut = TRUE]
    BY Zenon
  <2>2. w \in Webs /\ w.timedOut /\ w.header = web[c].header /\ w.body = web[c].body
    BY <1>1, <2>1, Zenon DEF Webs
  <2> QED
    BY <1>2, <1>5, <2>1, <2>2, Zenon DEF TimerSpeaks
<1>6. CASE TimerHeads(c)
  <2>1. PICK w : w = Headed(web[c], "timeout")
    BY Zenon
  <2>2. /\ w \in Webs /\ w.header = (IF web[c].header = "none" THEN "timeout" ELSE web[c].header)
        /\ w.timedOut = web[c].timedOut /\ w.body = web[c].body
    BY <1>1, <2>1, HeadedWeb, Zenon
  <2>3. web[c].timedOut
    BY <1>1, <1>6, Zenon DEF TimerHeads, Clean
  <2> QED
    BY <1>2, <1>6, <2>1, <2>2, <2>3, Zenon DEF TimerHeads
<1>7. CASE TimerWrites(c)
  <2>1. PICK w : w = [web[c] EXCEPT !.body = @ \cup {"timeout"}]
    BY Zenon
  <2>2. /\ w \in Webs /\ w.timedOut = web[c].timedOut /\ w.header = web[c].header
        /\ w.body = web[c].body \cup {"timeout"}
    BY <1>1, <2>1, Zenon DEF Webs
  <2>3. "handler" \in w.body => "handler" \in web[c].body
    BY <2>2, Zenon
  <2> QED
    BY <1>2, <1>7, <2>1, <2>2, <2>3, Zenon DEF TimerWrites
<1>8. CASE TimerWritesLate(c)
  <2>1. ASSUME NEW d \in Callers PROVE Clean(calls'[d], web'[d])
    <3>1. PICK w : w = [web[d] EXCEPT !.body = @ \cup {"timeout"}]
      BY Zenon
    <3>5. /\ w.timedOut = web[d].timedOut /\ w.header = web[d].header /\ w.timer = web[d].timer
          /\ w.body = web[d].body \cup {"timeout"}
      BY <1>1, <3>1, Zenon DEF Webs
    <3>2. Clean(calls[d], w)
      BY <1>1, <3>5, Zenon DEF Clean
    <3>3. d = c => Clean(calls[d], NoResponse)
      BY <1>8, CleanNoResponse DEF NoResponse, TimerWritesLate
    <3>4. web'[d] \in {NoResponse, w, web[d]} /\ (web'[d] = NoResponse => d = c \/ web[d] = NoResponse \/ w = NoResponse)
      BY <1>8, <3>1, Zenon DEF TimerWritesLate
    <3> QED
      BY <1>1, <3>2, <3>3, <3>4, Zenon
  <2> QED
    BY <2>1, Zenon
<1>9. CASE HeadersCollide(c)
  BY <1>1, <1>9, Zenon DEF HeadersCollide
<1> QED
  BY <1>3, <1>4, <1>5, <1>6, <1>7, <1>8, <1>9, Zenon DEF TimerStep

\* Every step keeps responses clean.
LEMMA NextCleanInv == TypeInv /\ CleanInv /\ [Next]_apiVars => CleanInv'
<1> SUFFICES ASSUME TypeInv, CleanInv, [Next]_apiVars PROVE CleanInv'
  BY Zenon
<1>1. CASE UNCHANGED apiVars
  BY <1>1, Zenon DEF apiVars, vars, CleanInv
<1>2. ASSUME NEW c \in Callers, CallStep(c), UNCHANGED <<web, down>> PROVE CleanInv'
  <2>1. Followed(c)
    BY <1>2, CallTouches, TouchedOK, Zenon DEF TypeInv
  <2>2. calls'[c].pc \notin {"write", "body"} /\ (\A d \in Callers \ {c} : calls'[d] = calls[d]) /\ web' = web
    BY <1>2, <2>1, Zenon DEF Followed
  <2>3. Clean(calls'[c], web[c])
    BY <2>2, Zenon DEF CleanInv, Clean
  <2> QED
    BY <2>2, <2>3, Zenon DEF CleanInv
<1>3. ASSUME NEW o \in Objects, RunStep(o), UNCHANGED <<web, down>> PROVE CleanInv'
  BY <1>3, RunOK, Zenon DEF CleanInv, TypeInv
<1>4. ASSUME NEW k, WatchStep(k), UNCHANGED <<web, down>> PROVE CleanInv'
  BY <1>4, Zenon DEF CleanInv, WatchStep, WatchFinds, WatchWaits, WatchReads, WatchWrites
<1>5. ASSUME NEW c \in Callers, Request(c) PROVE CleanInv'
  <2>1. /\ calls'[c].pc \notin {"write", "body"} /\ web'[c].header = "none" /\ web'[c].body = {} /\ web'[c].timer \in {"off", "armed"}
        /\ \A d \in Callers \ {c} : calls'[d] = calls[d] /\ web'[d] = web[d]
    BY <1>5, RequestTyped, Zenon
  <2>2. Clean(calls'[c], web'[c])
    BY <2>1, CleanNoResponse, Zenon
  <2> QED
    BY <2>1, <2>2, Zenon DEF CleanInv
<1>6. ASSUME NEW c \in Callers, HandlerStep(c) PROVE CleanInv'
  BY <1>6, HandlerTyped, HandlerClean, Zenon DEF CleanInv
<1>7. ASSUME NEW c \in Callers, TimerStep(c) PROVE CleanInv'
  BY <1>7, TimerClean, Zenon DEF CleanInv
<1> QED
  BY <1>1, <1>2, <1>3, <1>4, <1>5, <1>6, <1>7, Zenon DEF Next, ManagerStep

\* A response that says the request timed out carries nothing of the handler's, for any
\* number of requests and however timers and handlers interleave: timedOut is set before
\* the timer's header, and the handler asks for it before each write.
THEOREM CleanTimeouts == Spec => []TimeoutIsClean
<1>1. ApiInit => CleanInv
  <2>1. \A c \in Callers : ApiInit => calls[c].pc = "idle" /\ web[c] = NoResponse
    <3>1. Idle.pc = "idle"
      BY Zenon DEF Idle
    <3>2. ApiInit => calls = [c \in Callers |-> Idle] /\ web = [c \in Callers |-> NoResponse]
      BY Zenon DEF ApiInit, Init
    <3> QED
      BY <3>1, <3>2, Zenon
  <2>2. NoResponse.header = "none" /\ NoResponse.body = {} /\ NoResponse.timer = "off"
    BY Zenon DEF NoResponse
  <2> QED
    BY <2>1, <2>2, CleanNoResponse, Zenon DEF CleanInv
<1>2. CleanInv => TimeoutIsClean
  BY Zenon DEF CleanInv, TimeoutIsClean, Clean, Lost
<1> QED
  BY <1>1, <1>2, NextCleanInv, TypeCorrectness, PTL DEF Spec

-----------------------------------------------------------------------------
(* Watch goroutines *)

WatchRecs == [pc : {"lookup", "wait", "read", "write"}, obj : Nat \cup {None}, run : Nat, status : Statuses \cup {""}]

WatchOK(k, n) ==
    /\ k \in WatchRecs
    /\ k.pc # "lookup" => k.obj \in 1 .. n
    /\ k.pc = "write" => k.status \in Statuses

WatchesOK ==
    /\ \A k \in DOMAIN watches : WatchOK(k, Len(objects))
    /\ row \in Statuses \cup {None}

\* What the goroutines are after one has begun, has ended or has gone on.
LEMMA WatchDomains ==
    ASSUME NEW k, NEW next
    PROVE  /\ DOMAIN More(watches, k) = DOMAIN watches \cup {k}
           /\ DOMAIN Less(watches, k) \subseteq DOMAIN watches
           /\ DOMAIN More(Less(watches, k), next) \subseteq DOMAIN watches \cup {next}
<1>1. DOMAIN Less(watches, k) \subseteq DOMAIN watches
  BY Zenon DEF Less
<1> QED
  BY <1>1, Zenon DEF More

\* A goroutine goes on.
LEMMA WatchMoves ==
    ASSUME TypeInv, WatchesOK, NEW k \in DOMAIN watches, WatchStep(k)
    PROVE  /\ WatchesOK' /\ (row' = None <=> row = None)
           /\ UNCHANGED <<setup, expired, current, objects, calls>>
<1>1. UNCHANGED <<setup, expired, current, objects, calls>>
  BY Zenon DEF WatchStep, WatchFinds, WatchWaits, WatchReads, WatchWrites, context
<1>2. WatchOK(k, Len(objects)) /\ k \in WatchRecs /\ Len(objects) \in Nat
  BY DEF WatchesOK, WatchOK, TypeInv, CallsOK
<1>3. ASSUME NEW next, WatchOK(next, Len(objects)), WatchGoTo(k, next) \/ WatchEnds(k)
      PROVE  \A j \in DOMAIN watches' : WatchOK(j, Len(objects'))
  <2>1. DOMAIN watches' \subseteq DOMAIN watches \cup {next}
    BY <1>3, WatchDomains, Zenon DEF WatchGoTo, WatchEnds
  <2> QED
    BY <1>1, <1>3, <2>1, Zenon DEF WatchesOK
<1>4. CASE WatchFinds(k)
  <2>1. row' = row
    BY <1>4, Zenon DEF WatchFinds, rows
  <2>2. CASE current = None
    BY <1>1, <1>2, <1>3, <1>4, <2>1, <2>2, Zenon DEF WatchFinds, WatchesOK
  <2>3. CASE current # None
    <3>1. PICK next : next = [k EXCEPT !.pc = "wait", !.obj = current, !.run = objects[current].runs]
      BY Zenon
    <3>2. current \in 1 .. Len(objects) /\ objects[current] \in ObjRecs
      BY <2>3 DEF TypeInv, CallsOK
    <3>3. WatchOK(next, Len(objects))
      <4>1. current \in Nat /\ objects[current].runs \in Nat
        BY <1>2, <3>2 DEF ObjRecs
      <4>2. next \in WatchRecs /\ next.obj = current /\ next.pc = "wait"
        BY <1>2, <3>1, <4>1, Zenon DEF WatchRecs
      <4> QED
        BY <3>2, <4>2, Zenon DEF WatchOK
    <3>4. WatchGoTo(k, next)
      BY <1>4, <2>3, <3>1, Zenon DEF WatchFinds
    <3> QED
      BY <1>1, <1>3, <2>1, <3>3, <3>4, Zenon DEF WatchesOK
  <2> QED
    BY <2>2, <2>3, Zenon
<1>5. CASE WatchWaits(k)
  <2>1. PICK next : next = [k EXCEPT !.pc = "read"]
    BY Zenon
  <2>2. WatchOK(next, Len(objects))
    BY <1>2, <1>5, <2>1, Zenon DEF WatchWaits, WatchOK, WatchRecs
  <2>3. WatchGoTo(k, next) /\ row' = row
    BY <1>5, <2>1, Zenon DEF WatchWaits, rows
  <2> QED
    BY <1>1, <1>3, <2>2, <2>3, Zenon DEF WatchesOK
<1>6. CASE WatchReads(k)
  <2>1. PICK next : next = [k EXCEPT !.pc = "write", !.status = StatusOf(objects[k.obj].state)]
    BY Zenon
  <2>2. k.obj \in 1 .. Len(objects) /\ objects[k.obj] \in ObjRecs
    BY <1>2, <1>6 DEF WatchReads, WatchOK, TypeInv, CallsOK
  <2>3. StatusOf(objects[k.obj].state) \in Statuses
    BY <2>2, StatusFacts, Zenon DEF ObjRecs
  <2>4. WatchOK(next, Len(objects))
    BY <1>2, <2>1, <2>2, <2>3, Zenon DEF WatchOK, WatchRecs
  <2>5. WatchGoTo(k, next) /\ row' = row
    BY <1>6, <2>1, Zenon DEF WatchReads, rows
  <2> QED
    BY <1>1, <1>3, <2>4, <2>5 DEF WatchesOK
<1>7. CASE WatchWrites(k)
  <2>1. k.status \in Statuses /\ WatchEnds(k) /\ StatusUpdated(k.status)
    BY <1>2, <1>7, Zenon DEF WatchWrites, WatchOK
  <2>2. row' \in Statuses \cup {None} /\ (row' = None <=> row = None)
    BY <2>1, ManagerAssumption, Zenon DEF StatusUpdated, UpdateSimulationStatus, rows, WatchesOK
  <2> QED
    BY <1>1, <1>2, <1>3, <2>1, <2>2, Zenon DEF WatchesOK
<1> QED
  BY <1>1, <1>4, <1>5, <1>6, <1>7, Zenon DEF WatchStep

\* A request leaves a goroutine behind at most, and a row with a status.
LEMMA CallWatches ==
    ASSUME TypeInv, WatchesOK, NEW c \in Callers, CallStep(c)
    PROVE  WatchesOK'
<1>1. CallsOK /\ Len(objects') >= Len(objects) /\ Len(objects) \in Nat /\ Len(objects') \in Nat
  BY CallTouches, TouchedOK DEF TypeInv, CallsOK
<1>2. \A k, n, m : n \in Nat /\ m \in Nat /\ n <= m /\ WatchOK(k, n) => WatchOK(k, m)
  BY DEF WatchOK
<1>3. \A k \in DOMAIN watches : WatchOK(k, Len(objects'))
  BY <1>1, <1>2, Zenon DEF WatchesOK
<1>4. WatchOK(Watch, Len(objects'))
  BY Zenon DEF Watch, WatchOK, WatchRecs
<1>5. DOMAIN watches' \subseteq DOMAIN watches \cup {Watch} /\ row' \in Statuses \cup {None}
  <2>1. CASE UpdateStatus(c)
    <3>1. calls[c].status \in Statuses
      BY <1>1, <2>1, Zenon DEF UpdateStatus, CallsOK, CallOK
    <3>2. row' \in Statuses \cup {None}
      BY <2>1, <3>1, Zenon DEF UpdateStatus, StatusUpdated, UpdateSimulationStatus, rows, WatchesOK
    <3> QED
      BY <2>1, <3>2, WatchDomains, Zenon DEF UpdateStatus
  <2>2. CASE CreateInserts(c) \/ DeleteRemovesRow(c) \/ SnapshotSaves(c)
    BY Zenon, <2>2 DEF CreateInserts, DeleteRemovesRow, SnapshotSaves, CreateSimulation,
       DeleteSimulation, SaveSnapshot, rows,
                Statuses, WatchesOK
  <2>3. CASE ~ (UpdateStatus(c) \/ CreateInserts(c) \/ DeleteRemovesRow(c) \/ SnapshotSaves(c))
    <3>1. UNCHANGED <<rows, watches>>
      BY Zenon, <2>3 DEF CallStep, CreateBuilds, CreatePublishes, StartBegins, StepBegins,
         StepFails, StepReads,
             Control, SnapshotTakes, Restores, DeleteChecksRunning, DeleteChecksPaused,
             DeleteStops, DeleteUnmaps, ReplayStops, ReplayBuilds, ReplaySwaps, ReplayStarts
    <3> QED
      BY <3>1, Zenon DEF rows, WatchesOK
  <2> QED
    BY <2>1, <2>2, <2>3, Zenon
<1> QED
  BY <1>3, <1>4, <1>5, Zenon DEF WatchesOK

\* Every step keeps the goroutines well formed.
LEMMA NextWatches == TypeInv /\ WatchesOK /\ [Next]_apiVars => WatchesOK'
<1> SUFFICES ASSUME TypeInv, WatchesOK, [Next]_apiVars PROVE WatchesOK'
  OBVIOUS
<1>1. CASE UNCHANGED apiVars
  BY <1>1, Zenon DEF apiVars, vars, rows, WatchesOK
<1>2. CASE ManagerStep
  <2>1. ASSUME NEW o \in Objects, RunStep(o) PROVE WatchesOK'
    BY <2>1, RunOK, Zenon DEF TypeInv, WatchesOK
  <2> QED
    BY <1>2, <2>1, CallWatches, WatchMoves, Zenon DEF ManagerStep
<1>3. ASSUME NEW c \in Callers, Request(c) \/ HandlerStep(c) \/ TimerStep(c) PROVE WatchesOK'
  <2>1. UNCHANGED <<objects, row, watches>>
    BY <1>3, RequestTyped, HandlerTyped, TimerTyped, Zenon
  <2> QED
    BY <2>1, Zenon DEF WatchesOK
<1> QED
  BY <1>1, <1>2, <1>3, Zenon DEF Next

-----------------------------------------------------------------------------
(* Map and row *)

\* What the map says of the row: an entry has a row; a row without an entry belongs to a
\* Create that has yet to publish or a Delete that has yet to remove.
MapAgrees ==
    /\ current # None => row # None
    /\ row # None /\ current = None /\ ~ setup.faults /\ ~ setup.timeouts
         => \E c \in Callers : At(c, "Create", "publish") \/ At(c, "Delete", "remove")

OnlyCurrentActive == \A o \in Objects : Active(o) => o = current

\* The request of a client that has no other.
AloneOK(c) ==
    /\ At(c, "Create", "publish") => current = None /\ row # None
    /\ At(c, "Delete", "remove") => current = None
    /\ calls[c].op # "Create" /\ calls[c].pc \in {"begin", "step", "paused", "stop", "unmap", "build"}
         => Obj(c) = current /\ current # None
    /\ At(c, "Replay", "swap") => current # None
    /\ At(c, "Replay", "start") => Obj(c) = current /\ current # None
    /\ At(c, "Delete", "unmap") \/ At(c, "Replay", "build") \/ At(c, "Replay", "swap")
         => \A o \in Objects : ~ Active(o)

\* With a single client.
Alone == MapAgrees /\ OnlyCurrentActive /\ \A c \in Callers : AloneOK(c)

AloneInv == Sequential => Alone

\* One client has one request.
LEMMA OneCaller ==
    ASSUME TypeInv, Sequential, NEW c \in Callers, c \in setup.callers
    PROVE  \A d \in Callers \ {c} : calls[d].pc = "idle"
BY Zenon DEF TypeInv, CallsOK, Sequential

\* The object that is replaced is active if it is now, and one that is built is not.
LEMMA ActiveReplaced ==
    ASSUME CallsOK, NEW o \in 1 .. Len(objects), NEW new \in ObjRecs, objects' = [objects EXCEPT ![o] = new]
    PROVE  /\ Objects' = Objects
           /\ \A i \in Objects : Active(i)' <=> IF i = o THEN new.state \in {"Running", "Paused"} ELSE Active(i)
<1>1. objects \in Seq(ObjRecs)
  BY Zenon DEF CallsOK
<1>2. /\ objects' \in Seq(ObjRecs) /\ Len(objects') = Len(objects)
      /\ \A i \in 1 .. Len(objects) : objects'[i] = IF i = o THEN new ELSE objects[i]
  BY <1>1, ObjectReplaced, Zenon
<1>3. DOMAIN objects = 1 .. Len(objects) /\ DOMAIN objects' = 1 .. Len(objects)
  BY <1>1, <1>2
<1> QED
  BY <1>2, <1>3, Zenon DEF Active, Objects

\* An object that is built is not active.
LEMMA ActiveAppended ==
    ASSUME CallsOK, objects' = Append(objects, NewObject)
    PROVE  \A i \in Objects' : Active(i)' => i \in Objects /\ Active(i)
<1>1. objects \in Seq(ObjRecs) /\ Len(objects) \in Nat
  BY DEF CallsOK
<1>2. /\ DOMAIN objects = 1 .. Len(objects) /\ DOMAIN objects' = 1 .. (Len(objects) + 1)
      /\ objects'[Len(objects) + 1] = NewObject /\ \A i \in 1 .. Len(objects) : objects'[i] = objects[i]
  BY <1>1 DEF NewObject, ObjRecs, States
<1>3. \A i \in 1 .. (Len(objects) + 1) : i \in 1 .. Len(objects) \/ i = Len(objects) + 1
  BY <1>1
<1>4. NewObject.state \notin {"Running", "Paused"}
  BY Zenon DEF NewObject
<1> QED
  BY <1>2, <1>3, <1>4, Zenon DEF Active, Objects
\* The request is left to write a status, or has built an object.
ToStatus(c, s) == calls' = [calls EXCEPT ![c].pc = "status", ![c].status = s]
Built(c, pc) == calls' = [calls EXCEPT ![c].pc = pc, ![c].obj = Len(objects) + 1]

\* Where a request goes.
LEMMA WhereTo ==
    ASSUME CallsOK, NEW c \in Callers
    PROVE  /\ \A pc : GoTo(c, pc) => calls'[c].pc = pc /\ calls'[c].op = calls[c].op /\ Obj(c)' = Obj(c)
           /\ \A a : Return(c, a) => calls'[c].pc \in {"idle", "answer"} /\ Obj(c)' = None
           /\ \A s : ToStatus(c, s) => /\ calls'[c].pc = "status" /\ calls'[c].op = calls[c].op
                                       /\ Obj(c)' = Obj(c) /\ calls'[c].status = s
           /\ \A pc : Built(c, pc) => /\ calls'[c].pc = pc /\ calls'[c].op = calls[c].op
                                      /\ Obj(c)' = Len(objects) + 1
<1>1. calls \in [Callers -> CallRecs] /\ calls[c] \in CallRecs
  BY Zenon DEF CallsOK
<1>2. \A op, a : Answered(op, a).pc \in {"idle", "answer"} /\ Answered(op, a).obj = None
  BY Zenon DEF Answered, Idle
<1>3. \A a : Return(c, a) => calls'[c].pc \in {"idle", "answer"} /\ Obj(c)' = None
  BY <1>1, <1>2 DEF Return, Obj
<1>4. \A pc : GoTo(c, pc) => calls'[c].pc = pc /\ calls'[c].op = calls[c].op /\ Obj(c)' = Obj(c)
  BY <1>1 DEF GoTo, CallRecs, Obj
<1>5. ASSUME NEW s, ToStatus(c, s)
      PROVE  calls'[c].pc = "status" /\ calls'[c].op = calls[c].op /\ Obj(c)' = Obj(c) /\ calls'[c].status = s
  <2>1. calls'[c] = [calls[c] EXCEPT !.pc = "status", !.status = s]
    BY <1>1, <1>5, Zenon DEF ToStatus
  <2> QED
    BY <1>1, <2>1, Zenon DEF CallRecs, Obj
<1>6. ASSUME NEW pc, Built(c, pc)
      PROVE  calls'[c].pc = pc /\ calls'[c].op = calls[c].op /\ Obj(c)' = Len(objects) + 1
  <2>1. calls'[c] = [calls[c] EXCEPT !.pc = pc, !.obj = Len(objects) + 1]
    BY <1>1, <1>6, Zenon DEF Built
  <2> QED
    BY <1>1, <2>1, Zenon DEF CallRecs, Obj
<1> QED
  BY <1>3, <1>4, <1>5, <1>6

\* A request of the only client keeps the agreement.
LEMMA AloneCall ==
    ASSUME TypeInv, WatchesOK, Sequential, Alone, NEW c \in Callers, CallStep(c)
    PROVE  Alone'
<1>0. CallsOK /\ MapAgrees /\ OnlyCurrentActive /\ AloneOK(c) /\ CallOK(calls[c], Len(objects))
  BY Zenon DEF TypeInv, Alone, CallsOK
<1>1. /\ calls[c].pc \notin Settled /\ setup' = setup /\ expired' = expired
      /\ \A d \in Callers \ {c} : calls'[d] = calls[d]
  BY <1>0, CallTouches, TouchedOK, Zenon DEF context, Followed
<1>2. \A d \in Callers \ {c} : calls[d].pc = "idle" /\ calls'[d].pc = "idle"
  <2>1. c \in setup.callers
    BY <1>0, <1>1, Zenon DEF CallsOK, Settled
  <2> QED
    BY <1>1, <2>1, OneCaller, Zenon
<1>3. ASSUME current' # None => row' # None, OnlyCurrentActive', AloneOK(c)',
             row' # None /\ current' = None /\ ~ setup.faults /\ ~ setup.timeouts
               => At(c, "Create", "publish")' \/ At(c, "Delete", "remove")'
      PROVE  Alone'
  <2>1. \A d \in Callers \ {c} : AloneOK(d)'
    BY <1>2, Zenon DEF AloneOK, At
  <2>2. MapAgrees'
    BY <1>1, <1>3, Zenon DEF MapAgrees
  <2> QED
    BY <1>3, <2>1, <2>2, Zenon DEF Alone
<1>4. row # None /\ current = None /\ ~ setup.faults /\ ~ setup.timeouts
        => At(c, "Create", "publish") \/ At(c, "Delete", "remove")
  BY <1>0, <1>2, Zenon DEF MapAgrees, At
<1>5. ASSUME current' = current, row' = None <=> row = None, OnlyCurrentActive', AloneOK(c)',
             ~ At(c, "Create", "publish"), ~ At(c, "Delete", "remove")
      PROVE  Alone'
  BY <1>0, <1>3, <1>4, <1>5, Zenon DEF MapAgrees
<1>6. ASSUME UNCHANGED <<current, objects>> PROVE OnlyCurrentActive'
  BY <1>0, <1>6, Zenon DEF OnlyCurrentActive, Active, Objects
<1>7. calls'[c].pc \in {"idle", "answer", "status", "save", "insert"} => AloneOK(c)'
  BY Zenon DEF AloneOK, At
<1>8. /\ \A pc : GoTo(c, pc) => calls'[c].pc = pc /\ calls'[c].op = calls[c].op /\ Obj(c)' = Obj(c)
      /\ \A a : Return(c, a) => calls'[c].pc \in {"idle", "answer"}
      /\ \A s : ToStatus(c, s) => calls'[c].pc = "status"
      /\ \A pc : Built(c, pc) => calls'[c].pc = pc /\ calls'[c].op = calls[c].op
  BY <1>0, WhereTo, Zenon
<1>9. Obj(c) # None => Obj(c) \in 1 .. Len(objects) /\ objects[Obj(c)] \in ObjRecs
  BY <1>0 DEF CallOK, CallsOK, Obj
<1>10. CASE CreateInserts(c)
  <2>1. UNCHANGED <<current, objects>> /\ At(c, "Create", "insert")
    BY <1>10, Zenon DEF CreateInserts
  <2>2. CASE CreateSimulation /\ GoTo(c, "publish")
    <3>1. row = None /\ row' # None /\ current = None
      BY <1>0, <2>2, ManagerAssumption, Zenon DEF CreateSimulation, MapAgrees, Statuses
    <3>2. calls'[c].pc = "publish" /\ calls'[c].op = "Create"
      BY <1>8, <2>1, <2>2, Zenon DEF At
    <3>3. AloneOK(c)'
      BY <2>1, <3>1, <3>2, Zenon DEF AloneOK, At
    <3> QED
      BY <1>3, <1>6, <2>1, <3>1, <3>2, <3>3, Zenon DEF At
  <2>3. CASE UNCHANGED rows /\ Return(c, "bad request")
    BY <1>5, <1>6, <1>7, <1>8, <2>1, <2>3, Zenon DEF At, rows
  <2>4. CASE Fails(c) /\ CreateSimulation /\ Return(c, "bad request")
    <3>1. row' # None /\ (setup.faults \/ setup.timeouts)
      BY <2>4, ManagerAssumption, Zenon DEF CreateSimulation, Statuses, Fails, TypeInv
    <3> QED
      BY <1>3, <1>6, <1>7, <1>8, <2>1, <2>4, <3>1
  <2> QED
    BY <1>10, <2>2, <2>3, <2>4, Zenon DEF CreateInserts
<1>11. CASE CreatePublishes(c)
  <2>1. /\ current = None /\ row # None /\ current' = Obj(c) /\ UNCHANGED <<row, objects>> /\ Return(c, "ok")
        /\ Obj(c) # None
    BY <1>0, <1>1, <1>11, Zenon DEF CreatePublishes, AloneOK, rows, At, CallOK, Obj
  <2>2. \A o \in Objects : o # None
    BY <1>0, ManagerAssumption DEF CallsOK, Objects
  <2>3. OnlyCurrentActive'
    BY <1>0, <2>1, <2>2, Zenon DEF OnlyCurrentActive, Active, Objects
  <2> QED
    BY <1>3, <1>7, <1>8, <2>1, <2>3, Zenon
<1>12. CASE DeleteUnmaps(c)
  <2>1. /\ \A o \in Objects : ~ Active(o)
        /\ current' = None /\ UNCHANGED <<row, objects>> /\ calls'[c].op = "Delete" /\ calls'[c].pc = "remove"
    BY <1>0, <1>8, <1>12, Zenon DEF DeleteUnmaps, AloneOK, rows, At
  <2>2. OnlyCurrentActive'
    BY <2>1, Zenon DEF OnlyCurrentActive, Active, Objects
  <2>3. AloneOK(c)'
    BY <2>1, Zenon DEF AloneOK, At
  <2> QED
    BY <1>3, <2>1, <2>2, <2>3, Zenon DEF At
<1>13. CASE DeleteRemovesRow(c)
  <2>1. /\ current' = None /\ UNCHANGED <<current, objects>> /\ calls'[c].pc \in {"idle", "answer"}
        /\ row' = None \/ setup.faults \/ setup.timeouts
    BY <1>0, <1>8, <1>13, Zenon DEF DeleteRemovesRow, AloneOK, DeleteSimulation, rows, TypeInv,
       Fails
  <2> QED
    BY <1>3, <1>6, <1>7, <2>1, Zenon
<1>14. CASE ReplaySwaps(c)
  <2>1. /\ current # None /\ row # None /\ \A o \in Objects : ~ Active(o)
        /\ current' = Obj(c) /\ UNCHANGED <<row, objects>> /\ Obj(c) # None /\ Obj(c)' = Obj(c)
        /\ calls'[c].op = "Replay" /\ calls'[c].pc = "start"
    BY <1>0, <1>1, <1>8, <1>14, Zenon DEF ReplaySwaps, AloneOK, MapAgrees, rows, At, CallOK, Obj
  <2>2. OnlyCurrentActive'
    BY <2>1, Zenon DEF OnlyCurrentActive, Active, Objects
  <2>3. AloneOK(c)'
    BY <2>1, Zenon DEF AloneOK, At
  <2> QED
    BY <1>3, <2>1, <2>2, <2>3, Zenon
<1>15. CASE CreateBuilds(c) \/ ReplayBuilds(c)
  <2>1. UNCHANGED <<current, row>> /\ ~ At(c, "Create", "publish") /\ ~ At(c, "Delete", "remove")
    BY <1>15, Zenon DEF CreateBuilds, ReplayBuilds, rows, At
  <2>2. CASE UNCHANGED objects /\ \E a : Return(c, a)
    BY <1>5, <1>6, <1>7, <1>8, <2>1, <2>2, Zenon
  <2>3. CASE objects' = Append(objects, NewObject)
             /\ Built(c, IF calls[c].op = "Create" THEN "insert" ELSE "swap")
    <3>1. \A i \in Objects' : Active(i)' => i \in Objects /\ Active(i)
      BY <1>0, <2>3, ActiveAppended, Zenon
    <3>2. OnlyCurrentActive'
      BY <1>0, <2>1, <3>1, Zenon DEF OnlyCurrentActive
    <3>3. calls'[c].op = calls[c].op /\ calls'[c].pc = IF calls[c].op = "Create" THEN "insert" ELSE "swap"
      BY <1>8, <2>3, Zenon
    <3>4. CASE CreateBuilds(c)
      BY <1>5, <1>7, <2>1, <3>2, <3>3, <3>4, Zenon DEF CreateBuilds, At
    <3>5. CASE ReplayBuilds(c)
      <4>1. calls'[c].op = "Replay" /\ calls'[c].pc = "swap"
        BY <3>3, <3>5, Zenon DEF ReplayBuilds, At
      <4>2. current # None /\ \A o \in Objects : ~ Active(o)
        BY <1>0, <3>5, Zenon DEF ReplayBuilds, AloneOK, At
      <4>3. AloneOK(c)'
        BY <2>1, <3>1, <4>1, <4>2, Zenon DEF AloneOK, At
      <4> QED
        BY <1>5, <2>1, <3>2, <4>3, Zenon
    <3> QED
      BY <1>15, <3>4, <3>5, Zenon
  <2> QED
    BY <1>15, <2>2, <2>3, Zenon DEF CreateBuilds, ReplayBuilds, Instantiate, At, Built
<1>16. ASSUME UNCHANGED <<current, row>>, Obj(c) = current, current # None, ~ At(c, "Create", "publish"),
              ~ At(c, "Delete", "remove"), NEW new \in ObjRecs, objects' = [objects EXCEPT ![Obj(c)] = new]
       PROVE  /\ OnlyCurrentActive'
              /\ new.state \notin {"Running", "Paused"} => \A o \in Objects' : ~ Active(o)'
              /\ AloneOK(c)' => Alone'
  <2>1. /\ Objects' = Objects
        /\ \A i \in Objects : Active(i)' <=> IF i = Obj(c) THEN new.state \in {"Running", "Paused"} ELSE Active(i)
    BY <1>0, <1>9, <1>16, ActiveReplaced, Zenon
  <2>2. OnlyCurrentActive'
    BY <1>0, <1>16, <2>1, Zenon DEF OnlyCurrentActive
  <2>3. ASSUME new.state \notin {"Running", "Paused"} PROVE \A o \in Objects' : ~ Active(o)'
    BY <1>0, <1>16, <2>1, <2>3, Zenon DEF OnlyCurrentActive
  <2> QED
    BY <1>5, <1>16, <2>2, <2>3, Zenon
<1>17. CASE StartBegins(c) \/ ReplayStarts(c)
  <2>1. /\ UNCHANGED <<current, row>> /\ Obj(c) = current /\ current # None
        /\ ~ At(c, "Create", "publish") /\ ~ At(c, "Delete", "remove")
    BY <1>0, <1>17, Zenon DEF StartBegins, ReplayStarts, AloneOK, At, rows
  <2>2. Begun(Obj(c)) \in ObjRecs
    BY <1>9, <2>1 DEF Begun, ObjRecs, States
  <2>3. CASE objects' = [objects EXCEPT ![Obj(c)] = Begun(Obj(c))]
             /\ ToStatus(c, "running")
    BY <1>7, <1>8, <1>16, <2>1, <2>2, <2>3, Zenon
  <2>4. CASE UNCHANGED objects /\ Return(c, "conflict")
    BY <1>5, <1>6, <1>7, <1>8, <2>1, <2>4, Zenon
  <2> QED
    BY <1>17, <2>3, <2>4, Zenon DEF StartBegins, ReplayStarts, ToStatus
<1>18. ASSUME NEW op \in AllOps \ {"Create"}, NEW from, NEW to \in States, Control(c, op, from, to) PROVE Alone'
  <2>1. /\ UNCHANGED <<current, row>> /\ Obj(c) = current /\ current # None
        /\ ~ At(c, "Create", "publish") /\ ~ At(c, "Delete", "remove")
    BY <1>0, <1>18, Zenon DEF Control, AloneOK, At, rows
  <2>2. [objects[Obj(c)] EXCEPT !.state = to] \in ObjRecs
    BY <1>9, <2>1, Zenon DEF ObjRecs
  <2>3. CASE objects' = [objects EXCEPT ![Obj(c)].state = to]
             /\ ToStatus(c, StatusOf(to))
    BY <1>7, <1>8, <1>16, <2>1, <2>2, <2>3, Zenon
  <2>4. CASE UNCHANGED objects /\ Return(c, "conflict")
    BY <1>5, <1>6, <1>7, <1>8, <2>1, <2>4, Zenon
  <2> QED
    BY <1>18, <2>3, <2>4, Zenon DEF Control, ToStatus
<1>19. CASE StepFails(c)
  <2>1. /\ UNCHANGED <<current, row>> /\ Obj(c) = current /\ current # None /\ Return(c, "internal")
        /\ ~ At(c, "Create", "publish") /\ ~ At(c, "Delete", "remove")
    BY <1>0, <1>19, Zenon DEF StepFails, AloneOK, At, rows
  <2>2. [objects[Obj(c)] EXCEPT !.state = "Failed"] \in ObjRecs
    BY <1>9, <2>1, Zenon DEF ObjRecs, States
  <2> QED
    BY <1>7, <1>8, <1>16, <1>19, <2>1, <2>2, Zenon DEF StepFails
<1>20. CASE DeleteStops(c) \/ ReplayStops(c)
  <2>1. /\ UNCHANGED <<current, row>> /\ Obj(c) = current /\ current # None
        /\ ~ At(c, "Create", "publish") /\ ~ At(c, "Delete", "remove")
        /\ calls'[c].op \in {"Delete", "Replay"} /\ calls'[c].pc = (IF calls'[c].op = "Delete" THEN "unmap" ELSE "build")
        /\ Obj(c)' = Obj(c) /\ objects' = [objects EXCEPT ![Obj(c)] = Halted(Obj(c))]
    BY <1>0, <1>8, <1>20, Zenon DEF DeleteStops, ReplayStops, AloneOK, At, rows
  <2>2. Halted(Obj(c)) \in ObjRecs /\ Halted(Obj(c)).state \notin {"Running", "Paused"}
    BY <1>9, <2>1, Zenon DEF Halted, ObjRecs, States, Active
  <2>3. \A o \in Objects' : ~ Active(o)'
    BY <1>16, <2>1, <2>2, Zenon
  <2>4. AloneOK(c)'
    BY <2>1, <2>3, Zenon DEF AloneOK, At
  <2> QED
    BY <1>16, <2>1, <2>2, <2>4, Zenon
<1>21. CASE UpdateStatus(c) \/ SnapshotSaves(c)
  <2>1. calls[c].pc \in {"status", "save"} /\ (calls[c].pc = "status" => calls[c].status \in Statuses)
    BY <1>0, <1>21, Zenon DEF UpdateStatus, SnapshotSaves, At, CallOK
  <2>2. row' = None <=> row = None
    BY <1>21, <2>1, ManagerAssumption, Zenon
       DEF UpdateStatus, SnapshotSaves, StatusUpdated, UpdateSimulationStatus, SaveSnapshot, rows
  <2>3. UNCHANGED <<current, objects>> /\ calls'[c].pc \in {"idle", "answer"}
    BY <1>8, <1>21, Zenon DEF UpdateStatus, SnapshotSaves
  <2> QED
    BY <1>5, <1>6, <1>7, <2>1, <2>2, <2>3, Zenon DEF At
<1>22. CASE StepReads(c) \/ SnapshotTakes(c) \/ Restores(c)
  <2>1. /\ UNCHANGED <<current, objects, row>> /\ calls'[c].pc \in {"idle", "answer", "status", "save"}
        /\ ~ At(c, "Create", "publish") /\ ~ At(c, "Delete", "remove")
    BY <1>8, <1>22, Zenon DEF StepReads, SnapshotTakes, Restores, At, rows, ToStatus
  <2> QED
    BY <1>5, <1>6, <1>7, <2>1, Zenon
<1>23. CASE StepBegins(c) \/ DeleteChecksRunning(c) \/ DeleteChecksPaused(c)
  <2>1. /\ UNCHANGED <<current, objects, row>> /\ Obj(c) = current /\ current # None
        /\ ~ At(c, "Create", "publish") /\ ~ At(c, "Delete", "remove")
        /\ \/ calls'[c].pc \in {"idle", "answer"}
           \/ calls'[c].pc \in {"step", "paused", "stop"} /\ Obj(c)' = Obj(c)
    BY <1>0, <1>8, <1>23, Zenon DEF StepBegins, DeleteChecksRunning, DeleteChecksPaused, AloneOK,
       At, rows
  <2>2. AloneOK(c)'
    BY <2>1, Zenon DEF AloneOK, At
  <2> QED
    BY <1>5, <1>6, <2>1, <2>2, Zenon
<1> QED
  BY <1>10, <1>11, <1>12, <1>13, <1>14, <1>15, <1>17, <1>18, <1>19, <1>20, <1>21, <1>22, <1>23,
     Zenon
     DEF CallStep, AllOps, States

\* What a request that arrives looks like.
Arrival(op, obj) == [op |-> op, pc |-> "begin", obj |-> obj, status |-> ""]

\* A request that arrives has found the simulation, creates one, or is answered at once.
LEMMA Arrives ==
    ASSUME CallsOK, NEW c \in Callers, Call(c)
    PROVE  \/ calls'[c].pc \in {"idle", "answer"}
           \/ /\ calls'[c].pc = "begin" /\ calls'[c].op \in setup.ops
              /\ calls'[c].op = "Create" \/ (calls'[c].obj = current /\ current # None)
<1>1. PICK op \in setup.ops : calls' = [calls EXCEPT ![c] =
         IF op = "Create" THEN Arrival(op, None)
         ELSE IF current = None THEN Answered(op, "not found") ELSE Arrival(op, current)]
  BY Zenon DEF Call, Arrival
<1>2. calls'[c] = IF op = "Create" THEN Arrival(op, None)
                  ELSE IF current = None THEN Answered(op, "not found") ELSE Arrival(op, current)
  BY <1>1, Zenon DEF CallsOK
<1>3. Answered(op, "not found").pc \in {"idle", "answer"}
  BY Zenon DEF Answered, Idle
<1>4. \A obj : Arrival(op, obj).pc = "begin" /\ Arrival(op, obj).op = op /\ Arrival(op, obj).obj = obj
  BY Zenon DEF Arrival
<1>5. CASE op = "Create"
  BY <1>2, <1>4, <1>5, Zenon
<1>6. CASE op # "Create" /\ current = None
  BY <1>2, <1>3, <1>6, Zenon
<1>7. CASE op # "Create" /\ current # None
  BY <1>2, <1>4, <1>7, Zenon
<1> QED
  BY <1>5, <1>6, <1>7, Zenon

\* A new Create has no object yet.
LEMMA CreateArrives ==
    ASSUME CallsOK, NEW c \in Callers, Call(c), calls'[c].op = "Create" PROVE calls'[c].obj = None
<1>1. PICK op \in setup.ops : calls' = [calls EXCEPT ![c] =
         IF op = "Create" THEN Arrival(op, None)
         ELSE IF current = None THEN Answered(op, "not found") ELSE Arrival(op, current)]
  BY Zenon DEF Call, Arrival
<1>2. calls'[c] = IF op = "Create" THEN Arrival(op, None)
                  ELSE IF current = None THEN Answered(op, "not found") ELSE Arrival(op, current)
  BY <1>1, Zenon DEF CallsOK
<1>3. Answered(op, "not found").obj = None
  BY Zenon DEF Answered, Idle
<1>4. \A obj : Arrival(op, obj).op = op /\ Arrival(op, obj).obj = obj
  BY Zenon DEF Arrival
<1> QED
  BY <1>2, <1>3, <1>4, Zenon

\* Every step keeps the invariant of a single client.
LEMMA NextAloneInv == TypeInv /\ WatchesOK /\ AloneInv /\ [Next]_apiVars => AloneInv'
<1> SUFFICES ASSUME TypeInv, WatchesOK, AloneInv, [Next]_apiVars, Sequential' PROVE Alone'
  BY Zenon DEF AloneInv
<1>0. setup' = setup
  <2>1. ASSUME NEW c \in Callers, Request(c) \/ HandlerStep(c) \/ TimerStep(c) PROVE setup' = setup
    BY <2>1, RequestTyped, HandlerTyped, TimerTyped, Zenon
  <2>2. UNCHANGED apiVars => setup' = setup
    BY Zenon DEF apiVars, vars, context
  <2> QED
    BY <2>1, <2>2, ManagerTyped, Zenon DEF Next
<1>1. Sequential /\ Alone /\ CallsOK
  BY <1>0, Zenon DEF Sequential, AloneInv, TypeInv
<1>2. ASSUME UNCHANGED <<current, objects, calls>>, row' = None <=> row = None PROVE Alone'
  <2>1. OnlyCurrentActive' /\ MapAgrees' /\ \A c \in Callers : AloneOK(c)'
    BY <1>0, <1>1, <1>2 DEF Alone, OnlyCurrentActive, MapAgrees, AloneOK, Active, Objects, At, Obj
  <2> QED
    BY <2>1, Zenon DEF Alone
<1>3. CASE UNCHANGED apiVars
  BY <1>2, <1>3, Zenon DEF apiVars, vars, rows
<1>4. ASSUME NEW o \in Objects, RunStep(o) PROVE Alone'
  <2>1. UNCHANGED <<current, row, calls>>
    BY <1>1, <1>4, RunOK, Zenon
  <2>2. \A i \in Objects' : Active(i)' => i \in Objects /\ Active(i)
    <3>1. PICK new \in ObjRecs : objects' = [objects EXCEPT ![o] = new]
      BY <1>1, <1>4, RunOK, Zenon
    <3>2. o \in 1 .. Len(objects) /\ objects \in Seq(ObjRecs) /\ objects[o] \in ObjRecs
      BY <1>1 DEF CallsOK, Objects
    <3>3. objects'[o].state \in {"Completed", "Failed", "Stopped", objects[o].state} /\ objects'[o] = new
      <4>1. objects'[o] = new
        BY <3>1, <3>2
      <4>2. CASE RunSettles(o)
        BY <3>2, <4>1, <4>2 DEF RunSettles, ObjRecs
      <4>3. CASE RunEnds(o)
        BY <3>2, <4>1, <4>3 DEF RunEnds, ObjRecs
      <4>4. CASE LateHalt(o)
        BY <3>2, <4>1, <4>4 DEF LateHalt, Halted, ObjRecs
      <4> QED
        BY <1>4, <4>2, <4>3, <4>4, Zenon DEF RunStep
    <3>4. /\ Objects' = Objects
          /\ \A i \in Objects : Active(i)' <=> IF i = o THEN new.state \in {"Running", "Paused"} ELSE Active(i)
      BY <1>1, <3>1, <3>2, ActiveReplaced, Zenon
    <3> QED
      BY <3>3, <3>4, Zenon DEF Active
  <2>3. OnlyCurrentActive' /\ MapAgrees' /\ \A c \in Callers : AloneOK(c)'
    BY <1>0, <1>1, <2>1, <2>2 DEF Alone, OnlyCurrentActive, MapAgrees, AloneOK, At, Obj
  <2> QED
    BY <2>3, Zenon DEF Alone
<1>5. ASSUME NEW c \in Callers, CallStep(c) PROVE Alone'
  BY <1>1, <1>5, AloneCall, Zenon
<1>6. ASSUME NEW k \in DOMAIN watches, WatchStep(k) PROVE Alone'
  BY <1>2, <1>6, WatchMoves, Zenon
<1>7. ASSUME NEW c \in Callers, Request(c) PROVE Alone'
  <2>1. /\ UNCHANGED <<current, objects, row>> /\ calls[c].pc = "idle"
        /\ \A d \in Callers \ {c} : calls'[d] = calls[d]
    BY <1>7, RequestTyped, Zenon
  <2>2. c \in setup.callers
    BY <1>7, Zenon DEF Request, Call
  <2>3. \A d \in Callers : calls[d].pc = "idle" /\ (d # c => calls'[d].pc = "idle")
    BY <1>1, <2>1, <2>2, OneCaller, Zenon
  <2>4. \/ calls'[c].pc \in {"idle", "answer"}
        \/ calls'[c].pc = "begin" /\ (calls'[c].op = "Create" \/ (Obj(c)' = current /\ current # None))
    BY <1>1, <1>7, Arrives, Zenon DEF Request, Obj
  <2>5. AloneOK(c)'
    BY <2>1, <2>4, Zenon DEF AloneOK, At
  <2>6. \A d \in Callers \ {c} : AloneOK(d)'
    BY <2>3, Zenon DEF AloneOK, At
  <2>7. OnlyCurrentActive'
    BY <1>1, <2>1, Zenon DEF Alone, OnlyCurrentActive, Active, Objects
  <2>8. MapAgrees'
    BY <1>0, <1>1, <2>1, <2>3, Zenon DEF Alone, MapAgrees, At
  <2> QED
    BY <2>5, <2>6, <2>7, <2>8, Zenon DEF Alone
<1>8. ASSUME NEW c \in Callers, HandlerStep(c) PROVE Alone'
  <2>1. /\ UNCHANGED <<current, objects, row>> /\ calls[c].pc \in Writing \cup {"step"} /\ calls'[c].pc \in Settled
        /\ \A d \in Callers \ {c} : calls'[d] = calls[d]
    BY <1>8, HandlerTyped, Zenon
  <2>a. ~ At(c, "Create", "publish") /\ ~ At(c, "Delete", "remove")
    BY <2>1, Zenon DEF At, Writing
  <2>2. AloneOK(c)'
    BY <2>1, Zenon DEF AloneOK, At, Settled, Writing
  <2>3. \A d \in Callers \ {c} : AloneOK(d)'
    BY <1>1, <2>1 DEF Alone, AloneOK, At, Obj, Active, Objects
  <2>4. OnlyCurrentActive'
    BY <1>0, <1>1, <2>1, Zenon DEF Alone, OnlyCurrentActive, Active, Objects
  <2>5. MapAgrees'
    BY <1>0, <1>1, <2>1, <2>a, Zenon DEF Alone, MapAgrees, At
  <2> QED
    BY <2>2, <2>3, <2>4, <2>5, Zenon DEF Alone
<1>9. ASSUME NEW c \in Callers, TimerStep(c) PROVE Alone'
  BY <1>2, <1>9, TimerTyped, Zenon
<1> QED
  BY <1>3, <1>4, <1>5, <1>6, <1>7, <1>8, <1>9, Zenon DEF Next, ManagerStep

\* Row and goroutines are well typed, in any run of the server.
LEMMA WatchTypes == Spec => []WatchesOK
<1>1. ApiInit => WatchesOK
  BY Zenon DEF ApiInit, Init, StoreInit, WatchesOK, NoWatches
<1> QED
  BY <1>1, NextWatches, TypeCorrectness, PTL DEF Spec

\* ... which therefore always holds.
LEMMA AloneAlways == Spec => []AloneInv
<1>1. ApiInit => AloneInv
  <2> SUFFICES ASSUME ApiInit PROVE Alone
    BY Zenon DEF AloneInv
  <2>1. objects = <<>> /\ current = None /\ row = None /\ \A c \in Callers : calls[c] = Idle
    BY Zenon DEF ApiInit, Init, StoreInit
  <2>2. Objects = {}
    BY <2>1 DEF Objects
  <2>3. \A c \in Callers : AloneOK(c)
    <3>1. \A c \in Callers : calls[c].pc = "idle"
      <4>1. Idle.pc = "idle"
        BY Zenon DEF Idle
      <4> QED
        BY <2>1, <4>1, Zenon
    <3> QED
      BY <3>1, Zenon DEF AloneOK, At
  <2> QED
    BY <2>1, <2>2, <2>3, Zenon DEF Alone, MapAgrees, OnlyCurrentActive
<1> QED
  BY <1>1, NextAloneInv, WatchTypes, TypeCorrectness, PTL DEF Spec

\* A client that waits for its requests can reach, and stop, whatever is running.
THEOREM Reachability == Spec => []ActiveIsReachable
<1>1. AloneInv => ActiveIsReachable
  BY Zenon DEF AloneInv, Alone, OnlyCurrentActive, ActiveIsReachable
<1> QED
  BY <1>1, AloneAlways, PTL

(* ------------------------ one object, no replays ------------------------ *)

\* One object is ever built; whoever builds it is alone with it.
SingleObject == "Replay" \notin setup.ops /\ setup.objects = 1
Building(c) == calls[c].op = "Create" /\ calls[c].pc \in {"insert", "publish"}
SingleOK(c) ==
    /\ calls[c].pc \notin Settled => calls[c].op # "Replay"
    /\ Building(c) => current = None /\ \A d \in Callers \ {c} : calls[d].obj = None
    /\ At(c, "Create", "publish") => row # None
    /\ At(c, "Delete", "remove") => current = None

Single == MapAgrees /\ \A c \in Callers : SingleOK(c)
SingleInv == SingleObject => Single

\* While the object is built nobody else has one.
LEMMA BuildsAlone ==
    ASSUME CallsOK, Single, NEW c \in Callers, Building(c), NEW d \in Callers \ {c}
    PROVE  ~ Building(d) /\ ~ At(d, "Delete", "remove")
<1>1. calls[d].obj = None /\ CallOK(calls[d], Len(objects))
  BY DEF Single, SingleOK, CallsOK
<1>2. calls[d].pc \in Settled \/ (calls[d].op = "Create" /\ calls[d].pc = "begin")
  BY <1>1, Zenon DEF CallOK
<1> QED
  BY <1>2, Zenon DEF Building, At, Settled, Writing

\* The steps that are not about the map entry.
LEMMA SingleOther ==
    ASSUME CallsOK, CallsOK', Single, SingleObject, setup' = setup, NEW c \in Callers,
           current' = current, row' = None <=> row = None,
           \A d \in Callers \ {c} : calls'[d] = calls[d],
           calls[c].pc \in {"publish", "remove"} => calls[c].op \notin {"Create", "Delete"},
           \/ calls'[c].pc \in Settled
           \/ /\ calls'[c].pc \notin {"insert", "publish", "remove"}
              /\ calls'[c].op = calls[c].op /\ calls'[c].obj = calls[c].obj /\ calls[c].pc \notin Settled
    PROVE  Single'
<1>1. calls'[c].obj \in {None, calls[c].obj} /\ ~ Building(c)' /\ ~ At(c, "Delete", "remove")'
  BY Zenon DEF CallsOK, CallOK, Building, At, Settled, Writing
<1>2. SingleOK(c)'
  BY <1>1, Zenon DEF Single, SingleOK, At, Building
<1>3. ASSUME NEW d \in Callers \ {c} PROVE SingleOK(d)'
  <2>1. SingleOK(d) /\ calls'[d] = calls[d]
    BY Zenon DEF Single
  <2>2. Building(d)' => \A e \in Callers \ {d} : calls'[e].obj = None
    BY <1>1, <2>1, Zenon DEF SingleOK, Building
  <2> QED
    BY <2>1, <2>2, Zenon DEF SingleOK, Building, At
<1>4. MapAgrees'
  <2>1. CASE row # None /\ current = None /\ ~ setup.faults /\ ~ setup.timeouts
    <3>1. PICK d \in Callers : At(d, "Create", "publish") \/ At(d, "Delete", "remove")
      BY <2>1, Zenon DEF Single, MapAgrees
    <3>2. d # c
      BY <3>1, Zenon DEF At
    <3> QED
      BY <2>1, <3>1, <3>2, Zenon DEF MapAgrees, At
  <2> QED
    BY <2>1, Zenon DEF Single, MapAgrees
<1> QED
  BY <1>2, <1>3, <1>4, Zenon DEF Single

\* A step of a request keeps the invariant of a single object.
LEMMA SingleCall ==
    ASSUME TypeInv, TypeInv', WatchesOK, SingleObject, Single, NEW c \in Callers, CallStep(c)
    PROVE  Single'
<1>0. CallsOK /\ CallsOK' /\ MapAgrees /\ SingleOK(c) /\ CallOK(calls[c], Len(objects))
  BY Zenon DEF TypeInv, Single, CallsOK
<1>1. /\ calls[c].pc \notin Settled /\ setup' = setup /\ calls[c].op # "Replay"
      /\ \A d \in Callers \ {c} : calls'[d] = calls[d]
  BY <1>0, CallTouches, TouchedOK, Zenon DEF context, Followed, SingleOK
<1>20. \A a : Return(c, a) => calls'[c].pc \in Settled
  <2>1. {"idle", "answer"} \subseteq Settled
    BY Zenon DEF Settled, Writing
  <2> QED
    BY <1>0, <2>1, WhereTo, Zenon
<1>2. ASSUME current' = current, row' = None <=> row = None,
             calls[c].pc \in {"publish", "remove"} => calls[c].op \notin {"Create", "Delete"},
             \/ calls'[c].pc \in Settled
             \/ /\ calls'[c].pc \notin {"insert", "publish", "remove"}
                /\ calls'[c].op = calls[c].op /\ calls'[c].obj = calls[c].obj
      PROVE  Single'
  BY <1>0, <1>1, <1>2, SingleOther, Zenon
<1>3. ASSUME NEW pc, GoTo(c, pc), pc \notin {"insert", "publish", "remove"}, current' = current, row' = None <=> row = None,
             calls[c].pc \in {"publish", "remove"} => calls[c].op \notin {"Create", "Delete"}
      PROVE  Single'
  BY <1>0, <1>2, <1>3, WhereTo, Zenon DEF Obj
<1>4. ASSUME NEW a, Return(c, a), current' = current, row' = None <=> row = None,
             calls[c].pc \in {"publish", "remove"} => calls[c].op \notin {"Create", "Delete"}
      PROVE  Single'
  <2>1. calls'[c].pc \in Settled
    BY <1>4, <1>20, Zenon
  <2> QED
    BY <1>2, <1>4, <2>1, Zenon
<1>5. ASSUME NEW s, ToStatus(c, s), current' = current, row' = None <=> row = None,
             calls[c].pc \in {"publish", "remove"} => calls[c].op \notin {"Create", "Delete"}
      PROVE  Single'
  BY <1>0, <1>2, <1>5, WhereTo, Zenon DEF Obj
<1>6. CASE CreateBuilds(c)
  <2>1. At(c, "Create", "begin") /\ current' = current /\ row' = row
    BY <1>6, Zenon DEF CreateBuilds, rows
  <2>2. CASE Return(c, "bad request")
    BY <1>4, <2>1, <2>2, Zenon DEF At
  <2>3. CASE Len(objects) < setup.objects /\ Built(c, "insert")
    <3>1. Len(objects) = 0 /\ Len(objects) \in Nat
      BY <1>0, <2>3 DEF SingleObject, CallsOK
    <3>2. current = None /\ \A d \in Callers : calls[d].obj = None
      BY <1>0, <3>1 DEF CallsOK, CallOK
    <3>3. calls'[c].pc = "insert" /\ calls'[c].op = "Create"
      BY <1>0, <2>1, <2>3, WhereTo, Zenon DEF At
    <3>4. SingleOK(c)'
      BY <1>1, <2>1, <3>2, <3>3, Zenon DEF SingleOK, At, Building
    <3>5. \A d \in Callers \ {c} : ~ Building(d)' /\ ~ At(d, "Delete", "remove")' /\ ~ At(d, "Create", "publish")'
      <4>1. \A d \in Callers \ {c} : calls[d].pc \in Settled \/ (calls[d].op = "Create" /\ calls[d].pc = "begin")
        BY <1>0, <3>2, Zenon DEF CallsOK, CallOK
      <4> QED
        BY <1>1, <4>1, Zenon DEF Building, At, Settled, Writing
    <3>6. \A d \in Callers \ {c} : SingleOK(d)'
      BY <1>1, <3>5, Zenon DEF Single, SingleOK
    <3>7. MapAgrees'
      BY <1>1, <2>1, <3>2, <3>5, Zenon DEF Single, MapAgrees, At
    <3> QED
      BY <3>4, <3>6, <3>7, Zenon DEF Single
  <2> QED
    BY <1>6, <2>2, <2>3, Zenon DEF CreateBuilds, Instantiate, Built
<1>7. CASE CreateInserts(c)
  <2>1. At(c, "Create", "insert") /\ current' = current /\ Building(c) /\ current = None
    BY <1>0, <1>7, Zenon DEF CreateInserts, At, Building, SingleOK
  <2>2. \A d \in Callers \ {c} : ~ Building(d)' /\ ~ At(d, "Delete", "remove")' /\ ~ At(d, "Create", "publish")'
    BY <1>0, <1>1, <2>1, BuildsAlone DEF Building, At
  <2>3. CASE CreateSimulation /\ GoTo(c, "publish")
    <3>1. row' # None /\ calls'[c].pc = "publish" /\ calls'[c].op = "Create"
      BY <1>0, <2>1, <2>3, WhereTo, ManagerAssumption, Zenon DEF At, CreateSimulation, Statuses
    <3>2. SingleOK(c)'
      BY <1>0, <1>1, <2>1, <3>1 DEF SingleOK, At, Building
    <3>3. \A d \in Callers \ {c} : SingleOK(d)'
      BY <1>1, <2>2 DEF Single, SingleOK
    <3>4. MapAgrees'
      BY <2>1, <3>1, Zenon DEF MapAgrees, At
    <3> QED
      BY <3>2, <3>3, <3>4 DEF Single
  <2>4. CASE UNCHANGED rows /\ Return(c, "bad request")
    BY <1>4, <2>1, <2>4 DEF At, rows
  <2>5. CASE Fails(c) /\ Return(c, "bad request")
    <3>1. setup.faults \/ setup.timeouts
      BY <2>5, Zenon DEF Fails, TypeInv
    <3>2. calls'[c].pc \in Settled
      BY <2>5, <1>20, Zenon
    <3>3. SingleOK(c)'
      BY <3>2, Zenon DEF SingleOK, At, Building, Settled, Writing
    <3>4. \A d \in Callers \ {c} : SingleOK(d)'
      BY <1>1, <2>2 DEF Single, SingleOK
    <3>5. MapAgrees'
      BY <1>1, <2>1, <3>1, Zenon DEF MapAgrees
    <3> QED
      BY <3>3, <3>4, <3>5 DEF Single
  <2> QED
    BY <1>7, <2>3, <2>4, <2>5, Zenon DEF CreateInserts
<1>8. CASE CreatePublishes(c)
  <2>1. /\ At(c, "Create", "publish") /\ current' = Obj(c) /\ row' = row /\ Building(c) /\ row # None
        /\ calls'[c].pc \in Settled
    BY <1>0, <1>8, <1>20, Zenon DEF CreatePublishes, At, Building, SingleOK, rows
  <2>2. \A d \in Callers \ {c} : ~ Building(d)' /\ ~ At(d, "Delete", "remove")' /\ ~ At(d, "Create", "publish")'
    BY <1>0, <1>1, <2>1, BuildsAlone, Zenon DEF Building, At
  <2>3. current' # None
    BY <1>0, <1>1, <2>1, Zenon DEF CallOK, Obj, At
  <2>4. SingleOK(c)'
    BY <2>1 DEF SingleOK, At, Building, Settled, Writing
  <2>5. \A d \in Callers \ {c} : SingleOK(d)'
    BY <1>1, <2>2 DEF Single, SingleOK
  <2> QED
    BY <2>1, <2>3, <2>4, <2>5, Zenon DEF Single, MapAgrees
<1>9. CASE DeleteUnmaps(c)
  <2>1. At(c, "Delete", "unmap") /\ current' = None /\ row' = row /\ calls'[c].pc = "remove" /\ calls'[c].op = "Delete"
    BY <1>0, <1>9, WhereTo, Zenon DEF DeleteUnmaps, At, rows
  <2>2. calls[c].obj # None
    BY <1>0, <1>1, <2>1, Zenon DEF CallOK, At
  <2>3. \A d \in Callers \ {c} : ~ Building(d)' /\ ~ At(d, "Create", "publish")'
    BY <1>1, <2>2, Zenon DEF Single, SingleOK, Building, At
  <2>4. SingleOK(c)'
    BY <2>1, Zenon DEF SingleOK, At, Building
  <2>5. \A d \in Callers \ {c} : SingleOK(d)'
    BY <1>1, <2>1, <2>3, Zenon DEF Single, SingleOK
  <2>6. MapAgrees'
    BY <2>1 DEF MapAgrees, At
  <2> QED
    BY <2>4, <2>5, <2>6 DEF Single
<1>10. CASE DeleteRemovesRow(c)
  <2>1. At(c, "Delete", "remove") /\ current' = None /\ current = None /\ calls'[c].pc \in Settled
    BY <1>0, <1>10, <1>20, Zenon DEF DeleteRemovesRow, SingleOK
  <2>2. calls[c].obj # None
    BY <1>0, <1>1, <2>1 DEF CallOK, At
  <2>3. \A d \in Callers \ {c} : ~ Building(d)' /\ ~ At(d, "Create", "publish")'
    BY <1>1, <2>2 DEF Single, SingleOK, Building, At
  <2>4. SingleOK(c)'
    BY <2>1, Zenon DEF SingleOK, At, Building, Settled, Writing
  <2>5. \A d \in Callers \ {c} : SingleOK(d)'
    BY <1>1, <2>1, <2>3, Zenon DEF Single, SingleOK
  <2>6. row' = None \/ setup.faults \/ setup.timeouts
    BY <1>10, Zenon DEF DeleteRemovesRow, DeleteSimulation, Fails, TypeInv
  <2>7. MapAgrees'
    BY <1>1, <2>1, <2>6, Zenon DEF MapAgrees
  <2> QED
    BY <2>4, <2>5, <2>7 DEF Single
<1>11. CASE StartBegins(c)
  <2>1. ToStatus(c, "running") \/ Return(c, "conflict")
    BY <1>11, Zenon DEF StartBegins, ToStatus
  <2> QED
    BY <1>4, <1>5, <1>11, <2>1, Zenon DEF StartBegins, At, rows
<1>12. ASSUME NEW op, NEW from, NEW to, Control(c, op, from, to) PROVE Single'
  <2>1. ToStatus(c, StatusOf(to)) \/ Return(c, "conflict")
    BY <1>12, Zenon DEF Control, ToStatus
  <2> QED
    BY <1>4, <1>5, <1>12, <2>1, Zenon DEF Control, At, rows
<1>13. CASE StepBegins(c) \/ StepFails(c)
  BY <1>3, <1>4, <1>13, Zenon DEF StepBegins, StepFails, At, rows
<1>14. CASE StepReads(c)
  BY <1>5, <1>14, Zenon DEF StepReads, At, rows, ToStatus
<1>15. CASE UpdateStatus(c)
  <2>1. calls[c].pc = "status" /\ current' = current /\ Return(c, "ok") /\ StatusUpdated(calls[c].status)
    BY <1>15, Zenon DEF UpdateStatus
  <2>2. row' = None <=> row = None
    <3>1. calls[c].status # None
      BY <1>0, <2>1, ManagerAssumption, Zenon DEF CallOK
    <3> QED
      BY <2>1, <3>1, Zenon DEF StatusUpdated, UpdateSimulationStatus, rows
  <2> QED
    BY <1>4, <2>1, <2>2, Zenon
<1>16. CASE SnapshotTakes(c) \/ Restores(c)
  BY <1>3, <1>4, <1>16, Zenon DEF SnapshotTakes, Restores, At, rows
<1>17. CASE SnapshotSaves(c)
  BY <1>4, <1>17, Zenon DEF SnapshotSaves, SaveSnapshot, At, rows
<1>18. CASE DeleteChecksRunning(c) \/ DeleteChecksPaused(c) \/ DeleteStops(c)
  BY <1>3, <1>4, <1>18, Zenon DEF DeleteChecksRunning, DeleteChecksPaused, DeleteStops, At, rows
<1>19. CASE ReplayStops(c) \/ ReplayBuilds(c) \/ ReplaySwaps(c) \/ ReplayStarts(c)
  BY <1>1, <1>19, Zenon DEF ReplayStops, ReplayBuilds, ReplaySwaps, ReplayStarts, At
<1> QED
  BY <1>6, <1>7, <1>8, <1>9, <1>10, <1>11, <1>12, <1>13, <1>14, <1>15, <1>16, <1>17, <1>18, <1>19
     DEF CallStep

\* Every step does.
LEMMA NextSingleInv == TypeInv /\ WatchesOK /\ SingleInv /\ [Next]_apiVars => SingleInv'
<1> SUFFICES ASSUME TypeInv, WatchesOK, SingleInv, [Next]_apiVars, SingleObject' PROVE Single'
  BY Zenon DEF SingleInv
<1>0. TypeInv' /\ setup' = setup
  <2>1. ASSUME NEW c \in Callers, Request(c) \/ HandlerStep(c) \/ TimerStep(c) PROVE setup' = setup
    BY <2>1, RequestTyped, HandlerTyped, TimerTyped, Zenon
  <2>2. UNCHANGED apiVars => setup' = setup
    BY Zenon DEF apiVars, vars, context
  <2> QED
    BY <2>1, <2>2, ManagerTyped, NextTypeInv, Zenon DEF Next
<1>1. SingleObject /\ Single /\ CallsOK /\ CallsOK'
  BY <1>0, Zenon DEF SingleObject, SingleInv, TypeInv
<1>2. ASSUME UNCHANGED <<current, calls>>, row' = None <=> row = None PROVE Single'
  <2>1. MapAgrees' /\ \A c \in Callers : SingleOK(c)'
    BY <1>0, <1>1, <1>2, Zenon DEF Single, MapAgrees, SingleOK, Building, At
  <2> QED
    BY <2>1, Zenon DEF Single
<1>3. CASE UNCHANGED apiVars
  BY <1>2, <1>3, Zenon DEF apiVars, vars, rows
<1>4. ASSUME NEW o \in Objects, RunStep(o) PROVE Single'
  BY <1>1, <1>2, <1>4, RunOK, Zenon
<1>5. ASSUME NEW c \in Callers, CallStep(c) PROVE Single'
  BY <1>0, <1>1, <1>5, SingleCall, Zenon
<1>6. ASSUME NEW k \in DOMAIN watches, WatchStep(k) PROVE Single'
  BY <1>2, <1>6, WatchMoves, Zenon
<1>7. ASSUME NEW c \in Callers, Request(c) PROVE Single'
  <2>1. /\ UNCHANGED <<current, row>> /\ calls[c].pc = "idle"
        /\ \A d \in Callers \ {c} : calls'[d] = calls[d]
    BY <1>7, RequestTyped, Zenon
  <2>2. \/ calls'[c].pc \in {"idle", "answer"}
        \/ /\ calls'[c].pc = "begin" /\ calls'[c].op \in setup.ops
           /\ calls'[c].op = "Create" \/ current # None
    BY <1>1, <1>7, Arrives, Zenon DEF Request
  <2>3. SingleOK(c)'
    BY <1>1, <2>2, Zenon DEF SingleOK, SingleObject, Building, At, Settled, Writing
  <2>4. \A d \in Callers \ {c} : SingleOK(d)'
    <3>1. current # None \/ calls'[c].obj = None
      <4>1. CASE calls'[c].pc \in {"idle", "answer"}
        BY <1>1, <4>1, Zenon DEF CallsOK, CallOK, Settled, Writing
      <4>2. CASE calls'[c].op = "Create"
        BY <1>1, <1>7, <4>2, CreateArrives, Zenon DEF Request
      <4> QED
        BY <2>2, <4>1, <4>2, Zenon
    <3> QED
      BY <1>1, <2>1, <3>1 DEF Single, SingleOK, Building, At
  <2>5. MapAgrees'
    <3>1. \A d \in Callers : At(d, "Create", "publish") \/ At(d, "Delete", "remove") => d # c
      BY <2>1, Zenon DEF At
    <3> QED
      BY <1>0, <1>1, <2>1, <3>1, Zenon DEF Single, MapAgrees, At
  <2> QED
    BY <2>3, <2>4, <2>5, Zenon DEF Single
<1>8. ASSUME NEW c \in Callers, HandlerStep(c) PROVE Single'
  <2>1. /\ UNCHANGED <<current, row>> /\ calls[c].pc \in Writing \cup {"step"} /\ calls'[c].pc \in Settled
        /\ \A d \in Callers \ {c} : calls'[d] = calls[d]
    BY <1>8, HandlerTyped, Zenon
  <2>2. calls[c].pc \in {"publish", "remove"} => calls[c].op \notin {"Create", "Delete"}
    BY <2>1, Zenon DEF Writing
  <2> QED
    BY <1>0, <1>1, <2>1, <2>2, SingleOther, Zenon
<1>9. ASSUME NEW c \in Callers, TimerStep(c) PROVE Single'
  BY <1>2, <1>9, TimerTyped, Zenon
<1> QED
  BY <1>3, <1>4, <1>5, <1>6, <1>7, <1>8, <1>9 DEF Next, ManagerStep

\* ... so that it always holds.
LEMMA SingleAlways == Spec => []SingleInv
<1>1. ApiInit => SingleInv
  <2> SUFFICES ASSUME ApiInit PROVE Single
    BY Zenon DEF SingleInv
  <2>1. current = None /\ row = None /\ \A c \in Callers : calls[c] = Idle
    BY Zenon DEF ApiInit, Init, StoreInit
  <2>2. \A c \in Callers : calls[c].pc = "idle"
    <3>1. Idle.pc = "idle"
      BY DEF Idle
    <3> QED
      BY <2>1, <3>1, Zenon
  <2>3. \A c \in Callers : SingleOK(c)
    BY <2>2, Zenon DEF SingleOK, At, Building, Settled
  <2> QED
    BY <2>1, <2>3, Zenon DEF Single, MapAgrees
<1> QED
  BY <1>1, NextSingleInv, WatchTypes, TypeCorrectness, PTL DEF Spec

\* Between requests the map and the database agree on whether the simulation exists.
THEOREM MapAndRow == Spec => []MapMatchesRow
<1>1. AloneInv /\ SingleInv => MapMatchesRow
  <2>1. ASSUME MapAgrees, NoCalls PROVE MapMatchesRow
    <3>1. \A c \in Callers : ~ At(c, "Create", "publish") /\ ~ At(c, "Delete", "remove")
      BY <2>1, Zenon DEF NoCalls, At
    <3> QED
      BY <2>1, <3>1, Zenon DEF MapAgrees, MapMatchesRow
  <2> QED
    BY <2>1, Zenon DEF AloneInv, Alone, SingleInv, Single, SingleObject, MapMatchesRow
<1> QED
  BY <1>1, AloneAlways, SingleAlways, PTL

(* --------------------- the one run of the one object -------------------- *)

\* The setups FinalStatus is about.
Limited ==
    /\ ~ setup.faults /\ setup.ops \subseteq {"Create", "Start", "Stop", "Delete"}
    /\ setup.runs = 1 /\ setup.objects = 1

\* The requests that are about to write a status.
Starters == {c \in Callers : At(c, "Start", "status")}
Stoppers == {c \in Callers : At(c, "Stop", "status")}

Only(k) == [j \in {k} |-> 1]

\* The watch goroutine, on its way to the status of the run that is over.
OnWay(k, o) ==
    \/ k.pc = "lookup"
    \/ k.pc = "wait" /\ k.obj = 1 /\ k.run = 1
    \/ k.pc = "read" /\ k.obj = 1 /\ o.live = {}
    \/ k.pc = "write" /\ o.live = {} /\ k.status = StatusOf(o.state)

\* How far the record of the run has come: Start, the goroutine, its status.
Phase(o, r, ws, starters) ==
    \/ (\E c \in starters : starters = {c}) /\ ws = NoWatches
    \/ starters = {} /\ \E k \in DOMAIN ws : ws = Only(k) /\ OnWay(k, o)
    \/ starters = {} /\ o.live = {} /\ ws = NoWatches /\ r \in {StatusOf(o.state), "stopped"}

\* Before the run, and from its beginning on.
Before(o, r, ws, starters, stoppers) ==
    /\ o.runs = 0 /\ o.state = "Idle" /\ o.live = {} /\ r = "created" /\ ws = NoWatches
    /\ starters = {} /\ stoppers = {}
During(o, r, ws, starters, stoppers, ops) ==
    /\ o.runs = 1 /\ o.state \in {"Running", "Completed", "Failed", "Stopped"} /\ o.live \subseteq {1}
    /\ o.live = {} => o.state # "Running"
    /\ Phase(o, r, ws, starters)
    /\ r = "stopped" => \/ o.state \in {"Stopped", "Failed"} /\ "Stop" \in ops
                        \/ o.state = "Stopped" /\ o.live = {}
    /\ stoppers # {} => o.state \in {"Stopped", "Failed"}

Recorded(o, r, ws, starters, stoppers, ops) ==
    Before(o, r, ws, starters, stoppers) \/ During(o, r, ws, starters, stoppers, ops)

\* The requests that write a status, and the object while it is built.
LimitedCall(c) ==
    /\ calls[c].pc \notin Settled => calls[c].op \in setup.ops
    /\ calls[c].pc = "status" => \/ calls[c].op = "Start" /\ calls[c].status = "running"
                                 \/ calls[c].op = "Stop" /\ calls[c].status = "stopped"
    /\ Building(c) => objects[1] = NewObject /\ watches = NoWatches
    /\ At(c, "Create", "publish") => row = "created"

\* At any time, how far the one run is in its way to the row.
Final ==
    /\ Len(objects) <= 1 /\ (Len(objects) = 0 => watches = NoWatches)
    /\ \A c \in Callers : LimitedCall(c)
    /\ current # None => Recorded(objects[1], row, watches, Starters, Stoppers, setup.ops)

FinalInv == Limited => Final

\* A bag of one goroutine.
LEMMA OneWatch ==
    ASSUME NEW k, NEW n
    PROVE  /\ More(NoWatches, k) = Only(k) /\ Less(Only(k), k) = NoWatches
           /\ DOMAIN Only(k) = {k} /\ DOMAIN NoWatches = {}
           /\ More(Less(Only(k), k), n) = Only(n)
<1>1. DOMAIN Only(k) = {k} /\ Only(k)[k] = 1 /\ DOMAIN NoWatches = {}
  BY Zenon DEF Only, NoWatches
<1>2. Less(Only(k), k) = NoWatches
  <2>1. {i \in DOMAIN Only(k) : i # k \/ Only(k)[i] > 1} = {}
    BY <1>1
  <2> QED
    BY <2>1 DEF Less, NoWatches
<1>3. \A j : More(NoWatches, j) = Only(j)
  BY <1>1 DEF More, Only
<1> QED
  BY <1>1, <1>2, <1>3, Zenon

\* What the record becomes.
LEMMA RecordStarts ==
    ASSUME NEW r, NEW ws, NEW c, NEW P, NEW ops, NEW o, Before(o, r, ws, {}, P)
    PROVE  During([state |-> "Running", runs |-> 1, live |-> {1}], r, ws, {c}, P, ops)
BY Zenon DEF Before, During, Phase

\* Start records the status and leaves a goroutine behind.
LEMMA RecordRunning ==
    ASSUME NEW o, NEW r, NEW ws, NEW S, NEW P, NEW ops, NEW c \in S, Recorded(o, r, ws, S, P, ops)
    PROVE  During(o, "running", More(ws, Watch), S \ {c}, P, ops)
<1>1. During(o, r, ws, S, P, ops) /\ S = {c} /\ ws = NoWatches
  BY Zenon DEF Recorded, Before, During, Phase
<1>2. S \ {c} = {} /\ More(ws, Watch) = Only(Watch)
  BY <1>1, OneWatch, Zenon
<1>3. Watch.pc = "lookup" /\ Watch \in DOMAIN Only(Watch)
  BY OneWatch, Zenon DEF Watch
<1> QED
  BY <1>1, <1>2, <1>3, Zenon DEF During, Phase, OnWay

\* A Stop halts the run, or comes too late.
LEMMA RecordStops ==
    ASSUME NEW o \in ObjRecs, NEW r, NEW ws, NEW S, NEW P, NEW P2, NEW ops, Recorded(o, r, ws, S, P, ops),
           o.state \in {"Running", "Paused"}, P2 # {} => "Stop" \in ops \/ P2 = P
    PROVE  During([o EXCEPT !.state = "Stopped"], r, ws, S, P2, ops)
<1>1. PICK n : n = [o EXCEPT !.state = "Stopped"]
  BY Zenon
<1>2. n.state = "Stopped" /\ n.runs = o.runs /\ n.live = o.live
  BY <1>1, Zenon DEF ObjRecs
<1>3. During(o, r, ws, S, P, ops) /\ o.state = "Running" /\ o.live # {}
  BY Zenon DEF Recorded, Before, During
<1>4. Phase(n, r, ws, S)
  BY <1>2, <1>3, Zenon DEF During, Phase, OnWay
<1>5. r # "stopped"
  BY <1>3, Zenon DEF During
<1> QED
  BY <1>1, <1>2, <1>3, <1>4, <1>5, Zenon DEF During

\* A Stop records itself.
LEMMA RecordStopped ==
    ASSUME NEW o, NEW r, NEW ws, NEW S, NEW P, NEW ops, NEW c \in P, Recorded(o, r, ws, S, P, ops), "Stop" \in ops
    PROVE  During(o, "stopped", ws, S, P \ {c}, ops)
<1>1. During(o, r, ws, S, P, ops) /\ o.state \in {"Stopped", "Failed"}
  BY Zenon DEF Recorded, Before, During
<1>2. Phase(o, "stopped", ws, S)
  BY <1>1, Zenon DEF During, Phase
<1> QED
  BY <1>1, <1>2, Zenon DEF During

\* A run takes its last state.
LEMMA RecordSettles ==
    ASSUME NEW o, NEW r, NEW ws, NEW S, NEW P, NEW ops, NEW n, Recorded(o, r, ws, S, P, ops),
           o.live # {}, n.runs = o.runs,
           n.state \in {"Completed", "Failed", o.state}, n.state = "Completed" => o.state \in {"Running", "Completed"},
           n.live = o.live \/ (n.live = {} /\ n.state # "Running")
    PROVE  During(n, r, ws, S, P, ops)
<1>1. During(o, r, ws, S, P, ops)
  BY Zenon DEF Recorded, Before
<1>2. Phase(n, r, ws, S)
  BY <1>1, Zenon DEF During, Phase, OnWay
<1>3. n.live \subseteq {1} /\ (n.live = {} => n.state # "Running")
  BY <1>1, Zenon DEF During
<1>4. n.state \in {"Running", "Completed", "Failed", "Stopped"} /\ n.runs = 1
  BY <1>1, Zenon DEF During
<1>5. o.state \in {"Stopped", "Failed"} => n.state \in {"Stopped", "Failed"}
  BY Zenon
<1>6. r = "stopped" => o.state \in {"Stopped", "Failed"} /\ "Stop" \in ops
  BY <1>1, Zenon DEF During
<1> QED
  BY <1>1, <1>2, <1>3, <1>4, <1>5, <1>6, Zenon DEF During

\* A run that goes on.
LEMMA FinalRun ==
    ASSUME TypeInv, Limited, Final, NEW o \in Objects, RunStep(o)
    PROVE  Final'
<1>0. CallsOK
  BY Zenon DEF TypeInv
<1>1. /\ o = 1 /\ Len(objects) = 1 /\ Len(objects') = 1 /\ objects[1] \in ObjRecs
      /\ UNCHANGED <<setup, current, row, watches, calls>>
  <2>1. /\ o \in 1 .. Len(objects) /\ Len(objects') = Len(objects) /\ Len(objects) \in Nat
        /\ UNCHANGED <<setup, current, row, watches, calls>>
    BY <1>0, RunOK DEF CallsOK
  <2>2. Len(objects) = 1 /\ o = 1
    <3>1. PICK n \in Nat : n = Len(objects) /\ n <= 1
      BY <2>1, Zenon DEF Final
    <3>2. o \in 1 .. n
      BY <2>1, <3>1, Zenon
    <3>3. n = 1 /\ o = 1
      BY <3>1, <3>2
    <3> QED
      BY <3>1, <3>3, Zenon
  <2>3. objects \in Seq(ObjRecs)
    BY <1>0, Zenon DEF CallsOK
  <2>4. objects[1] \in ObjRecs
    BY <2>2, <2>3
  <2> QED
    BY <2>1, <2>2, <2>4, Zenon
<1>2. DOMAIN objects = {1}
  BY <1>0, <1>1 DEF CallsOK
<1>3. objects[1] # NewObject
  BY <1>1 DEF RunStep, RunSettles, RunEnds, LateHalt, NewObject, Active
<1>4. \A c \in Callers : LimitedCall(c)'
  <2>1. \A c \in Callers : LimitedCall(c) /\ ~ Building(c)
    BY <1>3, Zenon DEF Final, LimitedCall
  <2> QED
    BY <1>1, <2>1, Zenon DEF LimitedCall, Building, At
<1>5. Starters' = Starters /\ Stoppers' = Stoppers
  BY <1>1, Zenon DEF Starters, Stoppers, At
<1>6. ASSUME current # None
      PROVE  Recorded(objects'[1], row, watches, Starters, Stoppers, setup.ops)
  <2>1. Recorded(objects[1], row, watches, Starters, Stoppers, setup.ops)
    BY <1>6, Zenon DEF Final
  <2>2. CASE RunSettles(1)
    <3>1. PICK s \in {"Completed", "Failed"} : /\ s = "Completed" => objects[1].state = "Running"
                                               /\ objects' = [objects EXCEPT ![1].state = s]
      BY <2>2, Zenon DEF RunSettles
    <3>2. PICK n : n = [objects[1] EXCEPT !.state = s]
      BY Zenon
    <3>3. objects'[1] = n /\ n.state = s /\ n.runs = objects[1].runs /\ n.live = objects[1].live /\ objects[1].live # {}
      BY <1>1, <1>2, <2>2, <3>1, <3>2, Zenon DEF ObjRecs, RunSettles
    <3>4. During(n, row, watches, Starters, Stoppers, setup.ops)
      BY <2>1, <3>1, <3>3, RecordSettles, Zenon
    <3> QED
      BY <3>3, <3>4, Zenon DEF Recorded
  <2>3. CASE RunEnds(1)
    <3>1. PICK r \in objects[1].live, s \in {"Failed", IF objects[1].state = "Running" THEN "Completed" ELSE objects[1].state} :
             objects' = [objects EXCEPT ![1] = [state |-> s, runs |-> objects[1].runs, live |-> objects[1].live \ {r}]]
      BY <2>3, Zenon DEF RunEnds
    <3>2. PICK n : n = [state |-> s, runs |-> objects[1].runs, live |-> objects[1].live \ {r}]
      BY Zenon
    <3>3. objects'[1] = n /\ n.state = s /\ n.runs = objects[1].runs /\ n.live = objects[1].live \ {r}
      BY <1>2, <3>1, <3>2, Zenon
    <3>4. objects[1].live = {1}
      BY <2>1, <3>1, Zenon DEF Recorded, Before, During
    <3>5. n.live = {} /\ n.state # "Running"
      BY <3>1, <3>3, <3>4, Zenon
    <3>6. During(n, row, watches, Starters, Stoppers, setup.ops)
      <4>1. n.state \in {"Completed", "Failed", objects[1].state}
        BY <3>3, Zenon
      <4>2. n.state = "Completed" => objects[1].state \in {"Running", "Completed"}
        BY <3>3, Zenon
      <4> QED
        BY <2>1, <3>3, <3>4, <3>5, <4>1, <4>2, RecordSettles
    <3> QED
      BY <3>3, <3>6, Zenon DEF Recorded
  <2>4. CASE LateHalt(1)
    <3>1. /\ objects[1].state \in {"Running", "Paused"}
          /\ objects[1].runs > 1 \/ (objects[1].runs = 1 /\ objects[1].live = {})
      BY <2>4, Zenon DEF LateHalt, Active
    <3>2. objects[1].state = "Running" /\ objects[1].runs = 1 /\ objects[1].live # {}
      BY <2>1, <3>1, Zenon DEF Recorded, Before, During
    <3> QED
      BY <3>1, <3>2
  <2> QED
    BY <1>1, <2>2, <2>3, <2>4, Zenon DEF RunStep
<1> QED
  BY <1>1, <1>4, <1>5, <1>6, Zenon DEF Final

\* The watch goroutine goes on: the state is final when it is read.
LEMMA FinalWatch ==
    ASSUME TypeInv, WatchesOK, SingleInv, Limited, Final, NEW k \in DOMAIN watches, WatchStep(k)
    PROVE  Final'
<1>0. CallsOK /\ MapAgrees
  BY Zenon DEF TypeInv, SingleInv, Limited, SingleObject, Single
<1>1. UNCHANGED <<setup, current, objects, calls>>
  BY WatchMoves, Zenon
<1>2. watches # NoWatches /\ Len(objects) = 1
  <2>1. watches # NoWatches
    BY OneWatch, Zenon
  <2>2. Len(objects) <= 1 /\ Len(objects) # 0
    BY <2>1, Zenon DEF Final
  <2>3. PICK n \in Nat : n = Len(objects)
    BY <1>0 DEF CallsOK
  <2>4. n <= 1 /\ n # 0
    BY <2>2, <2>3, Zenon
  <2>5. n = 1
    BY <2>4
  <2> QED
    BY <2>1, <2>3, <2>5, Zenon
<1>3. \A c \in Callers : LimitedCall(c)'
  <2>1. \A c \in Callers : LimitedCall(c) /\ ~ Building(c)
    BY <1>2, Zenon DEF Final, LimitedCall
  <2> QED
    BY <1>1, <2>1, Zenon DEF LimitedCall, Building, At
<1>4. Starters' = Starters /\ Stoppers' = Stoppers
  BY <1>1, Zenon DEF Starters, Stoppers, At
<1>5. ASSUME current # None
      PROVE  During(objects[1], row', watches', Starters, Stoppers, setup.ops)
  <2>1. During(objects[1], row, watches, Starters, Stoppers, setup.ops) /\ row # None /\ current = 1
    <3>1. Recorded(objects[1], row, watches, Starters, Stoppers, setup.ops) /\ row # None
      BY <1>0, <1>5, Zenon DEF Final, MapAgrees
    <3>2. current = 1
      BY <1>0, <1>2, <1>5 DEF CallsOK
    <3> QED
      BY <1>2, <3>1, <3>2, Zenon DEF Recorded, Before
  <2>2. ASSUME Starters = {}, row' = row, Phase(objects[1], row, watches', Starters)
        PROVE  During(objects[1], row', watches', Starters, Stoppers, setup.ops)
    BY <2>1, <2>2, Zenon DEF During
  <2>3. watches = Only(k) /\ OnWay(k, objects[1]) /\ Starters = {} /\ k \in WatchRecs
    <3>1. PICK j : watches = Only(j) /\ OnWay(j, objects[1]) /\ Starters = {}
      BY <1>2, <2>1, Zenon DEF During, Phase
    <3>2. k = j
      BY <3>1, OneWatch, Zenon
    <3> QED
      BY <3>1, <3>2, Zenon DEF WatchesOK, WatchOK
  <2>4. \A n : WatchGoTo(k, n) => watches' = Only(n) /\ n \in DOMAIN watches'
    <3>1. \A n : WatchGoTo(k, n) => watches' = Only(n)
      BY <2>3, OneWatch, Zenon DEF WatchGoTo, Only
    <3>2. \A n : n \in DOMAIN Only(n)
      BY OneWatch, Zenon
    <3> QED
      BY <3>1, <3>2, Zenon
  <2>5. ASSUME NEW n, WatchGoTo(k, n), OnWay(n, objects[1]), row' = row
        PROVE  During(objects[1], row', watches', Starters, Stoppers, setup.ops)
    BY <2>2, <2>3, <2>4, <2>5, Zenon DEF Phase
  <2>6. CASE WatchFinds(k)
    <3>1. PICK n : n = [k EXCEPT !.pc = "wait", !.obj = current, !.run = objects[current].runs]
      BY Zenon
    <3>2. n.pc = "wait" /\ n.obj = current /\ n.run = objects[current].runs
      BY <2>3, <3>1, Zenon DEF WatchRecs
    <3>3. OnWay(n, objects[1])
      BY <2>1, <3>2, Zenon DEF OnWay, During
    <3>4. WatchGoTo(k, n) /\ row' = row
      BY <1>5, <2>6, <3>1, Zenon DEF WatchFinds, rows
    <3> QED
      BY <2>5, <3>3, <3>4, Zenon
  <2>7. CASE WatchWaits(k)
    <3>1. PICK n : n = [k EXCEPT !.pc = "read"]
      BY Zenon
    <3>2. n.pc = "read" /\ n.obj = k.obj /\ k.pc = "wait"
      BY <2>3, <2>7, <3>1, Zenon DEF WatchRecs, WatchWaits
    <3>3. k.obj = 1 /\ k.run = 1
      BY <2>3, <3>2, Zenon DEF OnWay
    <3>4. objects[1].live = {}
      BY <2>1, <2>7, <3>3, Zenon DEF WatchWaits, During
    <3>5. WatchGoTo(k, n) /\ row' = row
      BY <2>7, <3>1, Zenon DEF WatchWaits, rows
    <3> QED
      BY <2>5, <3>2, <3>3, <3>4, <3>5 DEF OnWay
  <2>8. CASE WatchReads(k)
    <3>1. PICK n : n = [k EXCEPT !.pc = "write", !.status = StatusOf(objects[k.obj].state)]
      BY Zenon
    <3>2. n.pc = "write" /\ n.status = StatusOf(objects[k.obj].state) /\ k.pc = "read"
      BY <2>3, <2>8, <3>1, Zenon DEF WatchRecs, WatchReads
    <3>3. k.obj = 1 /\ objects[1].live = {}
      BY <2>3, <3>2, Zenon DEF OnWay
    <3>4. WatchGoTo(k, n) /\ row' = row
      BY <2>8, <3>1, Zenon DEF WatchReads, rows
    <3> QED
      BY <2>5, <3>2, <3>3, <3>4, Zenon DEF OnWay
  <2>9. CASE WatchWrites(k)
    <3>1. k.pc = "write" /\ WatchEnds(k) /\ row' = k.status
      BY <2>1, <2>9, Zenon DEF WatchWrites, StatusUpdated, UpdateSimulationStatus, Limited
    <3>2. k.status = StatusOf(objects[1].state) /\ objects[1].live = {}
      BY <2>3, <3>1, Zenon DEF OnWay
    <3>3. watches' = NoWatches
      BY <2>3, <3>1, OneWatch, Zenon DEF WatchEnds, Only
    <3>4. Phase(objects[1], row', watches', Starters)
      BY <2>3, <3>1, <3>2, <3>3, Zenon DEF Phase
    <3>5. row' = "stopped" => objects[1].state = "Stopped"
      BY <2>1, <3>1, <3>2, StatusFacts, Zenon DEF During
    <3> QED
      BY <2>1, <3>2, <3>4, <3>5, Zenon DEF During
  <2> QED
    BY <2>6, <2>7, <2>8, <2>9, Zenon DEF WatchStep
<1> QED
  BY <1>1, <1>2, <1>3, <1>4, <1>5, Zenon DEF Final, Recorded

\* The other requests, when nothing that is being built changes.
LEMMA LimitedOthers ==
    ASSUME Final, setup' = setup, NEW c \in Callers, \A d \in Callers \ {c} : calls'[d] = calls[d],
           (\A d \in Callers \ {c} : ~ Building(d)) \/ (objects'[1] = objects[1] /\ watches' = watches /\ row' = row)
    PROVE  \A d \in Callers \ {c} : LimitedCall(d)'
<1> SUFFICES ASSUME NEW d \in Callers \ {c} PROVE LimitedCall(d)'
  BY Zenon
<1>1. LimitedCall(d) /\ calls'[d] = calls[d]
  BY Zenon DEF Final
<1> QED
  BY <1>1, Zenon DEF LimitedCall, Building, At

\* A step that neither comes from nor leads to a status.
LEMMA FinalCalm ==
    ASSUME Final, setup' = setup, NEW c \in Callers, \A d \in Callers \ {c} : calls'[d] = calls[d],
           UNCHANGED <<current, objects, row, watches>>, calls[c].pc # "status",
           \/ calls'[c].pc \in Settled
           \/ calls'[c].pc \notin {"status", "insert", "publish"} /\ calls'[c].op \in setup.ops
    PROVE  Final'
<1>1. \A d \in Callers \ {c} : LimitedCall(d)'
  BY LimitedOthers, Zenon
<1>2. calls'[c].pc \notin {"status", "insert", "publish"}
  BY Zenon DEF Settled, Writing
<1>3. LimitedCall(c)'
  BY <1>2, Zenon DEF LimitedCall, Building, At
<1>4. Starters' = Starters /\ Stoppers' = Stoppers
  BY <1>2, Zenon DEF Starters, Stoppers, At
<1> QED
  BY <1>1, <1>3, <1>4, Zenon DEF Final

\* A step of a request keeps the record.
LEMMA FinalCall ==
    ASSUME TypeInv, TypeInv', WatchesOK, SingleInv, Limited, Final, NEW c \in Callers, CallStep(c)
    PROVE  Final'
<1>0. /\ CallsOK /\ CallsOK' /\ MapAgrees /\ SingleOK(c) /\ CallOK(calls[c], Len(objects)) /\ Single /\ LimitedCall(c)
      /\ Len(objects) \in Nat /\ objects \in Seq(ObjRecs) /\ calls \in [Callers -> CallRecs]
  <2>a. CallsOK'
    BY Zenon DEF TypeInv
  <2>b. LimitedCall(c)
    BY Zenon DEF Final
  <2>c. CallsOK
    BY Zenon DEF TypeInv
  <2>1. CallsOK /\ objects \in Seq(ObjRecs) /\ calls \in [Callers -> CallRecs]
    BY <2>c, Zenon DEF CallsOK
  <2>2. Single /\ MapAgrees /\ SingleOK(c)
    BY Zenon DEF SingleInv, Limited, SingleObject, Single
  <2>3. CallOK(calls[c], Len(objects))
    BY <2>1, Zenon DEF CallsOK
  <2>4. Len(objects) \in Nat
    BY <2>1, SMT
  <2> QED
    BY <2>1, <2>2, <2>3, <2>4, <2>a, <2>b, Zenon
<1>1. /\ calls[c].pc \notin Settled /\ setup' = setup /\ calls[c].op \in {"Create", "Start", "Stop", "Delete"}
      /\ calls[c].op \in setup.ops /\ \A d \in Callers \ {c} : calls'[d] = calls[d]
  BY <1>0, CallTouches, TouchedOK, Zenon DEF context, Followed, LimitedCall, Limited
<1>2. \A a : Return(c, a) => calls'[c].pc \in Settled
  <2>1. {"idle", "answer"} \subseteq Settled
    BY Zenon DEF Settled, Writing
  <2> QED
    BY <1>0, <2>1, WhereTo, Zenon
<1>3. \A pc : GoTo(c, pc) => calls'[c].pc = pc /\ calls'[c].op = calls[c].op
  BY <1>0, WhereTo, Zenon
<1>4. ASSUME UNCHANGED <<current, objects, row, watches>>, calls[c].pc # "status",
             calls'[c].pc \in Settled \/ (calls'[c].pc \notin {"status", "insert", "publish"} /\ calls'[c].op = calls[c].op)
      PROVE  Final'
  BY <1>1, <1>4, FinalCalm, Zenon
<1>5. Obj(c) # None => /\ \A d \in Callers \ {c} : ~ Building(d)
                       /\ Obj(c) = 1 /\ Len(objects) = 1 /\ DOMAIN objects = {1} /\ objects[1] \in ObjRecs
  <2> SUFFICES ASSUME Obj(c) # None
               PROVE  /\ \A d \in Callers \ {c} : ~ Building(d)
                      /\ Obj(c) = 1 /\ Len(objects) = 1 /\ DOMAIN objects = {1} /\ objects[1] \in ObjRecs
    BY Zenon
  <2>1. Obj(c) \in 1 .. Len(objects) /\ Len(objects) <= 1
    BY <1>0, Zenon DEF CallOK, Obj, Final
  <2>4. Len(objects) \in Nat /\ objects \in Seq(ObjRecs)
    BY <1>0, Zenon
  <2>2. Obj(c) = 1 /\ Len(objects) = 1
    <3>1. \A n \in Nat : \A x \in 1 .. n : n <= 1 => x = 1 /\ n = 1
      OBVIOUS
    <3> QED
      BY <2>1, <2>4, <3>1, Zenon
  <2>3. \A d \in Callers \ {c} : ~ Building(d)
    BY <1>0, Zenon DEF Single, SingleOK, Obj
  <2>5. DOMAIN objects = {1} /\ objects[1] \in ObjRecs
    BY <2>2, <2>4
  <2> QED
    BY <2>2, <2>3, <2>5, Zenon
<1>6. calls[c].op # "Create" \/ calls[c].pc # "begin" => Obj(c) # None
  BY <1>0, <1>1, Zenon DEF CallOK, Obj
<1>7. CASE CreateBuilds(c)
  <2>1. At(c, "Create", "begin") /\ UNCHANGED <<current, row, watches>>
    BY <1>7, Zenon DEF CreateBuilds, rows
  <2>2. CASE Return(c, "bad request") /\ UNCHANGED objects
    BY <1>2, <1>4, <2>1, <2>2, Zenon DEF At
  <2>3. CASE Len(objects) < setup.objects /\ Built(c, "insert") /\ objects' = Append(objects, NewObject)
    <3>1. Len(objects) = 0
      BY <1>0, <2>3 DEF Limited
    <3>2. current' = None /\ watches' = NoWatches /\ \A d \in Callers : calls[d].obj = None
      BY <1>0, <2>1, <3>1 DEF CallsOK, CallOK, Final
    <3>3. Len(objects') = 1 /\ objects'[1] = NewObject
      BY <1>0, <2>3, <3>1 DEF NewObject, ObjRecs, States
    <3>4. calls'[c].pc = "insert" /\ calls'[c].op = "Create"
      BY <1>0, <2>1, <2>3, WhereTo, Zenon DEF At
    <3>5. LimitedCall(c)'
      BY <1>1, <2>1, <3>2, <3>3, <3>4, Zenon DEF LimitedCall, At
    <3>6. \A d \in Callers \ {c} : ~ Building(d)
      <4>1. \A d \in Callers \ {c} : calls[d].pc \in Settled \/ (calls[d].op = "Create" /\ calls[d].pc = "begin")
        BY <1>0, <3>2, Zenon DEF CallsOK, CallOK
      <4> QED
        BY <4>1, Zenon DEF Building, Settled, Writing
    <3>7. \A d \in Callers \ {c} : LimitedCall(d)'
      BY <1>1, <3>6, LimitedOthers, Zenon
    <3> QED
      BY <3>2, <3>3, <3>5, <3>7 DEF Final
  <2> QED
    BY <1>7, <2>2, <2>3, Zenon DEF CreateBuilds, Instantiate, Built
<1>8. CASE CreateInserts(c)
  <2>1. At(c, "Create", "insert") /\ UNCHANGED <<current, objects, watches>> /\ Building(c) /\ Obj(c) # None
    BY <1>6, <1>8, Zenon DEF CreateInserts, Building, At
  <2>2. current' = None /\ objects[1] = NewObject /\ watches = NoWatches
    BY <1>0, <2>1, Zenon DEF SingleOK, LimitedCall
  <2>3. \A d \in Callers \ {c} : LimitedCall(d)'
    BY <1>1, <1>5, <2>1, LimitedOthers, Zenon
  <2>4. LimitedCall(c)'
    <3>1. CASE CreateSimulation /\ GoTo(c, "publish")
      <4>1. row' = "created" /\ calls'[c].pc = "publish" /\ calls'[c].op = calls[c].op
        BY <1>3, <3>1, Zenon DEF CreateSimulation
      <4> QED
        BY <1>1, <2>1, <2>2, <4>1, Zenon DEF LimitedCall
    <3>2. CASE Return(c, "bad request")
      <4>1. calls'[c].pc \notin {"status", "insert", "publish"} /\ calls'[c].pc \in Settled
        BY <1>2, <3>2, Zenon DEF Settled, Writing
      <4> QED
        BY <4>1, Zenon DEF LimitedCall, Building, At
    <3> QED
      BY <1>8, <3>1, <3>2, Zenon DEF CreateInserts
  <2> QED
    BY <1>5, <2>1, <2>2, <2>3, <2>4, Zenon DEF Final
<1>9. CASE CreatePublishes(c)
  <2>1. /\ At(c, "Create", "publish") /\ UNCHANGED <<objects, row, watches>> /\ Building(c) /\ Obj(c) # None
        /\ calls'[c].pc \in Settled /\ current' = Obj(c)
    BY <1>2, <1>6, <1>9, Zenon DEF CreatePublishes, Building, At, rows
  <2>2. objects'[1] = NewObject /\ watches' = NoWatches /\ row' = "created" /\ Len(objects') = 1
    BY <1>0, <1>5, <2>1, Zenon DEF LimitedCall
  <2>3. \A d \in Callers \ {c} : LimitedCall(d)'
    BY <1>1, <1>5, <2>1, LimitedOthers, Zenon
  <2>4. calls'[c].pc \notin {"status", "insert", "publish"}
    BY <2>1, Zenon DEF Settled, Writing
  <2>5. LimitedCall(c)'
    BY <2>1, <2>4, Zenon DEF LimitedCall, Building, At
  <2>6. Starters' = {} /\ Stoppers' = {}
    <3>1. \A d \in Callers \ {c} : calls[d].obj = None
      BY <1>0, <2>1, Zenon DEF SingleOK
    <3>2. \A d \in Callers \ {c} : calls'[d].pc # "status"
      BY <1>0, <1>1, <3>1, Zenon DEF CallsOK, CallOK, Settled, Writing
    <3> QED
      BY <2>4, <3>2, Zenon DEF Starters, Stoppers, At
  <2>7. Before(NewObject, "created", NoWatches, {}, {})
    BY Zenon DEF Before, NewObject
  <2> QED
    BY <2>2, <2>3, <2>5, <2>6, <2>7 DEF Final, Recorded
<1>10. ASSUME Obj(c) # None, LimitedCall(c)', Len(objects') = 1,
              current' # None => Recorded(objects'[1], row', watches', Starters', Stoppers', setup.ops)
       PROVE  Final'
  <2>1. \A d \in Callers \ {c} : LimitedCall(d)'
    BY <1>1, <1>5, <1>10, LimitedOthers, Zenon
  <2> QED
    BY <1>1, <1>10, <2>1 DEF Final
<1>11. \A s : ToStatus(c, s) => calls'[c].pc = "status" /\ calls'[c].op = calls[c].op /\ calls'[c].status = s
  BY <1>0, WhereTo
<1>12. CASE StartBegins(c)
  <2>1. At(c, "Start", "begin") /\ UNCHANGED <<current, row, watches>> /\ Obj(c) = 1 /\ Obj(c) # None
    BY <1>5, <1>6, <1>12, Zenon DEF StartBegins, At, rows
  <2>2. CASE Return(c, "conflict") /\ UNCHANGED objects
    BY <1>2, <1>4, <2>1, <2>2, Zenon DEF At
  <2>3. CASE CanBegin(1) /\ objects' = [objects EXCEPT ![1] = Begun(1)] /\ ToStatus(c, "running")
    <3>1. calls'[c].pc = "status" /\ calls'[c].op = "Start" /\ calls'[c].status = "running"
      BY <1>11, <2>1, <2>3, Zenon DEF At
    <3>2. LimitedCall(c)'
      BY <1>1, <2>1, <3>1, Zenon DEF LimitedCall, Building, At
    <3>3. objects'[1] = Begun(1) /\ Len(objects') = 1 /\ objects[1].runs < 1
      BY <1>0, <1>5, <2>1, <2>3 DEF CanBegin, Limited
    <3>4. ASSUME current # None PROVE Recorded(objects'[1], row', watches', Starters', Stoppers', setup.ops)
      <4>1. Before(objects[1], row, watches, Starters, Stoppers)
        BY <3>3, <3>4 DEF Final, Recorded, During
      <4>2. Starters' = {c} /\ Stoppers' = Stoppers /\ Starters = {}
        <5>1. Starters = {}
          BY <4>1, Zenon DEF Before
        <5>2. \A d \in Callers : At(d, "Start", "status")' <=> d = c
          BY <1>1, <3>1, <5>1 DEF Starters, At
        <5>3. \A d \in Callers : At(d, "Stop", "status")' <=> At(d, "Stop", "status")
          BY <1>1, <2>1, <3>1, Zenon DEF At
        <5> QED
          BY <5>1, <5>2, <5>3, Zenon DEF Starters, Stoppers
      <4>3. Begun(1) = [state |-> "Running", runs |-> 1, live |-> {1}]
        <5>1. objects[1].runs = 0 /\ objects[1].live = {}
          BY <4>1, Zenon DEF Before
        <5> QED
          BY <5>1 DEF Begun
      <4>4. During([state |-> "Running", runs |-> 1, live |-> {1}], row, watches, {c}, Stoppers, setup.ops)
        BY <4>1, <4>2, RecordStarts, Zenon
      <4> QED
        BY <2>1, <3>3, <4>2, <4>3, <4>4, Zenon DEF Recorded
    <3> QED
      BY <1>10, <2>1, <3>2, <3>3, <3>4, Zenon
  <2> QED
    BY <1>12, <2>1, <2>2, <2>3, Zenon DEF StartBegins, ToStatus
<1>13. CASE Control(c, "Stop", {"Running", "Paused"}, "Stopped")
  <2>1. At(c, "Stop", "begin") /\ UNCHANGED <<current, row, watches>> /\ Obj(c) = 1 /\ Obj(c) # None
    BY <1>5, <1>6, <1>13, Zenon DEF Control, At, rows
  <2>2. CASE Return(c, "conflict") /\ UNCHANGED objects
    BY <1>2, <1>4, <2>1, <2>2, Zenon DEF At
  <2>3. CASE /\ objects[1].state \in {"Running", "Paused"} /\ objects' = [objects EXCEPT ![1].state = "Stopped"]
             /\ ToStatus(c, StatusOf("Stopped"))
    <3>1. calls'[c].pc = "status" /\ calls'[c].op = "Stop" /\ calls'[c].status = "stopped"
      BY <1>11, <2>1, <2>3, StatusFacts, Zenon DEF At
    <3>2. LimitedCall(c)'
      BY <1>1, <2>1, <3>1, Zenon DEF LimitedCall, Building, At
    <3>3. objects'[1] = [objects[1] EXCEPT !.state = "Stopped"] /\ Len(objects') = 1
      BY <1>0, <1>5, <2>1, <2>3
    <3>4. ASSUME current # None PROVE Recorded(objects'[1], row', watches', Starters', Stoppers', setup.ops)
      <4>1. Recorded(objects[1], row, watches, Starters, Stoppers, setup.ops)
        BY <3>4, Zenon DEF Final
      <4>2. Starters' = Starters
        BY <1>1, <2>1, <3>1, Zenon DEF Starters, At
      <4>3. "Stop" \in setup.ops
        BY <1>1, <2>1, Zenon DEF At
      <4>4. During([objects[1] EXCEPT !.state = "Stopped"], row, watches, Starters, Stoppers', setup.ops)
        BY <1>5, <2>1, <2>3, <4>1, <4>3, RecordStops, Zenon
      <4> QED
        BY <2>1, <3>3, <4>2, <4>4, Zenon DEF Recorded
    <3> QED
      BY <1>10, <2>1, <3>2, <3>3, <3>4, Zenon
  <2> QED
    BY <1>13, <2>1, <2>2, <2>3, Zenon DEF Control, ToStatus
<1>14. CASE UpdateStatus(c)
  <2>1. /\ calls[c].pc = "status" /\ UNCHANGED <<current, objects>> /\ calls'[c].pc \in Settled
        /\ Obj(c) # None /\ Len(objects') = 1 /\ UpdateSimulationStatus(calls[c].status)
        /\ watches' = IF calls[c].op \in {"Start", "Replay"} THEN More(watches, Watch) ELSE watches
    BY <1>2, <1>5, <1>6, <1>14, Zenon DEF UpdateStatus, StatusUpdated, Limited, Only
  <2>2. LimitedCall(c)' /\ calls'[c].pc # "status"
    <3>1. calls'[c].pc \notin {"status", "insert", "publish"}
      BY <2>1, Zenon DEF Settled, Writing
    <3> QED
      BY <2>1, <3>1, Zenon DEF LimitedCall, Building, At
  <2>3. ASSUME current # None PROVE Recorded(objects'[1], row', watches', Starters', Stoppers', setup.ops)
    <3>1. row' = calls[c].status /\ Recorded(objects[1], row, watches, Starters, Stoppers, setup.ops)
      BY <1>0, <2>1, <2>3, Zenon DEF Final, MapAgrees, UpdateSimulationStatus
    <3>2. CASE calls[c].op = "Start" /\ calls[c].status = "running"
      <4>1. Starters' = Starters \ {c} /\ c \in Starters /\ Stoppers' = Stoppers
        BY <1>1, <2>1, <2>2, <3>2 DEF Starters, Stoppers, At
      <4>2. During(objects[1], "running", More(watches, Watch), Starters \ {c}, Stoppers, setup.ops)
        BY <3>1, <4>1, RecordRunning, Zenon
      <4> QED
        BY <2>1, <3>1, <3>2, <4>1, <4>2 DEF Recorded
    <3>3. CASE calls[c].op = "Stop" /\ calls[c].status = "stopped"
      <4>1. Starters' = Starters /\ c \in Stoppers /\ Stoppers' = Stoppers \ {c}
        BY <1>1, <2>1, <2>2, <3>3 DEF Starters, Stoppers, At
      <4>2. During(objects[1], "stopped", watches, Starters, Stoppers \ {c}, setup.ops)
        BY <1>1, <3>1, <3>3, <4>1, RecordStopped, Zenon
      <4> QED
        BY <2>1, <3>1, <3>3, <4>1, <4>2, Zenon DEF Recorded
    <3> QED
      BY <1>0, <2>1, <3>2, <3>3, Zenon DEF LimitedCall
  <2> QED
    BY <1>10, <2>1, <2>2, <2>3, Zenon
<1>15. CASE DeleteChecksRunning(c) \/ DeleteChecksPaused(c)
  BY <1>2, <1>3, <1>4, <1>15 DEF DeleteChecksRunning, DeleteChecksPaused, At, rows
<1>16. CASE DeleteStops(c)
  <2>1. /\ At(c, "Delete", "stop") /\ UNCHANGED <<current, row, watches>> /\ Obj(c) = 1 /\ Obj(c) # None
        /\ objects' = [objects EXCEPT ![1] = Halted(1)] /\ calls'[c].pc = "unmap" /\ calls'[c].op = calls[c].op
    BY <1>3, <1>5, <1>6, <1>16, Zenon DEF DeleteStops, At, rows
  <2>2. LimitedCall(c)'
    BY <1>1, <2>1, Zenon DEF LimitedCall, Building, At
  <2>3. objects'[1] = Halted(1) /\ Len(objects') = 1
    BY <1>0, <1>5, <2>1
  <2>4. ASSUME current # None PROVE Recorded(objects'[1], row', watches', Starters', Stoppers', setup.ops)
    <3>1. Recorded(objects[1], row, watches, Starters, Stoppers, setup.ops)
      BY <2>4 DEF Final
    <3>2. Starters' = Starters /\ Stoppers' = Stoppers
      BY <1>1, <2>1, Zenon DEF Starters, Stoppers, At
    <3>3. CASE objects[1].state \in {"Running", "Paused"}
      <4>1. During([objects[1] EXCEPT !.state = "Stopped"], row, watches, Starters, Stoppers, setup.ops)
        BY <1>5, <2>1, <3>1, <3>3, RecordStops, Zenon
      <4>2. Halted(1) = [objects[1] EXCEPT !.state = "Stopped"]
        BY <3>3, Zenon DEF Halted, Active
      <4> QED
        BY <2>1, <2>3, <3>2, <4>1, <4>2, Zenon DEF Recorded
    <3>4. CASE objects[1].state \notin {"Running", "Paused"}
      <4>1. Halted(1) = objects[1]
        BY <3>4, Zenon DEF Halted, Active
      <4> QED
        BY <2>1, <2>3, <3>1, <3>2, <4>1, Zenon
    <3> QED
      BY <3>3, <3>4, Zenon
  <2> QED
    BY <1>10, <2>1, <2>2, <2>3, <2>4, Zenon
<1>17. CASE DeleteUnmaps(c)
  <2>1. /\ At(c, "Delete", "unmap") /\ current' = None /\ Obj(c) # None
        /\ UNCHANGED objects /\ calls'[c].pc = "remove" /\ calls'[c].op = calls[c].op
    BY <1>3, <1>6, <1>17, Zenon DEF DeleteUnmaps, At
  <2>2. LimitedCall(c)'
    BY <1>1, <2>1, Zenon DEF LimitedCall, Building, At
  <2> QED
    BY <1>5, <1>10, <2>1, <2>2, Zenon
<1>18. CASE DeleteRemovesRow(c)
  <2>1. /\ At(c, "Delete", "remove") /\ current' = None /\ Obj(c) # None
        /\ UNCHANGED objects /\ calls'[c].pc \in Settled
    BY <1>0, <1>2, <1>6, <1>18, Zenon DEF DeleteRemovesRow, At, SingleOK
  <2>2. LimitedCall(c)'
    <3>1. calls'[c].pc \notin {"status", "insert", "publish"}
      BY <2>1, Zenon DEF Settled, Writing
    <3> QED
      BY <2>1, <3>1, Zenon DEF LimitedCall, Building, At
  <2> QED
    BY <1>5, <1>10, <2>1, <2>2, Zenon
<1>19. ~ (StepBegins(c) \/ StepFails(c) \/ StepReads(c) \/ SnapshotTakes(c) \/ SnapshotSaves(c) \/ Restores(c))
  BY <1>1, Zenon DEF StepBegins, StepFails, StepReads, SnapshotTakes, SnapshotSaves, Restores, At
<1>20. ~ (ReplayStops(c) \/ ReplayBuilds(c) \/ ReplaySwaps(c) \/ ReplayStarts(c)
          \/ Control(c, "Pause", {"Running"}, "Paused") \/ Control(c, "Resume", {"Paused"}, "Running"))
  BY <1>1, Zenon DEF ReplayStops, ReplayBuilds, ReplaySwaps, ReplayStarts, Control, At
<1> QED
  BY <1>7, <1>8, <1>9, <1>12, <1>13, <1>14, <1>15, <1>16, <1>17, <1>18, <1>19, <1>20 DEF CallStep

\* Every step keeps the record.
LEMMA NextFinalInv == TypeInv /\ WatchesOK /\ SingleInv /\ FinalInv /\ [Next]_apiVars => FinalInv'
<1> SUFFICES ASSUME TypeInv, WatchesOK, SingleInv, FinalInv, [Next]_apiVars, Limited' PROVE Final'
  BY Zenon DEF FinalInv
<1>0. TypeInv' /\ setup' = setup
  <2>1. ASSUME NEW c \in Callers, Request(c) \/ HandlerStep(c) \/ TimerStep(c) PROVE setup' = setup
    BY <2>1, RequestTyped, HandlerTyped, TimerTyped, Zenon
  <2>2. UNCHANGED apiVars => setup' = setup
    BY Zenon DEF apiVars, vars, context
  <2> QED
    BY <2>1, <2>2, ManagerTyped, NextTypeInv, Zenon DEF Next
<1>1. Limited /\ Final /\ CallsOK
  BY <1>0, Zenon DEF Limited, FinalInv, TypeInv
<1>2. ASSUME UNCHANGED <<current, objects, row, watches, calls>> PROVE Final'
  <2>1. \A c \in Callers : LimitedCall(c)'
    BY <1>0, <1>1, <1>2, Zenon DEF Final, LimitedCall, Building, At
  <2>2. Starters' = Starters /\ Stoppers' = Stoppers
    BY <1>2, Zenon DEF Starters, Stoppers, At
  <2> QED
    BY <1>0, <1>1, <1>2, <2>1, <2>2, Zenon DEF Final
<1>3. CASE UNCHANGED apiVars
  BY <1>2, <1>3, Zenon DEF apiVars, vars, rows
<1>4. ASSUME NEW o \in Objects, RunStep(o) PROVE Final'
  BY <1>1, <1>4, FinalRun, Zenon
<1>5. ASSUME NEW c \in Callers, CallStep(c) PROVE Final'
  BY <1>0, <1>1, <1>5, FinalCall, Zenon
<1>6. ASSUME NEW k \in DOMAIN watches, WatchStep(k) PROVE Final'
  BY <1>1, <1>6, FinalWatch, Zenon
<1>7. ASSUME NEW c \in Callers, Request(c) PROVE Final'
  <2>1. /\ UNCHANGED <<current, objects, row, watches>> /\ calls[c].pc # "status"
        /\ \A d \in Callers \ {c} : calls'[d] = calls[d]
    BY <1>7, RequestTyped, Zenon
  <2>2. \/ calls'[c].pc \in Settled
        \/ calls'[c].pc = "begin" /\ calls'[c].op \in setup.ops
    BY <1>1, <1>7, Arrives, Zenon DEF Request, Settled, Writing
  <2> QED
    BY <1>0, <1>1, <2>1, <2>2, FinalCalm, Zenon
<1>8. ASSUME NEW c \in Callers, HandlerStep(c) PROVE Final'
  <2>1. /\ UNCHANGED <<current, objects, row, watches>> /\ calls[c].pc \in Writing \cup {"step"}
        /\ calls'[c].pc \in Settled
        /\ \A d \in Callers \ {c} : calls'[d] = calls[d]
    BY <1>8, HandlerTyped, Zenon
  <2>2. calls[c].pc # "status"
    BY <2>1, Zenon DEF Writing
  <2> QED
    BY <1>0, <1>1, <2>1, <2>2, FinalCalm, Zenon
<1>9. ASSUME NEW c \in Callers, TimerStep(c) PROVE Final'
  BY <1>2, <1>9, TimerTyped, Zenon
<1> QED
  BY <1>3, <1>4, <1>5, <1>6, <1>7, <1>8, <1>9 DEF Next, ManagerStep

\* When all has settled the row tells how the one run has ended.
THEOREM RowTellsEnd == Spec => []FinalStatus
<1>1. ApiInit => FinalInv
  <2> SUFFICES ASSUME ApiInit PROVE Final
    BY DEF FinalInv
  <2>1. objects = <<>> /\ current = None /\ watches = NoWatches /\ \A c \in Callers : calls[c] = Idle
    BY Zenon DEF ApiInit, Init, StoreInit
  <2>2. \A c \in Callers : calls[c].pc = "idle"
    <3>1. Idle.pc = "idle"
      BY DEF Idle
    <3> QED
      BY <2>1, <3>1, Zenon
  <2>3. \A c \in Callers : LimitedCall(c)
    BY <2>2, Zenon DEF LimitedCall, At, Building, Settled
  <2> QED
    BY <2>1, <2>3 DEF Final
<1>2. TypeInv /\ SingleInv /\ FinalInv => FinalStatus
  <2> SUFFICES ASSUME TypeInv, SingleInv, FinalInv, Quiet, current # None, Limited
               PROVE  \/ row = StatusOf(objects[current].state)
                      \/ row = "stopped" /\ objects[current].state = "Failed" /\ "Stop" \in setup.ops
    BY Zenon DEF FinalStatus, Limited
  <2>1. current = 1
    <3>1. current \in 1 .. Len(objects) /\ Len(objects) <= 1 /\ Len(objects) \in Nat
      BY DEF TypeInv, CallsOK, FinalInv, Final
    <3> QED
      BY <3>1
  <2>2. Starters = {} /\ Stoppers = {} /\ watches = NoWatches
    BY Zenon DEF Quiet, NoCalls, Starters, Stoppers, At
  <2>3. Recorded(objects[1], row, NoWatches, {}, {}, setup.ops)
    BY <2>2, Zenon DEF FinalInv, Final
  <2>4. CASE Before(objects[1], row, NoWatches, {}, {})
    BY <2>1, <2>4, StatusFacts, Zenon DEF Before
  <2>5. CASE During(objects[1], row, NoWatches, {}, {}, setup.ops)
    <3>1. \A k : NoWatches # Only(k)
      <4>1. \A k : DOMAIN Only(k) = {k} /\ DOMAIN NoWatches = {}
        BY OneWatch, Zenon
      <4> QED
        BY <4>1, Zenon
    <3>2. row \in {StatusOf(objects[1].state), "stopped"}
      BY <2>5, <3>1, Zenon DEF During, Phase
    <3>3. row = "stopped" => objects[1].state = "Stopped" \/ (objects[1].state = "Failed" /\ "Stop" \in setup.ops)
      BY <2>5, Zenon DEF During
    <3> QED
      BY <2>1, <3>2, <3>3, StatusFacts, Zenon
  <2> QED
    BY <2>3, <2>4, <2>5, Zenon DEF Recorded
<1> QED
  BY <1>1, <1>2, NextFinalInv, WatchTypes, TypeCorrectness, SingleAlways, PTL DEF Spec

(* ------------------------------- the gauge ------------------------------ *)

Positive(b) == \A k \in DOMAIN b : b[k] \in Nat \ {0}
Count(b, k) == IF k \in DOMAIN b THEN b[k] ELSE 0

\* The goroutines that have yet to lower the gauge, one element for each.
Pending(b) == {t \in (DOMAIN b) \X Nat : t[1].pc \in {"lookup", "wait"} /\ t[2] \in 1 .. b[t[1]]}

\* The elements of Pending are pairs of a goroutine and a number.
LEMMA InPending ==
    ASSUME NEW b
    PROVE  /\ \A j, i : <<j, i>> \in Pending(b) <=>
                           j \in DOMAIN b /\ j.pc \in {"lookup", "wait"} /\ i \in Nat /\ i \in 1 .. b[j]
           /\ \A t \in Pending(b) : t = <<t[1], t[2]>>
<1>1. ASSUME NEW t \in Pending(b) PROVE t = <<t[1], t[2]>>
  <2>1. t \in (DOMAIN b) \X Nat
    BY Zenon DEF Pending
  <2> QED
    BY <2>1
<1>2. ASSUME NEW j, NEW i
      PROVE  <<j, i>> \in Pending(b) <=> j \in DOMAIN b /\ j.pc \in {"lookup", "wait"} /\ i \in Nat /\ i \in 1 .. b[j]
  <2>1. PICK t : t = <<j, i>>
    BY Zenon
  <2>2. t[1] = j /\ t[2] = i /\ (t \in (DOMAIN b) \X Nat <=> j \in DOMAIN b /\ i \in Nat)
    BY <2>1, Zenon
  <2>3. t \in Pending(b) <=> t \in (DOMAIN b) \X Nat /\ t[1].pc \in {"lookup", "wait"} /\ t[2] \in 1 .. b[t[1]]
    BY Zenon DEF Pending
  <2> QED
    BY <2>1, <2>2, <2>3, Zenon
<1> QED
  BY <1>1, <1>2, Zenon

\* One goroutine more.
LEMMA PendingPlus ==
    ASSUME NEW b, Positive(b), NEW k
    PROVE  /\ Positive(More(b, k))
           /\ k.pc \notin {"lookup", "wait"} => Pending(More(b, k)) = Pending(b)
           /\ k.pc \in {"lookup", "wait"} =>
                 \E t : t \notin Pending(b) /\ Pending(More(b, k)) = Pending(b) \cup {t}
<1>1. PICK a : a = More(b, k)
  BY Zenon
<1>2. /\ DOMAIN a = DOMAIN b \cup {k} /\ a[k] = Count(b, k) + 1
      /\ \A j \in DOMAIN b : j # k => a[j] = b[j]
  <2>1. DOMAIN a = DOMAIN b \cup {k} /\ \A j \in DOMAIN b : j # k => a[j] = b[j]
    BY <1>1, Zenon DEF More
  <2>2. a[k] = Count(b, k) + 1
    BY <1>1 DEF More, Count
  <2> QED
    BY <2>1, <2>2, Zenon
<1>3. Count(b, k) \in Nat /\ (k \in DOMAIN b => Count(b, k) = b[k]) /\ (k \notin DOMAIN b => Count(b, k) = 0)
  BY Zenon DEF Count, Positive
<1>4. Positive(a)
  BY <1>2, <1>3 DEF Positive
<1>5. \A j, i : <<j, i>> \in Pending(b) <=> j \in DOMAIN b /\ j.pc \in {"lookup", "wait"} /\ i \in Nat /\ i \in 1 .. b[j]
  BY InPending, Zenon
<1>6. \A j, i : <<j, i>> \in Pending(a) <=> j \in DOMAIN a /\ j.pc \in {"lookup", "wait"} /\ i \in Nat /\ i \in 1 .. a[j]
  BY InPending, Zenon
<1>7. \A t \in Pending(a) \cup Pending(b) : t = <<t[1], t[2]>>
  BY InPending, Zenon
<1>8. ASSUME k.pc \notin {"lookup", "wait"} PROVE Pending(a) = Pending(b)
  <2>1. \A j, i : <<j, i>> \in Pending(a) <=> <<j, i>> \in Pending(b)
    BY <1>2, <1>5, <1>6, <1>8, Zenon
  <2> QED
    BY <1>7, <2>1
<1>9. ASSUME k.pc \in {"lookup", "wait"}
      PROVE  \E t : t \notin Pending(b) /\ Pending(a) = Pending(b) \cup {t}
  <2>1. PICK n \in Nat : n = Count(b, k) + 1
    BY <1>3
  <2>2. \A i \in Nat : i \in 1 .. n <=> i \in 1 .. Count(b, k) \/ i = n
    BY <1>3, <2>1
  <2>3. n \in 1 .. n /\ n \notin 1 .. Count(b, k) /\ 1 .. 0 = {}
    BY <1>3, <2>1
  <2>4. <<k, n>> \notin Pending(b)
    BY <1>3, <1>5, <2>3, Zenon
  <2>5. \A i : <<k, i>> \in Pending(a) <=> <<k, i>> \in Pending(b) \/ i = n
    BY <1>2, <1>3, <1>5, <1>6, <1>9, <2>1, <2>2, <2>3
  <2>6. \A j, i : j # k => (<<j, i>> \in Pending(a) <=> <<j, i>> \in Pending(b))
    BY <1>2, <1>5, <1>6, Zenon
  <2>7. \A t : t \in Pending(a) => t \in Pending(b) \cup {<<k, n>>}
    BY <1>7, <2>5, <2>6
  <2>8. \A t : t \in Pending(b) \cup {<<k, n>>} => t \in Pending(a)
    BY <1>7, <2>5, <2>6
  <2> QED
    BY <2>4, <2>7, <2>8, Zenon
<1> QED
  BY <1>1, <1>4, <1>8, <1>9, Zenon

\* One goroutine less.
LEMMA PendingMinus ==
    ASSUME NEW b, Positive(b), NEW k \in DOMAIN b
    PROVE  /\ Positive(Less(b, k)) /\ DOMAIN (Less(b, k)) \subseteq DOMAIN b
           /\ k.pc \notin {"lookup", "wait"} => Pending(Less(b, k)) = Pending(b)
           /\ k.pc \in {"lookup", "wait"} =>
                 \E t \in Pending(b) : Pending(Less(b, k)) = Pending(b) \ {t}
<1>1. PICK a : a = Less(b, k)
  BY Zenon
<1>2. /\ \A j \in DOMAIN b : j # k => j \in DOMAIN a /\ a[j] = b[j]
      /\ k \in DOMAIN a <=> b[k] > 1
      /\ k \in DOMAIN a => a[k] = b[k] - 1
      /\ DOMAIN a \subseteq DOMAIN b
  BY <1>1 DEF Less
<1>3. b[k] \in Nat \ {0}
  BY Zenon DEF Positive
<1>4. Positive(a)
  BY <1>2, <1>3 DEF Positive
<1>5. \A j, i : <<j, i>> \in Pending(b) <=> j \in DOMAIN b /\ j.pc \in {"lookup", "wait"} /\ i \in Nat /\ i \in 1 .. b[j]
  BY InPending, Zenon
<1>6. \A j, i : <<j, i>> \in Pending(a) <=> j \in DOMAIN a /\ j.pc \in {"lookup", "wait"} /\ i \in Nat /\ i \in 1 .. a[j]
  BY InPending, Zenon
<1>7. \A t \in Pending(a) \cup Pending(b) : t = <<t[1], t[2]>>
  BY InPending, Zenon
<1>8. \A j, i : j # k => (<<j, i>> \in Pending(a) <=> <<j, i>> \in Pending(b))
  BY <1>2, <1>5, <1>6, Zenon
<1>9. ASSUME k.pc \notin {"lookup", "wait"} PROVE Pending(a) = Pending(b)
  <2>1. \A j, i : <<j, i>> \in Pending(a) <=> <<j, i>> \in Pending(b)
    BY <1>5, <1>6, <1>8, <1>9, Zenon
  <2> QED
    BY <1>7, <2>1
<1>10. ASSUME k.pc \in {"lookup", "wait"}
       PROVE  \E t \in Pending(b) : Pending(a) = Pending(b) \ {t}
  <2>1. PICK n \in Nat \ {0} : n = b[k]
    BY <1>3, Zenon
  <2>2. \A i \in Nat : i \in 1 .. n /\ i # n <=> n > 1 /\ i \in 1 .. (n - 1)
    OBVIOUS
  <2>3. <<k, n>> \in Pending(b)
    BY <1>5, <1>10, <2>1
  <2>4. \A i : <<k, i>> \in Pending(a) <=> <<k, i>> \in Pending(b) /\ i # n
    BY <1>2, <1>5, <1>6, <1>10, <2>1, <2>2, Zenon
  <2>5. \A t : t \in Pending(a) => t \in Pending(b) \ {<<k, n>>}
    BY <1>7, <1>8, <2>4
  <2>6. \A t : t \in Pending(b) \ {<<k, n>>} => t \in Pending(a)
    BY <1>7, <1>8, <2>4
  <2> QED
    BY <2>3, <2>5, <2>6, Zenon
<1> QED
  BY <1>1, <1>2, <1>4, <1>9, <1>10, Zenon

\* n is the size of S.
Sized(S, n) ==
    \E f \in [1 .. n -> S] :
        /\ \A x \in S : \E i \in 1 .. n : f[i] = x
        /\ \A i, j \in 1 .. n : f[i] = f[j] => i = j

\* The empty set has size 0, and no other.
LEMMA SizedNone ==
    /\ Sized({}, 0)
    /\ \A n \in Nat : Sized({}, n) => n = 0
<1>1. Sized({}, 0)
  <2>1. PICK f : f = [i \in 1 .. 0 |-> i]
    BY Zenon
  <2>2. 1 .. 0 = {}
    OBVIOUS
  <2>3. f \in [1 .. 0 -> {}]
    BY <2>1, <2>2, Zenon
  <2> QED
    BY <2>2, <2>3, Zenon DEF Sized
<1>2. ASSUME NEW n \in Nat, Sized({}, n) PROVE n = 0
  BY <1>2 DEF Sized
<1> QED
  BY <1>1, <1>2, Zenon

\* One element more.
LEMMA SizedPlus ==
    ASSUME NEW S, NEW n \in Nat, Sized(S, n), NEW x, x \notin S
    PROVE  Sized(S \cup {x}, n + 1)
<1>1. PICK f \in [1 .. n -> S] :
        /\ \A y \in S : \E i \in 1 .. n : f[i] = y
        /\ \A i, j \in 1 .. n : f[i] = f[j] => i = j
  BY Zenon DEF Sized
<1>2. PICK g : g = [i \in 1 .. (n + 1) |-> IF i = n + 1 THEN x ELSE f[i]]
  BY Zenon
<1>3. g[n + 1] = x /\ \A i \in 1 .. n : g[i] = f[i] /\ g[i] \in S
  BY <1>1, <1>2
<1>4. \A i \in 1 .. (n + 1) : i = n + 1 \/ i \in 1 .. n
  OBVIOUS
<1>5. n + 1 \in 1 .. (n + 1) /\ 1 .. n \subseteq 1 .. (n + 1)
  OBVIOUS
<1>6. g \in [1 .. (n + 1) -> S \cup {x}]
  BY <1>2, <1>3, <1>4, Zenon
<1>7. \A y \in S \cup {x} : \E i \in 1 .. (n + 1) : g[i] = y
  BY <1>1, <1>3, <1>5, Zenon
<1>8. \A i, j \in 1 .. (n + 1) : g[i] = g[j] => i = j
  BY <1>1, <1>3, <1>4, Zenon
<1> QED
  BY <1>6, <1>7, <1>8, Zenon DEF Sized

\* One element less.
LEMMA SizedMinus ==
    ASSUME NEW S, NEW n \in Nat, Sized(S, n), NEW x \in S
    PROVE  n - 1 \in Nat /\ Sized(S \ {x}, n - 1)
<1>1. PICK f \in [1 .. n -> S] :
        /\ \A y \in S : \E i \in 1 .. n : f[i] = y
        /\ \A i, j \in 1 .. n : f[i] = f[j] => i = j
  BY Zenon DEF Sized
<1>2. PICK a \in 1 .. n : f[a] = x
  BY <1>1, Zenon
<1>3. n - 1 \in Nat /\ n \in 1 .. n /\ n \notin 1 .. (n - 1) /\ \A i \in 1 .. n : i = n \/ i \in 1 .. (n - 1)
  BY <1>2
<1>4. \A i \in 1 .. (n - 1) : i \in 1 .. n
  OBVIOUS
<1>5. PICK g : g = [i \in 1 .. (n - 1) |-> IF i = a THEN f[n] ELSE f[i]]
  BY Zenon
<1>6. \A i \in 1 .. (n - 1) : (i = a => g[i] = f[n]) /\ (i # a => g[i] = f[i])
  BY <1>5, Zenon
<1>7. \A i \in 1 .. (n - 1) : g[i] \in S \ {x}
  BY <1>1, <1>2, <1>3, <1>4, <1>6, Zenon
<1>8. g \in [1 .. (n - 1) -> S \ {x}]
  BY <1>5, <1>7, Zenon
<1>9. ASSUME NEW y \in S \ {x} PROVE \E i \in 1 .. (n - 1) : g[i] = y
  <2>1. PICK i \in 1 .. n : f[i] = y
    BY <1>1, Zenon
  <2>2. i # a
    BY <1>2, <2>1, Zenon
  <2> QED
    BY <1>2, <1>3, <1>6, <2>1, <2>2, Zenon
<1>10. \A i, j \in 1 .. (n - 1) : g[i] = g[j] => i = j
  BY <1>1, <1>3, <1>4, <1>6, Zenon
<1> QED
  BY <1>3, <1>8, <1>9, <1>10, Zenon DEF Sized

Kept == setup.ops \cap {"Delete", "Replay"} = {}

\* A request other than Create has found the simulation, and the entry stays.
KeptCall(c) ==
    calls[c].pc \notin Settled => calls[c].op \in setup.ops /\ (calls[c].op # "Create" => current # None)

\* The gauge counts the starts that have yet to leave a goroutine behind and the goroutines
\* that have yet to lower it; these find the simulation, so that each of them does.
Gauged ==
    /\ Positive(watches)
    /\ \E m, n \in Nat : Sized(Starters, m) /\ Sized(Pending(watches), n) /\ gauge = m + n
    /\ DOMAIN watches # {} => current # None
    /\ \A c \in Callers : KeptCall(c)

GaugeInv == Kept => Gauged

\* The calls after a step of one.
LEMMA KeptCalls ==
    ASSUME Gauged, setup' = setup, NEW c \in Callers, \A d \in Callers \ {c} : calls'[d] = calls[d],
           current # None => current' # None,
           \/ calls'[c].pc \in Settled
           \/ calls'[c].op \in setup.ops /\ (calls'[c].op # "Create" => current' # None)
    PROVE  \A d \in Callers : KeptCall(d)'
<1>1. KeptCall(c)'
  BY Zenon DEF KeptCall
<1>2. ASSUME NEW d \in Callers \ {c} PROVE KeptCall(d)'
  BY <1>2, Zenon DEF Gauged, KeptCall
<1> QED
  BY <1>1, <1>2, Zenon

\* A step that is about neither the gauge nor a goroutine.
LEMMA GaugeCalm ==
    ASSUME Gauged, setup' = setup, NEW c \in Callers, \A d \in Callers \ {c} : calls'[d] = calls[d],
           UNCHANGED <<gauge, watches>>, current # None => current' # None,
           ~ At(c, "Start", "status"), ~ At(c, "Start", "status")',
           \/ calls'[c].pc \in Settled
           \/ calls'[c].op \in setup.ops /\ (calls'[c].op # "Create" => current' # None)
    PROVE  Gauged'
<1>1. \A d \in Callers : KeptCall(d)'
  BY KeptCalls, Zenon
<1>2. Starters' = Starters
  BY Zenon DEF Starters, At
<1>3. DOMAIN watches' # {} => current' # None
  BY Zenon DEF Gauged
<1> QED
  BY <1>1, <1>2, <1>3, Zenon DEF Gauged

\* A step of a request keeps the gauge exact.
LEMMA GaugeCall ==
    ASSUME TypeInv, Kept, Gauged, NEW c \in Callers, CallStep(c)
    PROVE  Gauged'
<1>0. CallsOK /\ KeptCall(c) /\ CallOK(calls[c], Len(objects))
  BY Zenon DEF TypeInv, CallsOK, Gauged
<1>1. /\ calls[c].pc \notin Settled /\ setup' = setup
      /\ calls[c].op \in setup.ops /\ (calls[c].op # "Create" => current # None)
      /\ calls[c].op \notin {"Delete", "Replay"}
      /\ \A d \in Callers \ {c} : calls'[d] = calls[d]
  BY <1>0, CallTouches, TouchedOK, Zenon DEF context, Followed, KeptCall, Kept
<1>2. \A a : Return(c, a) => calls'[c].pc \in Settled /\ calls'[c].pc # "status"
  <2>1. {"idle", "answer"} \subseteq Settled
    BY Zenon DEF Settled, Writing
  <2> QED
    BY <1>0, <2>1, WhereTo, Zenon
<1>3. \A pc : GoTo(c, pc) => calls'[c].pc = pc /\ calls'[c].op = calls[c].op
  BY <1>0, WhereTo, Zenon
<1>4. \A pc : Built(c, pc) => calls'[c].pc = pc /\ calls'[c].op = calls[c].op
  BY <1>0, WhereTo, Zenon
<1>5. \A s : ToStatus(c, s) => calls'[c].pc = "status" /\ calls'[c].op = calls[c].op
  BY <1>0, WhereTo, Zenon
<1>6. ASSUME UNCHANGED <<gauge, watches>>, current' = current \/ current' # None, ~ At(c, "Start", "status"),
             \/ \E a : Return(c, a)
             \/ \E pc : pc # "status" /\ (GoTo(c, pc) \/ Built(c, pc))
             \/ calls[c].op # "Start" /\ \E s : ToStatus(c, s)
      PROVE  Gauged'
  <2>1. \/ calls'[c].pc \in Settled /\ calls'[c].pc # "status"
        \/ calls'[c].op = calls[c].op /\ (calls'[c].pc # "status" \/ calls[c].op # "Start")
    BY <1>2, <1>3, <1>4, <1>5, <1>6, Zenon
  <2>2. ~ At(c, "Start", "status")'
    BY <2>1, Zenon DEF At
  <2>3. \/ calls'[c].pc \in Settled
        \/ calls'[c].op \in setup.ops /\ (calls'[c].op # "Create" => current' # None)
    BY <1>1, <1>6, <2>1, Zenon
  <2> QED
    BY <1>1, <1>6, <2>2, <2>3, GaugeCalm, Zenon
<1>7. CASE CreateBuilds(c)
  BY <1>6, <1>7, Zenon DEF CreateBuilds, Instantiate, Built, At
<1>8. CASE CreateInserts(c)
  BY <1>6, <1>8, Zenon DEF CreateInserts, At
<1>9. CASE CreatePublishes(c)
  <2>1. Obj(c) # None
    BY <1>0, <1>1, <1>9 DEF CreatePublishes, At, CallOK, Obj
  <2> QED
    BY <1>6, <1>9, <2>1, Zenon DEF CreatePublishes, At
<1>10. CASE StartBegins(c)
  <2>1. CASE Return(c, "conflict") /\ UNCHANGED gauge
    BY <1>6, <1>10, <2>1, Zenon DEF StartBegins, At
  <2>2. CASE gauge' = gauge + 1 /\ ToStatus(c, "running")
    <3>1. At(c, "Start", "begin") /\ UNCHANGED <<current, watches>>
      BY <1>10, Zenon DEF StartBegins
    <3>2. calls'[c].pc = "status" /\ calls'[c].op = "Start" /\ c \notin Starters
      BY <1>5, <2>2, <3>1, Zenon DEF Starters, At
    <3>3. Starters' = Starters \cup {c}
      BY <1>1, <3>2, Zenon DEF Starters, At
    <3>4. PICK m, n \in Nat : Sized(Starters, m) /\ Sized(Pending(watches), n) /\ gauge = m + n
      BY Zenon DEF Gauged
    <3>5. m + 1 \in Nat /\ gauge' = (m + 1) + n
      BY <2>2, <3>4
    <3>6. Sized(Starters', m + 1)
      <4>1. Sized(Starters \cup {c}, m + 1)
        BY <3>2, <3>4, SizedPlus, Zenon
      <4> QED
        BY <3>3, <4>1, Zenon
    <3>7. \A d \in Callers : KeptCall(d)'
      BY <1>1, <3>1, <3>2, KeptCalls, Zenon DEF At
    <3> QED
      BY <3>1, <3>4, <3>5, <3>6, <3>7, Zenon DEF Gauged
  <2> QED
    BY <1>10, <2>1, <2>2, Zenon DEF StartBegins, ToStatus
<1>11. ASSUME NEW op, NEW from, NEW to, op # "Start", Control(c, op, from, to) PROVE Gauged'
  BY <1>6, <1>11, Zenon DEF Control, At, ToStatus
<1>12. CASE StepBegins(c) \/ StepFails(c)
  BY <1>6, <1>12, Zenon DEF StepBegins, StepFails, At
<1>13. CASE StepReads(c)
  BY <1>6, <1>13, Zenon DEF StepReads, ToStatus, At
<1>14. CASE UpdateStatus(c)
  <2>1. /\ calls[c].pc = "status" /\ UNCHANGED <<current, gauge>> /\ Return(c, "ok")
        /\ watches' = IF calls[c].op \in {"Start", "Replay"} THEN More(watches, Watch) ELSE watches
    BY <1>14, Zenon DEF UpdateStatus, Only
  <2>2. CASE calls[c].op # "Start"
    BY <1>1, <1>6, <2>1, <2>2 DEF At
  <2>3. CASE calls[c].op = "Start"
    <3>1. calls'[c].pc \in Settled /\ calls'[c].pc # "status" /\ c \in Starters /\ watches' = More(watches, Watch)
      BY <1>2, <2>1, <2>3, Zenon DEF Starters, At
    <3>2. Starters' = Starters \ {c}
      BY <1>1, <3>1, Zenon DEF Starters, At
    <3>3. PICK m, n \in Nat : Sized(Starters, m) /\ Sized(Pending(watches), n) /\ gauge = m + n
      BY Zenon DEF Gauged
    <3>4. m - 1 \in Nat /\ Sized(Starters', m - 1)
      <4>1. m - 1 \in Nat /\ Sized(Starters \ {c}, m - 1)
        BY <3>1, <3>3, SizedMinus, Zenon
      <4> QED
        BY <3>2, <4>1, Zenon
    <3>5. Watch.pc \in {"lookup", "wait"}
      BY Zenon DEF Watch
    <3>6. Positive(watches') /\ \E t : t \notin Pending(watches) /\ Pending(watches') = Pending(watches) \cup {t}
      BY <3>1, <3>5, PendingPlus, Zenon DEF Gauged
    <3>7. Sized(Pending(watches'), n + 1)
      <4>1. PICK t : t \notin Pending(watches) /\ Pending(watches') = Pending(watches) \cup {t}
        BY <3>6, Zenon
      <4>2. Sized(Pending(watches) \cup {t}, n + 1)
        BY <3>3, <4>1, SizedPlus, Zenon
      <4> QED
        BY <4>1, <4>2, Zenon
    <3>8. n + 1 \in Nat /\ gauge' = (m - 1) + (n + 1)
      BY <2>1, <3>3
    <3>9. \A d \in Callers : KeptCall(d)'
      BY <1>1, <2>1, <3>1, KeptCalls, Zenon
    <3>10. current' # None
      BY <1>1, <2>1, <2>3, Zenon
    <3> QED
      BY <3>4, <3>6, <3>7, <3>8, <3>9, <3>10, Zenon DEF Gauged
  <2> QED
    BY <2>2, <2>3, Zenon
<1>15. CASE SnapshotTakes(c) \/ SnapshotSaves(c) \/ Restores(c)
  BY <1>6, <1>15, Zenon DEF SnapshotTakes, SnapshotSaves, Restores, At
<1>16. ~ (DeleteChecksRunning(c) \/ DeleteChecksPaused(c) \/ DeleteStops(c) \/ DeleteUnmaps(c) \/ DeleteRemovesRow(c))
  BY <1>1, Zenon DEF DeleteChecksRunning, DeleteChecksPaused, DeleteStops, DeleteUnmaps,
     DeleteRemovesRow, At
<1>17. ~ (ReplayStops(c) \/ ReplayBuilds(c) \/ ReplaySwaps(c) \/ ReplayStarts(c))
  BY <1>1, Zenon DEF ReplayStops, ReplayBuilds, ReplaySwaps, ReplayStarts, At
<1> QED
  BY <1>7, <1>8, <1>9, <1>10, <1>11, <1>12, <1>13, <1>14, <1>15, <1>16, <1>17, Zenon DEF CallStep

\* A step of a goroutine does.
LEMMA GaugeWatch ==
    ASSUME TypeInv, WatchesOK, Gauged, NEW k \in DOMAIN watches, WatchStep(k)
    PROVE  Gauged'
<1>1. UNCHANGED <<setup, current, calls>>
  BY WatchMoves, Zenon
<1>2. Starters' = Starters /\ current' # None /\ k \in WatchRecs
  BY <1>1, Zenon DEF Starters, At, Gauged, WatchesOK, WatchOK
<1>3. \A c \in Callers : KeptCall(c)'
  BY <1>1, Zenon DEF Gauged, KeptCall
<1>4. PICK m, n \in Nat : Sized(Starters, m) /\ Sized(Pending(watches), n) /\ gauge = m + n
  BY Zenon DEF Gauged
<1>5. PICK b : b = Less(watches, k)
  BY Zenon
<1>6. /\ Positive(b)
      /\ k.pc \notin {"lookup", "wait"} => Pending(b) = Pending(watches)
      /\ k.pc \in {"lookup", "wait"} => \E t \in Pending(watches) : Pending(b) = Pending(watches) \ {t}
  BY <1>5, PendingMinus, Zenon DEF Gauged
<1>7. /\ k.pc \notin {"lookup", "wait"} => Sized(Pending(b), n)
      /\ k.pc \in {"lookup", "wait"} => n - 1 \in Nat /\ Sized(Pending(b), n - 1)
  <2>1. ASSUME k.pc \in {"lookup", "wait"} PROVE n - 1 \in Nat /\ Sized(Pending(b), n - 1)
    <3>1. PICK t \in Pending(watches) : Pending(b) = Pending(watches) \ {t}
      BY <1>6, <2>1, Zenon
    <3>2. n - 1 \in Nat /\ Sized(Pending(watches) \ {t}, n - 1)
      BY <1>4, SizedMinus, Zenon
    <3> QED
      BY <3>1, <3>2, Zenon
  <2> QED
    BY <1>4, <1>6, <2>1, Zenon
<1>8. \A j : WatchGoTo(k, j) => watches' = More(b, j)
  BY <1>5, Zenon DEF WatchGoTo
<1>9. ASSUME Positive(watches'), NEW i \in Nat, Sized(Pending(watches'), i), gauge' = m + i
      PROVE  Gauged'
  BY <1>2, <1>3, <1>4, <1>9, Zenon DEF Gauged
<1>10. CASE WatchFinds(k)
  <2>1. PICK j : j = [k EXCEPT !.pc = "wait", !.obj = current, !.run = objects[current].runs]
    BY Zenon
  <2>2. j.pc = "wait" /\ k.pc = "lookup" /\ gauge' = gauge
    BY <1>2, <1>10, <2>1, Zenon DEF WatchRecs, WatchFinds
  <2>3. watches' = More(b, j)
    BY <1>1, <1>2, <1>8, <1>10, <2>1, Zenon DEF WatchFinds
  <2>4. PICK t : t \notin Pending(b) /\ Pending(watches') = Pending(b) \cup {t}
    BY <1>6, <2>2, <2>3, PendingPlus, Zenon
  <2>5. PICK i \in Nat : i = n - 1 /\ Sized(Pending(b), i)
    BY <1>7, <2>2, Zenon
  <2>6. Sized(Pending(watches'), i + 1) /\ i + 1 = n
    <3>1. Sized(Pending(b) \cup {t}, i + 1)
      BY <2>4, <2>5, SizedPlus, Zenon
    <3>2. i + 1 = n
      BY <2>5
    <3> QED
      BY <2>4, <3>1, <3>2, Zenon
  <2>7. Positive(watches')
    BY <1>6, <2>3, PendingPlus, Zenon
  <2> QED
    BY <1>4, <1>9, <2>2, <2>6, <2>7, Zenon
<1>11. CASE WatchWaits(k)
  <2>1. PICK j : j = [k EXCEPT !.pc = "read"]
    BY Zenon
  <2>2. j.pc = "read" /\ k.pc = "wait" /\ gauge' = gauge - 1
    BY <1>2, <1>11, <2>1, Zenon DEF WatchRecs, WatchWaits
  <2>3. watches' = More(b, j)
    BY <1>8, <1>11, <2>1, Zenon DEF WatchWaits
  <2>4. gauge' = m + (n - 1)
    BY <1>4, <2>2
  <2>5. Pending(watches') = Pending(b) /\ Positive(watches')
    BY <1>6, <2>2, <2>3, PendingPlus, Zenon
  <2> QED
    BY <1>7, <1>9, <2>2, <2>4, <2>5, Zenon
<1>12. CASE WatchReads(k)
  <2>1. PICK j : j = [k EXCEPT !.pc = "write", !.status = StatusOf(objects[k.obj].state)]
    BY Zenon
  <2>2. j.pc = "write" /\ k.pc = "read" /\ gauge' = gauge
    BY <1>2, <1>12, <2>1, Zenon DEF WatchRecs, WatchReads
  <2>3. watches' = More(b, j)
    BY <1>8, <1>12, <2>1, Zenon DEF WatchReads
  <2>4. Pending(watches') = Pending(b) /\ Positive(watches')
    BY <1>6, <2>2, <2>3, PendingPlus, Zenon
  <2> QED
    BY <1>4, <1>7, <1>9, <2>2, <2>4, Zenon
<1>13. CASE WatchWrites(k)
  <2>1. watches' = b /\ k.pc = "write" /\ gauge' = gauge
    BY <1>5, <1>13, Zenon DEF WatchWrites, WatchEnds
  <2> QED
    BY <1>4, <1>6, <1>7, <1>9, <2>1, Zenon
<1> QED
  BY <1>10, <1>11, <1>12, <1>13, Zenon DEF WatchStep

\* Every step does.
LEMMA NextGaugeInv == TypeInv /\ WatchesOK /\ GaugeInv /\ [Next]_apiVars => GaugeInv'
<1> SUFFICES ASSUME TypeInv, WatchesOK, GaugeInv, [Next]_apiVars, Kept' PROVE Gauged'
  BY DEF GaugeInv
<1>0. setup' = setup
  <2>1. ASSUME NEW c \in Callers, Request(c) \/ HandlerStep(c) \/ TimerStep(c) PROVE setup' = setup
    BY <2>1, RequestTyped, HandlerTyped, TimerTyped
  <2>2. UNCHANGED apiVars => setup' = setup
    BY DEF apiVars, vars, context
  <2> QED
    BY <2>1, <2>2, ManagerTyped DEF Next
<1>1. Kept /\ Gauged /\ CallsOK
  BY <1>0, Zenon DEF Kept, GaugeInv, TypeInv
<1>2. ASSUME UNCHANGED <<current, gauge, watches, calls>> PROVE Gauged'
  <2>1. \A c \in Callers : KeptCall(c)'
    BY <1>0, <1>1, <1>2, Zenon DEF Gauged, KeptCall
  <2>2. Starters' = Starters
    BY <1>2, Zenon DEF Starters, At
  <2> QED
    BY <1>1, <1>2, <2>1, <2>2, Zenon DEF Gauged
<1>3. CASE UNCHANGED apiVars
  BY <1>2, <1>3, Zenon DEF apiVars, vars
<1>4. ASSUME NEW o \in Objects, RunStep(o) PROVE Gauged'
  BY <1>1, <1>2, <1>4, RunOK
<1>5. ASSUME NEW c \in Callers, CallStep(c) PROVE Gauged'
  BY <1>1, <1>5, GaugeCall
<1>6. ASSUME NEW k \in DOMAIN watches, WatchStep(k) PROVE Gauged'
  BY <1>1, <1>6, GaugeWatch, Zenon
<1>7. ASSUME NEW c \in Callers, Request(c) PROVE Gauged'
  <2>1. /\ UNCHANGED <<current, gauge, watches>> /\ calls[c].pc = "idle"
        /\ \A d \in Callers \ {c} : calls'[d] = calls[d]
    BY <1>7, RequestTyped, Zenon
  <2>2. \/ calls'[c].pc \in {"idle", "answer"}
        \/ /\ calls'[c].pc = "begin" /\ calls'[c].op \in setup.ops
           /\ calls'[c].op = "Create" \/ current # None
    BY <1>1, <1>7, Arrives, Zenon DEF Request
  <2>3. ~ At(c, "Start", "status") /\ ~ At(c, "Start", "status")'
    BY <2>1, <2>2, Zenon DEF At
  <2>4. \/ calls'[c].pc \in Settled
        \/ calls'[c].op \in setup.ops /\ (calls'[c].op # "Create" => current' # None)
    BY <2>1, <2>2, Zenon DEF Settled, Writing
  <2> QED
    BY <1>0, <1>1, <2>1, <2>3, <2>4, GaugeCalm
<1>8. ASSUME NEW c \in Callers, HandlerStep(c) PROVE Gauged'
  <2>1. /\ UNCHANGED <<current, gauge, watches>> /\ calls[c].pc \in Writing \cup {"step"} /\ calls'[c].pc \in Settled
        /\ \A d \in Callers \ {c} : calls'[d] = calls[d]
    BY <1>8, HandlerTyped, Zenon
  <2>2. ~ At(c, "Start", "status") /\ ~ At(c, "Start", "status")'
    BY <2>1, Zenon DEF At, Settled, Writing
  <2> QED
    BY <1>0, <1>1, <2>1, <2>2, GaugeCalm
<1>9. ASSUME NEW c \in Callers, TimerStep(c) PROVE Gauged'
  BY <1>2, <1>9, TimerTyped, Zenon
<1> QED
  BY <1>3, <1>4, <1>5, <1>6, <1>7, <1>8, <1>9 DEF Next, ManagerStep

\* Every start that was counted is counted down.
THEOREM GaugeReturns == Spec => []GaugeSettles
<1>1. ApiInit => GaugeInv
  <2> SUFFICES ASSUME ApiInit PROVE Gauged
    BY DEF GaugeInv
  <2>1. gauge = 0 /\ watches = NoWatches /\ \A c \in Callers : calls[c] = Idle
    BY Zenon DEF ApiInit, Init
  <2>2. \A c \in Callers : calls[c].pc = "idle"
    <3>1. Idle.pc = "idle"
      BY DEF Idle
    <3> QED
      BY <2>1, <3>1, Zenon
  <2>3. Starters = {} /\ \A c \in Callers : KeptCall(c)
    BY <2>2, Zenon DEF Starters, At, KeptCall, Settled
  <2>4. DOMAIN watches = {} /\ Positive(watches) /\ Pending(watches) = {}
    BY <2>1, OneWatch, Zenon DEF Positive, Pending
  <2>5. 0 \in Nat /\ 0 = 0 + 0
    OBVIOUS
  <2> QED
    BY <2>1, <2>3, <2>4, <2>5, SizedNone, Zenon DEF Gauged
<1>2. GaugeInv => GaugeSettles
  <2> SUFFICES ASSUME Gauged, Quiet PROVE gauge = 0
    BY Zenon DEF GaugeInv, GaugeSettles, Kept
  <2>1. Starters = {}
    BY Zenon DEF Quiet, NoCalls, Starters, At
  <2>2. DOMAIN watches = {}
    BY OneWatch, Zenon DEF Quiet
  <2>3. Pending(watches) = {}
    BY <2>2, Zenon DEF Pending
  <2> QED
    BY <2>1, <2>3, SizedNone DEF Gauged
<1> QED
  BY <1>1, <1>2, NextGaugeInv, WatchTypes, TypeCorrectness, PTL DEF Spec
==============================================================================
