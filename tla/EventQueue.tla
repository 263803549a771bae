----------------------------- MODULE EventQueue -----------------------------
(***************************************************************************)
(* The event queue of pkg/simulation/event.go: a binary heap, kept by      *)
(* container/heap, of events ordered by time, priority and sequence        *)
(* number, with its snapshots.  eventLess compares IDs last; sequence      *)
(* numbers are distinct (EventsConserved in Executor), so IDs never decide *)
(* and are left out.  Type, source and target of an event are the model's. *)
(***************************************************************************)
EXTENDS Integers, Sequences

VARIABLES
    heap,        \* eventHeap
    seq,         \* the sequence number of the last event
    registered   \* TRUE when the type of typed payloads is registered

queueVars == <<heap, seq, registered>>

\* A payload that was saved without its type comes back as json.RawMessage, "raw".
Event ==
    [time : Nat, priority : Int, seq : Nat, payload : {"none", "typed", "raw"}]

\* eventLess
Before(a, b) ==
    \/ a.time < b.time
    \/ a.time = b.time /\ a.priority > b.priority
    \/ a.time = b.time /\ a.priority = b.priority /\ a.seq < b.seq

(* ---------------------------- container/heap ---------------------------- *)

Swapped(h, i, j) == [h EXCEPT ![i] = h[j], ![j] = h[i]]

\* One turn of the loop of up: the element at s.at rises if it comes before its parent.
UpTurn(s) ==
    LET i == s.at \div 2
    IN  IF i = 0 \/ ~Before(s.heap[s.at], s.heap[i]) THEN s
        ELSE [heap |-> Swapped(s.heap, s.at, i), at |-> i]

\* up: turns until none changes anything any more, at most as many as j.
Up(h, j) ==
    LET turns[n \in 0 .. j] == IF n = 0 THEN [heap |-> h, at |-> j] ELSE UpTurn(turns[n - 1])
    IN  turns[j].heap

\* The child that the element at place i is compared with: the right one only if it comes
\* before the left one.
Child(h, i) == IF 2 * i + 1 <= Len(h) /\ Before(h[2 * i + 1], h[2 * i]) THEN 2 * i + 1 ELSE 2 * i

\* One turn of the loop of down: the element at s.at sinks if a child comes before it.
DownTurn(s) ==
    LET j == Child(s.heap, s.at)
    IN  IF j > Len(s.heap) \/ ~Before(s.heap[j], s.heap[s.at]) THEN s
        ELSE [heap |-> Swapped(s.heap, s.at, j), at |-> j]

\* down, from the first place.
Down(h) ==
    LET turns[n \in 0 .. Len(h)] == IF n = 0 THEN [heap |-> h, at |-> 1] ELSE DownTurn(turns[n - 1])
    IN  turns[Len(h)].heap

HeapPush(h, e) == Up(Append(h, e), Len(h) + 1)

\* Mutant: the last element takes the place of the first and stays there.
HeapPopNoDown(h) == IF Len(h) = 1 THEN <<>> ELSE <<h[Len(h)]>> \o SubSeq(h, 2, Len(h) - 1)

\* The heap without its first element: the last one takes its place and sinks.
HeapPop(h) == IF Len(h) = 1 THEN <<>> ELSE Down(<<h[Len(h)]>> \o SubSeq(h, 2, Len(h) - 1))

(* ------------------------------- the queue ------------------------------ *)

InitQueue == heap = <<>> /\ seq = 0 /\ registered = FALSE

\* Push: also ScheduleAt, ScheduleAtPriority, ScheduleIn and ScheduleNow.
Push(t, p, payload) ==
    /\ seq' = seq + 1
    /\ heap' = HeapPush(heap, [time |-> t, priority |-> p, seq |-> seq + 1, payload |-> payload])
    /\ UNCHANGED registered

\* Pop, of a queue that is not empty.
Pop == heap # <<>> /\ heap' = HeapPop(heap) /\ UNCHANGED <<seq, registered>>

RegisterPayloadType == ~registered /\ registered' = TRUE /\ UNCHANGED <<heap, seq>>

\* marshalPayload: only a registered type is kept, in an envelope.
Marshalled(p) == CASE p = "none" -> "none" [] p = "typed" /\ registered -> "envelope" [] OTHER -> "json"

\* Mutant: an envelope is taken for plain JSON.
UnmarshalledRaw(p) == IF p = "none" THEN "none" ELSE "raw"

\* unmarshalPayload, of an envelope whose type is registered.
Unmarshalled(p) == CASE p = "none" -> "none" [] p = "envelope" -> "typed" [] OTHER -> "raw"

\* snapshot: the heap in the order of its array.
QueueSnapshot ==
    [seq |-> seq, events |-> [i \in DOMAIN heap |-> [heap[i] EXCEPT !.payload = Marshalled(heap[i].payload)]]]

\* The number of events restore pushes: it stops at an envelope it cannot open.
Readable(events) ==
    IF registered THEN Len(events)
    ELSE CHOOSE n \in 0 .. Len(events) :
            /\ \A i \in 1 .. n : events[i].payload # "envelope"
            /\ n < Len(events) => events[n + 1].payload = "envelope"

\* The heap h after pushRaw of the first n events.
Restored(h, events, n) ==
    LET pushed[i \in 0 .. n] ==
            IF i = 0 THEN h
            ELSE HeapPush(pushed[i - 1], [events[i] EXCEPT !.payload = Unmarshalled(events[i].payload)])
    IN  pushed[n]

\* Mutant: the events that are queued stay.
RestoreQueueMerges(s) ==
    /\ heap' = Restored(heap, s.events, Readable(s.events))
    /\ seq' = s.seq
    /\ UNCHANGED registered

\* restore, as far as it gets.
RestoreQueue(s) ==
    /\ heap' = Restored(<<>>, s.events, Readable(s.events))
    /\ seq' = s.seq
    /\ UNCHANGED registered
=============================================================================
