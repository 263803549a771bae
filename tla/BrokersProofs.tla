--------------------------- MODULE BrokersProofs ----------------------------
(***************************************************************************)
(* Both brokers keep the promise of Delivery, and RabbitMQ leaks no        *)
(* connection, for any messages, consumers, capacity and number of drops.  *)
(***************************************************************************)
EXTENDS Brokers, SequenceTheorems, TLAPS

-----------------------------------------------------------------------------
(* The in-memory broker: every step is a step of Delivery, or changes nothing *)
(* that Delivery sees.                                                        *)

MPcs == {"idle", "check", "get", "send", "ok", "failed", "loop", "handler", "requeue", "returned"}

Once(s) == \A i, j \in 1 .. Len(s) : s[i] = s[j] => i = j

\* A message is in the channel at most once, or with one handler, and only
\* after its Publish has succeeded.
MInv ==
    /\ pc \in [Calls -> MPcs]
    /\ body \in [Consumers -> Msgs \cup {None}]
    /\ buf \in Seq(Msgs) /\ Once(buf)
    /\ \A m \in Msgs : InBuf(m) => pc[m] = "ok"
    /\ \A k \in Consumers : pc[k] \in {"handler", "requeue"} <=> body[k] # None
    /\ \A k \in Consumers, m \in Msgs : body[k] = m =>
         /\ pc[m] = "ok" /\ ~ InBuf(m)
         /\ \A l \in Consumers : body[l] = m => l = k

\* What is in a channel after a send ...
LEMMA SendFacts ==
    ASSUME NEW S, NEW s \in Seq(S), NEW m \in S
    PROVE  /\ Append(s, m) \in Seq(S)
           /\ \A x : (\E i \in DOMAIN Append(s, m) : Append(s, m)[i] = x)
                        <=> (x = m \/ \E i \in DOMAIN s : s[i] = x)
           /\ (Once(s) /\ ~ \E i \in DOMAIN s : s[i] = m) => Once(Append(s, m))
<1> DEFINE t == Append(s, m)
<1>1. t \in Seq(S) /\ Len(t) = Len(s) + 1 /\ DOMAIN t = 1 .. Len(s) + 1 /\ DOMAIN s = 1 .. Len(s) /\ Len(s) \in Nat
  OBVIOUS
<1>2. \A i \in 1 .. Len(s) : t[i] = s[i]
  OBVIOUS
<1>3. t[Len(s) + 1] = m
  OBVIOUS
<1> HIDE DEF t
<1>4. \A i \in 1 .. Len(s) + 1 : i \in 1 .. Len(s) \/ i = Len(s) + 1
  BY <1>1
<1>5. \A x : (\E i \in DOMAIN t : t[i] = x) <=> (x = m \/ \E i \in DOMAIN s : s[i] = x)
  BY <1>1, <1>2, <1>3, <1>4
<1>6. (Once(s) /\ ~ \E i \in DOMAIN s : s[i] = m) => Once(t)
  BY <1>1, <1>2, <1>3, <1>4, Zenon DEF Once
<1> QED BY <1>1, <1>5, <1>6, Zenon DEF t

\* ... and after a receive.
LEMMA ReceiveFacts ==
    ASSUME NEW S, NEW s \in Seq(S), s # <<>>
    PROVE  /\ Head(s) \in S /\ Tail(s) \in Seq(S)
           /\ \E i \in DOMAIN s : s[i] = Head(s)
           /\ Once(s) => /\ Once(Tail(s))
                         /\ \A x : (\E i \in DOMAIN Tail(s) : Tail(s)[i] = x)
                                      <=> (x # Head(s) /\ \E i \in DOMAIN s : s[i] = x)
<1> DEFINE t == Tail(s)
<1>1. /\ t \in Seq(S) /\ Len(t) = Len(s) - 1 /\ DOMAIN t = 1 .. Len(s) - 1
      /\ DOMAIN s = 1 .. Len(s) /\ Len(s) \in Nat \ {0} /\ Head(s) = s[1] /\ s[1] \in S
  OBVIOUS
<1>2. \A i \in 1 .. Len(s) - 1 : t[i] = s[i + 1] /\ i + 1 \in 1 .. Len(s)
  BY <1>1
<1> HIDE DEF t
<1>3. \A i \in 1 .. Len(s) : i = 1 \/ (i - 1 \in 1 .. Len(s) - 1 /\ (i - 1) + 1 = i)
  BY <1>1
<1>4. ASSUME Once(s) PROVE Once(t)
  BY <1>1, <1>2, <1>4 DEF Once
<1>5. ASSUME Once(s), NEW x PROVE (\E i \in DOMAIN t : t[i] = x) <=> (x # s[1] /\ \E i \in DOMAIN s : s[i] = x)
  <2>1. ASSUME NEW i \in DOMAIN t, t[i] = x PROVE x # s[1] /\ \E j \in DOMAIN s : s[j] = x
    <3>1. s[i + 1] = x /\ i + 1 \in 1 .. Len(s) /\ i + 1 # 1
      BY <2>1, <1>1, <1>2
    <3> QED BY <3>1, <1>1, <1>5 DEF Once
  <2>2. ASSUME NEW i \in DOMAIN s, s[i] = x, x # s[1] PROVE \E j \in DOMAIN t : t[j] = x
    <3>1. i - 1 \in DOMAIN t /\ t[i - 1] = s[(i - 1) + 1] /\ (i - 1) + 1 = i
      BY <2>2, <1>1, <1>2, <1>3, Zenon
    <3> QED BY <3>1, <2>2, Zenon
  <2> QED BY <2>1, <2>2, Zenon
<1>6. \E i \in DOMAIN s : s[i] = Head(s)
  BY <1>1
<1> QED BY <1>1, <1>4, <1>5, <1>6, Zenon DEF t

\* A step of a Publish before it has sent.
LEMMA MPublishMoves ==
    ASSUME MInv, NEW m \in Msgs, NEW to \in MPcs \ {"idle", "ok"},
           pc[m] # "ok", pc' = [pc EXCEPT ![m] = to], buf' = buf, body' = body
    PROVE  /\ MInv'
           /\ MWhere(m) = IF pc[m] = "idle" THEN "unsent" ELSE "open"
           /\ MWhere(m)' = "open"
           /\ \A x \in Msgs \ {m} : MWhere(x)' = MWhere(x)
<1> USE CallsAssumption DEF Calls
<1>1. ~ InBuf(m) /\ \A k \in Consumers : body[k] # m
  BY Zenon DEF MInv
<1>2. \A x : InBuf(x)' <=> InBuf(x)
  BY Zenon DEF InBuf
<1>3. pc' \in [Calls -> MPcs] /\ pc'[m] = to /\ \A p \in Calls \ {m} : pc'[p] = pc[p]
  BY Zenon DEF MInv, MPcs
<1>4. MInv'
  <2>1. \A x \in Msgs : InBuf(x)' => pc'[x] = "ok"
    BY <1>1, <1>2, <1>3, Zenon DEF MInv
  <2>2. \A l \in Consumers : pc'[l] \in {"handler", "requeue"} <=> body'[l] # None
    BY <1>1, <1>2, <1>3 DEF MInv
  <2>3. ASSUME NEW l \in Consumers, NEW x \in Msgs, body'[l] = x
        PROVE  pc'[x] = "ok" /\ ~ InBuf(x)' /\ \A j \in Consumers : body'[j] = x => j = l
    BY <2>3, <1>1, <1>2, <1>3 DEF MInv
  <2> QED BY <2>1, <2>2, <2>3, <1>1, <1>2, <1>3, Zenon DEF MInv
<1> QED BY <1>1, <1>2, <1>3, <1>4, Zenon DEF MWhere

\* A step of a Consume that touches no message.
LEMMA MConsumeMoves ==
    ASSUME MInv, NEW k \in Consumers, NEW to \in MPcs,
           pc[k] \in {"handler", "requeue"} <=> to \in {"handler", "requeue"},
           pc' = [pc EXCEPT ![k] = to], buf' = buf, body' = body
    PROVE  MInv' /\ \A x \in Msgs : MWhere(x)' = MWhere(x)
<1> USE CallsAssumption DEF Calls
<1>1. \A x : InBuf(x)' <=> InBuf(x)
  BY Zenon DEF InBuf
<1>2. pc' \in [Calls -> MPcs] /\ pc'[k] = to /\ \A p \in Calls \ {k} : pc'[p] = pc[p]
  BY Zenon DEF MInv
<1>3. \A m \in Msgs : pc'[m] = pc[m]
  BY <1>2, Zenon
<1>4. \A l \in Consumers : pc'[l] \in {"handler", "requeue"} <=> pc[l] \in {"handler", "requeue"}
  BY <1>2, Zenon
<1>5. MInv'
  BY <1>1, <1>2, <1>3, <1>4 DEF MInv
<1> QED BY <1>1, <1>3, <1>5, Zenon DEF MWhere

\* A message enters the channel: its Publish sends it ...
LEMMA MSendMoves ==
    ASSUME MInv, NEW m \in Msgs, pc[m] = "send",
           pc' = [pc EXCEPT ![m] = "ok"], buf' = Append(buf, m), body' = body
    PROVE  /\ MInv'
           /\ MWhere(m) = "open" /\ MWhere(m)' = "ready"
           /\ \A x \in Msgs \ {m} : MWhere(x)' = MWhere(x)
<1> USE CallsAssumption DEF Calls
<1>1. ~ InBuf(m) /\ \A k \in Consumers : body[k] # m
  BY Zenon DEF MInv
<1>2. buf' \in Seq(Msgs) /\ Once(buf)' /\ \A x : InBuf(x)' <=> (x = m \/ InBuf(x))
  <2>1. buf \in Seq(Msgs) /\ Once(buf) /\ m \in Msgs /\ ~ \E i \in DOMAIN buf : buf[i] = m
    BY <1>1, Zenon DEF MInv, InBuf
  <2>2. /\ Append(buf, m) \in Seq(Msgs)
        /\ \A x : (\E i \in DOMAIN Append(buf, m) : Append(buf, m)[i] = x)
                     <=> (x = m \/ \E i \in DOMAIN buf : buf[i] = x)
        /\ (Once(buf) /\ ~ \E i \in DOMAIN buf : buf[i] = m) => Once(Append(buf, m))
    BY ONLY <2>1, SendFacts, Zenon
  <2>3. Once(buf)' = Once(Append(buf, m))
    BY Zenon DEF Once
  <2> QED BY <2>1, <2>2, <2>3, Zenon DEF InBuf
<1>3. pc' \in [Calls -> MPcs] /\ pc'[m] = "ok" /\ \A p \in Calls \ {m} : pc'[p] = pc[p]
  BY Zenon DEF MInv, MPcs
<1>4. MInv'
  <2>1. \A x \in Msgs : InBuf(x)' => pc'[x] = "ok"
    BY <1>1, <1>2, <1>3, Zenon DEF MInv
  <2>2. \A l \in Consumers : pc'[l] \in {"handler", "requeue"} <=> body'[l] # None
    BY <1>1, <1>2, <1>3, Zenon DEF MInv
  <2>3. ASSUME NEW l \in Consumers, NEW x \in Msgs, body'[l] = x
        PROVE  pc'[x] = "ok" /\ ~ InBuf(x)' /\ \A j \in Consumers : body'[j] = x => j = l
    BY <2>3, <1>1, <1>2, <1>3, Zenon DEF MInv
  <2> QED BY <2>1, <2>2, <2>3, <1>1, <1>2, <1>3, Zenon DEF MInv
<1> QED BY <1>1, <1>2, <1>3, <1>4, Zenon DEF MWhere

\* ... or a handler puts it back.
LEMMA MRequeueMoves ==
    ASSUME MInv, NEW k \in Consumers, pc[k] = "requeue", NEW m, m = body[k],
           pc' = [pc EXCEPT ![k] = "loop"], buf' = Append(buf, m),
           body' = [body EXCEPT ![k] = None]
    PROVE  /\ MInv' /\ m \in Msgs
           /\ MWhere(m) = "held" /\ MWhere(m)' = "ready"
           /\ \A x \in Msgs \ {m} : MWhere(x)' = MWhere(x)
<1> USE CallsAssumption DEF Calls
<1>1. m \in Msgs /\ ~ InBuf(m) /\ pc[m] = "ok" /\ \A l \in Consumers \ {k} : body[l] # m
  BY DEF MInv
<1>2. buf' \in Seq(Msgs) /\ Once(buf)' /\ \A x : InBuf(x)' <=> (x = m \/ InBuf(x))
  <2>1. buf \in Seq(Msgs) /\ Once(buf) /\ m \in Msgs /\ ~ \E i \in DOMAIN buf : buf[i] = m
    BY <1>1, Zenon DEF MInv, InBuf
  <2>2. /\ Append(buf, m) \in Seq(Msgs)
        /\ \A x : (\E i \in DOMAIN Append(buf, m) : Append(buf, m)[i] = x)
                     <=> (x = m \/ \E i \in DOMAIN buf : buf[i] = x)
        /\ (Once(buf) /\ ~ \E i \in DOMAIN buf : buf[i] = m) => Once(Append(buf, m))
    BY ONLY <2>1, SendFacts, Zenon
  <2>3. Once(buf)' = Once(Append(buf, m))
    BY Zenon DEF Once
  <2> QED BY <2>1, <2>2, <2>3, Zenon DEF InBuf
<1>3. pc' \in [Calls -> MPcs] /\ pc'[k] = "loop" /\ \A p \in Calls \ {k} : pc'[p] = pc[p]
  BY Zenon DEF MInv, MPcs
<1>4. /\ body' \in [Consumers -> Msgs \cup {None}] /\ body'[k] = None
      /\ \A l \in Consumers \ {k} : body'[l] = body[l]
  BY Zenon DEF MInv
<1>5. \A x \in Msgs : pc'[x] = pc[x]
  BY <1>3, Zenon
<1>6. MInv'
  <2>1. \A x \in Msgs : InBuf(x)' => pc'[x] = "ok"
    BY <1>1, <1>2, <1>3, <1>4, <1>5, Zenon DEF MInv
  <2>2. \A l \in Consumers : pc'[l] \in {"handler", "requeue"} <=> body'[l] # None
    BY <1>1, <1>2, <1>3, <1>4, <1>5 DEF MInv
  <2>3. ASSUME NEW l \in Consumers, NEW x \in Msgs, body'[l] = x
        PROVE  pc'[x] = "ok" /\ ~ InBuf(x)' /\ \A j \in Consumers : body'[j] = x => j = l
    BY <2>3, <1>1, <1>2, <1>3, <1>4, <1>5 DEF MInv
  <2> QED BY <2>1, <2>2, <2>3, <1>1, <1>2, <1>3, <1>4, <1>5, Zenon DEF MInv
<1> QED BY <1>1, <1>2, <1>4, <1>5, <1>6 DEF MWhere

\* It leaves the channel for a handler ...
LEMMA MReceiveMoves ==
    ASSUME MInv, NEW k \in Consumers, pc[k] = "loop", buf # <<>>, NEW m, m = Head(buf),
           pc' = [pc EXCEPT ![k] = "handler"], buf' = Tail(buf),
           body' = [body EXCEPT ![k] = m]
    PROVE  /\ MInv' /\ m \in Msgs
           /\ MWhere(m) = "ready" /\ MWhere(m)' = "held"
           /\ \A x \in Msgs \ {m} : MWhere(x)' = MWhere(x)
<1> USE CallsAssumption DEF Calls
<1>1. /\ m \in Msgs /\ InBuf(m) /\ buf' \in Seq(Msgs) /\ Once(buf)'
      /\ \A x : InBuf(x)' <=> (x # m /\ InBuf(x))
  <2>1. buf \in Seq(Msgs) /\ Once(buf)
    BY Zenon DEF MInv
  <2>2. /\ m \in Msgs /\ Tail(buf) \in Seq(Msgs) /\ Once(Tail(buf))
        /\ \E i \in DOMAIN buf : buf[i] = m
        /\ \A x : (\E i \in DOMAIN Tail(buf) : Tail(buf)[i] = x)
                     <=> (x # m /\ \E i \in DOMAIN buf : buf[i] = x)
    <3>1. buf # <<>> /\ m = Head(buf)
      BY Zenon
    <3>2. /\ Head(buf) \in Msgs /\ Tail(buf) \in Seq(Msgs)
          /\ \E i \in DOMAIN buf : buf[i] = Head(buf)
          /\ Once(buf) => /\ Once(Tail(buf))
                          /\ \A x : (\E i \in DOMAIN Tail(buf) : Tail(buf)[i] = x)
                                       <=> (x # Head(buf) /\ \E i \in DOMAIN buf : buf[i] = x)
      BY ONLY <2>1, <3>1, ReceiveFacts, Zenon
    <3> QED BY ONLY <2>1, <3>1, <3>2, Zenon
  <2>3. Once(buf)' = Once(Tail(buf))
    BY Zenon DEF Once
  <2> QED BY <2>2, <2>3, Zenon DEF InBuf
<1>2. pc[m] = "ok" /\ body[k] = None /\ \A l \in Consumers : body[l] # m
  BY <1>1, Zenon DEF MInv
<1>3. pc' \in [Calls -> MPcs] /\ pc'[k] = "handler" /\ \A p \in Calls \ {k} : pc'[p] = pc[p]
  BY Zenon DEF MInv, MPcs
<1>4. /\ body' \in [Consumers -> Msgs \cup {None}] /\ body'[k] = m
      /\ \A l \in Consumers \ {k} : body'[l] = body[l]
  BY <1>1 DEF MInv
<1>5. \A x \in Msgs : pc'[x] = pc[x]
  BY <1>3, Zenon
<1>6. MInv'
  <2>1. \A x \in Msgs : InBuf(x)' => pc'[x] = "ok"
    BY <1>1, <1>2, <1>3, <1>4, <1>5, Zenon DEF MInv
  <2>2. \A l \in Consumers : pc'[l] \in {"handler", "requeue"} <=> body'[l] # None
    BY <1>1, <1>2, <1>3, <1>4, <1>5 DEF MInv
  <2>3. ASSUME NEW l \in Consumers, NEW x \in Msgs, body'[l] = x
        PROVE  pc'[x] = "ok" /\ ~ InBuf(x)' /\ \A j \in Consumers : body'[j] = x => j = l
    BY <2>3, <1>1, <1>2, <1>3, <1>4, <1>5 DEF MInv
  <2> QED BY <2>1, <2>2, <2>3, <1>1, <1>2, <1>3, <1>4, <1>5, Zenon DEF MInv
<1> QED BY <1>1, <1>2, <1>4, <1>5, <1>6 DEF MWhere

\* ... who is done with it.
LEMMA MSettleMoves ==
    ASSUME MInv, NEW k \in Consumers, pc[k] \in {"handler", "requeue"}, NEW m, m = body[k],
           pc' = [pc EXCEPT ![k] = "loop"], buf' = buf,
           body' = [body EXCEPT ![k] = None]
    PROVE  /\ MInv' /\ m \in Msgs
           /\ MWhere(m) = "held" /\ MWhere(m)' = "settled"
           /\ \A x \in Msgs \ {m} : MWhere(x)' = MWhere(x)
<1> USE CallsAssumption DEF Calls
<1>1. m \in Msgs /\ ~ InBuf(m) /\ pc[m] = "ok" /\ \A l \in Consumers \ {k} : body[l] # m
  BY DEF MInv
<1>2. \A x : InBuf(x)' <=> InBuf(x)
  BY Zenon DEF InBuf
<1>3. pc' \in [Calls -> MPcs] /\ pc'[k] = "loop" /\ \A p \in Calls \ {k} : pc'[p] = pc[p]
  BY Zenon DEF MInv, MPcs
<1>4. /\ body' \in [Consumers -> Msgs \cup {None}] /\ body'[k] = None
      /\ \A l \in Consumers \ {k} : body'[l] = body[l]
  BY Zenon DEF MInv
<1>5. \A x \in Msgs : pc'[x] = pc[x]
  BY <1>3, Zenon
<1>6. MInv'
  <2>1. \A x \in Msgs : InBuf(x)' => pc'[x] = "ok"
    BY <1>1, <1>2, <1>3, <1>4, <1>5, Zenon DEF MInv
  <2>2. \A l \in Consumers : pc'[l] \in {"handler", "requeue"} <=> body'[l] # None
    BY <1>1, <1>2, <1>3, <1>4, <1>5 DEF MInv
  <2>3. ASSUME NEW l \in Consumers, NEW x \in Msgs, body'[l] = x
        PROVE  pc'[x] = "ok" /\ ~ InBuf(x)' /\ \A j \in Consumers : body'[j] = x => j = l
    BY <2>3, <1>1, <1>2, <1>3, <1>4, <1>5 DEF MInv
  <2> QED BY <2>1, <2>2, <2>3, <1>1, <1>2, <1>3, <1>4, <1>5, Zenon DEF MInv
<1> QED BY <1>1, <1>2, <1>4, <1>5, <1>6 DEF MWhere

-----------------------------------------------------------------------------
(* The steps of the in-memory broker are steps of Delivery *)

At == [m \in Msgs |-> IF kind = "memory" THEN MWhere(m) ELSE RWhere(m)]

\* One message moves and the others stay.
LEMMA MoveFacts ==
    ASSUME NEW m \in Msgs, NEW from, NEW to,
           At[m] = from, At'[m] = to, \A x \in Msgs \ {m} : At'[x] = At[x]
    PROVE  Promise!Move(m, from, to)
<1>1. At' = [At EXCEPT ![m] = to]
  BY Zenon DEF At
<1> QED BY <1>1, Zenon DEF Promise!Move, At

\* A step of the in-memory broker is one of Delivery.
LEMMA MemorySimulates ==
    ASSUME kind = "memory", kind' = kind, MInv, MNext
    PROVE  MInv' /\ (Promise!DNext \/ UNCHANGED <<At, handled>>)
<1> USE CallsAssumption
<1>a. \A m \in Msgs : At[m] = MWhere(m) /\ At'[m] = MWhere(m)'
  BY Zenon DEF At
<1>b. ASSUME \A m \in Msgs : MWhere(m)' = MWhere(m) PROVE At' = At
  BY <1>b, Zenon DEF At
<1>1. ASSUME NEW m \in Msgs, MPublishCalled(m) PROVE MInv' /\ Promise!Send(m)
  <2>1. /\ pc[m] = "idle" /\ pc' = [pc EXCEPT ![m] = "check"]
        /\ buf' = buf /\ body' = body /\ handled' = handled
    BY <1>1, Zenon DEF MPublishCalled, GoTo
  <2>2. /\ MInv' /\ MWhere(m) = "unsent" /\ MWhere(m)' = "open"
        /\ \A x \in Msgs \ {m} : MWhere(x)' = MWhere(x)
    BY <2>1, MPublishMoves, Zenon DEF MPcs
  <2> QED BY <2>1, <2>2, <1>a, MoveFacts, Zenon DEF Promise!Send
<1>2. ASSUME NEW m \in Msgs, MPublishChecks(m) \/ MPublishGets(m) \/ MPublishGivesUp(m)
      PROVE  MInv' /\ UNCHANGED <<At, handled>>
  <2>1. PICK to \in MPcs \ {"idle", "ok"} : pc' = [pc EXCEPT ![m] = to]
    BY <1>2, Zenon DEF MPublishChecks, MPublishGets, MPublishGivesUp, GoTo, MPcs
  <2>2. pc[m] \notin {"idle", "ok"} /\ buf' = buf /\ body' = body /\ handled' = handled
    BY <1>2, Zenon DEF MPublishChecks, MPublishGets, MPublishGivesUp, GoTo
  <2>3. /\ MInv' /\ MWhere(m) = "open" /\ MWhere(m)' = "open"
        /\ \A x \in Msgs \ {m} : MWhere(x)' = MWhere(x)
    BY <2>1, <2>2, MPublishMoves, Zenon
  <2> QED BY <2>2, <2>3, <1>b, Zenon
<1>3. ASSUME NEW m \in Msgs, MPublishSends(m) PROVE MInv' /\ Promise!Arrive(m)
  <2>1. /\ pc[m] = "send" /\ pc' = [pc EXCEPT ![m] = "ok"]
        /\ buf' = Append(buf, m) /\ body' = body /\ handled' = handled
    BY <1>3, Zenon DEF MPublishSends, GoTo
  <2>2. /\ MInv' /\ MWhere(m) = "open" /\ MWhere(m)' = "ready"
        /\ \A x \in Msgs \ {m} : MWhere(x)' = MWhere(x)
    BY <2>1, MSendMoves, Zenon
  <2> QED BY <2>1, <2>2, <1>a, MoveFacts, Zenon DEF Promise!Arrive
<1>4. ASSUME NEW k \in Consumers, MConsumeCalled(k) \/ MConsumeReturns(k)
      PROVE  MInv' /\ UNCHANGED <<At, handled>>
  <2>1. PICK to \in MPcs \ {"handler", "requeue"} : pc' = [pc EXCEPT ![k] = to]
    BY <1>4, Zenon DEF MConsumeCalled, MConsumeReturns, GoTo, MPcs
  <2>2. pc[k] \notin {"handler", "requeue"} /\ buf' = buf /\ body' = body /\ handled' = handled
    BY <1>4, Zenon DEF MConsumeCalled, MConsumeReturns, GoTo
  <2> QED BY <2>1, <2>2, <1>b, MConsumeMoves, Zenon
<1>5. ASSUME NEW k \in Consumers, MConsumeReceives(k)
      PROVE  MInv' /\ \E m \in Msgs : Promise!Deliver(m)
  <2>1. /\ pc[k] = "loop" /\ buf # <<>> /\ pc' = [pc EXCEPT ![k] = "handler"]
        /\ buf' = Tail(buf) /\ body' = [body EXCEPT ![k] = Head(buf)] /\ handled' = handled
    BY <1>5, Zenon DEF MConsumeReceives, GoTo
  <2>2. PICK m : m = Head(buf)
    BY Zenon
  <2>3. /\ MInv' /\ m \in Msgs /\ MWhere(m) = "ready" /\ MWhere(m)' = "held"
        /\ \A x \in Msgs \ {m} : MWhere(x)' = MWhere(x)
    BY <2>1, <2>2, MReceiveMoves, Zenon
  <2> QED BY <2>1, <2>3, <1>a, MoveFacts DEF Promise!Deliver
<1>6. ASSUME NEW k \in Consumers, MHandlerSettles(k, "handler") \/ MHandlerSettles(k, "requeue")
      PROVE  MInv' /\ \E m \in Msgs : Promise!Settle(m)
  <2>1. /\ pc[k] \in {"handler", "requeue"} /\ pc' = [pc EXCEPT ![k] = "loop"]
        /\ buf' = buf /\ body' = [body EXCEPT ![k] = None]
        /\ handled' = handled \cup {body[k]}
    BY <1>6, Zenon DEF MHandlerSettles, HandlerEnds, GoTo
  <2>2. PICK m : m = body[k]
    BY Zenon
  <2>3. /\ MInv' /\ m \in Msgs /\ MWhere(m) = "held" /\ MWhere(m)' = "settled"
        /\ \A x \in Msgs \ {m} : MWhere(x)' = MWhere(x)
    BY <2>1, <2>2, MSettleMoves, Zenon
  <2>4. Promise!Move(m, "held", "settled")
    BY <2>3, <1>a, MoveFacts, Zenon
  <2> QED BY <2>1, <2>2, <2>3, <2>4, Zenon DEF Promise!Settle
<1>7. ASSUME NEW k \in Consumers, MNackRequeues(k), ~ closed
      PROVE  MInv' /\ UNCHANGED <<At, handled>>
  <2>1. /\ pc[k] = "handler" /\ pc' = [pc EXCEPT ![k] = "requeue"]
        /\ buf' = buf /\ body' = body /\ handled' = handled
    BY <1>7, Zenon DEF MNackRequeues, GoTo
  <2> QED BY <2>1, <1>b, MConsumeMoves, Zenon DEF MPcs
<1>8. ASSUME NEW k \in Consumers, MRequeueSends(k)
      PROVE  MInv' /\ \E S \in SUBSET Msgs : Promise!Requeue(S)
  <2>1. PICK m : m = body[k]
    OBVIOUS
  <2>2. /\ pc[k] = "requeue" /\ pc' = [pc EXCEPT ![k] = "loop"]
        /\ buf' = Append(buf, m) /\ body' = [body EXCEPT ![k] = None] /\ handled' = handled
    BY <1>8, <2>1, Zenon DEF MRequeueSends, HandlerEnds, GoTo
  <2>3. /\ MInv' /\ m \in Msgs /\ MWhere(m) = "held" /\ MWhere(m)' = "ready"
        /\ \A x \in Msgs \ {m} : MWhere(x)' = MWhere(x)
    BY <2>1, <2>2, MRequeueMoves, Zenon
  <2>4. At' = [x \in Msgs |-> IF x \in {m} THEN "ready" ELSE At[x]]
    BY <2>3, <1>a, Zenon DEF At
  <2>5. Promise!Requeue({m})
    BY <2>2, <2>3, <2>4, <1>a, Zenon DEF Promise!Requeue, At
  <2> QED BY <2>3, <2>5, Zenon
<1>9. ASSUME MClose \/ MStop PROVE MInv' /\ UNCHANGED <<At, handled>>
  <2>1. pc' = pc /\ buf' = buf /\ body' = body /\ handled' = handled
    BY <1>9, Zenon DEF MClose, MStop
  <2>2. \A x : InBuf(x)' <=> InBuf(x)
    BY <2>1, Zenon DEF InBuf
  <2>3. MInv'
    BY <2>1, <2>2, Zenon DEF MInv
  <2> QED BY <2>1, <2>2, <2>3, <1>b, Zenon DEF MWhere
<1> QED
  BY <1>1, <1>2, <1>3, <1>4, <1>5, <1>6, <1>7, <1>8, <1>9, Zenon
     DEF MNext, MPublishStep, MConsumeStep, MRequeueGivesUp, MNackRequeues, Promise!DNext

-----------------------------------------------------------------------------
(* RabbitMQ *)

RPcs == {"idle", "read", "declare", "write", "reread", "redeclare", "rewrite", "ok", "failed",
         "top", "loop", "handler", "backoff", "reconnect", "close", "dial", "channel",
         "returned"}

Inside == {"close", "dial", "channel"}

RType ==
    /\ pc \in [Calls -> RPcs]
    /\ body \in [Consumers -> Msgs \cup {None}]
    /\ ch \in [Calls -> Conns]
    /\ ready \subseteq Msgs /\ settled \subseteq Msgs /\ sending \subseteq Msgs
    /\ unacked \in [Consumers -> Msgs \cup {None}]
    /\ answer \in [Consumers -> {"none", "settle", "requeue"}]
    /\ mu \in BOOLEAN /\ dialled \in Conns

\* One connection at most is known to the server: r.conn, or the one whose channel is not
\* open yet; r.mu lets one call into reconnect, and nothing is left when it dials.
RConnected ==
    /\ current \in 1 .. dialled /\ \A p \in Calls : ch[p] \in 1 .. current
    /\ open \subseteq live
    /\ \A p \in Calls : pc[p] \in Inside => mu /\ \A q \in Calls : pc[q] \in Inside => q = p
    /\ \A p \in Calls : pc[p] = "dial" => live = {}
    /\ \A p \in Calls : pc[p] = "channel" => live \subseteq {dialled} /\ current # dialled
    /\ (\A p \in Calls : pc[p] # "channel") => live \subseteq {current}

\* A message is at one place at most, and only after its Publish wrote it.
RPlaced ==
    /\ settled \cap ready = {} /\ sending \cap (settled \cup ready) = {}
    /\ \A m \in settled \cup ready \cup sending : pc[m] = "ok"
    /\ \A k \in Consumers, m \in Msgs : unacked[k] = m =>
         /\ m \notin settled /\ m \notin ready /\ m \notin sending /\ pc[m] = "ok"
         /\ \A l \in Consumers : unacked[l] = m => l = k

\* What is under way or not acknowledged hangs on a live connection; a handler
\* on an open one has its message and has not answered.
RHeld ==
    /\ \A m \in sending : ch[m] \in live
    /\ \A k \in Consumers :
         /\ unacked[k] # None => ch[k] \in live /\ pc[k] \notin {"idle", "top"}
         /\ answer[k] # "none" => unacked[k] # None
         /\ answer[k] = "settle" => unacked[k] \in handled
         /\ pc[k] = "handler" => body[k] \in Msgs
         /\ pc[k] = "handler" /\ ch[k] \in open => body[k] = unacked[k] /\ answer[k] = "none"

RInv == RType /\ RConnected /\ RPlaced /\ RHeld

\* A step of a call outside reconnect leaves the connections as they are.
LEMMA SameConnected ==
    ASSUME RConnected, NEW p \in Calls, pc[p] \notin Inside, pc'[p] \notin Inside,
           \A q \in Calls \ {p} : pc'[q] = pc[q], \A q \in Calls : ch'[q] \in 1 .. current,
           UNCHANGED <<live, open, mu, dialled, current>>
    PROVE  RConnected'
<1>1. \A q \in Calls : pc'[q] \in Inside <=> pc[q] \in Inside
  BY Zenon
<1>2. \A q \in Calls : (pc'[q] = "dial" <=> pc[q] = "dial") /\ (pc'[q] = "channel" <=> pc[q] = "channel")
  BY Zenon DEF Inside
<1> QED BY <1>1, <1>2, Zenon DEF RConnected

\* A step of a call that reads, waits or gives up.
LEMMA QuietStep ==
    ASSUME RInv, NEW p \in Calls, NEW to \in RPcs \ ({"idle", "ok", "handler"} \cup Inside),
           pc[p] \notin {"ok"} \cup Inside, to = "top" => pc[p] = "idle" /\ p \in Consumers,
           pc' = [pc EXCEPT ![p] = to],
           \/ ch' = ch
           \/ ch' = [ch EXCEPT ![p] = current] /\ (p \in Msgs \/ pc[p] = "top"),
           UNCHANGED <<server, network, client, body, handled>>
    PROVE  RInv' /\ \A m \in Msgs : RWhere(m)' = IF m = p /\ pc[p] = "idle" THEN "open" ELSE RWhere(m)
<1> USE CallsAssumption DEF Calls, server, network, client
<1>1. pc' \in [Calls -> RPcs] /\ pc'[p] = to /\ \A q \in Calls \ {p} : pc'[q] = pc[q]
  BY Zenon DEF RInv, RType
<1>2. \A m \in Msgs : pc[m] = "ok" => pc'[m] = "ok"
  BY <1>1, Zenon
<1>3. /\ ch' \in [Calls -> Conns] /\ \A q \in Calls : ch'[q] \in 1 .. current
      /\ \A k \in Consumers : unacked[k] # None => ch'[k] = ch[k]
      /\ \A m \in sending : ch'[m] = ch[m]
  <2>1. current \in 1 .. current /\ current \in Conns
    BY RabbitAssumption DEF RInv, RType, RConnected, Conns
  <2>2. ch' \in [Calls -> Conns]
    BY <2>1 DEF RInv, RType
  <2>3. \A q \in Calls : ch'[q] = ch[q] \/ (q = p /\ ch'[q] = current /\ (p \in Msgs \/ pc[p] = "top"))
    BY Zenon DEF RInv, RType
  <2>4. \A q \in Calls : ch'[q] \in 1 .. current
    BY <2>1, <2>3, Zenon DEF RInv, RConnected
  <2>5. \A k \in Consumers : unacked[k] # None => ch'[k] = ch[k]
    BY <2>3 DEF RInv, RHeld
  <2>6. \A m \in sending : ch'[m] = ch[m]
    BY <2>3, Zenon DEF RInv, RPlaced, RType
  <2> QED BY <2>2, <2>4, <2>5, <2>6, Zenon
<1>4. \A k \in Consumers : pc'[k] = "handler" => pc[k] = "handler" /\ ch'[k] = ch[k]
  BY <1>1, Zenon DEF RInv, RType
<1>5. RType'
  BY <1>1, <1>3, Zenon DEF RInv, RType
<1>6. RConnected'
  BY <1>1, <1>3, SameConnected, Zenon DEF RInv
<1>7. RPlaced'
  BY <1>2 DEF RInv, RPlaced, RType
<1>8. RHeld'
  <2>1. ASSUME NEW k \in Consumers, unacked[k] # None PROVE pc'[k] \notin {"idle", "top"}
    BY <2>1, <1>1 DEF RInv, RHeld
  <2> QED BY <2>1, <1>3, <1>4, Zenon DEF RInv, RHeld
<1>9. ASSUME NEW m \in Msgs
      PROVE  RWhere(m)' = IF m = p /\ pc[p] = "idle" THEN "open" ELSE RWhere(m)
  <2>1. CASE m = p
    <3>1. m \notin settled /\ m \notin ready /\ \A k \in Consumers : unacked[k] # m
      BY <2>1, Zenon DEF RInv, RPlaced
    <3> QED BY <2>1, <3>1, <1>1, Zenon DEF RWhere
  <2>2. CASE m # p
    BY <2>2, <1>1, Zenon DEF RWhere
  <2> QED BY <2>1, <2>2, Zenon
<1> QED BY <1>5, <1>6, <1>7, <1>8, <1>9, Zenon DEF RInv

\* Where RabbitMQ has a message depends on the server and on its Publish alone.
LEMMA RSameWhere ==
    ASSUME UNCHANGED server, \A m \in Msgs : pc'[m] = "idle" <=> pc[m] = "idle"
    PROVE  \A m \in Msgs : RWhere(m)' = RWhere(m)
BY Zenon DEF RWhere, server

\* The steps of reconnect around the end of the old connection.
LEMMA LockStep ==
    ASSUME RInv, NEW p \in Calls, ReconnectLocks(p)
    PROVE  RInv' /\ \A m \in Msgs : RWhere(m)' = RWhere(m)
<1> USE CallsAssumption DEF Calls
<1>1. /\ ~ mu /\ mu' = TRUE /\ pc[p] = "reconnect" /\ pc' = [pc EXCEPT ![p] = "close"]
      /\ open' = open \ {current}
      /\ UNCHANGED <<server, ready, unacked, settled, live, sending, answer, dialled, current, ch, body, handled>>
  BY Zenon DEF ReconnectLocks, GoTo, server, rest
<1>2. pc' \in [Calls -> RPcs] /\ pc'[p] = "close" /\ \A q \in Calls \ {p} : pc'[q] = pc[q]
  BY <1>1, Zenon DEF RInv, RType, RPcs
<1>3. \A m \in Msgs : (pc[m] = "ok" => pc'[m] = "ok") /\ (pc'[m] = "idle" <=> pc[m] = "idle")
  BY <1>1, <1>2, Zenon
<1>4. RType'
  BY <1>1, <1>2, Zenon DEF RInv, RType
<1>5. RConnected'
  <2>1. \A q \in Calls : pc[q] \notin Inside
    BY <1>1, Zenon DEF RInv, RConnected
  <2>2. \A q \in Calls : (pc'[q] \in Inside => q = p) /\ pc'[q] # "dial" /\ pc'[q] # "channel"
    BY <2>1, <1>2, Zenon DEF Inside
  <2>3. live \subseteq {current}
    BY <2>1, Zenon DEF RInv, RConnected, Inside
  <2> QED BY <2>2, <2>3, <1>1, Zenon DEF RInv, RConnected
<1>6. RPlaced'
  BY <1>1, <1>3 DEF RInv, RPlaced, RType
<1>7. RHeld'
  BY <1>1, <1>2, Zenon DEF RInv, RHeld
<1> QED BY <1>1, <1>3, <1>4, <1>5, <1>6, <1>7, RSameWhere, Zenon DEF RInv

\* After the old connection is gone nothing hangs on the one being set up.
LEMMA SetUpFacts ==
    ASSUME RInv, NEW p \in Calls, pc[p] \in {"dial", "channel"}
    PROVE  /\ sending = {} /\ \A k \in Consumers : unacked[k] = None /\ answer[k] = "none"
           /\ \A q \in Calls \ {p} : pc[q] \notin Inside
           /\ live \subseteq {dialled} /\ dialled \in Nat /\ dialled \in Conns
           /\ pc[p] = "channel" => current < dialled
<1> USE CallsAssumption DEF Calls
<1>1. dialled \in Nat /\ dialled \in Conns /\ current \in 1 .. dialled
  BY RabbitAssumption DEF RInv, RType, RConnected, Conns
<1>2. live \subseteq {dialled} /\ (pc[p] = "channel" => current < dialled)
  BY <1>1 DEF RInv, RConnected
<1>3. \A q \in Calls : ch[q] \notin live
  <2>1. \A q \in Calls : ch[q] \in 1 .. current
    BY Zenon DEF RInv, RConnected
  <2>2. live = {} \/ (live \subseteq {dialled} /\ current < dialled)
    BY <1>2, Zenon DEF RInv, RConnected
  <2> QED BY <2>1, <2>2, <1>1
<1>4. sending = {} /\ \A k \in Consumers : unacked[k] = None /\ answer[k] = "none"
  <2>1. sending \subseteq Msgs /\ \A m \in sending : ch[m] \in live
    BY Zenon DEF RInv, RHeld, RType
  <2>2. \A k \in Consumers : (unacked[k] # None => ch[k] \in live) /\ (answer[k] # "none" => unacked[k] # None)
    BY Zenon DEF RInv, RHeld
  <2> QED BY <2>1, <2>2, <1>3, Zenon
<1>5. \A q \in Calls \ {p} : pc[q] \notin Inside
  BY Zenon DEF RInv, RConnected, Inside
<1> QED BY <1>1, <1>2, <1>4, <1>5, Zenon

\* A step of reconnect after the old connection is gone.
LEMMA SetUpStep ==
    ASSUME RInv, NEW p \in Calls, NEW to \in {"channel", "reread", "failed", "top"},
           pc[p] \in {"dial", "channel"}, pc' = [pc EXCEPT ![p] = to],
           to = "top" => p \in Consumers,
           RConnected', dialled' \in Conns, mu' \in BOOLEAN,
           \A q \in Calls : ch[q] \notin open' \/ ch[q] \notin 1 .. dialled,
           UNCHANGED <<server, sending, answer, ch, body, handled>>
    PROVE  RInv' /\ \A m \in Msgs : RWhere(m)' = RWhere(m)
<1> USE CallsAssumption DEF Calls
<1>1. pc' \in [Calls -> RPcs] /\ pc'[p] = to /\ \A q \in Calls \ {p} : pc'[q] = pc[q]
  BY Zenon DEF RInv, RType, RPcs
<1>2. \A m \in Msgs : (pc[m] = "ok" => pc'[m] = "ok") /\ (pc'[m] = "idle" <=> pc[m] = "idle")
  BY <1>1, Zenon
<1>3. sending = {} /\ \A k \in Consumers : unacked[k] = None /\ answer[k] = "none"
  BY SetUpFacts, Zenon
<1>4. RType'
  BY <1>1, Zenon DEF RInv, RType, server
<1>5. RPlaced'
  BY <1>2 DEF RInv, RPlaced, RType, server
<1>6. RHeld'
  <2>1. \A q \in Calls : ch[q] \notin open'
    <3>1. \A q \in Calls : ch[q] \in 1 .. current /\ current \in 1 .. dialled /\ dialled \in Nat
      BY SetUpFacts, Zenon DEF RInv, RConnected
    <3>2. \A q \in Calls : ch[q] \in 1 .. dialled
      BY <3>1
    <3> QED BY <3>2, Zenon
  <2>2. ASSUME NEW k \in Consumers, pc'[k] = "handler" PROVE pc[k] = "handler"
    BY <2>2, <1>1, Zenon
  <2> QED BY <2>1, <2>2, <1>3, Zenon DEF RInv, RHeld, server
<1> QED BY <1>2, <1>4, <1>5, <1>6, RSameWhere, Zenon DEF RInv

\* Dialling, opening the channel, and failing to.
LEMMA DialStep ==
    ASSUME RInv, NEW p \in Calls, NEW to \in {"reread", "failed", "top"},
           to = "top" => p \in Consumers,
           ReconnectDials(p) \/ ReconnectOpens(p, to) \/ ReconnectFails(p, to) \/ ChannelFails(p, to)
    PROVE  RInv' /\ \A m \in Msgs : RWhere(m)' = RWhere(m)
<1> USE CallsAssumption DEF Calls
<1>1. CASE ReconnectDials(p)
  <2>1. /\ dialled < MaxConns /\ pc[p] = "dial" /\ pc' = [pc EXCEPT ![p] = "channel"]
        /\ dialled' = dialled + 1 /\ live' = live \cup {dialled + 1} /\ open' = open \cup {dialled + 1}
        /\ UNCHANGED <<server, sending, answer, current, mu, ch, body, handled>>
    BY <1>1, Zenon DEF ReconnectDials, GoTo, rest
  <2>2. live = {} /\ open = {} /\ mu
    BY <2>1, Zenon DEF RInv, RConnected, Inside
  <2>3. dialled \in Nat /\ \A q \in Calls \ {p} : pc[q] \notin Inside
    BY <2>1, SetUpFacts, Zenon
  <2>4. /\ dialled' \in Conns /\ current \in 1 .. dialled' /\ current # dialled'
        /\ live' = {dialled'} /\ open' = {dialled'} /\ dialled' \notin 1 .. dialled
    BY <2>1, <2>2, <2>3, RabbitAssumption DEF RInv, RConnected, Conns
  <2>5. pc'[p] = "channel" /\ \A q \in Calls \ {p} : pc'[q] = pc[q]
    BY <2>1, Zenon DEF RInv, RType
  <2>6. \A q \in Calls : pc'[q] \in Inside => q = p
    BY <2>3, <2>5, Zenon
  <2>7. \A q \in Calls : pc'[q] # "dial"
    BY <2>5, <2>6, Zenon DEF Inside
  <2>8. RConnected'
    BY <2>1, <2>2, <2>4, <2>5, <2>6, <2>7, Zenon DEF RInv, RConnected
  <2>9. \A q \in Calls : ch[q] \notin open' \/ ch[q] \notin 1 .. dialled
    BY <2>4, Zenon
  <2> QED BY <2>1, <2>4, <2>8, <2>9, SetUpStep, Zenon DEF RInv, RType
<1>2. CASE ReconnectOpens(p, to) \/ ReconnectFails(p, to) \/ ChannelFails(p, to)
  <2>1. /\ pc[p] \in {"dial", "channel"} /\ pc' = [pc EXCEPT ![p] = to] /\ mu' = FALSE
        /\ UNCHANGED <<server, sending, answer, dialled, ch, body, handled>>
    BY <1>2, Zenon DEF ReconnectOpens, ReconnectFails, ChannelFails, GoTo, network, rest
  <2>2. /\ dialled \in Nat /\ dialled \in Conns /\ live \subseteq {dialled}
        /\ \A q \in Calls \ {p} : pc[q] \notin Inside
    BY <2>1, SetUpFacts, Zenon
  <2>3. /\ open' \subseteq live' /\ open' \subseteq {dialled}
        /\ \/ live' \subseteq live /\ current' = dialled /\ pc[p] = "channel"
           \/ live' = {} /\ current' = current
    <3>1. CASE ReconnectOpens(p, to)
      BY <3>1, <2>2, Zenon DEF ReconnectOpens, GoTo, network, RInv, RConnected
    <3>2. CASE ReconnectFails(p, to)
      <4>1. live = {} /\ live' = live /\ open' = open /\ current' = current
        BY <3>2, Zenon DEF ReconnectFails, GoTo, network, RInv, RConnected
      <4> QED BY <4>1, <2>2, Zenon DEF RInv, RConnected
    <3>3. CASE ChannelFails(p, to)
      <4>1. live' = live \ {dialled} /\ open' = open \ {dialled} /\ current' = current
        BY <3>3, Zenon DEF ChannelFails
      <4> QED BY <4>1, <2>2, Zenon DEF RInv, RConnected
    <3> QED BY <1>2, <3>1, <3>2, <3>3, Zenon
  <2>4. current' \in 1 .. dialled /\ \A q \in Calls : ch[q] \in 1 .. current'
    <3>1. current \in 1 .. dialled /\ \A q \in Calls : ch[q] \in 1 .. current
      BY Zenon DEF RInv, RConnected
    <3> QED BY <3>1, <2>2, <2>3 DEF Conns
  <2>5. \A q \in Calls : pc'[q] \notin Inside
    <3>1. pc'[p] = to /\ \A q \in Calls \ {p} : pc'[q] = pc[q]
      BY <2>1, Zenon DEF RInv, RType
    <3> QED BY <3>1, <2>2, Zenon DEF Inside
  <2>6. \A q \in Calls : pc'[q] # "dial" /\ pc'[q] # "channel"
    BY <2>5, Zenon DEF Inside
  <2>7. live' \subseteq {current'}
    BY <2>2, <2>3, Zenon
  <2>8. RConnected'
    BY <2>1, <2>3, <2>4, <2>5, <2>6, <2>7, Zenon DEF RConnected
  <2>9. \A q \in Calls : ch[q] \notin open' \/ ch[q] \notin 1 .. dialled
    <3>1. ASSUME NEW q \in Calls, ch[q] = dialled PROVE pc[p] = "dial"
      <4>1. ch[q] \in 1 .. current /\ current \in 1 .. dialled
        BY Zenon DEF RInv, RConnected
      <4>2. pc[p] = "channel" => current < dialled
        BY <2>1, SetUpFacts, Zenon
      <4> QED BY <4>1, <4>2, <3>1, <2>1, <2>2
    <3>2. pc[p] = "dial" => open' = {}
      <4>1. pc[p] = "dial" => live = {}
        BY Zenon DEF RInv, RConnected
      <4> QED BY <4>1, <2>3, Zenon
    <3> QED BY <3>1, <3>2, <2>3, Zenon
  <2> QED BY <2>1, <2>2, <2>8, <2>9, SetUpStep, Zenon
<1> QED BY <1>1, <1>2, Zenon

\* The end of the connection, by a drop or by closing it.
LEMMA EndStep ==
    ASSUME RInv, NEW c, live \subseteq {c}, End(c),
           sending' = {m \in sending : ch[m] # c},
           answer' = [k \in Consumers |-> IF ch[k] = c THEN "none" ELSE answer[k]],
           \/ pc' = pc
           \/ \E p \in Calls : pc[p] = "close" /\ pc' = [pc EXCEPT ![p] = "dial"],
           UNCHANGED <<client, ch, body, handled>>
    PROVE  /\ RInv'
           /\ \E S \in SUBSET Msgs :
                /\ \A m \in S : RWhere(m) = "held"
                /\ \A m \in Msgs : RWhere(m)' = IF m \in S THEN "ready" ELSE RWhere(m)
<1> USE CallsAssumption DEF Calls
<1> DEFINE S == {m \in Msgs : \E k \in Consumers : unacked[k] = m}
<1>1. live' = {} /\ open' = {} /\ settled' = settled
  BY Zenon DEF End, RInv, RConnected
<1>2. /\ \A k \in Consumers : unacked[k] # None \/ answer[k] # "none" => ch[k] = c
      /\ \A m \in sending : ch[m] = c
  BY Zenon DEF RInv, RHeld, RConnected
<1>3. unacked' \in [Consumers -> Msgs \cup {None}] /\ \A k \in Consumers : unacked'[k] = None
  BY <1>2, Zenon DEF End, RInv, RType
<1>4. \A m : m \in ready' <=> m \in ready \/ m \in S
  <2>1. \A m : m \in ready' <=> m \in ready \/ (m \in Msgs /\ \E k \in Consumers : ch[k] = c /\ unacked[k] = m)
    BY Zenon DEF End
  <2> QED BY <2>1, <1>2, Zenon
<1>5. sending' = {} /\ answer' \in [Consumers -> {"none", "settle", "requeue"}] /\ \A k \in Consumers : answer'[k] = "none"
  BY <1>2, Zenon DEF RInv, RType
<1>6. /\ pc' \in [Calls -> RPcs]
      /\ \A q \in Calls : pc'[q] = pc[q] \/ (pc[q] = "close" /\ pc'[q] = "dial")
  BY DEF RInv, RType, RPcs
<1>7. \A m \in Msgs : (pc[m] = "ok" => pc'[m] = "ok") /\ (pc'[m] = "idle" <=> pc[m] = "idle")
  BY <1>6, Zenon
<1>8. S \subseteq Msgs /\ \A m \in S : pc[m] = "ok" /\ m \notin settled /\ m \notin ready
  BY Zenon DEF RInv, RPlaced
<1> HIDE DEF S
<1>9. RType'
  BY <1>1, <1>3, <1>4, <1>5, <1>6, <1>8, Zenon DEF RInv, RType, client
<1>10. RConnected'
  <2>1. \A q \in Calls : (pc'[q] \in Inside <=> pc[q] \in Inside) /\ (pc'[q] = "channel" <=> pc[q] = "channel")
    BY <1>6, Zenon DEF Inside
  <2> QED BY <1>1, <2>1, Zenon DEF RInv, RConnected, client
<1>11. RPlaced'
  BY <1>1, <1>3, <1>4, <1>5, <1>7, <1>8 DEF RInv, RPlaced, RType
<1>12. RHeld'
  BY <1>1, <1>3, <1>5, <1>6 DEF RInv, RHeld
<1>13. \A m \in S : RWhere(m) = "held"
  BY <1>8, Zenon DEF RWhere, S
<1>14. ASSUME NEW m \in Msgs PROVE RWhere(m)' = IF m \in S THEN "ready" ELSE RWhere(m)
  <2>1. \A k \in Consumers : unacked'[k] # m
    BY <1>3, Zenon
  <2>2. m \in S <=> \E k \in Consumers : unacked[k] = m
    BY Zenon DEF S
  <2> QED BY <2>1, <2>2, <1>1, <1>4, <1>7, <1>8, Zenon DEF RWhere
<1> QED BY <1>8, <1>9, <1>10, <1>11, <1>12, <1>13, <1>14, Zenon DEF RInv

\* A Publish writes its message.
LEMMA WriteStep ==
    ASSUME RInv, NEW m \in Msgs, PublishWrites(m)
    PROVE  RInv' /\ \A x \in Msgs : RWhere(x)' = RWhere(x)
<1> USE CallsAssumption DEF Calls
<1>1. /\ ch[m] \in open /\ pc[m] \in {"write", "rewrite"} /\ pc' = [pc EXCEPT ![m] = "ok"]
      /\ sending' = sending \cup {m}
      /\ UNCHANGED <<server, ready, unacked, settled, live, open, answer, mu, dialled, current, ch, body, handled>>
  BY Zenon DEF PublishWrites, GoTo, server, client, rest
<1>2. pc' \in [Calls -> RPcs] /\ pc'[m] = "ok" /\ \A q \in Calls \ {m} : pc'[q] = pc[q]
  BY <1>1, Zenon DEF RInv, RType, RPcs
<1>3. \A x \in Msgs : (pc[x] = "ok" => pc'[x] = "ok") /\ (pc'[x] = "idle" <=> pc[x] = "idle")
  BY <1>1, <1>2, Zenon
<1>4. m \notin settled /\ m \notin ready /\ \A k \in Consumers : unacked[k] # m
  BY <1>1, Zenon DEF RInv, RPlaced
<1>5. RType'
  BY <1>1, <1>2, Zenon DEF RInv, RType
<1>6. RConnected'
  <2>1. pc[m] \notin Inside /\ pc'[m] \notin Inside
    BY <1>1, <1>2, Zenon DEF Inside
  <2>2. \A q \in Calls : ch'[q] \in 1 .. current
    BY <1>1, Zenon DEF RInv, RConnected
  <2> QED BY <1>1, <1>2, <2>1, <2>2, SameConnected, Zenon DEF RInv
<1>7. RPlaced'
  BY <1>1, <1>2, <1>3, <1>4 DEF RInv, RPlaced, RType
<1>8. RHeld'
  BY <1>1, <1>2, Zenon DEF RInv, RHeld, RConnected
<1> QED BY <1>1, <1>3, <1>5, <1>6, <1>7, <1>8, RSameWhere, Zenon DEF RInv

\* The server delivers a message.
LEMMA DeliverStep ==
    ASSUME RInv, NEW k \in Consumers, NEW m \in Msgs, ConsumeReceives(k, m)
    PROVE  /\ RInv'
           /\ RWhere(m) = "ready" /\ RWhere(m)' = "held"
           /\ \A x \in Msgs \ {m} : RWhere(x)' = RWhere(x)
<1> USE CallsAssumption DEF Calls
<1>1. /\ ch[k] \in open /\ m \in ready /\ unacked[k] = None /\ pc[k] = "loop"
      /\ pc' = [pc EXCEPT ![k] = "handler"] /\ ready' = ready \ {m}
      /\ unacked' = [unacked EXCEPT ![k] = m] /\ body' = [body EXCEPT ![k] = m]
      /\ UNCHANGED <<settled, live, open, sending, answer, mu, dialled, current, ch, handled>>
  BY Zenon DEF ConsumeReceives, GoTo, network, client, rest
<1>2. pc' \in [Calls -> RPcs] /\ pc'[k] = "handler" /\ \A q \in Calls \ {k} : pc'[q] = pc[q]
  BY <1>1, Zenon DEF RInv, RType, RPcs
<1>3. \A x \in Msgs : pc'[x] = pc[x]
  BY <1>2, Zenon
<1>4. /\ unacked' \in [Consumers -> Msgs \cup {None}] /\ unacked'[k] = m
      /\ \A l \in Consumers \ {k} : unacked'[l] = unacked[l]
  BY <1>1, Zenon DEF RInv, RType
<1>5. /\ body' \in [Consumers -> Msgs \cup {None}] /\ body'[k] = m
      /\ \A l \in Consumers \ {k} : body'[l] = body[l]
  BY <1>1, Zenon DEF RInv, RType
<1>6. m \notin settled /\ m \notin sending /\ pc[m] = "ok" /\ \A l \in Consumers : unacked[l] # m
  BY <1>1, Zenon DEF RInv, RPlaced
<1>7. RType'
  BY <1>1, <1>2, <1>4, <1>5, Zenon DEF RInv, RType
<1>8. RConnected'
  <2>1. pc[k] \notin Inside /\ pc'[k] \notin Inside
    BY <1>1, <1>2, Zenon DEF Inside
  <2>2. \A q \in Calls : ch'[q] \in 1 .. current
    BY <1>1, Zenon DEF RInv, RConnected
  <2> QED BY <1>1, <1>2, <2>1, <2>2, SameConnected, Zenon DEF RInv
<1>9. RPlaced'
  <2>1. ASSUME NEW l \in Consumers, NEW x \in Msgs, unacked'[l] = x
        PROVE  /\ x \notin settled' /\ x \notin ready' /\ x \notin sending' /\ pc'[x] = "ok"
               /\ \A j \in Consumers : unacked'[j] = x => j = l
    <3>1. CASE l = k
      BY <3>1, <2>1, <1>1, <1>3, <1>4, <1>6, Zenon
    <3>2. CASE l # k
      BY <3>2, <2>1, <1>1, <1>3, <1>4, <1>6 DEF RInv, RPlaced
    <3> QED BY <3>1, <3>2, Zenon
  <2> QED BY <2>1, <1>1, <1>3 DEF RInv, RPlaced, RType
<1>10. RHeld'
  BY <1>1, <1>2, <1>4, <1>5, <1>3 DEF RInv, RHeld, RConnected
<1>11. RWhere(m) = "ready" /\ RWhere(m)' = "held"
  BY <1>1, <1>4, <1>6, Zenon DEF RWhere
<1>12. \A x \in Msgs \ {m} : RWhere(x)' = RWhere(x)
  <2>1. \A x \in Msgs \ {m} : \A l \in Consumers : unacked'[l] = x <=> unacked[l] = x
    BY <1>1, <1>4, Zenon
  <2> QED BY <2>1, <1>1, <1>3, Zenon DEF RWhere
<1> QED BY <1>7, <1>8, <1>9, <1>10, <1>11, <1>12, Zenon DEF RInv

\* A handler answers, or finds its channel closed.
LEMMA AnswerStep ==
    ASSUME RInv, NEW k \in Consumers, NEW how \in {"settle", "requeue"}, HandlerReturns(k, how)
    PROVE  /\ RInv' /\ \A x \in Msgs : RWhere(x)' = RWhere(x)
           /\ \/ handled' = handled
              \/ \E m \in Msgs : RWhere(m) = "held" /\ handled' = handled \cup {m}
<1> USE CallsAssumption DEF Calls
<1>1. /\ pc[k] = "handler" /\ pc' = [pc EXCEPT ![k] = "loop"] /\ body' = [body EXCEPT ![k] = None]
      /\ UNCHANGED <<server, ready, unacked, settled, live, open, sending, mu, dialled, current, ch>>
  BY Zenon DEF HandlerReturns, HandlerEnds, GoTo, server, client
<1>2. pc' \in [Calls -> RPcs] /\ pc'[k] = "loop" /\ \A q \in Calls \ {k} : pc'[q] = pc[q]
  BY <1>1, Zenon DEF RInv, RType, RPcs
<1>3. \A x \in Msgs : pc'[x] = pc[x]
  BY <1>2, Zenon
<1>4. body' \in [Consumers -> Msgs \cup {None}] /\ \A l \in Consumers \ {k} : body'[l] = body[l]
  BY <1>1, Zenon DEF RInv, RType
<1>5. \/ ch[k] \notin open /\ answer' = answer /\ handled' = handled
      \/ /\ ch[k] \in open /\ answer' = [answer EXCEPT ![k] = how]
         /\ handled' = IF how = "settle" THEN handled \cup {body[k]} ELSE handled
  BY Zenon DEF HandlerReturns
<1>6. body[k] \in Msgs /\ (ch[k] \in open => unacked[k] = body[k])
  BY <1>1, Zenon DEF RInv, RHeld
<1>7. /\ answer' \in [Consumers -> {"none", "settle", "requeue"}]
      /\ \A l \in Consumers \ {k} : answer'[l] = answer[l]
      /\ answer'[k] = answer[k] \/ (ch[k] \in open /\ answer'[k] = how)
      /\ handled \subseteq handled'
  BY <1>5, Zenon DEF RInv, RType
<1>8. ch[k] \in open => RWhere(body[k]) = "held"
  BY <1>6, Zenon DEF RWhere, RInv, RPlaced
<1>9. RType'
  BY <1>1, <1>2, <1>4, <1>7, Zenon DEF RInv, RType
<1>10. RConnected'
  <2>1. pc[k] \notin Inside /\ pc'[k] \notin Inside
    BY <1>1, <1>2, Zenon DEF Inside
  <2>2. \A q \in Calls : ch'[q] \in 1 .. current
    BY <1>1, Zenon DEF RInv, RConnected
  <2> QED BY <1>1, <1>2, <2>1, <2>2, SameConnected, Zenon DEF RInv
<1>11. RPlaced'
  BY <1>1, <1>3 DEF RInv, RPlaced, RType
<1>12. RHeld'
  <2>1. ASSUME NEW l \in Consumers
        PROVE  /\ answer'[l] # "none" => unacked[l] # None
               /\ answer'[l] = "settle" => unacked[l] \in handled'
    <3>1. CASE l # k
      BY <3>1, <1>7, Zenon DEF RInv, RHeld
    <3>2. CASE l = k
      BY <3>2, <1>5, <1>6, <1>7, Zenon DEF RInv, RHeld
    <3> QED BY <3>1, <3>2, Zenon
  <2>2. ASSUME NEW l \in Consumers, pc'[l] = "handler"
        PROVE  pc[l] = "handler" /\ body'[l] = body[l] /\ answer'[l] = answer[l]
    BY <2>2, <1>2, <1>4, <1>7, Zenon
  <2>3. \A l \in Consumers : unacked[l] # None => pc'[l] \notin {"idle", "top"}
    BY <1>2, Zenon DEF RInv, RHeld
  <2> QED BY <2>1, <2>2, <2>3, <1>1, Zenon DEF RInv, RHeld
<1>13. handled' = handled \/ \E m \in Msgs : RWhere(m) = "held" /\ handled' = handled \cup {m}
  BY <1>5, <1>6, <1>8, Zenon
<1> QED BY <1>1, <1>3, <1>9, <1>10, <1>11, <1>12, <1>13, RSameWhere, Zenon DEF RInv

\* The server takes a message that was published ...
LEMMA TakeMessage ==
    ASSUME RInv, NEW m \in Msgs, ServerTakesMessage(m)
    PROVE  /\ RInv'
           /\ RWhere(m) = "open" /\ RWhere(m)' = "ready"
           /\ \A x \in Msgs \ {m} : RWhere(x)' = RWhere(x)
<1> USE CallsAssumption DEF Calls
<1>1. /\ m \in sending /\ sending' = sending \ {m} /\ ready' = ready \cup {m}
      /\ UNCHANGED <<unacked, settled, live, open, answer, mu, dialled, current, ch, pc, body, handled>>
  BY Zenon DEF ServerTakesMessage, client, rest
<1>2. pc[m] = "ok" /\ m \notin settled /\ m \notin ready /\ \A k \in Consumers : unacked[k] # m
  BY <1>1, Zenon DEF RInv, RPlaced
<1>3. RType' /\ RConnected'
  BY <1>1, Zenon DEF RInv, RType, RConnected
<1>4. RPlaced'
  <2>1. settled \cap ready = {} /\ sending \cap (settled \cup ready) = {} /\ \A x \in settled \cup ready \cup sending : pc[x] = "ok"
    BY Zenon DEF RInv, RPlaced
  <2>2. settled' \cap ready' = {} /\ sending' \cap (settled' \cup ready') = {} /\ \A x \in settled' \cup ready' \cup sending' : pc'[x] = "ok"
    BY <2>1, <1>1, <1>2, Zenon
  <2> QED BY <2>2, <1>1, <1>2 DEF RInv, RPlaced
<1>5. RHeld'
  BY <1>1, Zenon DEF RInv, RHeld
<1> QED BY <1>1, <1>2, <1>3, <1>4, <1>5, Zenon DEF RInv, RWhere

\* ... or the answer to a delivery.
LEMMA TakeAnswer ==
    ASSUME RInv, NEW k \in Consumers, ServerTakesAnswer(k), NEW m, m = unacked[k]
    PROVE  /\ RInv' /\ m \in Msgs /\ RWhere(m) = "held"
           /\ answer[k] = "settle" => m \in handled
           /\ RWhere(m)' = IF answer[k] = "settle" THEN "settled" ELSE "ready"
           /\ \A x \in Msgs \ {m} : RWhere(x)' = RWhere(x)
<1> USE CallsAssumption DEF Calls
<1>1. /\ answer[k] # "none" /\ answer' = [answer EXCEPT ![k] = "none"]
      /\ unacked' = [unacked EXCEPT ![k] = None]
      /\ ready' = IF answer[k] = "settle" THEN ready ELSE ready \cup {m}
      /\ settled' = IF answer[k] = "settle" THEN settled \cup {m} ELSE settled
      /\ UNCHANGED <<live, open, sending, mu, dialled, current, ch, pc, body, handled>>
  BY Zenon DEF ServerTakesAnswer, client, rest
<1>2. /\ m \in Msgs /\ (answer[k] = "settle" => m \in handled)
      /\ ~ (pc[k] = "handler" /\ ch[k] \in open)
  BY <1>1, Zenon DEF RInv, RHeld, RType
<1>3. m \notin settled /\ m \notin ready /\ m \notin sending /\ pc[m] = "ok" /\ \A l \in Consumers : unacked[l] = m => l = k
  BY <1>2, Zenon DEF RInv, RPlaced
<1>4. /\ unacked' \in [Consumers -> Msgs \cup {None}] /\ unacked'[k] = None
      /\ \A l \in Consumers \ {k} : unacked'[l] = unacked[l] /\ unacked[l] # m
  BY <1>1, <1>3, Zenon DEF RInv, RType
<1>5. /\ answer' \in [Consumers -> {"none", "settle", "requeue"}] /\ answer'[k] = "none"
      /\ \A l \in Consumers \ {k} : answer'[l] = answer[l]
  BY <1>1, Zenon DEF RInv, RType
<1>6. RType'
  BY <1>1, <1>2, <1>4, <1>5, Zenon DEF RInv, RType
<1>7. RConnected'
  BY <1>1, Zenon DEF RInv, RConnected
<1>8. RPlaced'
  <2>1. settled \cap ready = {} /\ sending \cap (settled \cup ready) = {} /\ \A x \in settled \cup ready \cup sending : pc[x] = "ok"
    BY Zenon DEF RInv, RPlaced
  <2>2. settled' \cap ready' = {} /\ sending' \cap (settled' \cup ready') = {} /\ \A x \in settled' \cup ready' \cup sending' : pc'[x] = "ok"
    BY <2>1, <1>1, <1>3
  <2>3. ASSUME NEW l \in Consumers, NEW x \in Msgs, unacked'[l] = x
        PROVE  /\ x \notin settled' /\ x \notin ready' /\ x \notin sending' /\ pc'[x] = "ok"
               /\ \A j \in Consumers : unacked'[j] = x => j = l
    <3>1. l # k /\ unacked[l] = x /\ x # m
      BY <2>3, <1>4, Zenon
    <3> QED BY <3>1, <1>1, <1>4, Zenon DEF RInv, RPlaced
  <2> QED BY <2>2, <2>3, Zenon DEF RPlaced
<1>9. RHeld'
  <2>1. ASSUME NEW l \in Consumers, pc[l] = "handler", ch[l] \in open PROVE l # k
    BY <2>1, <1>2, Zenon
  <2> QED BY <2>1, <1>1, <1>4, <1>5 DEF RInv, RHeld
<1>10. RWhere(m) = "held"
  BY <1>3, Zenon DEF RWhere
<1>11. RWhere(m)' = IF answer[k] = "settle" THEN "settled" ELSE "ready"
  BY <1>1, <1>3, Zenon DEF RWhere
<1>12. \A x \in Msgs \ {m} : RWhere(x)' = RWhere(x)
  <2>1. \A x \in Msgs \ {m} : \A l \in Consumers : unacked'[l] = x <=> unacked[l] = x
    BY <1>4, Zenon
  <2> QED BY <2>1, <1>1 DEF RWhere
<1> QED BY <1>2, <1>6, <1>7, <1>8, <1>9, <1>10, <1>11, <1>12, Zenon DEF RInv

\* A step that leaves all this alone.
LEMMA RInvStutters ==
    ASSUME RInv, UNCHANGED <<server, network, client, ch, pc, body, handled>>
    PROVE  RInv'
<1> USE DEF RInv, server, network, client
<1>1. RType' /\ RConnected'
  BY Zenon DEF RType, RConnected
<1>2. RPlaced'
  BY Zenon DEF RPlaced
<1>3. RHeld'
  BY Zenon DEF RHeld
<1> QED BY <1>1, <1>2, <1>3, Zenon

\* Closing waits until nothing is under way, so that it loses as little as End says.
LEMMA TakenFacts ==
    ASSUME RInv, Taken(current)
    PROVE  /\ sending = {m \in sending : ch[m] # current}
           /\ answer = [k \in Consumers |-> IF ch[k] = current THEN "none" ELSE answer[k]]
BY Zenon DEF RInv, RType, Taken

\* A step of the RabbitMQ broker is one of Delivery.
LEMMA RabbitSimulates ==
    ASSUME kind = "rabbitmq", kind' = kind, RInv, RNext
    PROVE  RInv' /\ (Promise!DNext \/ UNCHANGED <<At, handled>>)
<1> USE CallsAssumption DEF Calls
<1>a. \A m \in Msgs : At[m] = RWhere(m) /\ At'[m] = RWhere(m)'
  BY Zenon DEF At
<1>b. ASSUME \A m \in Msgs : RWhere(m)' = RWhere(m) PROVE At' = At
  BY <1>b, Zenon DEF At
<1>c. ASSUME NEW S \in SUBSET Msgs, \A m \in S : RWhere(m) = "held", handled' = handled,
             \A m \in Msgs : RWhere(m)' = IF m \in S THEN "ready" ELSE RWhere(m)
      PROVE  Promise!Requeue(S)
  <2>1. At' = [m \in Msgs |-> IF m \in S THEN "ready" ELSE At[m]]
    BY <1>a, <1>c, Zenon DEF At
  <2> QED BY <2>1, <1>a, <1>c, Zenon DEF Promise!Requeue, At
<1>1. ASSUME NEW m \in Msgs, PublishCalled(m) PROVE RInv' /\ Promise!Send(m)
  <2>1. /\ pc[m] = "idle" /\ pc' = [pc EXCEPT ![m] = "read"] /\ ch' = ch
        /\ UNCHANGED <<server, network, client, body, handled>>
    BY <1>1, Zenon DEF PublishCalled, GoTo, rest
  <2>2. /\ RInv' /\ RWhere(m)' = "open"
        /\ \A x \in Msgs \ {m} : RWhere(x)' = RWhere(x)
    BY <2>1, QuietStep, Zenon DEF RPcs, Inside
  <2>3. RWhere(m) = "unsent"
    BY <2>1, Zenon DEF RWhere, RInv, RPlaced
  <2> QED BY <2>1, <2>2, <2>3, <1>a, MoveFacts, Zenon DEF Promise!Send
<1>2. ASSUME NEW m \in Msgs, PublishReads(m) \/ PublishDeclares(m) \/ PublishFails(m)
      PROVE  RInv' /\ UNCHANGED <<At, handled>>
  <2>1. PICK to \in RPcs \ ({"idle", "ok", "handler", "top"} \cup Inside) : pc' = [pc EXCEPT ![m] = to]
    BY <1>2, Zenon DEF PublishReads, PublishDeclares, PublishFails, GoTo, RPcs, Inside
  <2>2. pc[m] \in {"read", "reread", "declare", "redeclare", "write", "rewrite"}
    BY <1>2, Zenon DEF PublishReads, PublishDeclares, PublishFails, GoTo
  <2>3. /\ ch' = ch \/ ch' = [ch EXCEPT ![m] = current]
        /\ UNCHANGED <<server, network, client, body, handled>>
    BY <1>2, Zenon DEF PublishReads, PublishDeclares, PublishFails, ReadChannel, rest
  <2>4. RInv' /\ \A x \in Msgs : RWhere(x)' = RWhere(x)
    BY <2>1, <2>2, <2>3, QuietStep, Zenon DEF Inside
  <2> QED BY <2>3, <2>4, <1>b, Zenon
<1>3. ASSUME NEW m \in Msgs, PublishWrites(m) PROVE RInv' /\ UNCHANGED <<At, handled>>
  BY <1>3, <1>b, WriteStep, Zenon DEF PublishWrites, rest
<1>4. ASSUME NEW p \in Calls, ReconnectLocks(p) PROVE RInv' /\ UNCHANGED <<At, handled>>
  BY <1>4, <1>b, LockStep, Zenon DEF ReconnectLocks, rest
<1>5. ASSUME NEW p \in Calls, NEW to \in {"reread", "failed", "top"}, to = "top" => p \in Consumers,
             ReconnectDials(p) \/ ReconnectOpens(p, to) \/ ReconnectFails(p, to) \/ ChannelFails(p, to)
      PROVE  RInv' /\ UNCHANGED <<At, handled>>
  <2>1. RInv' /\ \A x \in Msgs : RWhere(x)' = RWhere(x)
    BY <1>5, DialStep, Zenon
  <2> QED BY <2>1, <1>5, <1>b, Zenon DEF ReconnectDials, ReconnectOpens, ReconnectFails, ChannelFails, rest
<1>6. ASSUME NEW p \in Calls, ReconnectCloses(p)
      PROVE  RInv' /\ \E S \in SUBSET Msgs : Promise!Requeue(S)
  <2>1. /\ Taken(current) /\ pc[p] = "close" /\ pc' = [pc EXCEPT ![p] = "dial"] /\ End(current)
        /\ sending' = sending /\ answer' = answer /\ UNCHANGED <<client, ch, body, handled>>
    BY <1>6, Zenon DEF ReconnectCloses, GoTo, rest
  <2>4. live \subseteq {current}
    BY <2>1, Zenon DEF RInv, RConnected, Inside
  <2>2. /\ sending' = {m \in sending : ch[m] # current}
        /\ answer' = [k \in Consumers |-> IF ch[k] = current THEN "none" ELSE answer[k]]
    BY <2>1, TakenFacts, Zenon
  <2>3. /\ RInv'
        /\ \E S \in SUBSET Msgs : /\ \A m \in S : RWhere(m) = "held"
                                 /\ \A m \in Msgs : RWhere(m)' = IF m \in S THEN "ready" ELSE RWhere(m)
    BY <2>1, <2>2, <2>4, EndStep, Zenon
  <2> QED BY <2>1, <2>3, <1>c, Zenon
<1>7. ASSUME NEW k \in Consumers,
             \/ ConsumeCalled(k) \/ ConsumeReads(k) \/ ConsumeDeclares(k)
             \/ ConsumeLosesChannel(k) \/ BackoffEnds(k) \/ ConsumeCancelled(k)
      PROVE  RInv' /\ UNCHANGED <<At, handled>>
  <2> USE DEF ConsumeCalled, ConsumeReads, ConsumeDeclares, ConsumeLosesChannel, BackoffEnds, ConsumeCancelled
  <2>1. PICK to \in RPcs \ ({"idle", "ok", "handler"} \cup Inside) :
          pc' = [pc EXCEPT ![k] = to] /\ (to = "top" => pc[k] = "idle")
    BY <1>7 DEF GoTo, RPcs, Inside
  <2>2. pc[k] \notin {"ok"} \cup Inside
    BY <1>7, Zenon DEF GoTo, Inside
  <2>3. /\ ch' = ch \/ (ch' = [ch EXCEPT ![k] = current] /\ pc[k] = "top")
        /\ UNCHANGED <<server, network, client, body, handled>>
    BY <1>7, Zenon DEF ReadChannel, GoTo, rest
  <2>4. RInv' /\ \A x \in Msgs : RWhere(x)' = IF x = k /\ pc[k] = "idle" THEN "open" ELSE RWhere(x)
    <3> HIDE DEF ConsumeCalled, ConsumeReads, ConsumeDeclares, ConsumeLosesChannel, BackoffEnds, ConsumeCancelled
    <3> QED BY <2>1, <2>2, <2>3, QuietStep, Zenon
  <2>5. \A x \in Msgs : RWhere(x)' = RWhere(x)
    BY <2>4, Zenon
  <2> QED BY <2>3, <2>4, <2>5, <1>b, Zenon
<1>8. ASSUME NEW k \in Consumers, HandlerStep(k)
      PROVE  RInv' /\ ((\E m \in Msgs : Promise!Handle(m)) \/ UNCHANGED <<At, handled>>)
  <2>1. PICK how \in {"settle", "requeue"} : HandlerReturns(k, how)
    BY <1>8, Zenon DEF HandlerStep
  <2>2. /\ RInv' /\ \A x \in Msgs : RWhere(x)' = RWhere(x)
        /\ \/ handled' = handled
           \/ \E m \in Msgs : RWhere(m) = "held" /\ handled' = handled \cup {m}
    BY <2>1, AnswerStep, Zenon
  <2>3. At' = At
    BY <2>2, <1>b, Zenon
  <2>4. ASSUME NEW m \in Msgs, RWhere(m) = "held", handled' = handled \cup {m} PROVE Promise!Handle(m)
    BY <2>3, <2>4, <1>a, Zenon DEF Promise!Handle, At
  <2> QED BY <2>2, <2>3, <2>4, Zenon
<1>9. ASSUME NEW k \in Consumers, NEW m \in Msgs, ConsumeReceives(k, m) PROVE RInv' /\ Promise!Deliver(m)
  <2>1. /\ RInv' /\ RWhere(m) = "ready" /\ RWhere(m)' = "held"
        /\ \A x \in Msgs \ {m} : RWhere(x)' = RWhere(x)
    BY <1>9, DeliverStep, Zenon
  <2>2. handled' = handled
    BY <1>9, Zenon DEF ConsumeReceives, rest
  <2> QED BY <2>1, <2>2, <1>a, MoveFacts, Zenon DEF Promise!Deliver
<1>10. ASSUME NEW m \in Msgs, ServerTakesMessage(m) PROVE RInv' /\ Promise!Arrive(m)
  <2>1. /\ RInv' /\ RWhere(m) = "open" /\ RWhere(m)' = "ready"
        /\ \A x \in Msgs \ {m} : RWhere(x)' = RWhere(x)
    BY <1>10, TakeMessage, Zenon
  <2>2. handled' = handled
    BY <1>10, Zenon DEF ServerTakesMessage, rest
  <2> QED BY <2>1, <2>2, <1>a, MoveFacts, Zenon DEF Promise!Arrive
<1>16. ASSUME NEW k \in Consumers, ServerTakesAnswer(k)
       PROVE  RInv' /\ \/ \E m \in Msgs : Promise!Settle(m)
                       \/ \E S \in SUBSET Msgs : Promise!Requeue(S)
  <2>1. PICK m : m = unacked[k]
    BY Zenon
  <2>2. handled' = handled
    BY <1>16, Zenon DEF ServerTakesAnswer, rest
  <2>3. /\ RInv' /\ m \in Msgs /\ RWhere(m) = "held" /\ (answer[k] = "settle" => m \in handled)
        /\ RWhere(m)' = IF answer[k] = "settle" THEN "settled" ELSE "ready"
        /\ \A x \in Msgs \ {m} : RWhere(x)' = RWhere(x)
    BY <1>16, <2>1, TakeAnswer, Zenon
  <2>4. CASE answer[k] = "settle"
    <3>1. Promise!Move(m, "held", "settled")
      BY <2>3, <2>4, <1>a, MoveFacts, Zenon
    <3> QED BY <3>1, <2>2, <2>3, <2>4, Zenon DEF Promise!Settle
  <2>5. CASE answer[k] # "settle"
    <3>1. Promise!Requeue({m})
      BY <2>2, <2>3, <2>5, <1>c, Zenon
    <3> QED BY <3>1, <2>3, Zenon
  <2> QED BY <2>4, <2>5, Zenon
<1>11. ASSUME NEW c \in Conns, Drop(c)
       PROVE  RInv' /\ \E S \in SUBSET Msgs : Promise!Requeue(S)
  <2>1. /\ c \in live /\ pc' = pc /\ End(c)
        /\ sending' = {m \in sending : ch[m] # c}
        /\ answer' = [k \in Consumers |-> IF ch[k] = c THEN "none" ELSE answer[k]]
        /\ UNCHANGED <<client, ch, body, handled>>
    BY <1>11, Zenon DEF Drop, rest
  <2>2. live \subseteq {c}
    BY <2>1, Zenon DEF RInv, RConnected
  <2>3. /\ RInv'
        /\ \E S \in SUBSET Msgs : /\ \A m \in S : RWhere(m) = "held"
                                 /\ \A m \in Msgs : RWhere(m)' = IF m \in S THEN "ready" ELSE RWhere(m)
    BY <2>1, <2>2, EndStep, Zenon
  <2> QED BY <2>1, <2>3, <1>c, Zenon
<1>12. ASSUME Close PROVE RInv' /\ \E S \in SUBSET Msgs : Promise!Requeue(S)
  <2>1. /\ Taken(current) /\ pc' = pc /\ End(current)
        /\ sending' = sending /\ answer' = answer /\ UNCHANGED <<client, ch, body, handled>>
    BY <1>12, Zenon DEF Close
  <2>4. live \subseteq {current}
    BY <1>12, Zenon DEF Close, RInv, RConnected, Inside
  <2>2. /\ sending' = {m \in sending : ch[m] # current}
        /\ answer' = [k \in Consumers |-> IF ch[k] = current THEN "none" ELSE answer[k]]
    BY <2>1, TakenFacts, Zenon
  <2>3. /\ RInv'
        /\ \E S \in SUBSET Msgs : /\ \A m \in S : RWhere(m) = "held"
                                 /\ \A m \in Msgs : RWhere(m)' = IF m \in S THEN "ready" ELSE RWhere(m)
    BY <2>1, <2>2, <2>4, EndStep, Zenon
  <2> QED BY <2>1, <2>3, <1>c, Zenon
<1>13. ASSUME Stop PROVE RInv' /\ UNCHANGED <<At, handled>>
  <2>1. UNCHANGED <<server, network, client, ch, pc, body, handled>>
    BY <1>13, Zenon DEF Stop
  <2>2. RInv'
    BY <2>1, RInvStutters, Zenon
  <2> QED BY <2>1, <2>2, <1>b, RSameWhere, Zenon
<1>14. ASSUME NEW m \in Msgs, PublishStep(m)
       PROVE  RInv' /\ (Promise!DNext \/ UNCHANGED <<At, handled>>)
  BY <1>14, <1>2, <1>3, <1>4, <1>5, <1>6, Zenon DEF PublishStep, Reconnect, Promise!DNext
<1>15. ASSUME NEW k \in Consumers, ConsumeStep(k)
       PROVE  RInv' /\ (Promise!DNext \/ UNCHANGED <<At, handled>>)
  BY <1>15, <1>4, <1>5, <1>6, <1>7, Zenon DEF ConsumeStep, Reconnect, Promise!DNext
<1> QED
  BY <1>1, <1>7, <1>8, <1>9, <1>10, <1>11, <1>12, <1>13, <1>14, <1>15, <1>16, Zenon
     DEF RNext, ServerStep, Promise!DNext

-----------------------------------------------------------------------------
(* Theorems *)

BrokerInv ==
    \/ kind = "memory" /\ MInv /\ live \subseteq {current}
    \/ kind = "rabbitmq" /\ RInv

\* The brokers begin where Delivery does.
LEMMA BrokerInitial == Init => BrokerInv /\ Promise!DInit
<1> SUFFICES ASSUME Init PROVE BrokerInv /\ Promise!DInit
  BY Zenon
<1> USE CallsAssumption, RabbitAssumption DEF Init, MInit, RInit, CallsInit, Calls
<1>1. kind = "memory" => MInv /\ live \subseteq {current}
  BY DEF MInv, MPcs, Once, InBuf
<1>2. kind = "rabbitmq" => RInv
  <2>1. 1 \in Conns
    BY DEF Conns
  <2>2. RType
    BY <2>1, Zenon DEF RType, RPcs
  <2>3. RConnected
    BY DEF RConnected, Inside
  <2>4. RPlaced
    BY Zenon DEF RPlaced
  <2>5. RHeld
    BY Zenon DEF RHeld
  <2> QED BY <2>2, <2>3, <2>4, <2>5, Zenon DEF RInv
<1>3. At = [m \in Msgs |-> "unsent"]
  BY DEF At, MWhere, RWhere, InBuf
<1> QED BY <1>1, <1>2, <1>3, Zenon DEF BrokerInv, Promise!DInit, At

\* Every step keeps the invariant and is one of Delivery.
LEMMA BrokerStep ==
    ASSUME BrokerInv, [Next]_vars
    PROVE  BrokerInv' /\ (Promise!DNext \/ UNCHANGED <<At, handled>>)
<1>1. CASE kind = "memory" /\ MNext /\ UNCHANGED <<kind, rabbit>>
  <2>1. MInv' /\ (Promise!DNext \/ UNCHANGED <<At, handled>>)
    BY <1>1, MemorySimulates, Zenon DEF BrokerInv
  <2>2. live' \subseteq {current'}
    BY <1>1, Zenon DEF BrokerInv, rabbit, network, client
  <2> QED BY <1>1, <2>1, <2>2, Zenon DEF BrokerInv
<1>2. CASE kind = "rabbitmq" /\ RNext /\ UNCHANGED <<kind, memory>>
  BY <1>2, RabbitSimulates, Zenon DEF BrokerInv
<1>3. CASE UNCHANGED vars
  <2>1. UNCHANGED <<kind, pc, body, buf, handled, ready, unacked, settled, live, open, sending, answer, drops, dialled, current, mu, ch>>
    BY <1>3, Zenon DEF vars, mvars, rvars, server, network, client, rest
  <2>2. At' = At
    BY <2>1, Zenon DEF At, MWhere, RWhere, InBuf
  <2>3. MInv' = MInv
    BY <2>1 DEF MInv, InBuf, Once
  <2>4. RInv => RInv'
    BY <2>1, RInvStutters, Zenon DEF server, network, client
  <2> QED BY <2>1, <2>2, <2>3, <2>4, Zenon DEF BrokerInv
<1> QED BY <1>1, <1>2, <1>3, Zenon DEF Next

\* Either broker keeps its promise: what memory.go and rabbitmq.go do with
\* channels, acknowledgements and reconnections are steps of Delivery.
THEOREM Delivers == Spec => ImplementsDelivery
<1>1. Init => BrokerInv /\ Promise!DInit
  BY BrokerInitial, Zenon
<1>2. BrokerInv /\ [Next]_vars => BrokerInv'
  BY BrokerStep, Zenon
<1>3. BrokerInv /\ [Next]_vars => [Promise!DNext]_<<At, handled>>
  BY BrokerStep, Zenon
<1>4. [Promise!DNext]_<<At, handled>> => [Promise!DNext]_<<[m \in Msgs |-> IF kind = "memory" THEN MWhere(m) ELSE RWhere(m)], handled>>
  BY Zenon DEF At
<1> QED BY <1>1, <1>2, <1>3, <1>4, PTL DEF Spec, ImplementsDelivery, Promise!DSpec

\* reconnect of rabbitmq.go closes what it replaces, and what it dialled when the channel
\* cannot be opened: whoever calls it and wherever it fails, no connection is left behind.
THEOREM NoLeak == Spec => []NoConnectionLeak
<1>1. Init => BrokerInv
  BY BrokerInitial, Zenon
<1>2. BrokerInv /\ [Next]_vars => BrokerInv'
  BY BrokerStep
<1>3. BrokerInv => NoConnectionLeak
  BY Zenon DEF BrokerInv, RInv, RConnected, Inside, NoConnectionLeak
<1> QED BY <1>1, <1>2, <1>3, PTL DEF Spec
=============================================================================
