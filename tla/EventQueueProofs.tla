-------------------------- MODULE EventQueueProofs --------------------------
(***************************************************************************)
(* The executor of events, for any events, times, priorities and           *)
(* snapshots.  The binary heap of container/heap keeps the order of events *)
(* (PushFacts, PopFacts), so that its root is the first event; a snapshot  *)
(* keeps heap and counter (SavedOK); and QueueInv says of queue, history   *)
(* and snapshot that every event is in exactly one place.                  *)
(***************************************************************************)
EXTENDS Executor, WellFoundedInduction, TLAPS

-----------------------------------------------------------------------------
(* Induction *)

\* Induction on the naturals, for a set.
LEMMA Induction ==
    ASSUME NEW S, 0 \in S, \A n \in Nat : n \in S => n + 1 \in S
    PROVE  \A n \in Nat : n \in S
<1> SUFFICES ASSUME Nat \ S # {} PROVE FALSE
    BY Zenon
<1> DEFINE R == OpToRel(<, Nat)
<1>1. IsWellFoundedOn(R, Nat) /\ \A a, b \in Nat : <<a, b>> \in R <=> a < b
    BY NatLessThanWellFounded, Zenon DEF OpToRel
<1> HIDE DEF R
<1>2. PICK T : T = Nat \ S
    BY Zenon
<1>3. PICK x \in T : \A y \in T : ~ (<<y, x>> \in R)
    BY <1>1, <1>2, WFMin
<1>4. x \in Nat /\ x # 0 /\ x - 1 \in Nat
    BY <1>2, <1>3
<1>5. x - 1 \in S
  <2>1. x - 1 < x
    BY <1>4
  <2>2. <<x - 1, x>> \in R
    BY <1>1, <1>4, <2>1, Zenon
  <2> QED
    BY <1>2, <1>3, <1>4, <2>2, Zenon
<1> QED
    BY <1>2, <1>3, <1>4, <1>5

-----------------------------------------------------------------------------
(* The order of events, and the heap *)

\* No event comes before its parent.
Ordered(h) == \A i \in 2 .. Len(h) : ~ Before(h[i], h[i \div 2])

Distinct(h) == \A i, j \in 1 .. Len(h) : h[i].seq = h[j].seq => i = j

\* The order of events is linear on distinct sequence numbers.
LEMMA BeforeIsOrder ==
    ASSUME NEW a \in Event, NEW b \in Event, NEW c \in Event
    PROVE  /\ Before(a, b) => ~ Before(b, a)
           /\ ~ Before(a, a)
           /\ ~ Before(b, a) /\ ~ Before(c, b) => ~ Before(c, a)
           /\ a.seq # b.seq /\ ~ Before(b, a) => Before(a, b)
<1>1. /\ a.time \in Nat /\ a.priority \in Int /\ a.seq \in Nat
      /\ b.time \in Nat /\ b.priority \in Int /\ b.seq \in Nat
      /\ c.time \in Nat /\ c.priority \in Int /\ c.seq \in Nat
    BY Zenon DEF Event
<1> QED
    BY <1>1 DEF Before

\* What an exchange of two places changes.
LEMMA SwapFacts ==
    ASSUME NEW h \in Seq(Event), NEW i \in 1 .. Len(h), NEW j \in 1 .. Len(h)
    PROVE  /\ Swapped(h, i, j) \in Seq(Event) /\ Len(Swapped(h, i, j)) = Len(h)
           /\ Swapped(h, i, j)[i] = h[j] /\ Swapped(h, i, j)[j] = h[i]
           /\ \A k \in 1 .. Len(h) : k # i /\ k # j => Swapped(h, i, j)[k] = h[k]
           /\ Range(Swapped(h, i, j)) = Range(h)
           /\ Distinct(h) => Distinct(Swapped(h, i, j))
<1> DEFINE g == Swapped(h, i, j)
<1>1. g \in Seq(Event) /\ Len(g) = Len(h) /\ DOMAIN g = 1 .. Len(h) /\ DOMAIN h = 1 .. Len(h)
    BY DEF Swapped
<1>2. g[i] = h[j] /\ g[j] = h[i] /\ \A k \in 1 .. Len(h) : k # i /\ k # j => g[k] = h[k]
    BY DEF Swapped
<1> HIDE DEF g
<1>3. Range(g) = Range(h)
    BY <1>1, <1>2, Zenon DEF Range
<1>4. Distinct(h) => Distinct(g)
    BY <1>1, <1>2, Zenon DEF Distinct
<1> QED
    BY <1>1, <1>2, <1>3, <1>4, Zenon DEF g

(* ---------------------------------- up ---------------------------------- *)

\* During up: the element at s.at may come before its parent; nothing else is out of order,
\* and the children of s.at are in order with its parent.
Rising(s, h) ==
    /\ s.heap \in Seq(Event) /\ Len(s.heap) = Len(h) /\ Range(s.heap) = Range(h) /\ Distinct(s.heap)
    /\ s.at \in 1 .. Len(h)
    /\ \A i \in 2 .. Len(h) : i # s.at => ~ Before(s.heap[i], s.heap[i \div 2])
    /\ \A i \in 2 .. Len(h) : i \div 2 = s.at /\ s.at > 1 => ~ Before(s.heap[i], s.heap[s.at \div 2])

Risen(s) == s.at = 1 \/ ~ Before(s.heap[s.at], s.heap[s.at \div 2])

\* One turn of up.
LEMMA UpTurnKeeps ==
    ASSUME NEW h \in Seq(Event), NEW s, Rising(s, h)
    PROVE  /\ Rising(UpTurn(s), h)
           /\ Risen(s) => UpTurn(s) = s
           /\ ~ Risen(s) => UpTurn(s).at < s.at
<1> DEFINE g == s.heap
           a == s.at
           p == a \div 2
<1>0. /\ g \in Seq(Event) /\ Len(g) = Len(h) /\ Range(g) = Range(h) /\ Distinct(g)
      /\ a \in 1 .. Len(h) /\ Len(h) \in Nat
      /\ \A i \in 2 .. Len(h) : i # a => ~ Before(g[i], g[i \div 2])
      /\ \A i \in 2 .. Len(h) : i \div 2 = a /\ a > 1 => ~ Before(g[i], g[p])
    BY DEF Rising
<1>1. p = 0 <=> a = 1
    BY <1>0
<1>2. CASE Risen(s)
    BY <1>1, <1>2, Zenon DEF Risen, UpTurn
<1>3. CASE ~ Risen(s)
  <2> DEFINE f == Swapped(g, a, p)
  <2>1. UpTurn(s) = [heap |-> f, at |-> p] /\ Before(g[a], g[p])
    BY <1>1, <1>3, Zenon DEF Risen, UpTurn
  <2>2. p \in 1 .. Len(g) /\ a \in 2 .. Len(g) /\ p < a
    BY <1>0, <1>3 DEF Risen
  <2>3. /\ f \in Seq(Event) /\ Len(f) = Len(h) /\ f[a] = g[p] /\ f[p] = g[a]
        /\ \A k \in 1 .. Len(h) : k # a /\ k # p => f[k] = g[k]
        /\ Range(f) = Range(h) /\ Distinct(f)
    <3> HIDE DEF g, a, p
    <3>1. g \in Seq(Event) /\ a \in 1 .. Len(g) /\ p \in 1 .. Len(g) /\ Len(g) = Len(h)
      BY <1>0, <2>2, Zenon
    <3>2. /\ f \in Seq(Event) /\ Len(f) = Len(g) /\ f[a] = g[p] /\ f[p] = g[a]
          /\ \A k \in 1 .. Len(g) : k # a /\ k # p => f[k] = g[k]
          /\ Range(f) = Range(g) /\ (Distinct(g) => Distinct(f))
      BY <3>1, SwapFacts, Zenon
    <3> QED BY <1>0, <3>1, <3>2, Zenon
  <2>4. \A i \in 1 .. Len(h) : g[i] \in Event
    BY <1>0
  <2> HIDE DEF f
  <2>5. ASSUME NEW i \in 2 .. Len(h), i # p PROVE ~ Before(f[i], f[i \div 2])
    <3> DEFINE q == i \div 2
    <3>1. i \in 1 .. Len(h) /\ q \in 1 .. Len(h) /\ q < i
      BY <1>0
    <3>2. CASE i = a
      BY <2>1, <2>2, <2>3, <2>4, <3>2, <1>0, BeforeIsOrder
    <3>3. CASE i # a /\ q = a
      <4>1. f[i] = g[i] /\ f[q] = g[p] /\ ~ Before(g[i], g[p])
        BY <2>2, <2>3, <3>1, <3>3, <2>5, <1>0
      <4> QED BY <4>1, Zenon
    <3>4. CASE i # a /\ q = p
      <4>1. f[i] = g[i] /\ f[q] = g[a] /\ ~ Before(g[i], g[p])
        BY <2>3, <3>1, <3>4, <2>5, <1>0, Zenon
      <4>2. ~ Before(g[i], g[a])
        <5>1. g[i] \in Event /\ g[p] \in Event /\ g[a] \in Event
          BY <1>0, <2>2, <2>4, <3>1, Zenon
        <5>2. ~ Before(g[p], g[a])
          BY <2>1, <5>1, BeforeIsOrder
        <5> QED BY <4>1, <5>1, <5>2, BeforeIsOrder, Zenon
      <4> QED BY <4>1, <4>2, Zenon
    <3>5. CASE i # a /\ q # a /\ q # p
      <4>1. f[i] = g[i] /\ f[q] = g[q] /\ ~ Before(g[i], g[q])
        BY <2>3, <3>1, <3>5, <2>5, <1>0, Zenon
      <4> QED BY <4>1, Zenon
    <3> QED BY <3>2, <3>3, <3>4, <3>5, Zenon
  <2>6. ASSUME NEW i \in 2 .. Len(h), i \div 2 = p, p > 1 PROVE ~ Before(f[i], f[p \div 2])
    <3> DEFINE r == p \div 2
    <3>1. r \in 1 .. Len(h) /\ r < p /\ r < a /\ i \in 1 .. Len(h) /\ p \in 2 .. Len(h) /\ p # a /\ i # p
      BY <2>2, <2>6, <1>0
    <3>2. f[r] = g[r] /\ ~ Before(g[p], g[r])
      <4>1. r # a /\ r # p
        BY <1>0, <3>1
      <4> QED BY <1>0, <2>3, <3>1, <4>1, Zenon
    <3> HIDE DEF r, p
    <3>3. CASE i = a
      BY <3>2, <3>3, <2>3, Zenon DEF r
    <3>4. CASE i # a
      <4>1. f[i] = g[i] /\ ~ Before(g[i], g[p])
        BY <2>3, <2>6, <3>1, <3>4, <1>0, Zenon
      <4>2. ~ Before(g[i], g[r])
        BY <2>4, <3>1, <3>2, <4>1, BeforeIsOrder
      <4> QED BY <4>1, <4>2, <3>2, Zenon DEF r
    <3> QED BY <3>3, <3>4, Zenon
  <2>7. Rising(UpTurn(s), h)
    <3> HIDE DEF p
    <3>1. p \in 1 .. Len(h)
      BY <1>0, <2>2, Zenon
    <3> QED BY <2>1, <2>3, <2>5, <2>6, <3>1 DEF Rising
  <2> QED BY <2>1, <2>2, <2>7, <1>3
<1> QED BY <1>2, <1>3, Zenon
\* g is the recursive function of Up, to its turn n.
UpTo(g, h, j, n) == g = [k \in 0 .. n |-> IF k = 0 THEN [heap |-> h, at |-> j] ELSE UpTurn(g[k - 1])]

\* The recursive function of Up exists.
LEMMA UpExists ==
    ASSUME NEW h, NEW j, NEW n \in Nat
    PROVE  \E g : UpTo(g, h, j, n)
<1> DEFINE S == {k \in Nat : \E g : UpTo(g, h, j, k)}
<1>1. 0 \in S
  <2>1. UpTo([k \in 0 .. 0 |-> [heap |-> h, at |-> j]], h, j, 0)
    BY DEF UpTo
  <2> QED BY <2>1, Zenon
<1>2. ASSUME NEW k \in Nat, k \in S PROVE k + 1 \in S
  <2>1. PICK g : UpTo(g, h, j, k)
    BY <1>2, Zenon
  <2> DEFINE f == [i \in 0 .. k + 1 |-> IF i = k + 1 THEN UpTurn(g[k]) ELSE g[i]]
  <2>2. \A i \in 0 .. k : f[i] = g[i] /\ g[i] = IF i = 0 THEN [heap |-> h, at |-> j] ELSE UpTurn(g[i - 1])
    BY <2>1 DEF UpTo
  <2>3. \A i \in 0 .. k + 1 : f[i] = IF i = 0 THEN [heap |-> h, at |-> j] ELSE UpTurn(f[i - 1])
    BY <2>2
  <2>4. f = [i \in 0 .. k + 1 |-> f[i]]
    BY Zenon
  <2> HIDE DEF f
  <2>5. UpTo(f, h, j, k + 1)
    BY <2>3, <2>4, Zenon DEF UpTo
  <2> QED BY <2>5
<1> HIDE DEF S
<1>3. n \in S
    BY <1>1, <1>2, Induction, Zenon
<1> QED BY <1>3, Zenon DEF S

\* The turns of Up.
LEMMA UpSteps ==
    ASSUME NEW h, NEW j \in Nat
    PROVE  \E g : /\ Up(h, j) = g[j].heap /\ g[0] = [heap |-> h, at |-> j]
                  /\ \A n \in 1 .. j : g[n] = UpTurn(g[n - 1])
<1>1. PICK g : g = CHOOSE f : UpTo(f, h, j, j)
    BY Zenon
<1>2. Up(h, j) = g[j].heap
    BY <1>1, Zenon DEF Up, UpTo
<1>3. UpTo(g, h, j, j)
    BY <1>1, UpExists, Zenon
<1>4. g[0] = [heap |-> h, at |-> j] /\ \A n \in 1 .. j : g[n] = UpTurn(g[n - 1])
    BY <1>3 DEF UpTo
<1> QED BY <1>2, <1>4, Zenon

\* up leaves an ordered heap of the same events behind.
LEMMA UpOrders ==
    ASSUME NEW h \in Seq(Event), Rising([heap |-> h, at |-> Len(h)], h)
    PROVE  /\ Up(h, Len(h)) \in Seq(Event) /\ Len(Up(h, Len(h))) = Len(h)
           /\ Range(Up(h, Len(h))) = Range(h)
           /\ Distinct(Up(h, Len(h))) /\ Ordered(Up(h, Len(h)))
<1>1. PICK j \in Nat : j = Len(h)
    OBVIOUS
<1>2. PICK g : /\ Up(h, j) = g[j].heap /\ g[0] = [heap |-> h, at |-> j]
               /\ \A n \in 1 .. j : g[n] = UpTurn(g[n - 1])
    BY UpSteps
<1>a. ASSUME NEW s, Rising(s, h) PROVE s.at \in Nat /\ s.at \in 1 .. j
  <2>1. s.at \in 1 .. j
    BY <1>1, <1>a, Zenon DEF Rising
  <2> QED BY <2>1
<1> DEFINE S == {n \in Nat : n <= j => Rising(g[n], h) /\ (Risen(g[n]) \/ g[n].at <= j - n)}
<1>3. 0 \in S
    BY <1>1, <1>2
<1>4. ASSUME NEW n \in Nat, n \in S PROVE n + 1 \in S
  <2> SUFFICES ASSUME n + 1 <= j PROVE Rising(g[n + 1], h) /\ (Risen(g[n + 1]) \/ g[n + 1].at <= j - (n + 1))
    OBVIOUS
  <2>1. g[n + 1] = UpTurn(g[n])
    BY <1>2
  <2>2. Rising(g[n], h) /\ (Risen(g[n]) \/ g[n].at <= j - n)
    BY <1>4
  <2>3. /\ Rising(g[n + 1], h) /\ (Risen(g[n]) => g[n + 1] = g[n])
        /\ (~ Risen(g[n]) => g[n + 1].at < g[n].at)
    BY <2>1, <2>2, UpTurnKeeps, Zenon
  <2>4. g[n].at \in Nat /\ g[n + 1].at \in Nat
    BY <1>a, <2>2, <2>3, Zenon
  <2>5. CASE Risen(g[n])
    BY <2>3, <2>5, Zenon
  <2>6. CASE ~ Risen(g[n])
    BY <2>2, <2>3, <2>4, <2>6
  <2> QED BY <2>5, <2>6, Zenon
<1> HIDE DEF S
<1>5. j \in S
    BY <1>3, <1>4, Induction, Zenon
<1>6. Rising(g[j], h) /\ (Risen(g[j]) \/ g[j].at <= 0)
    BY <1>5 DEF S
<1>7. g[j].at \in 1 .. j
    BY <1>a, <1>6, Zenon
<1>8. Risen(g[j])
    BY <1>6, <1>7
<1> DEFINE f == g[j].heap
<1>9. f \in Seq(Event) /\ Len(f) = Len(h) /\ Range(f) = Range(h) /\ Distinct(f)
    BY <1>6, Zenon DEF Rising
<1>10. Ordered(f)
  <2> SUFFICES ASSUME NEW i \in 2 .. Len(h) PROVE ~ Before(f[i], f[i \div 2])
    BY <1>9, Zenon DEF Ordered
  <2>1. CASE i # g[j].at
    BY <1>6, <2>1, Zenon DEF Rising
  <2>2. CASE i = g[j].at
    BY <1>1, <1>8, <2>2 DEF Risen
  <2> QED BY <2>1, <2>2, Zenon
<1> QED BY <1>1, <1>2, <1>9, <1>10, Zenon

\* A new event joins the heap.
LEMMA PushFacts ==
    ASSUME NEW h \in Seq(Event), Ordered(h), Distinct(h), NEW e \in Event, \A i \in 1 .. Len(h) : h[i].seq # e.seq
    PROVE  /\ HeapPush(h, e) \in Seq(Event) /\ Len(HeapPush(h, e)) = Len(h) + 1
           /\ Range(HeapPush(h, e)) = Range(h) \cup {e}
           /\ Distinct(HeapPush(h, e)) /\ Ordered(HeapPush(h, e))
<1> DEFINE g == Append(h, e)
<1>0. PICK n \in Nat : n = Len(h)
    OBVIOUS
<1>1. g \in Seq(Event) /\ Len(g) = n + 1 /\ g[n + 1] = e /\ \A i \in 1 .. n : g[i] = h[i]
    BY <1>0
<1>2. DOMAIN g = 1 .. n + 1 /\ DOMAIN h = 1 .. n
    BY <1>0, <1>1
<1> HIDE DEF g
<1>3. Range(g) = Range(h) \cup {e}
  <2>1. 1 .. n + 1 = 1 .. n \cup {n + 1}
    BY <1>0
  <2>2. \A i \in DOMAIN g : g[i] \in Range(h) \cup {e}
    BY <1>1, <1>2, <2>1, Zenon DEF Range
  <2>3. \A i \in DOMAIN h : h[i] \in Range(g)
    BY <1>1, <1>2, <2>1, Zenon DEF Range
  <2>4. e \in Range(g)
    BY <1>1, <1>2, <2>1, Zenon DEF Range
  <2> QED BY <2>2, <2>3, <2>4, Zenon DEF Range
<1>4. Distinct(g)
  <2> SUFFICES ASSUME NEW i \in 1 .. n + 1, NEW k \in 1 .. n + 1, g[i].seq = g[k].seq PROVE i = k
    BY <1>1, Zenon DEF Distinct
  <2>1. \A m \in 1 .. n + 1 : m \in 1 .. n \/ m = n + 1
    BY <1>0
  <2> QED BY <1>0, <1>1, <2>1, Zenon DEF Distinct
<1>5. ASSUME NEW i \in 2 .. n + 1, i # n + 1 PROVE ~ Before(g[i], g[i \div 2])
  <2>1. i \in 2 .. n /\ i \in 1 .. n /\ i \div 2 \in 1 .. n
    BY <1>0, <1>5
  <2> QED BY <1>0, <1>1, <2>1, Zenon DEF Ordered
<1>6. \A i \in 2 .. n + 1 : i \div 2 # n + 1
    BY <1>0
<1>7. Rising([heap |-> g, at |-> Len(g)], g)
    BY <1>0, <1>1, <1>4, <1>5, <1>6 DEF Rising
<1>8. HeapPush(h, e) = Up(g, Len(g))
    BY <1>0, <1>1, Zenon DEF HeapPush, g
<1> QED BY <1>0, <1>1, <1>3, <1>7, <1>8, UpOrders, Zenon

\* An event that does not come before its parent stays where it is appended.
LEMMA PushStays ==
    ASSUME NEW h \in Seq(Event), NEW e \in Event,
           Len(h) > 0 => ~ Before(e, h[(Len(h) + 1) \div 2])
    PROVE  HeapPush(h, e) = Append(h, e)
<1> DEFINE f == Append(h, e)
<1>0. PICK n \in Nat : n = Len(h)
    OBVIOUS
<1>1. n + 1 \in Nat
    OBVIOUS
<1>2. PICK g : /\ Up(f, n + 1) = g[n + 1].heap /\ g[0] = [heap |-> f, at |-> n + 1]
               /\ \A k \in 1 .. n + 1 : g[k] = UpTurn(g[k - 1])
  <2>0. PICK x : x = f
    BY Zenon
  <2> HIDE DEF f
  <2>1. PICK m \in Nat : m = n + 1
    BY <1>1, Zenon
  <2>2. \E g : /\ Up(x, m) = g[m].heap /\ g[0] = [heap |-> x, at |-> m]
               /\ \A k \in 1 .. m : g[k] = UpTurn(g[k - 1])
    BY UpSteps
  <2> QED BY <2>0, <2>1, <2>2, Zenon
<1>3. UpTurn([heap |-> f, at |-> n + 1]) = [heap |-> f, at |-> n + 1]
  <2>1. CASE n = 0
    BY <2>1 DEF UpTurn
  <2>2. CASE n # 0
    <3> DEFINE p == (n + 1) \div 2
    <3>1. p \in 1 .. n /\ f[n + 1] = e /\ f[p] = h[p]
      BY <1>0, <2>2
    <3>2. ~ Before(f[n + 1], f[p])
      BY <1>0, <2>2, <3>1
    <3> HIDE DEF f
    <3> QED BY <3>2, Zenon DEF UpTurn
  <2> QED BY <2>1, <2>2, Zenon
<1> HIDE DEF f
<1> DEFINE S == {k \in Nat : k <= n + 1 => g[k] = g[0]}
<1>4. 0 \in S
    BY Zenon
<1>5. ASSUME NEW k \in Nat, k \in S PROVE k + 1 \in S
  <2> SUFFICES ASSUME k + 1 <= n + 1 PROVE g[k + 1] = g[0]
    OBVIOUS
  <2>1. g[k + 1] = UpTurn(g[k]) /\ g[k] = g[0]
    BY <1>0, <1>2, <1>5
  <2> QED BY <1>2, <1>3, <2>1, Zenon
<1> HIDE DEF S
<1>6. n + 1 \in S
    BY <1>1, <1>4, <1>5, Induction, Zenon
<1>7. g[n + 1] = g[0]
    BY <1>1, <1>6 DEF S
<1> QED BY <1>0, <1>2, <1>7 DEF HeapPush, f
(* --------------------------------- down --------------------------------- *)

\* During down: a child of s.at may come before it; nothing else is out of order, and the
\* children of s.at are in order with its parent.
Sinking(s, h) ==
    /\ s.heap \in Seq(Event) /\ Len(s.heap) = Len(h) /\ Range(s.heap) = Range(h) /\ Distinct(s.heap)
    /\ s.at \in 1 .. Len(h)
    /\ \A i \in 2 .. Len(h) : i \div 2 # s.at => ~ Before(s.heap[i], s.heap[i \div 2])
    /\ \A i \in 2 .. Len(h) : i \div 2 = s.at /\ s.at > 1 => ~ Before(s.heap[i], s.heap[s.at \div 2])

Sunk(s) == Child(s.heap, s.at) > Len(s.heap) \/ ~ Before(s.heap[Child(s.heap, s.at)], s.heap[s.at])

\* The child that is compared is one that no other child comes before.
LEMMA ChildIsLeast ==
    ASSUME NEW h \in Seq(Event), NEW a \in 1 .. Len(h)
    PROVE  /\ Child(h, a) \in Nat /\ Child(h, a) > a /\ Child(h, a) \div 2 = a
           /\ \A i \in 2 .. Len(h) : i \div 2 = a =>
                 Child(h, a) \in 2 .. Len(h) /\ ~ Before(h[i], h[Child(h, a)])
<1>0. PICK n \in Nat : n = Len(h)
    OBVIOUS
<1>1. a \in Nat /\ a > 0 /\ 2 * a \in Nat /\ (2 * a) \div 2 = a /\ (2 * a + 1) \div 2 = a
    BY <1>0
<1>2. \A i \in 1 .. n : h[i] \in Event
    BY <1>0
<1>3. \A i \in 2 .. n : i \div 2 = a => i = 2 * a \/ i = 2 * a + 1
    BY <1>0
<1> DEFINE l == 2 * a
           r == 2 * a + 1
<1>4. CASE r <= n /\ Before(h[r], h[l])
  <2>1. Child(h, a) = r
    BY <1>0, <1>4, Zenon DEF Child
  <2>2. l \in 1 .. n /\ r \in 1 .. n /\ r \in 2 .. n
    BY <1>0, <1>1, <1>4
  <2>3. ~ Before(h[l], h[r]) /\ ~ Before(h[r], h[r])
    <3>1. h[l] \in Event /\ h[r] \in Event
      BY <1>2, <2>2, Zenon
    <3> QED BY <1>4, <3>1, BeforeIsOrder
  <2>4. \A i \in 2 .. n : i \div 2 = a => r \in 2 .. n /\ ~ Before(h[i], h[r])
    BY <1>3, <2>2, <2>3, Zenon
  <2> QED BY <1>0, <1>1, <2>1, <2>4
<1>5. CASE ~ (r <= n /\ Before(h[r], h[l]))
  <2>1. Child(h, a) = l
    BY <1>0, <1>5, Zenon DEF Child
  <2>2. ASSUME NEW i \in 2 .. n, i \div 2 = a PROVE l \in 2 .. n /\ ~ Before(h[i], h[l])
    <3>1. i = l \/ i = r
      BY <1>3, <2>2, Zenon
    <3>2. l \in 2 .. n /\ l \in 1 .. n /\ (i = r => r <= n)
      BY <1>1, <3>1
    <3>3. ~ Before(h[l], h[l])
      BY <1>2, <3>2, BeforeIsOrder, Zenon
    <3> QED BY <1>5, <3>1, <3>2, <3>3, Zenon
  <2> QED BY <1>0, <1>1, <2>1, <2>2
<1> QED BY <1>4, <1>5, Zenon

\* One turn of down.
LEMMA DownTurnKeeps ==
    ASSUME NEW h \in Seq(Event), NEW s, Sinking(s, h)
    PROVE  /\ Sinking(DownTurn(s), h)
           /\ Sunk(s) => DownTurn(s) = s
           /\ ~ Sunk(s) => DownTurn(s).at > s.at
<1> DEFINE g == s.heap
           a == s.at
           j == Child(g, a)
<1>0. /\ g \in Seq(Event) /\ Len(g) = Len(h) /\ Range(g) = Range(h) /\ Distinct(g)
      /\ a \in 1 .. Len(h) /\ Len(h) \in Nat
      /\ \A i \in 2 .. Len(h) : i \div 2 # a => ~ Before(g[i], g[i \div 2])
      /\ \A i \in 2 .. Len(h) : i \div 2 = a /\ a > 1 => ~ Before(g[i], g[a \div 2])
    BY DEF Sinking
<1>2. CASE Sunk(s)
    BY <1>2, Zenon DEF Sunk, DownTurn
<1>3. CASE ~ Sunk(s)
  <2> DEFINE f == Swapped(g, a, j)
  <2>1. DownTurn(s) = [heap |-> f, at |-> j] /\ Before(g[j], g[a]) /\ ~ (j > Len(g))
    BY <1>3, Zenon DEF Sunk, DownTurn
  <2> HIDE DEF g, a, j
  <2>a. g \in Seq(Event) /\ a \in 1 .. Len(g)
    BY <1>0, Zenon
  <2>b. /\ j \in Nat /\ j > a /\ j \div 2 = a
        /\ \A i \in 2 .. Len(g) : i \div 2 = a => j \in 2 .. Len(g) /\ ~ Before(g[i], g[j])
    BY <2>a, ChildIsLeast, Zenon DEF j
  <2>2. j \in 1 .. Len(g) /\ j \in 2 .. Len(h) /\ a < j
    BY <1>0, <2>1, <2>b
  <2>c. /\ f \in Seq(Event) /\ Len(f) = Len(g) /\ f[a] = g[j] /\ f[j] = g[a]
        /\ \A k \in 1 .. Len(g) : k # a /\ k # j => f[k] = g[k]
        /\ Range(f) = Range(g) /\ (Distinct(g) => Distinct(f))
    BY <2>a, <2>2, SwapFacts, Zenon
  <2>3. /\ f \in Seq(Event) /\ Len(f) = Len(h) /\ f[a] = g[j] /\ f[j] = g[a]
        /\ \A k \in 1 .. Len(h) : k # a /\ k # j => f[k] = g[k]
        /\ Range(f) = Range(h) /\ Distinct(f)
    BY <1>0, <2>c, Zenon
  <2>4. \A i \in 1 .. Len(h) : g[i] \in Event
    BY <1>0
  <2> HIDE DEF f
  <2>5. ASSUME NEW i \in 2 .. Len(h), i \div 2 # j PROVE ~ Before(f[i], f[i \div 2])
    <3> DEFINE q == i \div 2
    <3>1. i \in 1 .. Len(h) /\ q \in 1 .. Len(h) /\ q < i
      BY <1>0
    <3>2. CASE i = j
      <4>1. f[i] = g[a] /\ f[q] = g[j]
        BY <2>3, <2>b, <3>2, Zenon
      <4> QED BY <2>1, <2>2, <2>4, <4>1, <1>0, BeforeIsOrder, Zenon
    <3>3. CASE i # j /\ q = a
      <4>1. f[i] = g[i] /\ f[q] = g[j] /\ ~ Before(g[i], g[j])
        <5>1. i # a /\ i \in 2 .. Len(g) /\ i \in 1 .. Len(h)
          BY <1>0, <3>1, <3>3
        <5> QED BY <2>3, <2>b, <3>3, <5>1, Zenon
      <4> QED BY <4>1, Zenon
    <3>4. CASE i # j /\ i = a
      <4>1. f[i] = g[j] /\ f[q] = g[q] /\ ~ Before(g[j], g[q])
        BY <2>2, <2>3, <2>b, <3>1, <3>4, <1>0
      <4> QED BY <4>1, Zenon
    <3>5. CASE i # j /\ i # a /\ q # a
      <4>1. f[i] = g[i] /\ f[q] = g[q] /\ ~ Before(g[i], g[q])
        BY <2>3, <3>1, <3>5, <2>5, <1>0, Zenon
      <4> QED BY <4>1, Zenon
    <3> QED BY <3>2, <3>3, <3>4, <3>5, Zenon
  <2>6. ASSUME NEW i \in 2 .. Len(h), i \div 2 = j PROVE ~ Before(f[i], f[j \div 2])
    <3>1. i \in 1 .. Len(h) /\ i # a /\ i # j /\ j # a
      BY <2>2, <2>6, <1>0
    <3>2. f[i] = g[i] /\ ~ Before(g[i], g[j])
      BY <2>3, <2>6, <3>1, <1>0, Zenon
    <3> QED BY <2>3, <2>b, <3>2, Zenon
  <2>7. Sinking(DownTurn(s), h)
    <3>1. j \in 1 .. Len(h)
      BY <1>0, <2>2, Zenon
    <3> QED BY <2>1, <2>3, <2>5, <2>6, <3>1 DEF Sinking
  <2> QED BY <2>1, <2>2, <2>7, <1>3 DEF a
<1> QED BY <1>2, <1>3, Zenon

\* g is the recursive function of Down, to its turn n.
DownTo(g, h, n) == g = [k \in 0 .. n |-> IF k = 0 THEN [heap |-> h, at |-> 1] ELSE DownTurn(g[k - 1])]

\* The recursive function of Down exists.
LEMMA DownExists ==
    ASSUME NEW h, NEW n \in Nat
    PROVE  \E g : DownTo(g, h, n)
<1> DEFINE S == {k \in Nat : \E g : DownTo(g, h, k)}
<1>1. 0 \in S
  <2>1. DownTo([k \in 0 .. 0 |-> [heap |-> h, at |-> 1]], h, 0)
    BY DEF DownTo
  <2> QED BY <2>1, Zenon
<1>2. ASSUME NEW k \in Nat, k \in S PROVE k + 1 \in S
  <2>1. PICK g : DownTo(g, h, k)
    BY <1>2, Zenon
  <2> DEFINE f == [i \in 0 .. k + 1 |-> IF i = k + 1 THEN DownTurn(g[k]) ELSE g[i]]
  <2>2. \A i \in 0 .. k : f[i] = g[i] /\ g[i] = IF i = 0 THEN [heap |-> h, at |-> 1] ELSE DownTurn(g[i - 1])
    BY <2>1 DEF DownTo
  <2>3. \A i \in 0 .. k + 1 : f[i] = IF i = 0 THEN [heap |-> h, at |-> 1] ELSE DownTurn(f[i - 1])
    BY <2>2
  <2>4. f = [i \in 0 .. k + 1 |-> f[i]]
    BY Zenon
  <2> HIDE DEF f
  <2>5. DownTo(f, h, k + 1)
    BY <2>3, <2>4, Zenon DEF DownTo
  <2> QED BY <2>5
<1> HIDE DEF S
<1>3. n \in S
    BY <1>1, <1>2, Induction, Zenon
<1> QED BY <1>3, Zenon DEF S

\* down leaves an ordered heap of the same events behind.
LEMMA DownOrders ==
    ASSUME NEW h \in Seq(Event), Sinking([heap |-> h, at |-> 1], h)
    PROVE  /\ Down(h) \in Seq(Event) /\ Len(Down(h)) = Len(h) /\ Range(Down(h)) = Range(h)
           /\ Distinct(Down(h)) /\ Ordered(Down(h))
<1>1. PICK l \in Nat : l = Len(h)
    OBVIOUS
<1>b. PICK g : g = CHOOSE f : DownTo(f, h, l)
    BY Zenon
<1>c. Down(h) = g[l].heap
    BY <1>1, <1>b, Zenon DEF Down, DownTo
<1>d. DownTo(g, h, l)
    BY <1>b, DownExists, Zenon
<1>2. g[0] = [heap |-> h, at |-> 1] /\ \A n \in 1 .. l : g[n] = DownTurn(g[n - 1])
    BY <1>d DEF DownTo
<1>a. ASSUME NEW s, Sinking(s, h) PROVE s.at \in Nat /\ s.at \in 1 .. l
  <2>1. s.at \in 1 .. l
    BY <1>1, <1>a, Zenon DEF Sinking
  <2> QED BY <2>1
<1> DEFINE S == {n \in Nat : n <= l => Sinking(g[n], h) /\ (Sunk(g[n]) \/ g[n].at > n)}
<1>3. 0 \in S
    BY <1>1, <1>2
<1>4. ASSUME NEW n \in Nat, n \in S PROVE n + 1 \in S
  <2> SUFFICES ASSUME n + 1 <= l PROVE Sinking(g[n + 1], h) /\ (Sunk(g[n + 1]) \/ g[n + 1].at > n + 1)
    OBVIOUS
  <2>1. g[n + 1] = DownTurn(g[n])
    BY <1>2
  <2>2. Sinking(g[n], h) /\ (Sunk(g[n]) \/ g[n].at > n)
    BY <1>4
  <2>3. /\ Sinking(g[n + 1], h) /\ (Sunk(g[n]) => g[n + 1] = g[n])
        /\ (~ Sunk(g[n]) => g[n + 1].at > g[n].at)
    BY <2>1, <2>2, DownTurnKeeps, Zenon
  <2>4. g[n].at \in Nat /\ g[n + 1].at \in Nat
    BY <1>a, <2>2, <2>3, Zenon
  <2>5. CASE Sunk(g[n])
    BY <2>3, <2>5, Zenon
  <2>6. CASE ~ Sunk(g[n])
    BY <2>2, <2>3, <2>4, <2>6
  <2> QED BY <2>5, <2>6, Zenon
<1> HIDE DEF S
<1>5. l \in S
    BY <1>3, <1>4, Induction, Zenon
<1>6. Sinking(g[l], h) /\ (Sunk(g[l]) \/ g[l].at > l)
    BY <1>5 DEF S
<1>7. g[l].at \in 1 .. l
    BY <1>a, <1>6, Zenon
<1>8. Sunk(g[l])
    BY <1>6, <1>7
<1> DEFINE f == g[l].heap
           a == g[l].at
<1>9. f \in Seq(Event) /\ Len(f) = Len(h) /\ Range(f) = Range(h) /\ Distinct(f)
    BY <1>6, Zenon DEF Sinking
<1>10. Ordered(f)
  <2> SUFFICES ASSUME NEW i \in 2 .. l PROVE ~ Before(f[i], f[i \div 2])
    BY <1>1, <1>9, Zenon DEF Ordered
  <2>1. CASE i \div 2 # a
    BY <1>1, <1>6, <2>1, Zenon DEF Sinking
  <2>2. CASE i \div 2 = a
    <3> DEFINE c == Child(f, a)
    <3>1. c \in 2 .. Len(f) /\ ~ Before(f[i], f[c])
      BY <1>1, <1>7, <1>9, <2>2, ChildIsLeast, Zenon
    <3>2. ~ Before(f[c], f[a])
      BY <1>1, <1>8, <1>9, <3>1 DEF Sunk
    <3>3. f[i] \in Event /\ f[c] \in Event /\ f[a] \in Event
      BY <1>1, <1>7, <1>9, <3>1
    <3> HIDE DEF c
    <3> QED BY <2>2, <3>1, <3>2, <3>3, BeforeIsOrder, Zenon
  <2> QED BY <2>1, <2>2, Zenon
<1> QED BY <1>c, <1>9, <1>10, Zenon

\* The first event of a heap comes before all others.
LEMMA RootIsFirst ==
    ASSUME NEW h \in Seq(Event), Ordered(h), Distinct(h)
    PROVE  \A i \in 2 .. Len(h) : Before(h[1], h[i])
<1>0. PICK l \in Nat : l = Len(h)
    OBVIOUS
<1>1. \A i \in 1 .. l : h[i] \in Event
    BY <1>0
<1> DEFINE S == {n \in Nat : \A i \in 1 .. l : i <= n => ~ Before(h[i], h[1])}
<1>2. 0 \in S
    BY <1>0
<1>3. ASSUME NEW n \in Nat, n \in S PROVE n + 1 \in S
  <2> SUFFICES ASSUME NEW i \in 1 .. l, i <= n + 1 PROVE ~ Before(h[i], h[1])
    OBVIOUS
  <2>1. CASE i <= n
    BY <1>3, <2>1, Zenon
  <2>2. CASE i = 1
    BY <1>0, <1>1, <2>2, BeforeIsOrder, Zenon
  <2>3. CASE i = n + 1 /\ i # 1
    <3> DEFINE p == i \div 2
    <3>1. p \in 1 .. l /\ p <= n /\ i \in 2 .. l
      BY <1>0, <2>3
    <3>2. ~ Before(h[p], h[1]) /\ ~ Before(h[i], h[p])
      BY <1>0, <1>3, <3>1, Zenon DEF Ordered
    <3>3. h[1] \in Event /\ h[p] \in Event /\ h[i] \in Event
      BY <1>1, <3>1
    <3> HIDE DEF p
    <3> QED BY <3>2, <3>3, BeforeIsOrder, Zenon
  <2> QED BY <1>0, <2>1, <2>2, <2>3
<1> HIDE DEF S
<1>4. l \in S
    BY <1>2, <1>3, Induction, Zenon
<1>5. ASSUME NEW i \in 2 .. l PROVE Before(h[1], h[i])
  <2>1. i \in 1 .. l /\ 1 \in 1 .. l /\ 1 # i /\ i <= l
    BY <1>0
  <2>2. ~ Before(h[i], h[1])
    BY <1>4, <2>1, Zenon DEF S
  <2>3. h[1].seq # h[i].seq
    BY <1>0, <2>1, Zenon DEF Distinct
  <2> QED BY <1>1, <2>1, <2>2, <2>3, BeforeIsOrder, Zenon
<1> QED BY <1>0, <1>5, Zenon

\* The first event leaves the heap.
LEMMA PopFacts ==
    ASSUME NEW h \in Seq(Event), Ordered(h), Distinct(h), h # <<>>
    PROVE  /\ HeapPop(h) \in Seq(Event)
           /\ Range(HeapPop(h)) = {h[i] : i \in 2 .. Len(h)}
           /\ Distinct(HeapPop(h)) /\ Ordered(HeapPop(h))
<1>0. PICK n \in Nat : n = Len(h) /\ n > 0
    OBVIOUS
<1>1. CASE n = 1
  <2>1. HeapPop(h) = <<>> /\ 2 .. Len(h) = {}
    BY <1>0, <1>1 DEF HeapPop
  <2>2. Range(<<>>) = {} /\ Distinct(<<>>) /\ Ordered(<<>>) /\ <<>> \in Seq(Event)
    BY DEF Range, Distinct, Ordered
  <2> QED BY <2>1, <2>2, Zenon
<1>2. CASE n # 1
  <2> DEFINE g == <<h[Len(h)]>> \o SubSeq(h, 2, Len(h) - 1)
  <2>1. HeapPop(h) = Down(g)
    BY <1>0, <1>2, Zenon DEF HeapPop
  <2>2. g \in Seq(Event) /\ Len(g) = n - 1 /\ g[1] = h[n] /\ \A i \in 2 .. n - 1 : g[i] = h[i]
    <3>1. SubSeq(h, 2, n - 1) \in Seq(Event) /\ Len(SubSeq(h, 2, n - 1)) = n - 2
      BY <1>0, <1>2
    <3>2. \A i \in 1 .. n - 2 : SubSeq(h, 2, n - 1)[i] = h[i + 1]
      BY <1>0, <1>2
    <3>3. h[n] \in Event
      BY <1>0
    <3>4. g = <<h[n]>> \o SubSeq(h, 2, n - 1)
      BY <1>0, Zenon
    <3> QED BY <1>0, <1>2, <3>1, <3>2, <3>3, <3>4
  <2> HIDE DEF g
  <2>3. DOMAIN g = 1 .. n - 1 /\ 1 .. n - 1 = {1} \cup 2 .. n - 1 /\ 2 .. n = {n} \cup 2 .. n - 1
    BY <1>0, <1>2, <2>2
  <2>4. Range(g) = {h[i] : i \in 2 .. n}
    BY <2>2, <2>3, Zenon DEF Range
  <2>5. Distinct(g)
    <3> DEFINE at(i) == IF i = 1 THEN n ELSE i
    <3>1. \A i \in 1 .. n - 1 : at(i) \in 1 .. n /\ g[i] = h[at(i)]
      BY <1>0, <1>2, <2>2, <2>3
    <3>2. \A i, k \in 1 .. n - 1 : at(i) = at(k) => i = k
      BY <1>0, <1>2
    <3> HIDE DEF at
    <3> SUFFICES ASSUME NEW i \in 1 .. n - 1, NEW k \in 1 .. n - 1, g[i].seq = g[k].seq PROVE i = k
      BY <2>2, Zenon DEF Distinct
    <3>4. \A b, c \in 1 .. n : h[b].seq = h[c].seq => b = c
      BY <1>0, Zenon DEF Distinct
    <3>5. h[at(i)].seq = h[at(k)].seq /\ at(i) \in 1 .. n /\ at(k) \in 1 .. n
      BY <3>1, Zenon
    <3>3. at(i) = at(k)
      BY <3>4, <3>5, Zenon
    <3> QED BY <3>2, <3>3, Zenon
  <2>6. ASSUME NEW i \in 2 .. n - 1, i \div 2 # 1 PROVE ~ Before(g[i], g[i \div 2])
    <3>1. i \div 2 \in 2 .. n - 1 /\ i \in 2 .. n
      BY <1>0, <2>6
    <3> QED BY <1>0, <2>2, <3>1, Zenon DEF Ordered
  <2>7. Sinking([heap |-> g, at |-> 1], g)
    BY <1>0, <1>2, <2>2, <2>5, <2>6 DEF Sinking
  <2> QED BY <1>0, <2>1, <2>2, <2>4, <2>7, DownOrders, Zenon
<1> QED BY <1>1, <1>2, Zenon

-----------------------------------------------------------------------------
(* Snapshots of the queue *)

Opened(e) == [e EXCEPT !.payload = Unmarshalled(e.payload)]

\* m is the event e as a snapshot has it.
Marked(e, m) ==
    /\ m = [time |-> e.time, priority |-> e.priority, seq |-> e.seq, payload |-> m.payload]
    /\ m.payload \in {"none", "envelope", "json"}
    /\ m.payload = "none" => e.payload = "none"
    /\ m.payload = "envelope" => e.payload = "typed"

MarkedAll(h, events) ==
    /\ Len(events) = Len(h) /\ DOMAIN events = 1 .. Len(h)
    /\ \A i \in 1 .. Len(h) : Marked(h[i], events[i])

\* What comes back of a saved event.
LEMMA OpenedFacts ==
    ASSUME NEW e \in Event, NEW m, Marked(e, m)
    PROVE  /\ Opened(m) \in Event
           /\ Opened(m).time = e.time /\ Opened(m).priority = e.priority /\ Opened(m).seq = e.seq
           /\ m.seq = e.seq
           /\ Opened(m) = e \/ (m.payload = "json" /\ Opened(m) = [e EXCEPT !.payload = "raw"])
<1>1. PICK p : m.payload = p
    BY Zenon
<1>2. m = [time |-> e.time, priority |-> e.priority, seq |-> e.seq, payload |-> p]
    BY <1>1, Zenon DEF Marked
<1>3. Opened(m) = [time |-> e.time, priority |-> e.priority, seq |-> e.seq, payload |-> Unmarshalled(p)]
    BY <1>2 DEF Opened
<1>4. /\ e.time \in Nat /\ e.priority \in Int /\ e.seq \in Nat
      /\ e = [time |-> e.time, priority |-> e.priority, seq |-> e.seq, payload |-> e.payload]
    BY Zenon DEF Event
<1>5. CASE p = "none"
  <2>1. Unmarshalled(p) = "none" /\ e.payload = "none"
    BY <1>1, <1>5, Zenon DEF Unmarshalled, Marked
  <2> QED BY <1>2, <1>3, <1>4, <2>1, Zenon DEF Event
<1>6. CASE p = "envelope"
  <2>1. Unmarshalled(p) = "typed" /\ e.payload = "typed"
    BY <1>1, <1>6, Zenon DEF Unmarshalled, Marked
  <2> QED BY <1>2, <1>3, <1>4, <2>1, Zenon DEF Event
<1>7. CASE p = "json"
  <2>1. Unmarshalled(p) = "raw"
    BY <1>7, Zenon DEF Unmarshalled
  <2>2. [e EXCEPT !.payload = "raw"] = [time |-> e.time, priority |-> e.priority, seq |-> e.seq, payload |-> "raw"]
    BY <1>4
  <2> QED BY <1>1, <1>2, <1>3, <1>4, <1>7, <2>1, <2>2 DEF Event
<1> QED BY <1>1, <1>5, <1>6, <1>7, Zenon DEF Marked

\* The queue that the first n events of a snapshot make.
Reopened(events, n) == [i \in 1 .. n |-> Opened(events[i])]

\* Events that are pushed in the order of a heap's array stay where they are pushed.
LEMMA ReopenedFacts ==
    ASSUME NEW h \in Seq(Event), Ordered(h), Distinct(h), NEW events, MarkedAll(h, events), NEW n \in 0 .. Len(h)
    PROVE  /\ Reopened(events, n) \in Seq(Event) /\ Len(Reopened(events, n)) = n
           /\ Ordered(Reopened(events, n)) /\ Distinct(Reopened(events, n))
           /\ n < Len(h) => HeapPush(Reopened(events, n), Opened(events[n + 1])) = Reopened(events, n + 1)
<1> DEFINE g == Reopened(events, n)
<1>0. PICK l \in Nat : l = Len(h)
    OBVIOUS
<1>1. n \in Nat /\ n <= l
    BY <1>0
<1>2. \A i \in 1 .. l : h[i] \in Event /\ Marked(h[i], events[i])
    BY <1>0 DEF MarkedAll
<1>3. ASSUME NEW i \in 1 .. l
      PROVE  /\ Opened(events[i]) \in Event /\ Opened(events[i]).seq = h[i].seq
             /\ Opened(events[i]).time = h[i].time /\ Opened(events[i]).priority = h[i].priority
  <2>1. h[i] \in Event /\ Marked(h[i], events[i])
    BY <1>2, Zenon
  <2> QED BY <2>1, OpenedFacts, Zenon
<1>4. \A i \in 1 .. n : i \in 1 .. l
    BY <1>1
<1>5. g \in Seq(Event) /\ Len(g) = n /\ \A i \in 1 .. n : g[i] = Opened(events[i])
  <2>1. \A i \in 1 .. n : Opened(events[i]) \in Event
    BY <1>3, <1>4, Zenon
  <2> QED BY <1>1, <2>1 DEF Reopened
<1>6. ASSUME NEW i \in 1 .. l, NEW k \in 1 .. l
      PROVE  Before(Opened(events[i]), Opened(events[k])) <=> Before(h[i], h[k])
    BY <1>3, Zenon DEF Before
<1> HIDE DEF g
<1>7. Ordered(g)
  <2> SUFFICES ASSUME NEW i \in 2 .. n PROVE ~ Before(g[i], g[i \div 2])
    BY <1>5, Zenon DEF Ordered
  <2>1. i \in 1 .. n /\ i \div 2 \in 1 .. n /\ i \in 2 .. l
    BY <1>1
  <2>2. ~ Before(h[i], h[i \div 2])
    BY <1>0, <2>1, Zenon DEF Ordered
  <2> QED BY <1>4, <1>5, <1>6, <2>1, <2>2, Zenon
<1>8. Distinct(g)
  <2> SUFFICES ASSUME NEW i \in 1 .. n, NEW k \in 1 .. n, g[i].seq = g[k].seq PROVE i = k
    BY <1>5, Zenon DEF Distinct
  <2>1. h[i].seq = h[k].seq /\ i \in 1 .. l /\ k \in 1 .. l
    BY <1>3, <1>4, <1>5, Zenon
  <2> QED BY <1>0, <2>1, Zenon DEF Distinct
<1>9. ASSUME n < l PROVE HeapPush(g, Opened(events[n + 1])) = Reopened(events, n + 1)
  <2> DEFINE e == Opened(events[n + 1])
  <2>1. n + 1 \in 1 .. l
    BY <1>1, <1>9
  <2>2. e \in Event
    BY <1>3, <2>1, Zenon
  <2>3. ASSUME n > 0 PROVE ~ Before(e, g[(n + 1) \div 2])
    <3> DEFINE p == (n + 1) \div 2
    <3>1. p \in 1 .. n /\ n + 1 \in 2 .. l
      BY <1>1, <1>9, <2>3
    <3>2. ~ Before(h[n + 1], h[p])
      BY <1>0, <3>1, Zenon DEF Ordered
    <3> HIDE DEF p
    <3>3. g[p] = Opened(events[p]) /\ p \in 1 .. l
      BY <1>4, <1>5, <3>1, Zenon
    <3>4. ~ Before(e, g[p])
      BY <1>6, <2>1, <3>2, <3>3, Zenon
    <3> QED BY <3>4, Zenon DEF p
  <2>4. HeapPush(g, e) = Append(g, e)
    BY <1>5, <2>2, <2>3, PushStays, Zenon
  <2>5. Append(g, e) = Reopened(events, n + 1)
    BY <1>1, <1>5 DEF Reopened
  <2> QED BY <2>4, <2>5, Zenon
<1> QED BY <1>0, <1>5, <1>7, <1>8, <1>9, Zenon DEF g

RestoredTo(g, h, events, n) ==
    g = [i \in 0 .. n |->
            IF i = 0 THEN h
            ELSE HeapPush(g[i - 1], [events[i] EXCEPT !.payload = Unmarshalled(events[i].payload)])]

\* What a restore pushes makes the saved array again, as far as it gets.
LEMMA RestoredIs ==
    ASSUME NEW h \in Seq(Event), Ordered(h), Distinct(h), NEW events, MarkedAll(h, events), NEW n \in 0 .. Len(h)
    PROVE  Restored(<<>>, events, n) = Reopened(events, n)
<1>0. n \in Nat /\ Len(h) \in Nat
    OBVIOUS
<1>1. ASSUME NEW k \in 0 .. n
      PROVE  k < n => HeapPush(Reopened(events, k), Opened(events[k + 1])) = Reopened(events, k + 1)
  <2>1. k \in 0 .. Len(h) /\ (k < n => k < Len(h))
    BY <1>0
  <2> QED BY <2>1, ReopenedFacts, Zenon
<1>2. Reopened(events, 0) = <<>>
    BY DEF Reopened
<1> DEFINE f == [i \in 0 .. n |-> Reopened(events, i)]
<1>3. \A i \in 0 .. n : f[i] = IF i = 0 THEN <<>> ELSE HeapPush(f[i - 1], Opened(events[i]))
  <2> SUFFICES ASSUME NEW i \in 0 .. n, i # 0 PROVE f[i] = HeapPush(f[i - 1], Opened(events[i]))
    BY <1>2, Zenon
  <2>1. i - 1 \in 0 .. n /\ i - 1 < n /\ (i - 1) + 1 = i
    BY <1>0
  <2>2. HeapPush(Reopened(events, i - 1), Opened(events[(i - 1) + 1])) = Reopened(events, (i - 1) + 1)
    BY <1>1, <2>1, Zenon
  <2> QED BY <2>1, <2>2, Zenon
<1>4. f = [i \in 0 .. n |-> f[i]]
    BY Zenon
<1>5. RestoredTo(f, <<>>, events, n)
  <2> HIDE DEF f
  <2> QED BY <1>3, <1>4, Zenon DEF RestoredTo, Opened
<1>6. PICK g : g = CHOOSE x : RestoredTo(x, <<>>, events, n)
    BY Zenon
<1>7. Restored(<<>>, events, n) = g[n]
    BY <1>6, Zenon DEF Restored, RestoredTo
<1>8. RestoredTo(g, <<>>, events, n)
    BY <1>5, <1>6, Zenon
<1>9. /\ g[0] = <<>>
      /\ \A i \in 1 .. n : g[i] = HeapPush(g[i - 1], Opened(events[i]))
  <2>1. \A i \in 0 .. n : g[i] = IF i = 0 THEN <<>> ELSE HeapPush(g[i - 1], Opened(events[i]))
    BY <1>8, Zenon DEF RestoredTo, Opened
  <2> QED BY <1>0, <2>1
<1> DEFINE S == {k \in Nat : k <= n => g[k] = Reopened(events, k)}
<1>10. 0 \in S
    BY <1>2, <1>9, Zenon
<1>11. ASSUME NEW k \in Nat, k \in S PROVE k + 1 \in S
  <2> SUFFICES ASSUME k + 1 <= n PROVE g[k + 1] = Reopened(events, k + 1)
    OBVIOUS
  <2>1. k \in 0 .. n /\ k < n /\ k + 1 \in 1 .. n /\ (k + 1) - 1 = k
    BY <1>0
  <2>2. g[k] = Reopened(events, k)
    BY <1>0, <1>11, <2>1
  <2>3. g[k + 1] = HeapPush(g[k], Opened(events[k + 1]))
    BY <1>9, <2>1, Zenon
  <2> QED BY <1>1, <2>1, <2>2, <2>3, Zenon
<1> HIDE DEF S
<1>12. n \in S
    BY <1>0, <1>10, <1>11, Induction, Zenon
<1>13. g[n] = Reopened(events, n)
    BY <1>0, <1>12 DEF S
<1> QED BY <1>7, <1>13, Zenon

\* restore stops at the first event it cannot read, or at the end.
LEMMA ReadableFacts ==
    ASSUME NEW events, Len(events) \in Nat
    PROVE  Readable(events) \in 0 .. Len(events)
<1>0. PICK l \in Nat : l = Len(events)
    BY Zenon
<1> DEFINE Open(i) == events[i].payload # "envelope"
           End(n) == (\A i \in 1 .. n : Open(i)) /\ (n < l => events[n + 1].payload = "envelope")
           S == {n \in Nat : n <= l => (\E m \in 0 .. l : End(m)) \/ \A i \in 1 .. n : Open(i)}
<1>1. 0 \in S
    OBVIOUS
<1>2. ASSUME NEW n \in Nat, n \in S PROVE n + 1 \in S
  <2> SUFFICES ASSUME n + 1 <= l, \A m \in 0 .. l : ~ End(m) PROVE \A i \in 1 .. n + 1 : Open(i)
    OBVIOUS
  <2>1. n \in 0 .. l /\ n < l /\ \A i \in 1 .. n : Open(i)
    BY <1>0, <1>2
  <2>2. Open(n + 1)
    BY <2>1, Zenon
  <2>3. \A i \in 1 .. n + 1 : i \in 1 .. n \/ i = n + 1
    OBVIOUS
  <2> HIDE DEF Open
  <2> QED BY <2>1, <2>2, <2>3, Zenon
<1> HIDE DEF S
<1>3. l \in S
    BY <1>1, <1>2, Induction, Zenon
<1>4. \E m \in 0 .. l : End(m)
  <2>1. (\E m \in 0 .. l : End(m)) \/ \A i \in 1 .. l : Open(i)
    BY <1>3 DEF S
  <2>2. (\A i \in 1 .. l : Open(i)) => End(l)
    OBVIOUS
  <2>3. l \in 0 .. l
    OBVIOUS
  <2> HIDE DEF End
  <2> QED BY <2>1, <2>2, <2>3, Zenon
<1>5. CASE registered
    BY <1>0, <1>5 DEF Readable
<1>6. CASE ~ registered
    BY <1>0, <1>4, <1>6, Zenon DEF Readable
<1> QED BY <1>5, <1>6, Zenon
-----------------------------------------------------------------------------
(* Events are conserved, in order, and restored *)

Seqs(h) == {h[i].seq : i \in DOMAIN h}

\* A queue h with the counter s, after the events f were handled and l lost.
QueueOK(h, s, f, l) ==
    /\ h \in Seq(Event) /\ s \in Nat
    /\ Ordered(h) /\ Distinct(h)
    /\ Seqs(h) = (1 .. s) \ (f \cup l)
    /\ f \cap l = {} /\ f \cup l \subseteq 1 .. s

\* The saved queue, and the snapshot that was made of it.
SavedOK(s) ==
    /\ QueueOK(s.heap, s.queue.seq, s.fired, s.lost)
    /\ MarkedAll(s.heap, s.queue.events)

QueueInv ==
    /\ setup \in Setups
    /\ QueueOK(heap, seq, fired, lost)
    /\ saved # NoSave => SavedOK(saved)

\* The sequence numbers of a set of events.
LEMMA SeqsOfRange == ASSUME NEW h PROVE Seqs(h) = {x.seq : x \in Range(h)}
BY Zenon DEF Seqs, Range

\* Scheduling.
LEMMA PushKeeps ==
    ASSUME NEW f, NEW l, QueueOK(heap, seq, f, l), NEW t \in Nat, NEW p \in Int, NEW payload \in {"none", "typed"},
           Push(t, p, payload)
    PROVE  QueueOK(heap', seq', f, l)
<1> DEFINE e == [time |-> t, priority |-> p, seq |-> seq + 1, payload |-> payload]
           h == HeapPush(heap, e)
<1>1. seq' = seq + 1 /\ heap' = h
    BY Zenon DEF Push
<1>2. seq \in Nat /\ heap \in Seq(Event) /\ Ordered(heap) /\ Distinct(heap) /\ Seqs(heap) = (1 .. seq) \ (f \cup l)
    BY Zenon DEF QueueOK
<1>3. e \in Event /\ e.seq = seq + 1
    BY <1>2 DEF Event
<1>4. \A i \in 1 .. Len(heap) : heap[i].seq # e.seq
  <2>1. \A i \in 1 .. Len(heap) : heap[i].seq \in 1 .. seq
    BY <1>2 DEF Seqs
  <2> QED BY <1>2, <1>3, <2>1
<1> HIDE DEF e
<1>5. h \in Seq(Event) /\ Range(h) = Range(heap) \cup {e} /\ Distinct(h) /\ Ordered(h)
    BY <1>2, <1>3, <1>4, PushFacts, Zenon
<1> HIDE DEF h
<1>6. Seqs(h) = Seqs(heap) \cup {seq + 1}
    BY <1>3, <1>5, SeqsOfRange, Zenon
<1>7. Seqs(h) = (1 .. seq + 1) \ (f \cup l) /\ f \cup l \subseteq 1 .. seq + 1
    BY <1>2, <1>6 DEF QueueOK
<1>8. f \cap l = {} /\ seq + 1 \in Nat
    BY <1>2 DEF QueueOK
<1> QED BY <1>1, <1>5, <1>7, <1>8, Zenon DEF QueueOK

\* Taking the first event.
LEMMA PopKeeps ==
    ASSUME NEW f, NEW l, QueueOK(heap, seq, f, l), Pop
    PROVE  /\ QueueOK(heap', seq', f \cup {heap[1].seq}, l) /\ QueueOK(heap', seq', f, l \cup {heap[1].seq})
           /\ \A i \in DOMAIN heap' : Before(heap[1], heap'[i])
<1> DEFINE x == heap[1].seq
           h == HeapPop(heap)
<1>1. seq' = seq /\ heap' = h /\ heap # <<>>
    BY Zenon DEF Pop
<1>2. /\ seq \in Nat /\ heap \in Seq(Event) /\ Ordered(heap) /\ Distinct(heap)
      /\ Seqs(heap) = (1 .. seq) \ (f \cup l) /\ f \cap l = {} /\ f \cup l \subseteq 1 .. seq
    BY Zenon DEF QueueOK
<1>3. h \in Seq(Event) /\ Range(h) = {heap[i] : i \in 2 .. Len(heap)} /\ Distinct(h) /\ Ordered(h)
    BY <1>1, <1>2, PopFacts, Zenon
<1> HIDE DEF h
<1>4. DOMAIN heap = 1 .. Len(heap) /\ 1 .. Len(heap) = {1} \cup 2 .. Len(heap) /\ 1 \notin 2 .. Len(heap)
    BY <1>1, <1>2
<1>5. Seqs(h) = Seqs(heap) \ {x}
  <2>1. Seqs(h) = {heap[i].seq : i \in 2 .. Len(heap)}
    BY <1>3, SeqsOfRange, Zenon
  <2>2. \A i \in 2 .. Len(heap) : heap[i].seq # x
    BY <1>2, <1>4, Zenon DEF Distinct
  <2> QED BY <1>4, <2>1, <2>2, Zenon DEF Seqs
<1>6. x \in Seqs(heap)
    BY <1>4, Zenon DEF Seqs
<1>7. QueueOK(heap', seq', f \cup {x}, l) /\ QueueOK(heap', seq', f, l \cup {x})
    BY <1>1, <1>2, <1>3, <1>5, <1>6, Zenon DEF QueueOK
<1>8. \A i \in DOMAIN heap' : Before(heap[1], heap'[i])
  <2>1. \A i \in 2 .. Len(heap) : Before(heap[1], heap[i])
    BY <1>2, RootIsFirst, Zenon
  <2> QED BY <1>1, <1>3, <2>1, Zenon DEF Range
<1> QED BY <1>7, <1>8, Zenon

\* A snapshot of the queue.
LEMMA SaveKeeps ==
    ASSUME QueueInv, Save
    PROVE  SavedOK(saved')
<1>1. /\ saved'.heap = heap /\ saved'.queue = QueueSnapshot /\ saved'.fired = fired /\ saved'.lost = lost
    BY Zenon DEF Save
<1>2. QueueOK(heap, seq, fired, lost) /\ heap \in Seq(Event)
    BY Zenon DEF QueueInv, QueueOK
<1> DEFINE events == [i \in DOMAIN heap |-> [heap[i] EXCEPT !.payload = Marshalled(heap[i].payload)]]
<1>3. QueueSnapshot.seq = seq /\ QueueSnapshot.events = events
    BY Zenon DEF QueueSnapshot
<1>4. MarkedAll(heap, events)
  <2>1. DOMAIN events = 1 .. Len(heap) /\ Len(events) = Len(heap)
    BY <1>2
  <2>2. ASSUME NEW i \in 1 .. Len(heap) PROVE Marked(heap[i], events[i])
    <3>1. PICK e \in Event : e = heap[i]
      BY <1>2
    <3>2. PICK p : p = Marshalled(e.payload)
      BY Zenon
    <3>3. events[i] = [e EXCEPT !.payload = p]
      BY <1>2, <3>1, <3>2
    <3>4. events[i] = [time |-> e.time, priority |-> e.priority, seq |-> e.seq, payload |-> p]
      BY <3>3 DEF Event
    <3>5. p \in {"none", "envelope", "json"} /\ (p = "none" => e.payload = "none") /\ (p = "envelope" => e.payload = "typed")
      BY <3>2, Zenon DEF Marshalled
    <3> HIDE DEF events
    <3> QED BY <3>1, <3>4, <3>5 DEF Marked
  <2> HIDE DEF events
  <2> QED BY <2>1, <2>2, Zenon DEF MarkedAll
<1> QED BY <1>1, <1>2, <1>3, <1>4, Zenon DEF SavedOK

\* What a Load leaves in the queue.
LEMMA LoadFacts ==
    ASSUME QueueInv, Load
    PROVE  /\ heap' = Reopened(saved.queue.events, Readable(saved.queue.events))
           /\ Readable(saved.queue.events) \in 0 .. Len(saved.heap)
           /\ QueueOK(heap', seq', fired', lost')
<1> DEFINE ev == saved.queue.events
           h == saved.heap
           n == Readable(ev)
           g == Reopened(ev, n)
<1>1. /\ heap' = Restored(<<>>, ev, n) /\ seq' = saved.queue.seq
      /\ fired' = saved.fired /\ lost' = saved.lost \cup Unreadable(ev) /\ saved # NoSave
    BY Zenon DEF Load, RestoreQueue
<1>2. /\ h \in Seq(Event) /\ Ordered(h) /\ Distinct(h) /\ MarkedAll(h, ev)
      /\ saved.queue.seq \in Nat /\ Seqs(h) = (1 .. saved.queue.seq) \ (saved.fired \cup saved.lost)
      /\ saved.fired \cap saved.lost = {} /\ saved.fired \cup saved.lost \subseteq 1 .. saved.queue.seq
    BY <1>1, Zenon DEF QueueInv, SavedOK, QueueOK
<1>3. PICK l \in Nat : l = Len(h) /\ l = Len(ev)
    BY <1>2 DEF MarkedAll
<1>4. n \in 0 .. l
    BY <1>3, ReadableFacts, Zenon
<1>5. heap' = g
    BY <1>1, <1>2, <1>3, <1>4, RestoredIs, Zenon
<1> HIDE DEF n, h, ev
<1>6. g \in Seq(Event) /\ Len(g) = n /\ Ordered(g) /\ Distinct(g)
  <2>1. n \in 0 .. Len(h)
    BY <1>3, <1>4, Zenon
  <2> QED BY <1>2, <2>1, ReopenedFacts
<1>7. \A i \in 1 .. l : Opened(ev[i]).seq = h[i].seq /\ ev[i].seq = h[i].seq
  <2>1. \A i \in 1 .. l : h[i] \in Event /\ Marked(h[i], ev[i])
    BY <1>2, <1>3 DEF MarkedAll
  <2> QED BY <2>1, OpenedFacts, Zenon
<1>8. 1 .. l = 1 .. n \cup n + 1 .. l /\ (1 .. n) \cap (n + 1 .. l) = {} /\ DOMAIN g = 1 .. n /\ DOMAIN h = 1 .. l
  <2> HIDE DEF g
  <2>1. DOMAIN g = 1 .. n /\ DOMAIN h = 1 .. l
    <3>1. \A s \in Seq(Event) : DOMAIN s = 1 .. Len(s)
      OBVIOUS
    <3> QED BY <1>2, <1>3, <1>6, <3>1, Zenon
  <2>2. \A m \in 0 .. l : 1 .. l = (1 .. m) \cup (m + 1 .. l) /\ (1 .. m) \cap (m + 1 .. l) = {}
    BY <1>3
  <2> QED BY <1>4, <2>1, <2>2, Zenon
<1>9. Seqs(g) = {h[i].seq : i \in 1 .. n}
    BY <1>7, <1>8, Zenon DEF Seqs, Reopened
<1>10. Unreadable(ev) = {h[i].seq : i \in n + 1 .. l}
    BY <1>3, <1>7, <1>8, Zenon DEF Unreadable, n
<1>11. Seqs(h) = Seqs(g) \cup Unreadable(ev) /\ Seqs(g) \cap Unreadable(ev) = {}
  <2>1. \A i \in 1 .. n, k \in n + 1 .. l : h[i].seq # h[k].seq
    BY <1>2, <1>3, <1>8, Zenon DEF Distinct
  <2> QED BY <1>8, <1>9, <1>10, <2>1, Zenon DEF Seqs
<1>12. QueueOK(heap', seq', fired', lost')
  <2> HIDE DEF g
  <2> QED BY <1>1, <1>2, <1>5, <1>6, <1>11, Zenon DEF QueueOK, ev, h
<1> QED BY <1>3, <1>4, <1>5, <1>12, Zenon DEF ev, h, n, g

\* The steps that leave the queue, its snapshot and its history alone.
QueueStays == UNCHANGED <<heap, seq, registered, setup, saved, fired, lost, event>>

\* Every step changes the queue in one of these ways.
LEMMA QueueSteps ==
    ASSUME [Next]_vars
    PROVE  QueueStays \/ Schedule \/ RegisterPayload \/ EventStep \/ EventTooLate \/ Save \/ Load \/ Rebuild
<1>1. Assign => QueueStays
    BY Zenon DEF Assign, QueueStays, queueVars, evVars
<1>2. Initialized => QueueStays
    BY Zenon DEF Initialized, QueueStays, queueVars, evVars
<1>3. ModelStep => QueueStays
    BY Zenon DEF ModelStep, QueueStays, queueVars, evVars
<1>4. BeginTick => QueueStays
    BY Zenon DEF BeginTick, QueueStays, queueVars, evVars
<1>5. InTick => QueueStays
    BY Zenon DEF InTick, QueueStays, queueVars, evVars
<1>6. AbortTick => QueueStays
    BY Zenon DEF AbortTick, QueueStays, queueVars, evVars
<1>7. EndTick => QueueStays
    BY Zenon DEF EndTick, QueueStays, queueVars, evVars
<1>8. EventHandled => QueueStays
    BY Zenon DEF EventHandled, QueueStays, queueVars, evVars
<1>9. UNCHANGED vars => QueueStays
    BY Zenon DEF vars, QueueStays, queueVars, evVars
<1> QED BY <1>1, <1>2, <1>3, <1>4, <1>5, <1>6, <1>7, <1>8, <1>9, Zenon DEF Next

\* Every step keeps the queue as it should be.
LEMMA NextQueueInv == QueueInv /\ [Next]_vars => QueueInv'
<1> SUFFICES ASSUME QueueInv, [Next]_vars PROVE QueueInv'
    BY Zenon
<1>0. setup \in Setups /\ QueueOK(heap, seq, fired, lost) /\ (saved # NoSave => SavedOK(saved))
    BY Zenon DEF QueueInv
<1>1. CASE QueueStays
    BY <1>0, <1>1, Zenon DEF QueueStays, QueueInv
<1>2. CASE Schedule
  <2>1. PICK t \in setup.times, p \in setup.priorities, payload \in setup.payloads : Push(t, p, payload)
    BY <1>2, Zenon DEF Schedule
  <2>2. t \in Nat /\ p \in Int /\ payload \in {"none", "typed"}
    BY <1>0, ExecutorAssumption, Zenon
  <2>3. QueueOK(heap', seq', fired, lost)
    BY <1>0, <2>1, <2>2, PushKeeps, Zenon
  <2> QED BY <1>0, <1>2, <2>3, Zenon DEF Schedule, QueueInv, evVars
<1>3. CASE RegisterPayload
    BY <1>0, <1>3, Zenon DEF RegisterPayload, RegisterPayloadType, QueueInv, evVars
<1>4. CASE EventStep
    BY <1>0, <1>4, PopKeeps, Zenon DEF EventStep, QueueInv
<1>5. CASE EventTooLate
    BY <1>0, <1>5, PopKeeps, Zenon DEF EventTooLate, QueueInv
<1>6. CASE Save
    BY <1>0, <1>6, SaveKeeps, Zenon DEF Save, QueueInv, queueVars
<1>7. CASE Load
    BY <1>0, <1>7, LoadFacts, Zenon DEF Load, QueueInv
<1>8. CASE Rebuild
  <2>1. QueueOK(<<>>, 0, {}, {})
    BY DEF QueueOK, Ordered, Distinct, Seqs
  <2> QED BY <1>0, <1>8, <2>1, Zenon DEF Rebuild, QueueInv
<1> QED BY <1>1, <1>2, <1>3, <1>4, <1>5, <1>6, <1>7, <1>8, QueueSteps, Zenon

\* The first state: an empty queue and no snapshot.
LEMMA InitQueueInv == Init => QueueInv
<1> SUFFICES ASSUME Init PROVE QueueInv
    BY Zenon
<1>1. heap = <<>> /\ seq = 0 /\ fired = {} /\ lost = {} /\ saved = NoSave /\ setup \in Setups
    BY Zenon DEF Init, InitQueue
<1>2. QueueOK(<<>>, 0, {}, {})
    BY DEF QueueOK, Ordered, Distinct, Seqs
<1> QED BY <1>1, <1>2, Zenon DEF QueueInv

(* No event disappears, none is handled twice and no two share a sequence number, in any
   history of scheduling, handling, saving and restoring. *)
THEOREM Conservation == Spec => []EventsConserved
<1>1. QueueInv => EventsConserved
  <2> SUFFICES ASSUME QueueInv PROVE EventsConserved
    BY Zenon
  <2>1. heap \in Seq(Event) /\ Distinct(heap) /\ Seqs(heap) = (1 .. seq) \ (fired \cup lost) /\ fired \cap lost = {}
    BY Zenon DEF QueueInv, QueueOK
  <2>2. DOMAIN heap = 1 .. Len(heap)
    BY <2>1
  <2> QED BY <2>1, <2>2, Zenon DEF EventsConserved, Distinct, Seqs
<1> QED BY <1>1, InitQueueInv, NextQueueInv, PTL DEF Spec

(* The heap of any size hands out its events in the order of time, priority and sequence
   number, never in the past of the clock; a run of Run or Start never reaches MaxTime. *)
THEOREM FiringOrder == Spec => FiresInOrder
<1> DEFINE P == event' # event /\ phase' = "step" =>
                  /\ \A i \in DOMAIN heap' : Before(event', heap'[i])
                  /\ time' = event'.time /\ time' >= time
                  /\ setup.entry = "run" /\ setup.maxTime > 0 => time' < setup.maxTime
<1>1. QueueInv /\ [Next]_vars => P
  <2> SUFFICES ASSUME QueueInv, [Next]_vars, event' # event, phase' = "step"
               PROVE  /\ \A i \in DOMAIN heap' : Before(event', heap'[i])
                      /\ time' = event'.time /\ time' >= time
                      /\ setup.entry = "run" /\ setup.maxTime > 0 => time' < setup.maxTime
    BY Zenon
  <2>1. EventStep
    BY QueueSteps, Zenon DEF QueueStays, Schedule, RegisterPayload, EventTooLate, Save, Load,
       Rebuild, evVars
  <2>2. QueueOK(heap, seq, fired, lost) /\ setup \in Setups
    BY Zenon DEF QueueInv
  <2>3. Pop /\ heap # <<>> /\ event' = heap[1] /\ time' = heap[1].time /\ heap[1].time >= time /\ ~ Limit
    BY <2>1, Zenon DEF EventStep, Pop
  <2>4. \A i \in DOMAIN heap' : Before(event', heap'[i])
    BY <2>2, <2>3, PopKeeps, Zenon
  <2>5. heap[1].time \in Nat
    <3>1. heap \in Seq(Event) /\ heap # <<>>
      BY <2>2, <2>3, Zenon DEF QueueOK
    <3>2. heap[1] \in Event
      BY <3>1
    <3> QED BY <3>2, Zenon DEF Event
  <2>6. setup.maxTime \in Nat
    BY <2>2, ExecutorAssumption, Zenon
  <2>7. setup.entry = "run" /\ setup.maxTime > 0 => heap[1].time < setup.maxTime
    BY <2>3, <2>5, <2>6 DEF Limit
  <2> QED BY <2>3, <2>4, <2>7, Zenon
<1> QED BY <1>1, InitQueueInv, NextQueueInv, PTL DEF Spec, FiresInOrder

(* A restore that reads every event rebuilds the saved array place by place, although it
   pushes the events one by one. *)
THEOREM ExactQueue == Spec => QueueRestored
<1> DEFINE P == Load /\ Readable(saved.queue.events) = Len(saved.queue.events) =>
          /\ seq' = saved.queue.seq /\ tick' = saved.tick /\ time' = saved.time
          /\ Len(heap') = Len(saved.heap)
          /\ \A i \in DOMAIN heap' :
               \/ heap'[i] = saved.heap[i]
               \/ saved.queue.events[i].payload = "json" /\ heap'[i] = [saved.heap[i] EXCEPT !.payload = "raw"]
<1>1. QueueInv => P
  <2> SUFFICES ASSUME QueueInv, Load, Readable(saved.queue.events) = Len(saved.queue.events)
      PROVE  /\ seq' = saved.queue.seq /\ tick' = saved.tick /\ time' = saved.time
             /\ Len(heap') = Len(saved.heap)
             /\ \A i \in DOMAIN heap' :
                  \/ heap'[i] = saved.heap[i]
                  \/ saved.queue.events[i].payload = "json" /\ heap'[i] = [saved.heap[i] EXCEPT !.payload = "raw"]
    BY Zenon
  <2> DEFINE ev == saved.queue.events
             h == saved.heap
  <2>1. SavedOK(saved) /\ seq' = saved.queue.seq /\ tick' = saved.tick /\ time' = saved.time
    BY Zenon DEF QueueInv, Load, RestoreQueue
  <2>2. h \in Seq(Event) /\ MarkedAll(h, ev)
    BY <2>1, Zenon DEF SavedOK, QueueOK
  <2>3. PICK l \in Nat : l = Len(h) /\ l = Len(ev)
    BY <2>2 DEF MarkedAll
  <2>4. heap' = Reopened(ev, l)
    BY <2>3, LoadFacts, Zenon
  <2>5. Len(heap') = l /\ DOMAIN heap' = 1 .. l /\ \A i \in 1 .. l : heap'[i] = Opened(ev[i])
    BY <2>3, <2>4 DEF Reopened
  <2>6. ASSUME NEW i \in 1 .. l
        PROVE  heap'[i] = h[i] \/ (ev[i].payload = "json" /\ heap'[i] = [h[i] EXCEPT !.payload = "raw"])
    <3>1. h[i] \in Event /\ Marked(h[i], ev[i])
      BY <2>2, <2>3 DEF MarkedAll
    <3>2. Opened(ev[i]) = h[i] \/ (ev[i].payload = "json" /\ Opened(ev[i]) = [h[i] EXCEPT !.payload = "raw"])
      BY <3>1, OpenedFacts, Zenon
    <3> QED BY <2>5, <3>2, Zenon
  <2> QED BY <2>1, <2>3, <2>5, <2>6, Zenon
<1> QED BY <1>1, InitQueueInv, NextQueueInv, PTL DEF Spec, QueueRestored
=============================================================================
