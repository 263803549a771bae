---------------------------- MODULE WorldProofs ----------------------------
(***************************************************************************)
(* Theorems about World for any numbers of entities, generations and       *)
(* components, and any sequence of operations: that its parts are          *)
(* consistent, that the scheduler's cached entity sets are up to date, and *)
(* that World implements AbstractWorld.                                    *)
(***************************************************************************)
EXTENDS World, WellFoundedInduction, TLAPS

-----------------------------------------------------------------------------
(* The sparse set *)

\* An ID has an index and a generation.
LEMMA IdFields ==
    /\ \A id \in Ids : id.index \in Indices /\ id.version \in Versions
    /\ \A x \in Indices, v \in Versions : [index |-> x, version |-> v] \in Ids
BY Zenon DEF Ids

\* In a linked pair each index occurs at one position.
LEMMA LinkedDistinct ==
    ASSUME NEW s \in [Indices -> Nat], NEW d \in Seq(Ids), Linked(s, d)
    PROVE  /\ \A i, j \in DOMAIN d : d[i].index = d[j].index => i = j
           /\ \A i \in DOMAIN d : d[i] \in Ids /\ d[i].index \in Indices /\ s[d[i].index] = i
BY IdFields DEF Linked

\* Appending an ID whose index is absent keeps the pair linked (Create, Set).
LEMMA LinkedAppend ==
    ASSUME NEW s \in [Indices -> Nat], NEW d \in Seq(Ids), Linked(s, d),
           NEW id \in Ids, s[id.index] = 0
    PROVE  /\ Link(s, d, id.index) \in [Indices -> Nat]
           /\ Append(d, id) \in Seq(Ids)
           /\ Linked(Link(s, d, id.index), Append(d, id))
<1> DEFINE t == Link(s, d, id.index)
           e == Append(d, id)
<1>1. id.index \in Indices
    BY IdFields, Zenon
<1>2. t \in [Indices -> Nat] /\ e \in Seq(Ids)
    BY <1>1 DEF Link
<1>3. Len(e) = Len(d) + 1 /\ DOMAIN e = 1 .. Len(d) + 1 /\ DOMAIN d = 1 .. Len(d) /\ Len(d) \in Nat
    OBVIOUS
<1>4. e[Len(d) + 1] = id /\ \A i \in DOMAIN d : e[i] = d[i]
    OBVIOUS
<1>5. t[id.index] = Len(d) + 1 /\ \A x \in Indices \ {id.index} : t[x] = s[x]
    BY <1>1, Zenon DEF Link
<1>6. \A i \in DOMAIN d : d[i].index \in Indices /\ s[d[i].index] = i /\ i # 0
    BY LinkedDistinct, <1>3
<1> HIDE DEF t, e
<1>7. ASSUME NEW i \in DOMAIN e PROVE t[e[i].index] = i
  <2>1. CASE i = Len(d) + 1
    BY <2>1, <1>4, <1>5, Zenon
  <2>2. CASE i \in DOMAIN d
    BY <2>2, <1>4, <1>5, <1>6
  <2> QED
    BY <2>1, <2>2, <1>3
<1>8. ASSUME NEW x \in Indices, t[x] # 0 PROVE t[x] \in DOMAIN e /\ e[t[x]].index = x
  <2>1. CASE x = id.index
    BY <2>1, <1>3, <1>4, <1>5
  <2>2. CASE x # id.index
    <3>1. t[x] = s[x] /\ s[x] \in DOMAIN d /\ d[s[x]].index = x
      BY <2>2, <1>5, <1>8, Zenon DEF Linked
    <3> QED
      BY <3>1, <1>3, <1>4
  <2> QED
    BY <2>1, <2>2, Zenon
<1>9. Linked(t, e)
    BY <1>7, <1>8, Zenon DEF Linked
<1> QED
    BY <1>2, <1>9, Zenon DEF t, e

\* SwapRemove of a sequence.
LEMMA SwapRemoveSeq ==
    ASSUME NEW S, NEW d \in Seq(S), NEW p \in DOMAIN d
    PROVE  /\ SwapRemove(d, p) \in Seq(S)
           /\ Len(SwapRemove(d, p)) = Len(d) - 1
           /\ DOMAIN SwapRemove(d, p) = 1 .. Len(d) - 1
           /\ Len(d) \in DOMAIN d /\ Len(d) \in Nat /\ DOMAIN d = 1 .. Len(d)
           /\ \A i \in 1 .. Len(d) - 1 :
                 SwapRemove(d, p)[i] = IF i = p THEN d[Len(d)] ELSE d[i]
<1>1. DOMAIN d = 1 .. Len(d) /\ Len(d) \in Nat /\ Len(d) \in DOMAIN d /\ Len(d) - 1 \in Nat
    OBVIOUS
<1>2. SwapRemove(d, p) = [i \in 1 .. Len(d) - 1 |-> IF i = p THEN d[Len(d)] ELSE d[i]]
    BY Zenon DEF SwapRemove
<1>3. \A i \in 1 .. Len(d) - 1 : (IF i = p THEN d[Len(d)] ELSE d[i]) \in S
    BY <1>1
<1> QED
    BY <1>1, <1>2, <1>3

\* Removing the row of a present index keeps the pair linked (Destroy, Remove).
LEMMA LinkedSwapRemove ==
    ASSUME NEW s \in [Indices -> Nat], NEW d \in Seq(Ids), Linked(s, d),
           NEW x \in Indices, s[x] # 0
    PROVE  /\ Unlink(s, d, x) \in [Indices -> Nat]
           /\ SwapRemove(d, s[x]) \in Seq(Ids)
           /\ Linked(Unlink(s, d, x), SwapRemove(d, s[x]))
           /\ \A y \in Indices : Unlink(s, d, x)[y] = 0 <=> y = x \/ s[y] = 0
<1> DEFINE n == Len(d)
           t == Unlink(s, d, x)
           e == SwapRemove(d, s[x])
           y == d[n].index
<1>1. s[x] \in DOMAIN d /\ d[s[x]].index = x
    BY Zenon DEF Linked
<1>2. /\ e \in Seq(Ids) /\ DOMAIN e = 1 .. n - 1
      /\ n \in DOMAIN d /\ n \in Nat /\ DOMAIN d = 1 .. n
      /\ \A i \in 1 .. n - 1 : e[i] = IF i = s[x] THEN d[n] ELSE d[i]
    BY <1>1, SwapRemoveSeq
<1>3. /\ y \in Indices /\ s[y] = n
      /\ \A i \in DOMAIN d : d[i].index \in Indices /\ s[d[i].index] = i
    BY <1>2, LinkedDistinct
<1>4. t = [z \in Indices |-> IF z = x THEN 0 ELSE IF z = y THEN s[x] ELSE s[z]]
    BY <1>3, Zenon DEF Unlink
<1>5. t \in [Indices -> Nat]
    BY <1>4
<1> HIDE DEF t, e, n, y
<1>6. ASSUME NEW i \in DOMAIN e PROVE t[e[i].index] = i
  <2>1. CASE i = s[x]
    <3>1. e[i].index = y
      BY <2>1, <1>2, Zenon DEF y, n
    <3>2. y # x
      BY <2>1, <1>2, <1>3
    <3> QED
      BY <2>1, <3>1, <3>2, <1>3, <1>4, Zenon
  <2>2. CASE i # s[x]
    <3>1. e[i] = d[i] /\ i \in DOMAIN d /\ i # n
      BY <2>2, <1>2
    <3>2. d[i].index \in Indices /\ s[d[i].index] = i /\ d[i].index # x /\ d[i].index # y
      BY <3>1, <2>2, <1>3, Zenon
    <3> QED
      BY <3>1, <3>2, <1>4, Zenon
  <2> QED
    BY <2>1, <2>2, Zenon
<1>7. ASSUME NEW z \in Indices, t[z] # 0 PROVE t[z] \in DOMAIN e /\ e[t[z]].index = z
  <2>0. z # x
    BY <1>4, <1>7, Zenon
  <2>1. CASE z = y
    <3>1. t[z] = s[x] /\ s[x] # n /\ s[x] \in 1 .. n - 1
      BY <2>0, <2>1, <1>1, <1>2, <1>3, <1>4 DEF y
    <3> QED
      BY <3>1, <2>1, <1>2, Zenon DEF y, n
  <2>2. CASE z # y
    <3>1. t[z] = s[z] /\ s[z] \in DOMAIN d /\ d[s[z]].index = z
      BY <2>0, <2>2, <1>4, <1>7, Zenon DEF Linked
    <3>2. s[z] # n /\ s[z] # s[x]
      BY <3>1, <2>0, <2>2, <1>1, Zenon DEF y
    <3> QED
      BY <3>1, <3>2, <1>2
  <2> QED
    BY <2>1, <2>2, Zenon
<1>8. \A z \in Indices : t[z] = 0 <=> z = x \/ s[z] = 0
    BY <1>2, <1>3, <1>4
<1>9. Linked(t, e)
    BY <1>6, <1>7, Zenon DEF Linked
<1> QED
    BY <1>2, <1>5, <1>8, <1>9, Zenon DEF t, e

\* A pass over dense rebuilds exactly the sparse half that was not saved (restore).
LEMMA RebuildInverse ==
    ASSUME NEW s \in [Indices -> Nat], NEW d \in Seq(Ids), Linked(s, d)
    PROVE  Rebuild(d) = s
<1> DEFINE Positions(x) == {i \in DOMAIN d : d[i].index = x}
           At(x) == IF Positions(x) = {} THEN 0
                    ELSE CHOOSE i \in Positions(x) : \A j \in Positions(x) : j <= i
<1>1. ASSUME NEW x \in Indices PROVE At(x) = s[x]
  <2>1. CASE s[x] = 0
    <3>1. ASSUME NEW i \in DOMAIN d PROVE d[i].index # x
      BY <2>1, LinkedDistinct, DOMAIN d = 1 .. Len(d)
    <3> QED
      BY <2>1, <3>1, Zenon
  <2>2. CASE s[x] # 0
    <3>1. s[x] \in DOMAIN d /\ d[s[x]].index = x
      BY <2>2, Zenon DEF Linked
    <3>2. Positions(x) = {s[x]}
      BY <3>1, LinkedDistinct
    <3>3. s[x] <= s[x]
      OBVIOUS
    <3> HIDE DEF Positions
    <3> QED
      BY <3>2, <3>3, Zenon
  <2> QED
    BY <2>1, <2>2, Zenon
<1>2. Rebuild(d) = [x \in Indices |-> At(x)]
    BY Zenon DEF Rebuild
<1> HIDE DEF At
<1> QED
    BY <1>1, <1>2, Zenon

-----------------------------------------------------------------------------
(* Entities *)

\* The generation after v.
LEMMA NextVersionCases ==
    ASSUME NEW v \in Versions
    PROVE  /\ NextVersion(v) \in Versions
           /\ v = VersionSpace - 1 => NextVersion(v) = 0
           /\ v # VersionSpace - 1 => NextVersion(v) = v + 1
<1>1. VersionSpace \in Nat /\ VersionSpace > 1 /\ v \in 0 .. VersionSpace - 1
    BY SparseSetAssumption DEF Versions
<1>2. CASE v = VersionSpace - 1
    BY <1>1, <1>2 DEF NextVersion, Versions
<1>3. CASE v # VersionSpace - 1
  <2>1. v + 1 \in 0 .. VersionSpace - 1
    BY <1>1, <1>3
  <2>2. (v + 1) % VersionSpace = v + 1
    BY <1>1, <2>1
  <2> QED
    BY <1>3, <2>1, <2>2, Zenon DEF NextVersion, Versions
<1> QED
    BY <1>2, <1>3, Zenon

\* The free list fr holds, once each, the indices below nx that are not live.
FreeOK(sp, fr, nx) ==
    /\ \A x \in Indices : sp[x] # 0 => x < nx
    /\ \A i, j \in DOMAIN fr : fr[i] = fr[j] => i = j
    /\ {fr[i] : i \in DOMAIN fr} = {x \in Indices : x < nx /\ sp[x] = 0}

\* The state of an entity manager: live IDs carry the generation of their index.
EntitiesOK(ve, sp, de, fr, nx) ==
    /\ ve \in [Indices -> Versions] /\ sp \in [Indices -> Nat]
    /\ de \in Seq(Ids) /\ fr \in Seq(Indices) /\ nx \in 0 .. MaxEntities
    /\ Linked(sp, de)
    /\ FreeOK(sp, fr, nx)
    /\ \A i \in DOMAIN de : de[i].version = ve[de[i].index]

\* The generations of index x among the destroyed IDs go.
GoneOf(go, x) == {v \in Versions : [index |-> x, version |-> v] \in go}

\* Before the counter of an index wraps, its destroyed IDs are exactly those of
\* its earlier generations.
GenerationsOK(ve, sp, go) ==
    \A x \in Indices :
       \/ GoneOf(go, x) = Versions
       \/ sp[x] = 0 /\ GoneOf(go, x) = 1 .. ve[x]
       \/ sp[x] # 0 /\ ve[x] # 0 /\ GoneOf(go, x) = 1 .. ve[x] - 1
       \/ sp[x] # 0 /\ ve[x] = 0 /\ GoneOf(go, x) = 1 .. VersionSpace - 1

\* Create takes an index that is not live.
LEMMA CreatedIndex ==
    ASSUME EntitiesOK(versions, sparse, dense, free, next), Create
    PROVE  /\ CreatedId \in Ids
           /\ CreatedId.index \in Indices /\ sparse[CreatedId.index] = 0
           /\ CreatedId.version = NextVersion(versions[CreatedId.index])
           /\ free # <<>> => CreatedId.index = free[Len(free)]
           /\ free = <<>> => CreatedId.index = next
<1> DEFINE x == IF free = <<>> THEN next ELSE free[Len(free)]
<1>1. x \in Indices /\ sparse[x] = 0
  <2>1. CASE free = <<>>
    <3>1. next \in Indices
      BY <2>1, Zenon DEF Create
    <3>2. next < next => FALSE
      BY <3>1 DEF Indices
    <3> QED
      BY <2>1, <3>1, <3>2, Zenon DEF EntitiesOK, FreeOK
  <2>2. CASE free # <<>>
    <3>1. Len(free) \in DOMAIN free
      BY <2>2 DEF EntitiesOK
    <3>2. x \in {free[i] : i \in DOMAIN free}
      BY <2>2, <3>1, Zenon
    <3> QED
      BY <3>2, Zenon DEF EntitiesOK, FreeOK
  <2> QED
    BY <2>1, <2>2, Zenon
<1>2. CreatedId = [index |-> x, version |-> NextVersion(versions[x])]
    BY Zenon DEF CreatedId
<1>3. NextVersion(versions[x]) \in Versions
    BY <1>1, NextVersionCases, Zenon DEF EntitiesOK
<1> HIDE DEF x
<1>4. CreatedId \in Ids /\ CreatedId.index = x /\ CreatedId.version = NextVersion(versions[x])
    BY <1>1, <1>2, <1>3, IdFields, Zenon
<1> QED
    BY <1>1, <1>4, Zenon DEF x

(* Create takes its index off the free list, or from next, and leaves a
   free list of exactly the released indices. *)
LEMMA CreateFree ==
    ASSUME EntitiesOK(versions, sparse, dense, free, next), Create
    PROVE  free' \in Seq(Indices) /\ next' \in 0 .. MaxEntities /\ FreeOK(sparse', free', next')
<1> DEFINE x == CreatedId.index
<1>1. /\ x \in Indices /\ sparse[x] = 0
      /\ (free # <<>> => x = free[Len(free)]) /\ (free = <<>> => x = next)
    BY CreatedIndex, Zenon
<1>2. /\ sparse \in [Indices -> Nat] /\ free \in Seq(Indices) /\ next \in 0 .. MaxEntities
      /\ Len(dense) \in Nat
    BY DEF EntitiesOK
<1>3. sparse' = [sparse EXCEPT ![x] = Len(dense) + 1]
    BY Zenon DEF Create, Link
<1>4. sparse'[x] # 0 /\ \A y \in Indices \ {x} : sparse'[y] = sparse[y]
    BY <1>1, <1>2, <1>3
<1>5. FreeOK(sparse, free, next)
    BY Zenon DEF EntitiesOK
<1> HIDE DEF x
<1>6. CASE free # <<>>
  <2>1. free' = SubSeq(free, 1, Len(free) - 1) /\ next' = next
    BY <1>6, Zenon DEF Create
  <2>2. Len(free) \in Nat /\ Len(free) \in DOMAIN free /\ DOMAIN free = 1 .. Len(free)
    BY <1>2, <1>6
  <2>3. /\ free' \in Seq(Indices) /\ DOMAIN free' = 1 .. Len(free) - 1
        /\ \A i \in 1 .. Len(free) - 1 : free'[i] = free[i]
    BY <1>2, <2>1, <2>2
  <2>4. \A i \in 1 .. Len(free) - 1 : free[i] # x
    BY <1>1, <1>5, <1>6, <2>2 DEF FreeOK
  <2>5. {free'[i] : i \in DOMAIN free'} = {free[i] : i \in DOMAIN free} \ {x}
    BY <1>1, <1>6, <2>2, <2>3, <2>4
  <2>6. {free'[i] : i \in DOMAIN free'} = {y \in Indices : y < next' /\ sparse'[y] = 0}
    BY <1>4, <1>5, <2>1, <2>5, Zenon DEF FreeOK
  <2>7. \A i, j \in DOMAIN free' : free'[i] = free'[j] => i = j
    BY <1>5, <2>2, <2>3 DEF FreeOK
  <2>8. x < next
    <3>1. x \in {free[i] : i \in DOMAIN free}
      BY <1>1, <1>6, <2>2, Zenon
    <3> QED
      BY <3>1, <1>5, Zenon DEF FreeOK
  <2>9. \A y \in Indices : sparse'[y] # 0 => y < next'
    BY <1>4, <1>5, <2>1, <2>8, Zenon DEF FreeOK
  <2> QED
    BY <1>2, <2>1, <2>3, <2>6, <2>7, <2>9, Zenon DEF FreeOK
<1>7. CASE free = <<>>
  <2>1. free' = free /\ next' = next + 1 /\ next \in Indices
    BY <1>7, Zenon DEF Create
  <2>2. next' \in 0 .. MaxEntities
    BY <2>1, SparseSetAssumption DEF Indices
  <2>3. {free[i] : i \in DOMAIN free} = {}
    BY <1>7
  <2>4. ASSUME NEW y \in Indices, y < next + 1, sparse'[y] = 0 PROVE FALSE
    <3>1. y # x /\ sparse[y] = 0
      BY <1>4, <2>4, Zenon
    <3>2. y < next
      BY <1>1, <1>7, <2>1, <2>4, <3>1 DEF Indices
    <3> QED
      BY <3>1, <3>2, <1>5, <2>3, Zenon DEF FreeOK
  <2>5. \A y \in Indices : sparse'[y] # 0 => y < next + 1
    BY <1>1, <1>4, <1>5, <1>7, <2>1 DEF FreeOK, Indices
  <2> QED
    BY <1>2, <1>5, <2>1, <2>2, <2>3, <2>4, <2>5, Zenon DEF FreeOK
<1> QED
    BY <1>6, <1>7, Zenon

\* Create keeps an entity manager consistent.
LEMMA CreateKeeps ==
    ASSUME EntitiesOK(versions, sparse, dense, free, next),
           GenerationsOK(versions, sparse, gone), Create
    PROVE  /\ EntitiesOK(versions', sparse', dense', free', next')
           /\ GenerationsOK(versions', sparse', gone)
<1> DEFINE id == CreatedId
           x == CreatedId.index
<1>1. id \in Ids /\ x \in Indices /\ sparse[x] = 0 /\ id.version = NextVersion(versions[x])
    BY CreatedIndex, Zenon
<1>2. /\ versions \in [Indices -> Versions] /\ sparse \in [Indices -> Nat]
      /\ dense \in Seq(Ids) /\ Linked(sparse, dense)
      /\ \A i \in DOMAIN dense : dense[i].version = versions[dense[i].index]
    BY Zenon DEF EntitiesOK
<1>3. /\ versions' = [versions EXCEPT ![x] = id.version]
      /\ dense' = Append(dense, id) /\ sparse' = Link(sparse, dense, x)
    BY Zenon DEF Create
<1>4. sparse' \in [Indices -> Nat] /\ dense' \in Seq(Ids) /\ Linked(sparse', dense')
    BY <1>1, <1>2, <1>3, LinkedAppend, Zenon
<1>5. /\ sparse'[x] # 0 /\ \A y \in Indices \ {x} : sparse'[y] = sparse[y]
      /\ versions'[x] = id.version /\ \A y \in Indices \ {x} : versions'[y] = versions[y]
    BY <1>1, <1>2, <1>3 DEF Link
<1>6. versions' \in [Indices -> Versions]
    BY <1>1, <1>2, <1>3, IdFields, Zenon
<1>7. \A i \in DOMAIN dense : dense[i].index \in Indices /\ dense[i].index # x
    BY <1>1, <1>2, LinkedDistinct, DOMAIN dense = 1 .. Len(dense)
<1>8. DOMAIN dense' = 1 .. Len(dense) + 1 /\ dense'[Len(dense) + 1] = id
      /\ DOMAIN dense = 1 .. Len(dense) /\ \A i \in DOMAIN dense : dense'[i] = dense[i]
    BY <1>2, <1>3
<1> HIDE DEF id, x
<1>9. ASSUME NEW i \in DOMAIN dense' PROVE dense'[i].version = versions'[dense'[i].index]
  <2>1. CASE i = Len(dense) + 1
    BY <2>1, <1>5, <1>8, Zenon DEF id, x
  <2>2. CASE i \in DOMAIN dense
    BY <2>2, <1>2, <1>5, <1>7, <1>8
  <2> QED
    BY <2>1, <2>2, <1>2, <1>8
<1>10. EntitiesOK(versions', sparse', dense', free', next')
    BY <1>4, <1>6, <1>9, CreateFree, Zenon DEF EntitiesOK
<1>11. ASSUME NEW y \in Indices, GoneOf(gone, y) # Versions
       PROVE  \/ sparse'[y] = 0 /\ GoneOf(gone, y) = 1 .. versions'[y]
              \/ sparse'[y] # 0 /\ versions'[y] # 0 /\ GoneOf(gone, y) = 1 .. versions'[y] - 1
              \/ sparse'[y] # 0 /\ versions'[y] = 0 /\ GoneOf(gone, y) = 1 .. VersionSpace - 1
  <2>1. CASE y # x
    BY <2>1, <1>5, <1>11, Zenon DEF GenerationsOK
  <2>2. CASE y = x
    <3>1. GoneOf(gone, x) = 1 .. versions[x]
      BY <2>2, <1>1, <1>11, Zenon DEF GenerationsOK
    <3>2. versions[x] \in 0 .. VersionSpace - 1 /\ VersionSpace \in Nat
      BY <1>1, <1>2, SparseSetAssumption, Zenon DEF Versions
    <3>3. CASE versions[x] = VersionSpace - 1
      BY <2>2, <3>1, <3>3, <1>1, <1>2, <1>5, NextVersionCases, Zenon
    <3>4. CASE versions[x] # VersionSpace - 1
      <4>1. versions'[x] = versions[x] + 1
        BY <3>4, <1>1, <1>2, <1>5, NextVersionCases, Zenon
      <4> QED
        BY <2>2, <3>1, <3>2, <4>1, <1>5
    <3> QED
      BY <3>3, <3>4, Zenon
  <2> QED
    BY <2>1, <2>2, Zenon
<1>12. GenerationsOK(versions', sparse', gone)
    BY <1>11, Zenon DEF GenerationsOK
<1> QED
    BY <1>10, <1>12, Zenon

(* Destroy releases the index of its entity and no other: the dense slice
   stays linked and the free list exact. *)
LEMMA DestroyFree ==
    ASSUME EntitiesOK(versions, sparse, dense, free, next), NEW id \in Ids, Destroy(id)
    PROVE  /\ sparse' \in [Indices -> Nat] /\ dense' \in Seq(Ids) /\ Linked(sparse', dense')
           /\ free' \in Seq(Indices) /\ FreeOK(sparse', free', next)
           /\ \A y \in Indices : sparse'[y] = 0 <=> y = id.index \/ sparse[y] = 0
<1> DEFINE x == id.index
<1>1. x \in Indices /\ sparse[x] # 0
    BY IdFields, Zenon DEF Destroy, Alive
<1>2. /\ sparse \in [Indices -> Nat] /\ dense \in Seq(Ids) /\ Linked(sparse, dense)
      /\ free \in Seq(Indices) /\ next \in 0 .. MaxEntities /\ FreeOK(sparse, free, next)
    BY Zenon DEF EntitiesOK
<1>3. /\ dense' = SwapRemove(dense, sparse[x]) /\ sparse' = Unlink(sparse, dense, x)
      /\ free' = Append(free, x)
    BY Zenon DEF Destroy
<1>4. /\ sparse' \in [Indices -> Nat] /\ dense' \in Seq(Ids) /\ Linked(sparse', dense')
      /\ \A y \in Indices : sparse'[y] = 0 <=> y = x \/ sparse[y] = 0
    BY <1>1, <1>2, <1>3, LinkedSwapRemove
<1> HIDE DEF x
<1>5. /\ free' \in Seq(Indices) /\ DOMAIN free' = 1 .. Len(free) + 1 /\ free'[Len(free) + 1] = x
      /\ DOMAIN free = 1 .. Len(free) /\ Len(free) \in Nat
      /\ \A i \in DOMAIN free : free'[i] = free[i]
    BY <1>1, <1>2, <1>3
<1>6. x \notin {free[i] : i \in DOMAIN free} /\ x < next
    BY <1>1, <1>2, Zenon DEF FreeOK
<1>7. {free'[i] : i \in DOMAIN free'} = {free[i] : i \in DOMAIN free} \cup {x}
    BY <1>5
<1>8. {free'[i] : i \in DOMAIN free'} = {y \in Indices : y < next /\ sparse'[y] = 0}
    BY <1>1, <1>2, <1>4, <1>6, <1>7, Zenon DEF FreeOK
<1>9. ASSUME NEW i \in DOMAIN free', NEW j \in DOMAIN free', free'[i] = free'[j] PROVE i = j
  <2>1. \A k \in DOMAIN free : free[k] # x
    BY <1>6, Zenon
  <2>2. i \in DOMAIN free <=> j \in DOMAIN free
    BY <1>5, <1>9, <2>1
  <2>3. CASE i \in DOMAIN free
    BY <1>2, <1>5, <1>9, <2>2, <2>3, Zenon DEF FreeOK
  <2> QED
    BY <1>5, <2>2, <2>3
<1>10. \A y \in Indices : sparse'[y] # 0 => y < next
    BY <1>2, <1>4, Zenon DEF FreeOK
<1> QED
    BY <1>4, <1>5, <1>8, <1>9, <1>10, Zenon DEF FreeOK, x

\* Destroy keeps an entity manager consistent.
LEMMA DestroyKeeps ==
    ASSUME EntitiesOK(versions, sparse, dense, free, next),
           GenerationsOK(versions, sparse, gone), NEW id \in Ids, Destroy(id)
    PROVE  /\ EntitiesOK(versions', sparse', dense', free', next')
           /\ GenerationsOK(versions', sparse', gone \cup {id})
<1> DEFINE x == id.index
           go == gone \cup {id}
<1>1. /\ x \in Indices /\ id.version \in Versions /\ id = [index |-> x, version |-> id.version]
      /\ sparse[x] # 0 /\ versions[x] = id.version
    BY IdFields, Zenon DEF Destroy, Alive, Ids
<1>2. /\ versions \in [Indices -> Versions] /\ sparse \in [Indices -> Nat]
      /\ dense \in Seq(Ids) /\ Linked(sparse, dense) /\ next \in 0 .. MaxEntities
      /\ \A i \in DOMAIN dense : dense[i].version = versions[dense[i].index]
    BY Zenon DEF EntitiesOK
<1>3. versions' = versions /\ next' = next /\ dense' = SwapRemove(dense, sparse[x])
    BY Zenon DEF Destroy
<1>4. /\ sparse' \in [Indices -> Nat] /\ dense' \in Seq(Ids) /\ Linked(sparse', dense')
      /\ free' \in Seq(Indices) /\ FreeOK(sparse', free', next)
      /\ \A y \in Indices : sparse'[y] = 0 <=> y = x \/ sparse[y] = 0
    BY DestroyFree, Zenon
<1>5. sparse[x] \in DOMAIN dense
    BY <1>1, <1>2, Zenon DEF Linked
<1>6. ASSUME NEW i \in DOMAIN dense' PROVE \E j \in DOMAIN dense : dense'[i] = dense[j]
  <2>a. Len(dense) \in DOMAIN dense /\ Len(dense) \in Nat /\ DOMAIN dense = 1 .. Len(dense)
    BY <1>2, <1>5
  <2>b. LET r == SwapRemove(dense, sparse[x])
        IN  /\ r \in Seq(Ids) /\ Len(r) = Len(dense) - 1
            /\ \A k \in 1 .. Len(dense) - 1 :
                  r[k] = IF k = sparse[x] THEN dense[Len(dense)] ELSE dense[k]
    BY ONLY <1>2, <1>5, SwapRemoveSeq, ZenonT(30)
  <2>1. /\ DOMAIN dense' = 1 .. Len(dense) - 1
        /\ Len(dense) \in DOMAIN dense /\ Len(dense) \in Nat /\ DOMAIN dense = 1 .. Len(dense)
        /\ \A k \in 1 .. Len(dense) - 1 :
              dense'[k] = IF k = sparse[x] THEN dense[Len(dense)] ELSE dense[k]
    BY <1>3, <2>a, <2>b
  <2> QED
    BY <2>1
<1>7. \A i \in DOMAIN dense' : dense'[i].version = versions'[dense'[i].index]
    BY <1>2, <1>3, <1>6, Zenon
<1>8. EntitiesOK(versions', sparse', dense', free', next')
    BY <1>2, <1>3, <1>4, <1>7, Zenon DEF EntitiesOK
<1>9. ASSUME NEW y \in Indices, y # x PROVE GoneOf(go, y) = GoneOf(gone, y)
    BY <1>1, <1>9 DEF GoneOf
<1>10. GoneOf(go, x) = GoneOf(gone, x) \cup {versions[x]}
    BY <1>1 DEF GoneOf
<1> HIDE DEF x, go
<1>11. ASSUME NEW y \in Indices
       PROVE  GoneOf(go, y) = Versions \/ (sparse'[y] = 0 /\ GoneOf(go, y) = 1 .. versions[y])
              \/ (sparse'[y] # 0 /\ versions[y] # 0 /\ GoneOf(go, y) = 1 .. versions[y] - 1)
              \/ (sparse'[y] # 0 /\ versions[y] = 0 /\ GoneOf(go, y) = 1 .. VersionSpace - 1)
  <2>1. CASE y # x
    BY <2>1, <1>4, <1>9, Zenon DEF GenerationsOK
  <2>2. CASE y = x
    <3>1. sparse'[x] = 0
      BY <1>1, <1>4, Zenon
    <3>2. versions[x] \in 0 .. VersionSpace - 1 /\ VersionSpace \in Nat /\ VersionSpace > 1
      BY <1>1, <1>2, SparseSetAssumption DEF Versions
    <3>3. CASE GoneOf(gone, x) = Versions
      BY <2>2, <3>3, <1>1, <1>2, <1>10
    <3>4. CASE versions[x] # 0 /\ GoneOf(gone, x) = 1 .. versions[x] - 1
      <4>1. GoneOf(go, x) = 1 .. versions[x]
        BY <3>2, <3>4, <1>10
      <4> QED
        BY <2>2, <3>1, <4>1, Zenon
    <3>5. CASE versions[x] = 0 /\ GoneOf(gone, x) = 1 .. VersionSpace - 1
      <4>1. GoneOf(go, x) = Versions
        BY <3>2, <3>5, <1>10 DEF Versions
      <4> QED
        BY <2>2, <4>1, Zenon
    <3> QED
      BY <3>3, <3>4, <3>5, <1>1, Zenon DEF GenerationsOK
  <2> QED
    BY <2>1, <2>2, Zenon
<1>12. GenerationsOK(versions', sparse', go)
    BY <1>3, <1>11, Zenon DEF GenerationsOK
<1> QED
    BY <1>8, <1>12, Zenon DEF go

-----------------------------------------------------------------------------
(* Columns *)

Columns == [sparse : [Indices -> Nat], dense : Seq(Ids), data : Seq(Values)]

ColumnOK(col) ==
    col \in Columns /\ Len(col.data) = Len(col.dense) /\ Linked(col.sparse, col.dense)

\* Joining a column keeps it consistent.
LEMMA ColumnAppend ==
    ASSUME NEW col, ColumnOK(col), NEW id \in Ids, NEW v \in Values, col.sparse[id.index] = 0
    PROVE  ColumnOK([sparse |-> Link(col.sparse, col.dense, id.index),
                     dense |-> Append(col.dense, id), data |-> Append(col.data, v)])
<1>1. col.sparse \in [Indices -> Nat] /\ col.dense \in Seq(Ids) /\ col.data \in Seq(Values)
      /\ Len(col.data) = Len(col.dense) /\ Linked(col.sparse, col.dense)
    BY Zenon DEF ColumnOK, Columns
<1>2. /\ Link(col.sparse, col.dense, id.index) \in [Indices -> Nat]
      /\ Append(col.dense, id) \in Seq(Ids)
      /\ Linked(Link(col.sparse, col.dense, id.index), Append(col.dense, id))
    BY <1>1, LinkedAppend, Zenon
<1>3. Append(col.data, v) \in Seq(Values) /\ Len(Append(col.data, v)) = Len(Append(col.dense, id))
    BY <1>1
<1> QED
    BY <1>2, <1>3, Zenon DEF ColumnOK, Columns

\* The fields of a saved column.
LEMMA SavedRowFields ==
    ASSUME NEW r, NEW n, NEW d, NEW v, r = [name |-> n, dense |-> d, data |-> v]
    PROVE  r.name = n /\ r.dense = d /\ r.data = v
    BY Zenon

\* Leaving a column keeps it consistent, and rows keep their values.
LEMMA ColumnSwapRemove ==
    ASSUME NEW col, ColumnOK(col), NEW x \in Indices, col.sparse[x] # 0
    PROVE  ColumnOK(WithoutRow(col, x))
<1>1. col.sparse \in [Indices -> Nat] /\ col.dense \in Seq(Ids) /\ col.data \in Seq(Values)
      /\ Len(col.data) = Len(col.dense) /\ Linked(col.sparse, col.dense)
    BY Zenon DEF ColumnOK, Columns
<1>2. /\ Unlink(col.sparse, col.dense, x) \in [Indices -> Nat]
      /\ SwapRemove(col.dense, col.sparse[x]) \in Seq(Ids)
      /\ Linked(Unlink(col.sparse, col.dense, x), SwapRemove(col.dense, col.sparse[x]))
    BY <1>1, LinkedSwapRemove, Zenon
<1>3. col.sparse[x] \in DOMAIN col.dense /\ col.sparse[x] \in DOMAIN col.data
  <2>1. col.sparse[x] \in DOMAIN col.dense
    BY <1>1, Zenon DEF Linked
  <2> QED
    BY <1>1, <2>1
<1>4. /\ SwapRemove(col.data, col.sparse[x]) \in Seq(Values)
      /\ Len(SwapRemove(col.data, col.sparse[x])) = Len(col.data) - 1
    BY <1>1, <1>3, SwapRemoveSeq, ZenonT(30)
<1>5. Len(SwapRemove(col.dense, col.sparse[x])) = Len(col.dense) - 1
    BY <1>1, <1>3, SwapRemoveSeq, SMTT(30)
<1> QED
    BY <1>1, <1>2, <1>4, <1>5, Zenon DEF ColumnOK, Columns, WithoutRow

\* Writing a value keeps a column consistent.
LEMMA ColumnWrite ==
    ASSUME NEW col, ColumnOK(col), NEW x \in Indices, col.sparse[x] # 0, NEW v \in Values
    PROVE  ColumnOK(WithValue(col, x, v))
<1> DEFINE n == Len(col.data)
           e == [col.data EXCEPT ![col.sparse[x]] = v]
<1>1. /\ col = [sparse |-> col.sparse, dense |-> col.dense, data |-> col.data]
      /\ col.sparse \in [Indices -> Nat] /\ col.dense \in Seq(Ids) /\ col.data \in Seq(Values)
      /\ Len(col.data) = Len(col.dense) /\ Linked(col.sparse, col.dense)
    BY Zenon DEF ColumnOK, Columns
<1>2. n \in Nat /\ col.data \in [1 .. n -> Values]
    BY <1>1
<1>3. e \in [1 .. n -> Values]
    BY <1>2, Zenon
<1>4. e \in Seq(Values) /\ Len(e) = n
    BY <1>2, <1>3
<1>5. WithValue(col, x, v) = [sparse |-> col.sparse, dense |-> col.dense, data |-> e]
    BY Zenon DEF WithValue
<1> QED
    BY <1>1, <1>4, <1>5 DEF ColumnOK, Columns

\* What encoding makes of a column.
LEMMA EncodedFacts ==
    ASSUME NEW d \in Seq(Values), \A q \in DOMAIN d : Json[d[q]] # NoValue
    PROVE  /\ Encoded(d) \in Seq(Values \cup {Garbled}) /\ Len(Encoded(d)) = Len(d)
           /\ DOMAIN Encoded(d) = DOMAIN d /\ \A q \in DOMAIN d : Encoded(d)[q] = Json[d[q]]
<1>1. /\ DOMAIN d = 1 .. Len(d) /\ Len(d) \in Nat /\ \A q \in DOMAIN d : d[q] \in Values
      /\ Encoded(d) = [q \in 1 .. Len(d) |-> Json[d[q]]]
    BY DEF Encoded
<1>2. \A q \in DOMAIN d : Json[d[q]] \in Values \cup {Garbled}
    BY <1>1, ComponentsAssumption, Zenon
<1> QED
    BY <1>1, <1>2

\* A column of decodable values is a sequence of values.
LEMMA DecodedFacts ==
    ASSUME NEW d \in Seq(Values \cup {Garbled}), \A q \in DOMAIN d : d[q] # Garbled
    PROVE  d \in Seq(Values)
OBVIOUS

\* A column that was saved is restored with its entities and what became of its values.
LEMMA ColumnRestored ==
    ASSUME NEW col, ColumnOK(col), \A q \in DOMAIN col.data : Json[col.data[q]] # NoValue, NEW s,
           s.dense = col.dense, s.data = Encoded(col.data), Decodable(s)
    PROVE  ColumnOK(RestoredColumn(s))
<1>1. /\ col.sparse \in [Indices -> Nat] /\ col.dense \in Seq(Ids) /\ col.data \in Seq(Values)
      /\ Len(col.data) = Len(col.dense) /\ Linked(col.sparse, col.dense)
      /\ Rebuild(col.dense) = col.sparse
    BY RebuildInverse, Zenon DEF ColumnOK, Columns
<1>2. s.data \in Seq(Values \cup {Garbled}) /\ Len(s.data) = Len(col.dense)
    BY <1>1, EncodedFacts, Zenon
<1>3. s.data \in Seq(Values)
    BY <1>2, DecodedFacts, Zenon DEF Decodable
<1>4. RestoredColumn(s) = [sparse |-> col.sparse, dense |-> col.dense, data |-> s.data]
    BY <1>1, Zenon DEF RestoredColumn
<1> QED
    BY <1>1, <1>2, <1>3, <1>4 DEF ColumnOK, Columns

\* An empty column is consistent.
LEMMA ColumnEmpty == ColumnOK(EmptyColumn)
BY DEF ColumnOK, Columns, EmptyColumn, Linked

-----------------------------------------------------------------------------
(* The inductive invariant *)

EntityInv ==
    /\ EntitiesOK(versions, sparse, dense, free, next)
    /\ GenerationsOK(versions, sparse, gone)
    /\ gone \subseteq Ids

\* Components are registered once; their columns are consistent.
ColumnInv ==
    /\ names \in Seq(Comps) /\ \A i, j \in DOMAIN names : names[i] = names[j] => i = j
    /\ cols \in [Comps -> Columns] /\ \A c \in Comps : ColumnOK(cols[c])

LabelInv ==
    /\ tagged \subseteq Ids \X Tags
    /\ resource \in Values \cup {NoValue} /\ known \subseteq {"resource", "payload"} /\ torn \in BOOLEAN
    /\ model \in Models /\ revision \in 0 .. model.bound

\* What a world was when it was saved: it has no sparse halves, and they can be
\* rebuilt.
SavedOK(s) ==
    /\ s \in Snapshots
    /\ EntitiesOK(s.entities.versions, Rebuild(s.entities.dense), s.entities.dense,
                  s.entities.free, s.entities.next)
    /\ GenerationsOK(s.entities.versions, Rebuild(s.entities.dense), s.gone)
    /\ \A i, j \in DOMAIN s.components : s.components[i].name = s.components[j].name => i = j
    /\ \A i \in DOMAIN s.components :
         Decodable(s.components[i]) => ColumnOK(RestoredColumn(s.components[i]))

SnapInv == snap # NoSnap => SavedOK(snap)

WorldInv == EntityInv /\ ColumnInv /\ LabelInv /\ SnapInv

\* What a step may do to the entities.
LEMMA EntityChanges ==
    ASSUME [Next]_vars
    PROVE  \/ Create /\ gone' = gone
           \/ \E id \in Held : Destroy(id) /\ gone' = gone \cup {id}
           \/ snap # NoSnap /\ RestoreEntities(snap.entities) /\ gone' = snap.gone
           \/ Recreate
           \/ UNCHANGED <<entities, gone>>
<1>1. CASE CreateEntity
    BY <1>1, Zenon DEF CreateEntity
<1>2. ASSUME NEW id \in Held, DestroyEntity(id)
      PROVE  Destroy(id) /\ gone' = gone \cup {id}
    BY <1>2, Zenon DEF DestroyEntity
<1>3. ASSUME NEW id \in Held, NEW c \in Comps,
             \/ RemoveComponent(c, id)
             \/ \E v \in Values : AddComponent(c, id, v) \/ WriteComponent(c, id, v)
      PROVE  UNCHANGED <<entities, gone>>
    BY <1>3, Zenon DEF RemoveComponent, AddComponent, WriteComponent
<1>4. ASSUME NEW id \in Held,
             RemoveEntityTags(id) \/ \E t \in Tags : AddTag(id, t) \/ RemoveTag(id, t)
      PROVE  UNCHANGED <<entities, gone>>
    BY <1>4, Zenon DEF RemoveEntityTags, AddTag, RemoveTag
<1>5. ASSUME \/ \E c \in Comps : RegisterComponent(c)
             \/ \E v \in Values : SetResource(v)
             \/ TakeSnapshot \/ RegisterPayloadType
             \/ \E s \in Systems : FetchBegins(s) \/ FetchReads(s) \/ FetchEnds(s)
      PROVE  UNCHANGED <<entities, gone>>
    BY <1>5, Zenon DEF RegisterComponent, SetResource, TakeSnapshot, RegisterPayloadType, FetchBegins, FetchReads,
       FetchEnds
<1>6. ASSUME Restore \/ RestoreFailsAtComponent \/ RestoreFailsAtResource \/ RestoreFailsAtEvents
      PROVE  snap # NoSnap /\ RestoreEntities(snap.entities) /\ gone' = snap.gone
    BY <1>6, Zenon DEF Restore, RestoreFailsAtComponent, RestoreFailsAtResource, RestoreFailsAtEvents
<1>7. CASE UNCHANGED vars
    BY <1>7, Zenon DEF vars
<1> QED
    BY <1>1, <1>2, <1>3, <1>4, <1>5, <1>6, <1>7, Zenon DEF Next

\* The IDs a model holds are IDs.
LEMMA HeldIds == EntityInv => Held \subseteq Ids
BY DEF EntityInv, EntitiesOK, Held

\* A new entity manager is consistent.
LEMMA FreshEntities ==
    ASSUME NEW ve, NEW sp, ve = [x \in Indices |-> 0], sp = [x \in Indices |-> 0]
    PROVE  EntitiesOK(ve, sp, <<>>, <<>>, 0) /\ GenerationsOK(ve, sp, {})
<1>1. 0 \in Versions /\ 0 \in 0 .. MaxEntities
    BY SparseSetAssumption DEF Versions
<1>2. Linked(sp, <<>>)
    BY DEF Linked
<1>3. FreeOK(sp, <<>>, 0)
    BY SparseSetAssumption DEF FreeOK, Indices
<1>4. EntitiesOK(ve, sp, <<>>, <<>>, 0)
    BY <1>1, <1>2, <1>3 DEF EntitiesOK
<1>5. GenerationsOK(ve, sp, {})
    BY DEF GenerationsOK, GoneOf
<1> QED
    BY <1>4, <1>5, Zenon

(* Every step keeps the entity manager consistent, the restore of a
   snapshot included. *)
LEMMA NextEntityInv == EntityInv /\ SnapInv /\ [Next]_vars => EntityInv'
<1> SUFFICES ASSUME EntityInv, SnapInv, [Next]_vars PROVE EntityInv'
    BY Zenon
<1>1. CASE Create /\ gone' = gone
    BY <1>1, CreateKeeps, Zenon DEF EntityInv
<1>2. ASSUME NEW id \in Held, Destroy(id), gone' = gone \cup {id} PROVE EntityInv'
    BY <1>2, HeldIds, DestroyKeeps, Zenon DEF EntityInv
<1>3. CASE snap # NoSnap /\ RestoreEntities(snap.entities) /\ gone' = snap.gone
    BY <1>3, Zenon DEF EntityInv, SnapInv, SavedOK, RestoreEntities, Snapshots
<1>4. CASE Recreate
    BY <1>4, FreshEntities, Zenon DEF Recreate, EntityInv
<1>5. CASE UNCHANGED <<entities, gone>>
    BY <1>5, Zenon DEF entities, EntityInv
<1> QED
    BY <1>1, <1>2, <1>3, <1>4, <1>5, EntityChanges, Zenon

\* What a step may do to the columns.
LEMMA ColumnChanges ==
    ASSUME [Next]_vars
    PROVE  \/ \E id \in Held, c \in Comps, v \in Values : SetNew(c, id, v) \/ SetPresent(c, id, v)
           \/ \E id \in Held, c \in Comps : Remove(c, id)
           \/ \E c \in Comps : Register(c)
           \/ snap # NoSnap /\ RestoreComponents(snap.components)
           \/ Recreate
           \/ UNCHANGED components
<1>1. CASE CreateEntity
    BY <1>1, Zenon DEF CreateEntity
<1>2. ASSUME NEW id \in Held, DestroyEntity(id) PROVE UNCHANGED components
    BY <1>2, Zenon DEF DestroyEntity
<1>3. ASSUME NEW id \in Held, NEW c \in Comps, RemoveComponent(c, id) PROVE Remove(c, id)
    BY <1>3, Zenon DEF RemoveComponent
<1>4. ASSUME NEW id \in Held, NEW c \in Comps, NEW v \in Values,
             AddComponent(c, id, v) \/ WriteComponent(c, id, v)
      PROVE  SetNew(c, id, v) \/ SetPresent(c, id, v)
    BY <1>4, Zenon DEF AddComponent, WriteComponent
<1>5. ASSUME NEW id \in Held,
             RemoveEntityTags(id) \/ \E t \in Tags : AddTag(id, t) \/ RemoveTag(id, t)
      PROVE  UNCHANGED components
    BY <1>5, Zenon DEF RemoveEntityTags, AddTag, RemoveTag
<1>6. ASSUME \/ \E v \in Values : SetResource(v)
             \/ TakeSnapshot \/ RegisterPayloadType
             \/ \E s \in Systems : FetchBegins(s) \/ FetchReads(s) \/ FetchEnds(s)
      PROVE  UNCHANGED components
    BY <1>6, Zenon DEF SetResource, TakeSnapshot, RegisterPayloadType, FetchBegins, FetchReads, FetchEnds
<1>7. ASSUME NEW c \in Comps, RegisterComponent(c) PROVE Register(c)
    BY <1>7, Zenon DEF RegisterComponent
<1>8. ASSUME Restore \/ RestoreFailsAtComponent \/ RestoreFailsAtResource \/ RestoreFailsAtEvents
      PROVE  snap # NoSnap /\ RestoreComponents(snap.components)
    BY <1>8, Zenon DEF Restore, RestoreFailsAtComponent, RestoreFailsAtResource, RestoreFailsAtEvents
<1>9. CASE UNCHANGED vars
    BY <1>9, Zenon DEF vars
<1> QED
    BY <1>1, <1>2, <1>3, <1>4, <1>5, <1>6, <1>7, <1>8, <1>9, Zenon DEF Next

\* Replacing one column by a consistent one.
LEMMA OneColumn ==
    ASSUME ColumnInv, NEW c \in Comps, NEW col, ColumnOK(col), names' = names,
           cols' = [cols EXCEPT ![c] = col]
    PROVE  ColumnInv'
<1>1. col \in Columns
    BY Zenon DEF ColumnOK
<1>2. cols' \in [Comps -> Columns]
    BY <1>1, Zenon DEF ColumnInv
<1>3. \A d \in Comps : cols'[d] = IF d = c THEN col ELSE cols[d]
    BY Zenon DEF ColumnInv
<1>4. \A d \in Comps : ColumnOK(cols'[d])
    BY <1>3, Zenon DEF ColumnInv
<1> QED
    BY <1>2, <1>4, Zenon DEF ColumnInv

(* Every step keeps every component column linked and as long as its
   data. *)
LEMMA NextColumnInv == EntityInv /\ ColumnInv /\ SnapInv /\ [Next]_vars => ColumnInv'
<1> SUFFICES ASSUME EntityInv, ColumnInv, SnapInv, [Next]_vars PROVE ColumnInv'
    BY Zenon
<1>0. Held \subseteq Ids /\ \A id \in Ids : id.index \in Indices
    BY HeldIds, IdFields, Zenon
<1>1. ASSUME NEW id \in Held, NEW c \in Comps, NEW v \in Values, SetNew(c, id, v)
      PROVE  ColumnInv'
  <2>1. ColumnOK(cols[c]) /\ cols[c].sparse[id.index] = 0 /\ id \in Ids
    BY <1>0, <1>1, Zenon DEF ColumnInv, SetNew, Has
  <2> DEFINE col == [sparse |-> Link(cols[c].sparse, cols[c].dense, id.index),
                     dense |-> Append(cols[c].dense, id), data |-> Append(cols[c].data, v)]
  <2>2. ColumnOK(col)
    BY <2>1, ColumnAppend, Zenon
  <2>3. cols' = [cols EXCEPT ![c] = col] /\ names' = names
    BY <1>1, Zenon DEF SetNew
  <2> HIDE DEF col
  <2> QED
    BY <2>2, <2>3, OneColumn, Zenon
<1>2. ASSUME NEW id \in Held, NEW c \in Comps, NEW v \in Values, SetPresent(c, id, v)
      PROVE  ColumnInv'
  <2>1. ColumnOK(WithValue(cols[c], id.index, v))
    BY <1>0, <1>2, ColumnWrite, Zenon DEF ColumnInv, SetPresent, Has
  <2> QED
    BY <1>2, <2>1, OneColumn, Zenon DEF SetPresent
<1>3. ASSUME NEW id \in Held, NEW c \in Comps, Remove(c, id) PROVE ColumnInv'
  <2>1. ColumnOK(WithoutRow(cols[c], id.index))
    BY <1>0, <1>3, ColumnSwapRemove, Zenon DEF ColumnInv, Remove, Has
  <2> QED
    BY <1>3, <2>1, OneColumn, Zenon DEF Remove
<1>4. ASSUME NEW c \in Comps, Register(c) PROVE ColumnInv'
  <2>1. names \in Seq(Comps) /\ \A i \in DOMAIN names : names[i] # c
    BY <1>4, Zenon DEF ColumnInv, Register, Registered
  <2>2. names' = Append(names, c) /\ cols' = cols
    BY <1>4, Zenon DEF Register
  <2>3. /\ names' \in Seq(Comps) /\ DOMAIN names = 1 .. Len(names) /\ Len(names) \in Nat
        /\ DOMAIN names' = 1 .. Len(names) + 1
        /\ names'[Len(names) + 1] = c /\ \A i \in DOMAIN names : names'[i] = names[i]
    BY <2>1, <2>2
  <2>4. ASSUME NEW i \in DOMAIN names', NEW j \in DOMAIN names', names'[i] = names'[j] PROVE i = j
    <3>1. i \in DOMAIN names <=> j \in DOMAIN names
      BY <2>1, <2>3, <2>4
    <3>2. CASE i \in DOMAIN names
      BY <2>3, <2>4, <3>1, <3>2, Zenon DEF ColumnInv
    <3> QED
      BY <2>3, <3>1, <3>2
  <2> QED
    BY <2>2, <2>3, <2>4, Zenon DEF ColumnInv
<1>5. CASE snap # NoSnap /\ RestoreComponents(snap.components)
  <2> DEFINE s == snap.components
             Source(c) == CHOOSE i \in RestoredParts(s) : s[i].name = c
  <2>1. \A i \in DOMAIN s : Decodable(s[i]) => ColumnOK(RestoredColumn(s[i]))
    BY <1>5, Zenon DEF SnapInv, SavedOK
  <2>2. /\ names' = names
        /\ cols' = [c \in Comps |-> IF \E i \in RestoredParts(s) : s[i].name = c
                                    THEN RestoredColumn(s[Source(c)]) ELSE cols[c]]
    BY <1>5, Zenon DEF RestoreComponents
  <2>a. ASSUME NEW i \in RestoredParts(s) PROVE i \in DOMAIN s /\ Decodable(s[i])
    <3>1. s \in Seq(SavedColumns)
      BY <1>5, Zenon DEF SnapInv, SavedOK, Snapshots
    <3>2. i \in DOMAIN s /\ i \in 1 .. i
      BY <3>1 DEF RestoredParts
    <3> QED
      BY <3>2, Zenon DEF RestoredParts
  <2>3. ASSUME NEW c \in Comps, \E i \in RestoredParts(s) : s[i].name = c
        PROVE  Source(c) \in DOMAIN s /\ Decodable(s[Source(c)])
    BY <2>3, <2>a, Zenon
  <2> HIDE DEF s, Source
  <2>4. \A c \in Comps : ColumnOK(cols'[c])
    BY <2>1, <2>2, <2>3, Zenon DEF ColumnInv
  <2>5. \A c \in Comps : cols'[c] \in Columns
    BY <2>4, Zenon DEF ColumnOK
  <2>6. cols' = [c \in Comps |-> cols'[c]]
    BY <2>2, Zenon
  <2> QED
    BY <2>2, <2>4, <2>5, <2>6, Zenon DEF ColumnInv
<1>6. CASE Recreate
  <2>1. names' = Declared /\ cols' = [c \in Comps |-> EmptyColumn]
    BY <1>6, Zenon DEF Recreate
  <2> QED
    BY <2>1, ColumnEmpty, WorldAssumption, Zenon DEF ColumnInv, ColumnOK
<1>7. CASE UNCHANGED components
    BY <1>7, Zenon DEF components, ColumnInv
<1> QED
    BY <1>1, <1>2, <1>3, <1>4, <1>5, <1>6, <1>7, ColumnChanges, Zenon

\* What is saved of a consistent world can be restored.
LEMMA CaptureOK ==
    ASSUME EntityInv, ColumnInv, LabelInv, \A c \in Registered : Encodable(c), NEW p \in Payloads
    PROVE  SavedOK(Capture(p))
<1> DEFINE s == Capture(p)
<1>1. Rebuild(dense) = sparse
    BY RebuildInverse, Zenon DEF EntityInv, EntitiesOK
<1>2. s.entities = [dense |-> dense, next |-> next, free |-> free, versions |-> versions]
      /\ s.gone = gone /\ s.tagged = tagged /\ s.resource = Json[resource]
      /\ s.payload = p
      /\ s.components = ComponentsSnapshot
    BY Zenon DEF Capture, EntitiesSnapshot
<1>3. EntitiesOK(s.entities.versions, Rebuild(s.entities.dense), s.entities.dense,
                 s.entities.free, s.entities.next)
      /\ GenerationsOK(s.entities.versions, Rebuild(s.entities.dense), s.gone)
    BY <1>1, <1>2 DEF EntityInv
<1>4. names \in Seq(Comps) /\ DOMAIN names = 1 .. Len(names) /\ Len(names) \in Nat
    BY DEF ColumnInv
<1>5. DOMAIN s.components = DOMAIN names
      /\ \A i \in DOMAIN names :
            s.components[i] = [name |-> names[i], dense |-> cols[names[i]].dense,
                               data |-> Encoded(cols[names[i]].data)]
    BY <1>2, Zenon DEF ComponentsSnapshot
<1>6. \A i, j \in DOMAIN s.components : s.components[i].name = s.components[j].name => i = j
  <2> HIDE DEF s
  <2>1. ASSUME NEW i \in DOMAIN names PROVE s.components[i].name = names[i]
    <3>1. s.components[i] = [name |-> names[i], dense |-> cols[names[i]].dense,
                             data |-> Encoded(cols[names[i]].data)]
      BY <1>5, Zenon
    <3> QED
      BY ONLY <3>1, SavedRowFields
  <2> QED
    BY <1>5, <2>1 DEF ColumnInv
<1>a. ASSUME NEW i \in DOMAIN names
      PROVE  /\ names[i] \in Comps /\ ColumnOK(cols[names[i]])
             /\ \A q \in DOMAIN cols[names[i]].data : Json[cols[names[i]].data[q]] # NoValue
  <2>1. names[i] \in Comps
    BY <1>4
  <2>2. names[i] \in Registered
    BY Zenon DEF Registered
  <2> QED
    BY <2>1, <2>2, Zenon DEF ColumnInv, Encodable
<1>7. ASSUME NEW i \in DOMAIN s.components, Decodable(s.components[i])
      PROVE  ColumnOK(RestoredColumn(s.components[i]))
  <2> HIDE DEF s
  <2>0. s.components[i] = [name |-> names[i], dense |-> cols[names[i]].dense,
                           data |-> Encoded(cols[names[i]].data)]
    BY <1>5, Zenon
  <2>1. s.components[i].dense = cols[names[i]].dense /\ s.components[i].data = Encoded(cols[names[i]].data)
    BY ONLY <2>0, SavedRowFields
  <2> QED
    BY <1>5, <1>7, <1>a, <2>1, ColumnRestored, Zenon
<1>8. s.components \in Seq(SavedColumns)
  <2>1. ASSUME NEW i \in 1 .. Len(names)
        PROVE  [name |-> names[i], dense |-> cols[names[i]].dense,
                data |-> Encoded(cols[names[i]].data)] \in SavedColumns
    <3>1. names[i] \in Comps /\ cols[names[i]].dense \in Seq(Ids) /\ cols[names[i]].data \in Seq(Values)
      BY <1>4, <1>a, Zenon DEF ColumnOK, Columns
    <3>2. Encoded(cols[names[i]].data) \in Seq(Values \cup {Garbled})
      BY <1>4, <1>a, <3>1, EncodedFacts, Zenon
    <3> QED
      BY <3>1, <3>2, Zenon DEF SavedColumns
  <2>2. s.components = [i \in 1 .. Len(names) |->
            [name |-> names[i], dense |-> cols[names[i]].dense, data |-> Encoded(cols[names[i]].data)]]
    BY <1>2, <1>4, Zenon DEF ComponentsSnapshot
  <2> QED
    BY <1>4, <2>1, <2>2
<1>9. s \in Snapshots
  <2>1. s.entities \in SavedEntities
    BY <1>2, SMTT(30) DEF EntityInv, EntitiesOK, SavedEntities
  <2>2. s = [entities |-> s.entities, components |-> s.components, tagged |-> s.tagged,
             resource |-> s.resource, payload |-> s.payload, gone |-> s.gone]
    BY Zenon DEF Capture
  <2>3. s.tagged \in SUBSET (Ids \X Tags) /\ s.resource \in Values \cup {NoValue, Garbled}
        /\ s.payload \in Payloads /\ s.gone \in SUBSET Ids
    BY <1>2, ComponentsAssumption, Zenon DEF EntityInv, LabelInv
  <2> HIDE DEF s
  <2> QED
    BY <1>8, <2>1, <2>2, <2>3, Zenon DEF Snapshots
<1> HIDE DEF s
<1>10. SavedOK(s)
    BY <1>3, <1>6, <1>7, <1>9, Zenon DEF SavedOK
<1> QED
    BY <1>10, Zenon DEF s

(* The saved snapshot stays one that a consistent world wrote. *)
LEMMA NextSnapInv == WorldInv /\ [Next]_vars => SnapInv'
<1> SUFFICES ASSUME WorldInv, [Next]_vars PROVE SnapInv'
    BY Zenon
<1>1. CASE TakeSnapshot
    BY <1>1, CaptureOK, Zenon DEF TakeSnapshot, SnapInv, WorldInv
<1>2. CASE snap' = snap
    BY <1>2, Zenon DEF SnapInv, WorldInv
<1>3. ASSUME NEW id \in Held, NEW c \in Comps,
             \/ RemoveComponent(c, id)
             \/ \E v \in Values : AddComponent(c, id, v) \/ WriteComponent(c, id, v)
      PROVE  snap' = snap
    BY <1>3, Zenon DEF RemoveComponent, AddComponent, WriteComponent
<1>4. ASSUME NEW id \in Held, DestroyEntity(id) \/ RemoveEntityTags(id)
                              \/ \E t \in Tags : AddTag(id, t) \/ RemoveTag(id, t)
      PROVE  snap' = snap
    BY <1>4, Zenon DEF DestroyEntity, RemoveEntityTags, AddTag, RemoveTag
<1>5. ASSUME CreateEntity \/ (\E c \in Comps : RegisterComponent(c))
             \/ (\E v \in Values : SetResource(v)) \/ Restore \/ RestoreFailsAtComponent
             \/ RestoreFailsAtResource \/ RestoreFailsAtEvents \/ RegisterPayloadType \/ Recreate
             \/ \E s \in Systems : FetchBegins(s) \/ FetchReads(s) \/ FetchEnds(s)
      PROVE  snap' = snap
    BY Zenon, <1>5 DEF CreateEntity, RegisterComponent, SetResource, Restore,
       RestoreFailsAtComponent,
                RestoreFailsAtResource, RestoreFailsAtEvents, RegisterPayloadType, Recreate, FetchBegins, FetchReads, FetchEnds
<1>6. CASE UNCHANGED vars
    BY <1>6, <1>2, Zenon DEF vars
<1> QED
    BY <1>1, <1>2, <1>3, <1>4, <1>5, <1>6, Zenon DEF Next

(* Every step keeps tags, resource, revision, cache and the calls of
   entitySet within their types. *)
LEMMA NextLabelInv == WorldInv /\ [Next]_vars => LabelInv'
<1> SUFFICES ASSUME WorldInv, [Next]_vars PROVE LabelInv'
    OBVIOUS
<1>0. /\ Held \subseteq Ids /\ model' = model /\ model.bound \in Nat
      /\ LabelInv /\ revision \in 0 .. model.bound
  <2>1. model' = model
    BY Zenon DEF Next, vars
  <2>2. model \in [uses : SUBSET AllUses, values : SUBSET Values, bound : Nat]
    BY WorldAssumption, Zenon DEF WorldInv, LabelInv
  <2> QED
    BY <2>1, <2>2, HeldIds, Zenon DEF WorldInv, LabelInv
<1>b. ASSUME Bump PROVE revision' \in 0 .. model.bound /\ torn' \in BOOLEAN
  <2>1. revision < model.bound /\ revision' = revision + 1
    BY <1>b, Zenon DEF Bump
  <2>2. revision' \in 0 .. model.bound
    BY <1>0, <2>1
  <2>3. torn' \in BOOLEAN
    BY <1>b, Zenon DEF Bump
  <2> QED
    BY <2>2, <2>3, Zenon
<1>1. ASSUME Bump, UNCHANGED labels PROVE LabelInv'
    BY <1>0, <1>1, <1>b, Zenon DEF LabelInv, labels
<1>2. ASSUME revision' = revision, torn' = torn, UNCHANGED labels PROVE LabelInv'
    BY <1>0, <1>2, Zenon DEF LabelInv, labels
<1>3. ASSUME NEW id \in Held, NEW c \in Comps, RemoveComponent(c, id) PROVE LabelInv'
    BY <1>1, <1>3, Zenon DEF RemoveComponent
<1>4. ASSUME NEW id \in Held, NEW c \in Comps, NEW v \in Values, AddComponent(c, id, v)
      PROVE  LabelInv'
    BY <1>1, <1>4, Zenon DEF AddComponent
<1>5. ASSUME NEW id \in Held, NEW c \in Comps, NEW v \in Values, WriteComponent(c, id, v)
      PROVE  LabelInv'
    BY <1>2, <1>5, Zenon DEF WriteComponent
<1>6. ASSUME CreateEntity \/ \E id \in Held : DestroyEntity(id) PROVE LabelInv'
    BY <1>1, <1>6, Zenon DEF CreateEntity, DestroyEntity
<1>7. ASSUME NEW id \in Held,
             RemoveEntityTags(id) \/ \E t \in Tags : AddTag(id, t) \/ RemoveTag(id, t)
      PROVE  LabelInv'
  <2>1. resource' = resource /\ known' = known /\ revision' = revision /\ torn' = torn
    BY <1>7, Zenon DEF RemoveEntityTags, AddTag, RemoveTag
  <2>2. tagged' \subseteq Ids \X Tags
    BY <1>0, <1>7 DEF RemoveEntityTags, AddTag, RemoveTag, LabelInv
  <2> QED
    BY <1>0, <2>1, <2>2, Zenon DEF LabelInv
<1>8. ASSUME NEW v \in Values, SetResource(v) PROVE LabelInv'
    BY <1>0, <1>8, Zenon DEF SetResource, LabelInv
<1>c. CASE RegisterPayloadType
    BY <1>0, <1>c, Zenon DEF RegisterPayloadType, LabelInv
<1>9. ASSUME \/ \E c \in Comps : RegisterComponent(c)
             \/ TakeSnapshot
             \/ \E s \in Systems : FetchBegins(s) \/ FetchReads(s) \/ FetchEnds(s)
      PROVE  LabelInv'
    BY <1>2, <1>9, Zenon DEF RegisterComponent, TakeSnapshot, FetchBegins, FetchReads, FetchEnds
<1>10. ASSUME Restore \/ RestoreFailsAtComponent \/ RestoreFailsAtResource \/ RestoreFailsAtEvents PROVE LabelInv'
  <2>1. snap.tagged \subseteq Ids \X Tags /\ snap.resource \in Values \cup {NoValue, Garbled}
    BY Zenon, <1>10 DEF Restore, RestoreFailsAtComponent, RestoreFailsAtResource, RestoreFailsAtEvents, WorldInv, SnapInv,
                 SavedOK, Snapshots
  <2>2. CASE Restore
    BY <1>0, <1>b, <2>1, <2>2, Zenon DEF Restore, ResourceRestorable, LabelInv, NoValue, Garbled
  <2>3. CASE RestoreFailsAtComponent
    BY <1>0, <2>3, Zenon DEF RestoreFailsAtComponent, LabelInv, labels
  <2>4. CASE RestoreFailsAtResource
    BY <1>0, <2>1, <2>4, Zenon DEF RestoreFailsAtResource, LabelInv
  <2>5. CASE RestoreFailsAtEvents
    BY <1>0, <2>1, <2>5, Zenon DEF RestoreFailsAtEvents, ResourceRestorable, LabelInv, NoValue, Garbled
  <2> QED
    BY <1>10, <2>2, <2>3, <2>4, <2>5, Zenon
<1>11. CASE Recreate
  <2>1. tagged' = {} /\ resource' = NoValue /\ revision' = 0
    BY <1>11, Zenon DEF Recreate
  <2>2. known' \subseteq {"resource", "payload"} /\ torn' \in BOOLEAN
    BY <1>11, Zenon DEF Recreate
  <2>3. revision' \in 0 .. model.bound
    BY <1>0, <2>1
  <2> QED
    BY <1>0, <2>1, <2>2, <2>3, Zenon DEF LabelInv
<1>12. CASE UNCHANGED vars
    BY <1>2, <1>12, Zenon DEF vars
<1> QED
    BY <1>3, <1>4, <1>5, <1>6, <1>7, <1>8, <1>9, <1>10, <1>11, <1>12, <1>c, Zenon DEF Next

(* A new world is consistent. *)
LEMMA InitWorldInv == Init => WorldInv
<1> SUFFICES ASSUME Init PROVE WorldInv
    BY Zenon
<1>1. EntityInv
    BY FreshEntities, Zenon DEF Init, InitEntities, EntityInv
<1>2. ColumnInv
  <2>1. names = Declared /\ cols = [c \in Comps |-> EmptyColumn]
    BY Zenon DEF Init
  <2> QED
    BY <2>1, ColumnEmpty, WorldAssumption, Zenon DEF ColumnInv, ColumnOK
<1>3. LabelInv
  <2>1. tagged = {} /\ resource = NoValue /\ revision = 0 /\ model \in Models
    BY Zenon DEF Init
  <2>2. known \subseteq {"resource", "payload"} /\ torn \in BOOLEAN
    BY Zenon DEF Init
  <2>3. revision \in 0 .. model.bound
    BY <2>1, WorldAssumption
  <2> QED
    BY <2>1, <2>2, <2>3, Zenon DEF LabelInv
<1>4. SnapInv
    BY Zenon DEF Init, SnapInv
<1> QED
    BY <1>1, <1>2, <1>3, <1>4, Zenon DEF WorldInv

\* Every operation, restore and failed restore keeps the world consistent.
THEOREM Consistency == Spec => []WorldInv
<1>1. WorldInv /\ [Next]_vars => WorldInv'
    BY NextEntityInv, NextColumnInv, NextLabelInv, NextSnapInv, Zenon DEF WorldInv
<1> QED
    BY <1>1, InitWorldInv, PTL DEF Spec

\* The world is well typed.
THEOREM TypeCorrectness == Spec => []TypeOK
<1>1. WorldInv => TypeOK
  <2> SUFFICES ASSUME WorldInv PROVE TypeOK
      BY Zenon
  <2>1. \A c \in Comps : Len(cols[c].data) = Len(cols[c].dense)
    BY Zenon DEF WorldInv, ColumnInv, ColumnOK
  <2>2. cols \in [Comps -> [sparse : [Indices -> Nat], dense : Seq(Ids), data : Seq(Values)]]
    BY Zenon DEF WorldInv, ColumnInv, Columns
  <2> QED
    BY <2>1, <2>2, Zenon DEF WorldInv, EntityInv, EntitiesOK, ColumnInv, LabelInv, TypeOK
<1> QED
    BY <1>1, Consistency, PTL

\* The two halves of every sparse set, of entities and of columns, stay inverse to
\* each other through any sequence of operations, restores and failed restores.
THEOREM SparseSets == Spec => []SparseSetsLinked
<1>1. WorldInv => SparseSetsLinked
    BY Zenon DEF WorldInv, EntityInv, EntitiesOK, ColumnInv, ColumnOK, SparseSetsLinked
<1> QED
    BY <1>1, Consistency, PTL

\* No index leaks and none is handed out twice.
THEOREM FreeList == Spec => []FreeListExact
<1>1. WorldInv => FreeListExact
    BY Zenon DEF WorldInv, EntityInv, EntitiesOK, FreeOK, FreeListExact
<1> QED
    BY <1>1, Consistency, PTL

\* A destroyed ID is alive again only after its index went through all of its
\* generations, however entities are created, destroyed, saved and restored.
THEOREM StaleIds == Spec => []StaleStaysDead
<1>1. WorldInv => StaleStaysDead
  <2> SUFFICES ASSUME WorldInv, NEW id \in gone, Alive(id), NEW v \in Versions
               PROVE  [index |-> id.index, version |-> v] \in gone
      BY Zenon DEF StaleStaysDead
  <2> DEFINE x == id.index
  <2>1. /\ id \in Ids /\ x \in Indices /\ id.version \in Versions
        /\ id = [index |-> x, version |-> id.version]
    BY IdFields, Zenon DEF WorldInv, EntityInv, Ids
  <2>2. versions[x] = id.version /\ sparse[x] # 0
    BY Zenon DEF Alive
  <2>3. versions[x] \in GoneOf(gone, x)
    BY <2>1, <2>2, Zenon DEF GoneOf
  <2>4. versions[x] \in 0 .. VersionSpace - 1
    BY <2>1, <2>2, Zenon DEF Versions
  <2>5. GoneOf(gone, x) = Versions
    <3> HIDE DEF x
    <3>1. versions[x] # 0 => versions[x] \notin 1 .. versions[x] - 1
      BY <2>4
    <3>2. versions[x] = 0 => versions[x] \notin 1 .. VersionSpace - 1
      BY <2>4
    <3> QED
      BY <2>1, <2>2, <2>3, <3>1, <3>2, Zenon DEF WorldInv, EntityInv, GenerationsOK
  <2> QED
    BY <2>5, Zenon DEF GoneOf
<1> QED
    BY <1>1, Consistency, PTL

-----------------------------------------------------------------------------
(* Merging *)

\* Induction on the naturals, for a set.
LEMMA Induction ==
    ASSUME NEW S, 0 \in S, \A n \in Nat : n \in S => n + 1 \in S
    PROVE  \A n \in Nat : n \in S
<1> SUFFICES ASSUME Nat \ S # {} PROVE FALSE
    BY Zenon
<1> DEFINE R == OpToRel(<, Nat)
<1>1. IsWellFoundedOn(R, Nat) /\ \A a, b \in Nat : <<a, b>> \in R <=> a < b
    BY NatLessThanWellFounded, Zenon DEF OpToRel
<1> HIDE DEF R
<1>2. PICK T : T = Nat \ S
    BY Zenon
<1>3. PICK x \in T : \A y \in T : ~ (<<y, x>> \in R)
    BY <1>1, <1>2, WFMin
<1>4. x \in Nat /\ x # 0 /\ x - 1 \in Nat
    BY <1>2, <1>3
<1>5. x - 1 \in S
  <2>1. x - 1 < x
    BY <1>4
  <2>2. <<x - 1, x>> \in R
    BY <1>1, <1>4, <2>1, Zenon
  <2> QED
    BY <1>2, <1>3, <1>4, <2>2, Zenon
<1> QED
    BY <1>2, <1>3, <1>4, <1>5

\* g is the recursive function of Merged up to n.
MergedTo(g, es, n) ==
    g = [k \in 0 .. n |-> IF k = 0 THEN <<>> ELSE Merge(g[k - 1], es[k])]

\* The recursive function that Merged describes exists.
LEMMA MergedExists ==
    ASSUME NEW es, NEW n \in Nat
    PROVE  \E g : MergedTo(g, es, n)
<1> DEFINE S == {k \in Nat : \E g : MergedTo(g, es, k)}
<1>1. 0 \in S
  <2>1. MergedTo([k \in 0 .. 0 |-> <<>>], es, 0)
    BY DEF MergedTo
  <2> QED BY <2>1, Zenon
<1>2. ASSUME NEW k \in Nat, k \in S PROVE k + 1 \in S
  <2>1. PICK g : MergedTo(g, es, k)
    BY <1>2, Zenon
  <2> DEFINE h == [i \in 0 .. k + 1 |-> IF i = k + 1 THEN Merge(g[k], es[k + 1]) ELSE g[i]]
  <2>2. \A i \in 0 .. k : h[i] = g[i] /\ g[i] = IF i = 0 THEN <<>> ELSE Merge(g[i - 1], es[i])
    BY <2>1 DEF MergedTo
  <2>3. \A i \in 0 .. k + 1 : h[i] = IF i = 0 THEN <<>> ELSE Merge(h[i - 1], es[i])
    BY <2>2
  <2>4. h = [i \in 0 .. k + 1 |-> h[i]]
    BY Zenon
  <2> HIDE DEF h
  <2>5. MergedTo(h, es, k + 1)
    BY <2>3, <2>4, Zenon DEF MergedTo
  <2> QED BY <2>5
<1> HIDE DEF S
<1>3. n \in S
    BY <1>1, <1>2, Induction, Zenon
<1> QED BY <1>3, Zenon DEF S

\* What Merged computes.
LEMMA MergedSteps ==
    ASSUME NEW es, Len(es) \in Nat
    PROVE  /\ Merged(es)[0] = <<>>
           /\ \A n \in 1 .. Len(es) : Merged(es)[n] = Merge(Merged(es)[n - 1], es[n])
<1>1. Merged(es) = CHOOSE g : MergedTo(g, es, Len(es))
    BY Zenon DEF Merged, MergedTo
<1>2. MergedTo(Merged(es), es, Len(es))
    BY <1>1, MergedExists, Zenon
<1> QED BY <1>2 DEF MergedTo

\* Merging nothing with nothing.
LEMMA MergeNothing == Merge(<<>>, <<>>) = <<>>
<1> DEFINE E(g) == g = [n \in 0 .. 0 |->
                IF n = 0 THEN <<>>
                ELSE IF \E i \in DOMAIN g[n - 1] : g[n - 1][i] = <<>>[n] THEN g[n - 1]
                ELSE Append(g[n - 1], <<>>[n])]
<1>1. E([n \in 0 .. 0 |-> <<>>])
    OBVIOUS
<1>2. PICK out : out = CHOOSE g : E(g)
    BY Zenon
<1>3. E(out)
    BY <1>1, <1>2
<1>4. Len(<<>>) = 0
    BY Zenon
<1>5. Merge(<<>>, <<>>) = out[0]
    BY <1>2, <1>4, Zenon DEF Merge
<1> QED
    BY <1>3, <1>5

-----------------------------------------------------------------------------
(* The inductive invariant of the cache *)

\* What the call of entitySet for s has read so far is what a call that reads all
\* parts at once has after some of them.
FetchOK(s) ==
    \E k \in 0 .. Len(Parts(s)) :
       /\ fetch[s].ids = Merged(SystemEntries(s))[k]
       /\ fetch[s].todo \in Seq(Comps \cup {"entities"})
       /\ Len(fetch[s].todo) = Len(Parts(s)) - k
       /\ \A i \in 1 .. Len(fetch[s].todo) : fetch[s].todo[i] = Parts(s)[k + i]

SetOK(s) ==
    /\ fetch[s] = [busy |-> fetch[s].busy, rev |-> fetch[s].rev, ids |-> fetch[s].ids,
                   todo |-> fetch[s].todo]
    /\ cache[s].rev \in 0 .. revision /\ fetch[s].rev \in 0 .. revision
    /\ cache[s].rev = revision /\ ~ torn => cache[s].ids = SystemEntities(s)
    /\ fetch[s].busy /\ fetch[s].rev = revision /\ ~ torn => FetchOK(s)

SetInv ==
    /\ DOMAIN cache = Systems /\ DOMAIN fetch = Systems
    /\ \A s \in Systems : SetOK(s)

\* The parts of a system.
LEMMA PartsType ==
    ASSUME NEW s \in Systems
    PROVE  /\ Parts(s) \in Seq(Comps \cup {"entities"})
           /\ Len(Parts(s)) \in Nat /\ DOMAIN Parts(s) = 1 .. Len(Parts(s))
           /\ \A i \in 1 .. Len(Parts(s)) : Parts(s)[i] \in Comps \cup {"entities"}
           /\ Len(SystemEntries(s)) = Len(Parts(s))
           /\ \A i \in 1 .. Len(Parts(s)) : SystemEntries(s)[i] = Entries(Parts(s)[i])
<1>1. Access[s] \in Seq(Comps)
    BY WorldAssumption, Zenon
<1>2. Parts(s) \in Seq(Comps \cup {"entities"})
  <2>1. CASE Access[s] = <<>>
    <3>1. <<"entities">> \in Seq(Comps \cup {"entities"})
      OBVIOUS
    <3> QED
      BY <2>1, <3>1, Zenon DEF Parts
  <2>2. CASE Access[s] # <<>>
    <3>1. Access[s] \in Seq(Comps \cup {"entities"})
      BY <1>1
    <3> QED
      BY <2>2, <3>1, Zenon DEF Parts
  <2> QED
    BY <2>1, <2>2, Zenon
<1>3. Len(Parts(s)) \in Nat /\ DOMAIN Parts(s) = 1 .. Len(Parts(s))
      /\ \A i \in 1 .. Len(Parts(s)) : Parts(s)[i] \in Comps \cup {"entities"}
    BY <1>2
<1>4. Len(SystemEntries(s)) = Len(Parts(s))
    BY <1>3 DEF SystemEntries
<1> QED
    BY <1>2, <1>3, <1>4, Zenon DEF SystemEntries

\* Merging empty sequences gives the empty one.
LEMMA MergedNothing ==
    ASSUME NEW es, Len(es) \in Nat, \A i \in 1 .. Len(es) : es[i] = <<>>
    PROVE  Merged(es)[Len(es)] = <<>>
<1> DEFINE m == Merged(es)
           n == Len(es)
           S == {k \in Nat : k <= n => m[k] = <<>>}
<1>1. m[0] = <<>> /\ \A k \in 1 .. n : m[k] = Merge(m[k - 1], es[k])
    BY MergedSteps, Zenon
<1> HIDE DEF m
<1>2. 0 \in S
    BY <1>1, Zenon
<1>3. ASSUME NEW k \in Nat, k \in S PROVE k + 1 \in S
  <2>1. CASE k + 1 <= n
    <3>1. m[k] = <<>> /\ k + 1 \in 1 .. n /\ (k + 1) - 1 = k
      BY <1>3, <2>1
    <3>2. m[k + 1] = Merge(<<>>, <<>>)
      BY <1>1, <3>1, Zenon
    <3> QED
      BY <3>2, MergeNothing
  <2> QED
    BY <2>1
<1> HIDE DEF S
<1>4. n \in S
    BY <1>2, <1>3, Induction, Zenon
<1> QED
    BY <1>4 DEF S, m

\* What a step may do to the cached sets and to the calls of entitySet.
LEMMA SetChanges ==
    ASSUME WorldInv, [Next]_vars
    PROVE  \/ Bump /\ UNCHANGED sets
           \/ revision' = revision /\ torn' /\ UNCHANGED sets
           \/ Recreate
           \/ \E s \in Systems : FetchBegins(s) \/ FetchReads(s) \/ FetchEnds(s)
           \/ /\ UNCHANGED <<revision, torn, sets, dense>>
              /\ \A c \in Comps : cols'[c].dense = cols[c].dense
<1>1. CASE CreateEntity
    BY <1>1, Zenon DEF CreateEntity
<1>2. ASSUME NEW id \in Held, DestroyEntity(id) PROVE Bump /\ UNCHANGED sets
    BY <1>2, Zenon DEF DestroyEntity
<1>3. ASSUME NEW id \in Held, NEW c \in Comps,
             RemoveComponent(c, id) \/ \E v \in Values : AddComponent(c, id, v)
      PROVE  Bump /\ UNCHANGED sets
    BY <1>3, Zenon DEF RemoveComponent, AddComponent
<1>4. ASSUME NEW id \in Held, NEW c \in Comps, NEW v \in Values, WriteComponent(c, id, v)
      PROVE  /\ UNCHANGED <<revision, torn, sets, dense>>
             /\ \A d \in Comps : cols'[d].dense = cols[d].dense
  <2>1. /\ UNCHANGED <<revision, torn, sets, dense>>
        /\ cols' = [cols EXCEPT ![c] = WithValue(cols[c], id.index, v)]
    BY <1>4, Zenon DEF WriteComponent, SetPresent, entities
  <2>2. WithValue(cols[c], id.index, v).dense = cols[c].dense
    BY Zenon DEF WithValue, WorldInv, ColumnInv, Columns
  <2>3. DOMAIN cols = Comps
    BY Zenon DEF WorldInv, ColumnInv
  <2> QED
    BY <2>1, <2>2, <2>3, Zenon
<1>5. ASSUME \/ \E id \in Held : \/ RemoveEntityTags(id)
                                 \/ \E t \in Tags : AddTag(id, t) \/ RemoveTag(id, t)
             \/ \E c \in Comps : RegisterComponent(c)
             \/ \E v \in Values : SetResource(v)
             \/ TakeSnapshot \/ RegisterPayloadType
      PROVE  UNCHANGED <<revision, torn, sets, dense, cols>>
    BY Zenon, <1>5
       DEF RemoveEntityTags, AddTag, RemoveTag, RegisterComponent, Register, SetResource,
                TakeSnapshot, RegisterPayloadType, entities, components
<1>6. CASE Restore
    BY <1>6, Zenon DEF Restore
<1>7. CASE RestoreFailsAtComponent \/ RestoreFailsAtResource \/ RestoreFailsAtEvents
    BY <1>7, Zenon DEF RestoreFailsAtComponent, RestoreFailsAtResource, RestoreFailsAtEvents
<1>8. CASE UNCHANGED vars
    BY <1>8, Zenon DEF vars, entities, components
<1> QED
    BY <1>1, <1>2, <1>3, <1>4, <1>5, <1>6, <1>7, <1>8, Zenon DEF Next

\* Steps that change no row change no entity set.
LEMMA SameSets ==
    ASSUME dense' = dense, \A c \in Comps : cols'[c].dense = cols[c].dense, NEW s \in Systems
    PROVE  SystemEntries(s)' = SystemEntries(s) /\ SystemEntities(s)' = SystemEntities(s)
<1>1. \A c \in Comps \cup {"entities"} : Entries(c)' = Entries(c)
    BY Zenon DEF Entries
<1>2. Parts(s)' = Parts(s)
    BY Zenon DEF Parts
<1>3. SystemEntries(s)' = SystemEntries(s)
    BY <1>1, <1>2, PartsType, Zenon DEF SystemEntries
<1> QED
    BY <1>2, <1>3, Zenon DEF SystemEntities

\* In a world without rows a system has no entities.
LEMMA NoRows ==
    ASSUME NEW s \in Systems, NEW es, es = [i \in 1 .. Len(Parts(s)) |-> <<>>]
    PROVE  Merged(es)[Len(Parts(s))] = <<>>
<1>1. Len(es) = Len(Parts(s)) /\ Len(es) \in Nat
    BY PartsType
<1> QED
    BY <1>1, MergedNothing, Zenon

\* A step that leaves the rows, and the set and the call of s, alone.
LEMMA SetKept ==
    ASSUME UNCHANGED <<revision, torn, dense>>,
           \A c \in Comps : cols'[c].dense = cols[c].dense,
           NEW s \in Systems, SetOK(s), fetch'[s] = fetch[s], cache'[s] = cache[s]
    PROVE  SetOK(s)'
<1>1. SystemEntries(s)' = SystemEntries(s) /\ SystemEntities(s)' = SystemEntities(s)
      /\ Parts(s)' = Parts(s)
    BY SameSets, Zenon DEF Parts
<1>2. FetchOK(s) => FetchOK(s)'
    BY <1>1, Zenon DEF FetchOK
<1> QED
    BY <1>1, <1>2, Zenon DEF SetOK

(* A call of entitySet that read the present revision has read the present
   rows, whatever happened since. *)
LEMMA NextSetInv == WorldInv /\ SetInv /\ [Next]_vars => SetInv'
<1> SUFFICES ASSUME WorldInv, SetInv, [Next]_vars PROVE SetInv'
    BY Zenon
<1>0. revision \in Nat
  <2>1. model \in [uses : SUBSET AllUses, values : SUBSET Values, bound : Nat]
    BY WorldAssumption, Zenon DEF WorldInv, LabelInv
  <2> QED
    BY <2>1 DEF WorldInv, LabelInv
<1>1. CASE Bump /\ UNCHANGED sets
  <2>1. revision' = revision + 1 /\ cache' = cache /\ fetch' = fetch
    BY <1>1, Zenon DEF Bump, sets
  <2>2. ASSUME NEW s \in Systems PROVE SetOK(s)'
    <3>1. SetOK(s)
      BY Zenon DEF SetInv
    <3>2. cache'[s].rev \in 0 .. revision' /\ cache'[s].rev # revision'
          /\ fetch'[s].rev \in 0 .. revision' /\ fetch'[s].rev # revision'
      BY <1>0, <2>1, <3>1 DEF SetOK
    <3> QED
      BY <2>1, <3>1, <3>2, Zenon DEF SetOK
  <2> QED
    BY <2>1, <2>2, Zenon DEF SetInv
<1>2. CASE revision' = revision /\ torn' /\ UNCHANGED sets
    BY <1>2, Zenon DEF SetInv, SetOK, sets
<1>3. CASE Recreate
  <2>1. /\ revision' = 0 /\ cache' = EmptyCache /\ fetch' = NotFetching /\ dense' = <<>>
        /\ cols' = [c \in Comps |-> EmptyColumn]
    BY <1>3, Zenon DEF Recreate
  <2>2. ASSUME NEW s \in Systems PROVE SetOK(s)'
    <3>1. cache'[s] = [rev |-> 0, ids |-> <<>>] /\ fetch'[s] = NoFetch
      BY <2>1, Zenon DEF EmptyCache, NotFetching
    <3>2. SystemEntities(s)' = <<>>
      <4>1. \A c \in Comps \cup {"entities"} : Entries(c)' = <<>>
        BY <2>1, Zenon DEF Entries, EmptyColumn
      <4>2. Parts(s)' = Parts(s)
        BY Zenon DEF Parts
      <4>3. SystemEntries(s)' = [i \in 1 .. Len(Parts(s)) |-> <<>>]
        BY <4>1, <4>2, PartsType, Zenon DEF SystemEntries
      <4> QED
        BY <4>2, <4>3, NoRows, Zenon DEF SystemEntities
    <3> QED
      BY <2>1, <3>1, <3>2 DEF SetOK, NoFetch
  <2> QED
    BY <2>1, <2>2, Zenon DEF SetInv, EmptyCache, NotFetching
<1>4. ASSUME NEW s \in Systems, FetchBegins(s) PROVE SetInv'
  <2>1. /\ UNCHANGED <<revision, torn, cache, dense, cols>>
        /\ fetch' = [fetch EXCEPT ![s] = [busy |-> TRUE, rev |-> revision, ids |-> <<>>,
                                          todo |-> Parts(s)]]
    BY <1>4, Zenon DEF FetchBegins, entities, components
  <2>2. FetchOK(s)'
    <3>1. fetch'[s].ids = <<>> /\ fetch'[s].todo = Parts(s)
      BY <2>1, Zenon DEF SetInv
    <3>2. Merged(SystemEntries(s))[0] = <<>>
      BY PartsType, MergedSteps, Zenon
    <3>3. SystemEntries(s)' = SystemEntries(s) /\ Parts(s)' = Parts(s)
      BY <2>1, SameSets, Zenon DEF Parts
    <3> QED
      <4>1. Parts(s) \in Seq(Comps \cup {"entities"}) /\ Len(Parts(s)) \in Nat
        BY PartsType, Zenon
      <4>2. /\ 0 \in 0 .. Len(Parts(s)) /\ Len(Parts(s)) = Len(Parts(s)) - 0
            /\ \A i \in 1 .. Len(Parts(s)) : Parts(s)[i] = Parts(s)[0 + i]
        BY <4>1
      <4> QED BY <3>1, <3>2, <3>3, <4>1, <4>2, Zenon DEF FetchOK
  <2>3. SetOK(s)'
    <3>1. fetch'[s] = [busy |-> TRUE, rev |-> revision, ids |-> <<>>, todo |-> Parts(s)]
      BY <2>1, Zenon DEF SetInv
    <3>2. SystemEntities(s)' = SystemEntities(s)
      BY <2>1, SameSets, Zenon
    <3> QED
      BY <1>0, <2>1, <2>2, <3>1, <3>2 DEF SetInv, SetOK
  <2>4. \A t \in Systems \ {s} : SetOK(t)'
    BY <2>1, SetKept, Zenon DEF SetInv
  <2> QED
    BY <2>1, <2>3, <2>4, Zenon DEF SetInv
<1>5. ASSUME NEW s \in Systems, FetchReads(s) PROVE SetInv'
  <2>1. /\ UNCHANGED <<revision, torn, cache, dense, cols>>
        /\ fetch[s].busy /\ fetch[s].todo # <<>>
        /\ fetch' = [fetch EXCEPT ![s].ids = Merge(@, Entries(Head(fetch[s].todo))),
                                  ![s].todo = Tail(@)]
    BY <1>5, Zenon DEF FetchReads, entities, components
  <2>2. SetOK(s) /\ DOMAIN fetch = Systems
    BY Zenon DEF SetInv
  <2>3. fetch'[s] = [busy |-> fetch[s].busy, rev |-> fetch[s].rev,
                     ids |-> Merge(fetch[s].ids, Entries(Head(fetch[s].todo))),
                     todo |-> Tail(fetch[s].todo)]
    BY <2>1, <2>2, Zenon DEF SetOK
  <2>4. SystemEntries(s)' = SystemEntries(s) /\ SystemEntities(s)' = SystemEntities(s)
        /\ Parts(s)' = Parts(s)
    BY <2>1, SameSets, Zenon DEF Parts
  <2>5. ASSUME FetchOK(s) PROVE FetchOK(s)'
    <3>1. PICK k \in 0 .. Len(Parts(s)) :
             /\ fetch[s].ids = Merged(SystemEntries(s))[k]
             /\ fetch[s].todo \in Seq(Comps \cup {"entities"})
             /\ Len(fetch[s].todo) = Len(Parts(s)) - k
             /\ \A i \in 1 .. Len(fetch[s].todo) : fetch[s].todo[i] = Parts(s)[k + i]
      BY <2>5, Zenon DEF FetchOK
    <3>a. PICK todo : todo = fetch[s].todo
      BY Zenon
    <3>b. todo \in Seq(Comps \cup {"entities"}) /\ todo # <<>> /\ Len(todo) = Len(Parts(s)) - k
          /\ \A i \in 1 .. Len(todo) : todo[i] = Parts(s)[k + i]
      BY <2>1, <3>1, <3>a, Zenon
    <3>c. Len(todo) \in Nat \ {0} /\ Head(todo) = todo[1]
      BY <3>b
    <3>2. k + 1 \in 1 .. Len(Parts(s)) /\ Head(fetch[s].todo) = Parts(s)[k + 1]
      BY <3>a, <3>b, <3>c, PartsType
    <3>3. fetch'[s].ids = Merged(SystemEntries(s))[k + 1]
      <4>1. Merged(SystemEntries(s))[k + 1] =
              Merge(Merged(SystemEntries(s))[k], SystemEntries(s)[k + 1])
        <5>1. Len(SystemEntries(s)) \in Nat /\ k + 1 \in 1 .. Len(SystemEntries(s)) /\ (k + 1) - 1 = k
          BY <3>2, PartsType
        <5>2. Merged(SystemEntries(s))[k + 1] =
                Merge(Merged(SystemEntries(s))[(k + 1) - 1], SystemEntries(s)[k + 1])
          BY <5>1, MergedSteps, Zenon
        <5> QED
          BY <5>1, <5>2, Zenon
      <4> QED
        BY <2>3, <3>1, <3>2, <4>1, PartsType
    <3>4. /\ fetch'[s].todo \in Seq(Comps \cup {"entities"})
          /\ Len(fetch'[s].todo) = Len(Parts(s)) - (k + 1)
          /\ \A i \in 1 .. Len(fetch'[s].todo) : fetch'[s].todo[i] = Parts(s)[(k + 1) + i]
      <4>2. fetch'[s].todo = Tail(todo)
        BY <2>3, <3>a
      <4>3. /\ Tail(todo) \in Seq(Comps \cup {"entities"}) /\ Len(Tail(todo)) = Len(todo) - 1
            /\ \A i \in 1 .. Len(todo) - 1 : Tail(todo)[i] = todo[i + 1]
        BY <3>b
      <4>4. \A i \in 1 .. Len(todo) - 1 : i + 1 \in 1 .. Len(todo) /\ k + (i + 1) = (k + 1) + i
        BY <3>c
      <4> QED
        BY <3>b, <4>2, <4>3, <4>4, PartsType
    <3>5. k + 1 \in 0 .. Len(Parts(s))
      BY <3>2, PartsType
    <3> QED
      BY <2>4, <3>3, <3>4, <3>5, Zenon DEF FetchOK
  <2>6. SetOK(s)'
    BY <2>1, <2>2, <2>3, <2>4, <2>5, Zenon DEF SetOK
  <2>7. \A t \in Systems \ {s} : SetOK(t)'
    BY <2>1, SetKept, Zenon DEF SetInv
  <2> QED
    BY <2>1, <2>6, <2>7, Zenon DEF SetInv
<1>6. ASSUME NEW s \in Systems, FetchEnds(s) PROVE SetInv'
  <2>1. /\ UNCHANGED <<revision, torn, dense, cols>>
        /\ fetch[s].busy /\ fetch[s].todo = <<>>
        /\ cache' = [cache EXCEPT ![s] = [rev |-> fetch[s].rev, ids |-> fetch[s].ids]]
        /\ fetch' = [fetch EXCEPT ![s] = NoFetch]
    BY <1>6, Zenon DEF FetchEnds, entities, components
  <2>2. SetOK(s) /\ DOMAIN fetch = Systems /\ DOMAIN cache = Systems
    BY Zenon DEF SetInv
  <2>3. /\ fetch'[s] = NoFetch
        /\ cache'[s] = [rev |-> fetch[s].rev, ids |-> fetch[s].ids]
        /\ SystemEntities(s)' = SystemEntities(s)
    BY <2>1, <2>2, SameSets, Zenon
  <2>4. ASSUME FetchOK(s) PROVE fetch[s].ids = SystemEntities(s)
    BY <2>1, <2>4, PartsType DEF FetchOK, SystemEntities
  <2>5. SetOK(s)'
    BY <1>0, <2>1, <2>2, <2>3, <2>4 DEF SetOK, NoFetch
  <2>6. \A t \in Systems \ {s} : SetOK(t)'
    BY <2>1, SetKept, Zenon DEF SetInv
  <2> QED
    BY <2>1, <2>2, <2>5, <2>6, Zenon DEF SetInv
<1>7. CASE /\ UNCHANGED <<revision, torn, sets, dense>>
           /\ \A c \in Comps : cols'[c].dense = cols[c].dense
    BY <1>7, SetKept, Zenon DEF SetInv, sets
<1> QED
    BY <1>1, <1>2, <1>3, <1>4, <1>5, <1>6, <1>7, SetChanges, Zenon

\* The scheduler never uses an entity set that is out of date, however the reads
\* of entitySet interleave with structural changes, unless a Restore failed.
THEOREM FreshCache == Spec => []CacheFresh
<1>1. Init => SetInv
  <2> SUFFICES ASSUME Init, NEW s \in Systems PROVE SetOK(s)
    BY Zenon DEF Init, SetInv, EmptyCache, NotFetching
  <2>1. /\ revision = 0 /\ dense = <<>> /\ cols = [c \in Comps |-> EmptyColumn]
        /\ cache[s] = [rev |-> 0, ids |-> <<>>] /\ fetch[s] = NoFetch
    BY Zenon DEF Init, InitEntities, EmptyCache, NotFetching
  <2>2. \A c \in Comps \cup {"entities"} : Entries(c) = <<>>
    BY <2>1, Zenon DEF Entries, EmptyColumn
  <2>3. SystemEntries(s) = [i \in 1 .. Len(Parts(s)) |-> <<>>]
    BY <2>2, PartsType, Zenon DEF SystemEntries
  <2>4. SystemEntities(s) = <<>>
    BY <2>3, NoRows, Zenon DEF SystemEntities
  <2> QED
    BY <2>1, <2>4 DEF SetOK, NoFetch
<1>2. WorldInv /\ SetInv /\ [Next]_vars => SetInv'
    BY NextSetInv, Zenon
<1>3. SetInv => CacheFresh
    BY Zenon DEF SetInv, SetOK, CacheFresh, CacheCurrent
<1> QED
    BY <1>1, <1>2, <1>3, Consistency, PTL DEF Spec

-----------------------------------------------------------------------------
(* Rows *)

Rows(col) == RowsOfColumn(col.dense, col.data)

Row(col, i) == [owner |-> col.dense[i], value |-> col.data[i]]

\* The facts about a consistent column that its rows depend on.
LEMMA RowFacts ==
    ASSUME NEW col, ColumnOK(col)
    PROVE  /\ col.dense \in Seq(Ids) /\ col.data \in Seq(Values) /\ Len(col.dense) \in Nat
           /\ Len(col.data) = Len(col.dense)
           /\ DOMAIN col.dense = 1 .. Len(col.dense) /\ DOMAIN col.data = 1 .. Len(col.dense)
           /\ Rows(col) = {Row(col, i) : i \in 1 .. Len(col.dense)}
           /\ \A i, j \in 1 .. Len(col.dense) :
                 col.dense[i].index = col.dense[j].index => i = j
           /\ \A i \in 1 .. Len(col.dense) : col.dense[i] \in Ids /\ col.data[i] \in Values
           /\ \A i, j \in 1 .. Len(col.dense) : Row(col, i) = Row(col, j) => i = j
           /\ Rows(col) \subseteq [owner : Ids, value : Values]
<1>1. col.sparse \in [Indices -> Nat] /\ col.dense \in Seq(Ids) /\ col.data \in Seq(Values)
      /\ Len(col.data) = Len(col.dense) /\ Linked(col.sparse, col.dense)
    BY Zenon DEF ColumnOK, Columns
<1>2. /\ DOMAIN col.dense = 1 .. Len(col.dense) /\ DOMAIN col.data = 1 .. Len(col.dense)
      /\ \A i \in 1 .. Len(col.dense) : col.dense[i] \in Ids /\ col.data[i] \in Values
      /\ Len(col.dense) \in Nat
    BY <1>1
<1>3. \A i, j \in 1 .. Len(col.dense) : col.dense[i].index = col.dense[j].index => i = j
    BY <1>1, <1>2, LinkedDistinct, Zenon
<1>4. Rows(col) = {Row(col, i) : i \in 1 .. Len(col.dense)}
    BY <1>2, Zenon DEF Rows, RowsOfColumn, Row
<1>5. Rows(col) \subseteq [owner : Ids, value : Values]
    BY <1>2, <1>4 DEF Row
<1>6. \A i \in 1 .. Len(col.dense) : Row(col, i).owner = col.dense[i]
    BY Zenon DEF Row
<1>7. \A i, j \in 1 .. Len(col.dense) : Row(col, i) = Row(col, j) => i = j
    BY <1>3, <1>6
<1> QED
    BY <1>1, <1>2, <1>3, <1>4, <1>5, <1>7, Zenon

\* Joining a column adds a row (SetNew).
LEMMA RowsAppend ==
    ASSUME NEW col, ColumnOK(col), NEW new, NEW id \in Ids, NEW v \in Values,
           new.dense = Append(col.dense, id), new.data = Append(col.data, v)
    PROVE  Rows(new) = Rows(col) \cup {[owner |-> id, value |-> v]}
<1> DEFINE n == Len(col.dense)
<1>1. /\ col.dense \in Seq(Ids) /\ col.data \in Seq(Values) /\ n \in Nat /\ Len(col.data) = n
      /\ Rows(col) = {Row(col, i) : i \in 1 .. n}
    BY RowFacts, Zenon
<1>2. /\ DOMAIN new.dense = 1 .. n + 1
      /\ new.dense[n + 1] = id /\ new.data[n + 1] = v
      /\ \A i \in 1 .. n : new.dense[i] = col.dense[i] /\ new.data[i] = col.data[i]
    BY <1>1
<1>3. Rows(new) = {Row(new, i) : i \in 1 .. n + 1}
    BY <1>2, Zenon DEF Rows, RowsOfColumn, Row
<1>4. Row(new, n + 1) = [owner |-> id, value |-> v] /\ \A i \in 1 .. n : Row(new, i) = Row(col, i)
    BY <1>2, Zenon DEF Row
<1> HIDE DEF n
<1>5. 1 .. n + 1 = (1 .. n) \cup {n + 1}
    BY <1>1
<1> QED
  <2>1. ASSUME NEW i \in 1 .. n + 1
        PROVE  Row(new, i) \in Rows(col) \cup {[owner |-> id, value |-> v]}
    BY <1>1, <1>4, <1>5, Zenon
  <2>2. ASSUME NEW i \in 1 .. n PROVE Row(col, i) \in Rows(new)
    BY <1>3, <1>4, <1>5, Zenon
  <2>3. [owner |-> id, value |-> v] \in Rows(new)
    BY <1>3, <1>4, <1>5, Zenon
  <2> QED
    BY <1>1, <1>3, <2>1, <2>2, <2>3

\* Leaving a column removes the row of the entity, whichever row is moved (Remove).
LEMMA RowsSwapRemove ==
    ASSUME NEW col, ColumnOK(col), NEW p \in 1 .. Len(col.dense), NEW new,
           new.dense = SwapRemove(col.dense, p), new.data = SwapRemove(col.data, p)
    PROVE  Rows(new) = Rows(col) \ {Row(col, p)}
<1> DEFINE n == Len(col.dense)
<1>1. /\ col.dense \in Seq(Ids) /\ col.data \in Seq(Values) /\ n \in Nat /\ Len(col.data) = n
      /\ DOMAIN col.dense = 1 .. n /\ DOMAIN col.data = 1 .. n
      /\ Rows(col) = {Row(col, i) : i \in 1 .. n}
    BY RowFacts, Zenon
<1>2. /\ DOMAIN new.dense = 1 .. n - 1
      /\ \A i \in 1 .. n - 1 : new.dense[i] = IF i = p THEN col.dense[n] ELSE col.dense[i]
    BY <1>1, Zenon DEF SwapRemove
<1>3. \A i \in 1 .. n - 1 : new.data[i] = IF i = p THEN col.data[n] ELSE col.data[i]
    BY <1>1, Zenon DEF SwapRemove
<1>4. Rows(new) = {Row(new, i) : i \in 1 .. n - 1}
    BY <1>2, Zenon DEF Rows, RowsOfColumn, Row
<1>5. \A i \in 1 .. n - 1 : Row(new, i) = IF i = p THEN Row(col, n) ELSE Row(col, i)
    BY <1>2, <1>3, Zenon DEF Row
<1>6. \A i, j \in 1 .. n : Row(col, i) = Row(col, j) => i = j
    BY RowFacts, Zenon
<1>7. p \in 1 .. n
    BY Zenon
<1> HIDE DEF n
<1>8. ASSUME NEW r \in Rows(new) PROVE r \in Rows(col) \ {Row(col, p)}
  <2>1. PICK i \in 1 .. n - 1 : r = Row(new, i)
    BY <1>4, <1>8, Zenon
  <2>2. i \in 1 .. n /\ n \in 1 .. n /\ i # n
    BY <1>1, <2>1
  <2> QED
    BY <1>1, <1>5, <1>6, <1>7, <2>1, <2>2, Zenon
<1>9. ASSUME NEW r \in Rows(col) \ {Row(col, p)} PROVE r \in Rows(new)
  <2>1. PICK i \in 1 .. n : r = Row(col, i) /\ i # p
    BY <1>1, <1>9, Zenon
  <2>2. CASE i = n
    <3>1. p \in 1 .. n - 1
      BY <1>1, <1>7, <2>1, <2>2
    <3> QED
      BY <1>4, <1>5, <2>1, <2>2, <3>1, Zenon
  <2>3. CASE i # n
    <3>1. i \in 1 .. n - 1
      BY <1>1, <2>1, <2>3
    <3> QED
      BY <1>4, <1>5, <2>1, <3>1, Zenon
  <2> QED
    BY <2>2, <2>3, Zenon
<1> QED
    BY <1>8, <1>9, Zenon

\* Writing a component changes the value of one row (SetPresent).
LEMMA RowsWrite ==
    ASSUME NEW col, ColumnOK(col), NEW p \in 1 .. Len(col.dense), NEW v \in Values, NEW new,
           new.dense = col.dense, new.data = [col.data EXCEPT ![p] = v]
    PROVE  Rows(new) = (Rows(col) \ {Row(col, p)}) \cup {[owner |-> col.dense[p], value |-> v]}
<1> DEFINE n == Len(col.dense)
<1>1. /\ col.dense \in Seq(Ids) /\ col.data \in Seq(Values) /\ n \in Nat /\ Len(col.data) = n
      /\ DOMAIN col.dense = 1 .. n /\ DOMAIN col.data = 1 .. n
      /\ Rows(col) = {Row(col, i) : i \in 1 .. n}
    BY RowFacts, Zenon
<1>2. \A i \in 1 .. n : new.data[i] = IF i = p THEN v ELSE col.data[i]
    BY <1>1, Zenon
<1>3. Rows(new) = {Row(new, i) : i \in 1 .. n}
    BY <1>1, Zenon DEF Rows, RowsOfColumn, Row
<1>4. Row(new, p) = [owner |-> col.dense[p], value |-> v]
      /\ \A i \in (1 .. n) \ {p} : Row(new, i) = Row(col, i)
    BY <1>2, Zenon DEF Row
<1>5. \A i, j \in 1 .. n : Row(col, i) = Row(col, j) => i = j
    BY RowFacts, Zenon
<1>6. p \in 1 .. n
    BY Zenon
<1> HIDE DEF n
<1> QED
    BY <1>1, <1>3, <1>4, <1>5, <1>6
-----------------------------------------------------------------------------
(* The refinement mapping *)

LiveIds == {dense[i] : i \in DOMAIN dense}

AllRows == [c \in Comps |-> RowsOfColumn(cols[c].dense, cols[c].data)]

Saved == IF snap = NoSnap THEN {} ELSE {SavedWorld(snap)}

absvars == <<LiveIds, AllRows, tagged, resource, Saved>>

\* A step on one column is a step on the rows of one component.
LEMMA OneComponent ==
    ASSUME ColumnInv, NEW c \in Comps, NEW col, cols' = [cols EXCEPT ![c] = col]
    PROVE  A!SetRows(c, Rows(col))
<1>1. \A d \in Comps : cols'[d] = IF d = c THEN col ELSE cols[d]
    BY Zenon DEF ColumnInv
<1>2. \A d \in Comps : AllRows'[d] = IF d = c THEN Rows(col) ELSE AllRows[d]
    BY <1>1 DEF AllRows, Rows
<1>3. AllRows' = [d \in Comps |-> AllRows'[d]] /\ AllRows = [d \in Comps |-> AllRows[d]]
    BY DEF AllRows
<1> HIDE DEF AllRows
<1>4. AllRows' = [d \in Comps |-> IF d = c THEN Rows(col) ELSE AllRows[d]]
    BY <1>2, <1>3, Zenon
<1>5. [AllRows EXCEPT ![c] = Rows(col)] = [d \in Comps |-> IF d = c THEN Rows(col) ELSE AllRows[d]]
    BY <1>3, Zenon
<1>6. AllRows' = [AllRows EXCEPT ![c] = Rows(col)]
    BY <1>4, <1>5, Zenon
<1> QED
    BY <1>6, Zenon DEF A!SetRows, AllRows

\* An entity that holds a component has a row.
LEMMA RowOf ==
    ASSUME ColumnInv, NEW c \in Comps, NEW id \in Ids
    PROVE  /\ ColumnOK(cols[c]) /\ AllRows[c] = Rows(cols[c])
           /\ Has(c, id) => /\ cols[c].sparse[id.index] \in 1 .. Len(cols[c].dense)
                            /\ Row(cols[c], cols[c].sparse[id.index]) \in A!RowsOf(c, id)
           /\ ~ Has(c, id) => A!RowsOf(c, id) = {}
<1>1. ColumnOK(cols[c]) /\ AllRows[c] = Rows(cols[c])
    BY Zenon DEF ColumnInv, AllRows, Rows
<1>2. /\ cols[c].sparse \in [Indices -> Nat] /\ Linked(cols[c].sparse, cols[c].dense)
      /\ id.index \in Indices
    BY <1>1, IdFields, Zenon DEF ColumnOK, Columns
<1>3. /\ Rows(cols[c]) = {Row(cols[c], i) : i \in 1 .. Len(cols[c].dense)}
      /\ DOMAIN cols[c].dense = 1 .. Len(cols[c].dense)
      /\ \A i \in 1 .. Len(cols[c].dense) : Row(cols[c], i).owner = cols[c].dense[i]
    BY <1>1, RowFacts, Zenon DEF Row
<1>4. A!RowsOf(c, id) = {r \in Rows(cols[c]) : r.owner.index = id.index}
    BY <1>1, Zenon DEF A!RowsOf, AllRows
<1>5. CASE Has(c, id)
  <2>1. /\ cols[c].sparse[id.index] \in 1 .. Len(cols[c].dense)
        /\ cols[c].dense[cols[c].sparse[id.index]].index = id.index
    BY <1>2, <1>3, <1>5, Zenon DEF Has, Linked
  <2> QED
    BY <1>1, <1>3, <1>4, <1>5, <2>1, Zenon
<1>6. CASE ~ Has(c, id)
  <2>1. \A i \in 1 .. Len(cols[c].dense) : cols[c].dense[i].index # id.index
    <3>1. \A i \in 1 .. Len(cols[c].dense) : i # 0
      OBVIOUS
    <3>2. \A i \in 1 .. Len(cols[c].dense) : cols[c].sparse[cols[c].dense[i].index] = i
      BY <1>2, <1>3, Zenon DEF Linked
    <3>3. cols[c].sparse[id.index] = 0
      BY <1>6, Zenon DEF Has
    <3> QED
      BY <3>1, <3>2, <3>3, Zenon
  <2> QED
    BY <1>1, <1>3, <1>4, <1>6, <2>1
<1> QED
    BY <1>5, <1>6, Zenon

\* Create and Destroy are steps on the set of live entities.
LEMMA CreateRefines == ASSUME WorldInv, CreateEntity PROVE A!ACreate
<1>1. /\ dense \in Seq(Ids) /\ sparse \in [Indices -> Nat] /\ Linked(sparse, dense)
    BY Zenon DEF WorldInv, EntityInv, EntitiesOK
<1>2. /\ dense' = Append(dense, CreatedId) /\ CreatedId \in Ids /\ CreatedId.index \in Indices
      /\ sparse[CreatedId.index] = 0
    BY CreatedIndex, Zenon DEF CreateEntity, Create, WorldInv, EntityInv
<1>3. \A a \in LiveIds : a.index # CreatedId.index
    BY <1>1, <1>2 DEF LiveIds, Linked
<1>4. LiveIds' = LiveIds \cup {CreatedId}
  <2>1. /\ DOMAIN dense = 1 .. Len(dense) /\ Len(dense) \in Nat /\ DOMAIN dense' = 1 .. Len(dense) + 1
        /\ \A i \in 1 .. Len(dense) : i \in 1 .. Len(dense) + 1 /\ dense'[i] = dense[i]
        /\ Len(dense) + 1 \in 1 .. Len(dense) + 1 /\ dense'[Len(dense) + 1] = CreatedId
        /\ \A i \in 1 .. Len(dense) + 1 : i \in 1 .. Len(dense) \/ i = Len(dense) + 1
    BY <1>1, <1>2
  <2> QED
    BY <2>1 DEF LiveIds
<1>5. UNCHANGED <<cols, tagged, resource, snap>>
    BY Zenon DEF CreateEntity, components, labels
<1> QED
    BY <1>2, <1>3, <1>4, <1>5, Zenon DEF A!ACreate, LiveIds

\* An ID is its two fields.
LEMMA SameId ==
    ASSUME NEW a \in Ids, NEW b \in Ids, a.index = b.index, a.version = b.version
    PROVE  a = b
BY SMT DEF Ids

\* DestroyEntity is the abstract one.
LEMMA DestroyedId ==
    ASSUME WorldInv, NEW id \in Held, DestroyEntity(id)
    PROVE  id \in LiveIds /\ LiveIds' = LiveIds \ {id}
<1> DEFINE p == sparse[id.index]
           n == Len(dense)
<1>1. /\ dense \in Seq(Ids) /\ sparse \in [Indices -> Nat] /\ Linked(sparse, dense)
      /\ \A i \in DOMAIN dense : dense[i].version = versions[dense[i].index]
      /\ id \in Ids /\ id.index \in Indices
    BY HeldIds, IdFields, Zenon DEF WorldInv, EntityInv, EntitiesOK
<1>2. dense' = SwapRemove(dense, p) /\ p # 0 /\ versions[id.index] = id.version
    BY Zenon DEF DestroyEntity, Destroy, Alive
<1>3. p \in DOMAIN dense /\ dense[p] = id
  <2>1. p \in DOMAIN dense /\ dense[p].index = id.index
    BY <1>1, <1>2, Zenon DEF Linked
  <2>2. dense[p] \in Ids /\ dense[p].version = id.version
    BY <1>1, <1>2, <2>1
  <2> QED
    BY <1>1, <2>1, <2>2, SameId, Zenon
<1>4. /\ n \in Nat /\ DOMAIN dense = 1 .. n /\ DOMAIN dense' = 1 .. n - 1
      /\ \A i \in 1 .. n - 1 : dense'[i] = IF i = p THEN dense[n] ELSE dense[i]
  <2> HIDE DEF p, n
  <2>1. /\ DOMAIN SwapRemove(dense, p) = 1 .. Len(dense) - 1
        /\ Len(dense) \in Nat /\ DOMAIN dense = 1 .. Len(dense)
        /\ \A i \in 1 .. Len(dense) - 1 :
              SwapRemove(dense, p)[i] = IF i = p THEN dense[Len(dense)] ELSE dense[i]
    BY <1>1, <1>3, SwapRemoveSeq, SMT
  <2>2. /\ DOMAIN dense' = 1 .. Len(dense) - 1
        /\ \A i \in 1 .. Len(dense) - 1 : dense'[i] = IF i = p THEN dense[Len(dense)] ELSE dense[i]
    BY <1>2, <2>1, SMT
  <2> QED
    BY <2>1, <2>2, Zenon DEF n
<1>5. \A i, j \in 1 .. n : dense[i] = dense[j] => i = j
    BY <1>1, <1>4, LinkedDistinct
<1> HIDE DEF p, n
<1>6. LiveIds' = LiveIds \ {id}
  <2>1. ASSUME NEW i \in 1 .. n - 1 PROVE dense'[i] \in LiveIds \ {id}
    <3>1. i \in 1 .. n /\ n \in 1 .. n /\ i # n
      BY <1>4
    <3> QED
      BY <1>3, <1>4, <1>5, <3>1, Zenon DEF LiveIds
  <2>2. ASSUME NEW i \in 1 .. n, dense[i] # id PROVE \E j \in 1 .. n - 1 : dense'[j] = dense[i]
    <3>1. i # p
      BY <1>3, <2>2, Zenon
    <3>2. CASE i = n
      <4>1. p \in 1 .. n - 1
        BY <1>3, <1>4, <3>1, <3>2
      <4> QED
        BY <1>4, <3>2, <4>1, Zenon
    <3>3. CASE i # n
      <4>1. i \in 1 .. n - 1
        BY <1>4, <3>3
      <4> QED
        BY <1>4, <3>1, <4>1, Zenon
    <3> QED
      BY <3>2, <3>3, Zenon
  <2>3. LiveIds = {dense[i] : i \in 1 .. n} /\ LiveIds' = {dense'[i] : i \in 1 .. n - 1}
    BY <1>4, Zenon DEF LiveIds
  <2>4. \A a \in LiveIds' : a \in LiveIds \ {id}
    BY <2>1, <2>3, Zenon
  <2>5. \A a \in LiveIds \ {id} : a \in LiveIds'
    BY <2>2, <2>3, Zenon
  <2> QED
    BY <2>4, <2>5, Zenon
<1>7. id \in LiveIds
    BY <1>3, Zenon DEF LiveIds
<1> QED
    BY <1>6, <1>7, Zenon

\* Destroy is the one of AbstractWorld.
LEMMA DestroyRefines == ASSUME WorldInv, NEW id \in Held, DestroyEntity(id) PROVE A!ADestroy
<1>1. UNCHANGED <<cols, tagged, resource, snap>>
    BY Zenon DEF DestroyEntity, components, labels
<1> QED
    BY <1>1, DestroyedId, Zenon DEF A!ADestroy, LiveIds

\* Set and Remove are steps on the rows of a component.
LEMMA SetRefines ==
    ASSUME WorldInv, NEW id \in Held, NEW c \in Comps, NEW v \in Values,
           AddComponent(c, id, v) \/ WriteComponent(c, id, v)
    PROVE  A!ASet
<1>1. id \in Ids /\ ColumnInv
    BY HeldIds, Zenon DEF WorldInv
<1>2. ColumnOK(cols[c]) /\ AllRows[c] = Rows(cols[c]) /\ AllRows = [d \in Comps |-> AllRows[d]]
    BY <1>1, RowOf, Zenon DEF AllRows
<1>3. UNCHANGED <<dense, tagged, resource, snap>>
    BY Zenon DEF AddComponent, WriteComponent, entities, labels
<1>4. CASE AddComponent(c, id, v)
  <2>1. PICK col : col = [sparse |-> Link(cols[c].sparse, cols[c].dense, id.index),
                          dense |-> Append(cols[c].dense, id), data |-> Append(cols[c].data, v)]
    BY Zenon
  <2>2. cols' = [cols EXCEPT ![c] = col] /\ ~ Has(c, id)
    BY <1>4, <2>1, Zenon DEF AddComponent, SetNew
  <2>3. Rows(col) = AllRows[c] \cup {[owner |-> id, value |-> v]}
    <3>1. col.dense = Append(cols[c].dense, id) /\ col.data = Append(cols[c].data, v)
      BY <2>1, Zenon
    <3> QED
      BY <1>1, <1>2, <3>1, RowsAppend
  <2>4. A!SetRows(c, AllRows[c] \cup {[owner |-> id, value |-> v]})
    BY <1>1, <2>2, <2>3, OneComponent, Zenon
  <2>5. A!RowsOf(c, id) = {}
    BY <1>1, <2>2, RowOf, Zenon
  <2> QED
    BY <1>1, <1>3, <2>4, <2>5, Zenon DEF A!ASet, AllRows
<1>5. CASE WriteComponent(c, id, v)
  <2>1. PICK p : p = cols[c].sparse[id.index]
    BY Zenon
  <2>2. PICK col : col = WithValue(cols[c], id.index, v)
    BY Zenon
  <2>3. cols' = [cols EXCEPT ![c] = col] /\ Has(c, id)
    BY <1>5, <2>2, Zenon DEF WriteComponent, SetPresent
  <2>4. p \in 1 .. Len(cols[c].dense) /\ Row(cols[c], p) \in A!RowsOf(c, id)
        /\ Row(cols[c], p).owner = cols[c].dense[p]
    BY <1>1, <2>1, <2>3, RowOf, Zenon DEF Row
  <2>5. Rows(col) = (AllRows[c] \ {Row(cols[c], p)})
                       \cup {[owner |-> Row(cols[c], p).owner, value |-> v]}
    <3>1. col.dense = cols[c].dense /\ col.data = [cols[c].data EXCEPT ![p] = v]
      BY <2>1, <2>2, Zenon DEF WithValue
    <3> QED
      BY <1>2, <2>4, <3>1, RowsWrite
  <2>6. PICK r : r = Row(cols[c], p)
    BY Zenon
  <2>7. A!SetRows(c, (AllRows[c] \ {r}) \cup {[owner |-> r.owner, value |-> v]})
    BY <1>1, <2>3, <2>5, <2>6, OneComponent, ZenonT(30)
  <2>8. r \in A!RowsOf(c, id)
    BY <2>4, <2>6, Zenon
  <2>9. UNCHANGED <<LiveIds, tagged, resource, Saved>>
    BY <1>3, Zenon DEF LiveIds, Saved
  <2> QED
    BY <1>1, <2>7, <2>8, <2>9, Zenon DEF A!ASet, AllRows, LiveIds, Saved
<1> QED
    BY <1>4, <1>5, Zenon

\* RemoveComponent is the abstract one.
LEMMA RemoveRefines ==
    ASSUME WorldInv, NEW id \in Held, NEW c \in Comps, RemoveComponent(c, id)
    PROVE  A!ARemove
<1>1. id \in Ids /\ ColumnInv
    BY HeldIds, Zenon DEF WorldInv
<1>2. ColumnOK(cols[c]) /\ AllRows[c] = Rows(cols[c])
    BY <1>1, RowOf, Zenon
<1>3. PICK p : p = cols[c].sparse[id.index]
    BY Zenon
<1>4. PICK col : col = WithoutRow(cols[c], id.index)
    BY Zenon
<1>5. /\ cols' = [cols EXCEPT ![c] = col] /\ Has(c, id)
      /\ UNCHANGED <<dense, tagged, resource, snap>>
    BY <1>4, Zenon DEF RemoveComponent, Remove, entities, labels
<1>6. p \in 1 .. Len(cols[c].dense) /\ Row(cols[c], p) \in A!RowsOf(c, id)
    BY <1>1, <1>3, <1>5, RowOf, Zenon
<1>7. PICK r : r = Row(cols[c], p)
    BY Zenon
<1>8. r \in AllRows[c]
    BY <1>6, <1>7, Zenon DEF A!RowsOf, AllRows
<1>9. Rows(col) = AllRows[c] \ {r}
  <2>1. col.dense = SwapRemove(cols[c].dense, p) /\ col.data = SwapRemove(cols[c].data, p)
    BY <1>3, <1>4, Zenon DEF WithoutRow
  <2> QED
    BY <1>2, <1>6, <1>7, <2>1, RowsSwapRemove
<1>10. A!SetRows(c, AllRows[c] \ {r})
    BY <1>1, <1>5, <1>9, OneComponent, ZenonT(30)
<1> QED
    BY <1>5, <1>8, <1>10, Zenon DEF A!ARemove, AllRows

\* Steps that leave entities and rows alone.
LEMMA LabelsRefine ==
    ASSUME WorldInv, LabelInv',
           \/ \E id \in Held : \/ RemoveEntityTags(id)
                               \/ \E t \in Tags : AddTag(id, t) \/ RemoveTag(id, t)
           \/ \E v \in Values : SetResource(v)
    PROVE  A!ALabel \/ A!AResource
<1>1. UNCHANGED <<dense, cols, snap>>
    BY Zenon DEF RemoveEntityTags, AddTag, RemoveTag, SetResource, entities, components
<1>2. ASSUME NEW v \in Values, SetResource(v) PROVE A!AResource
    BY <1>1, <1>2, Zenon DEF SetResource, A!AResource
<1>3. ASSUME NEW id \in Held,
             RemoveEntityTags(id) \/ \E t \in Tags : AddTag(id, t) \/ RemoveTag(id, t)
      PROVE  A!ALabel
  <2>1. resource' = resource /\ tagged' \subseteq Ids \X Tags
    BY <1>3, Zenon DEF RemoveEntityTags, AddTag, RemoveTag, LabelInv
  <2> QED
    BY <1>1, <2>1, Zenon DEF A!ALabel
<1> QED
    BY <1>2, <1>3, Zenon
-----------------------------------------------------------------------------
(* Snapshots *)

\* A component that is not registered has no rows.
RegisteredOnly == \A c \in Comps : c \notin Registered => cols[c].dense = <<>>

\* Rows are added, also by a Restore, to registered components only.
LEMMA NextRegisteredOnly == WorldInv /\ RegisteredOnly /\ [Next]_vars => RegisteredOnly'
<1> SUFFICES ASSUME WorldInv, RegisteredOnly, [Next]_vars, NEW c \in Comps, c \notin Registered'
             PROVE  cols'[c].dense = <<>>
    BY Zenon DEF RegisteredOnly
<1>0. DOMAIN cols = Comps
    BY Zenon DEF WorldInv, ColumnInv
<1>a. ASSUME names' = names PROVE c \notin Registered /\ cols[c].dense = <<>>
    BY <1>a, Zenon DEF Registered, RegisteredOnly
<1>1. ASSUME NEW id \in Held, NEW d \in Comps,
             Remove(d, id) \/ \E v \in Values : SetNew(d, id, v) \/ SetPresent(d, id, v)
      PROVE  cols'[c].dense = <<>>
  <2>1. d \in Registered /\ names' = names /\ \E col : cols' = [cols EXCEPT ![d] = col]
    BY <1>1, Zenon DEF Remove, SetNew, SetPresent
  <2> QED
    BY <1>0, <1>a, <2>1, Zenon
<1>2. ASSUME NEW d \in Comps, Register(d) PROVE cols'[c].dense = <<>>
  <2>1. names \in Seq(Comps) /\ names' = Append(names, d) /\ cols' = cols
    BY <1>2, Zenon DEF Register, WorldInv, ColumnInv
  <2>2. \A i \in DOMAIN names : i \in DOMAIN names' /\ names'[i] = names[i]
    BY <2>1
  <2>3. c \notin Registered
    BY <2>2, Zenon DEF Registered
  <2> QED
    BY <2>1, <2>3, Zenon DEF RegisteredOnly
<1>3. CASE snap # NoSnap /\ RestoreComponents(snap.components)
  <2> DEFINE s == snap.components
  <2>1. snap \in Snapshots
    BY <1>3, Zenon DEF WorldInv, SnapInv, SavedOK
  <2>2. \A i \in DOMAIN s : i \in 1 .. i
    <3>1. s \in Seq(SavedColumns)
      BY <2>1, Zenon DEF Snapshots
    <3> HIDE DEF s
    <3> QED
      BY <3>1
  <2>3. c \notin Registered /\ cols[c].dense = <<>>
    BY <1>3, <1>a, Zenon DEF RestoreComponents
  <2>4. \A i \in RestoredParts(s) : s[i].name # c
    BY <2>2, <2>3, Zenon DEF RestoredParts
  <2>5. cols'[c] = cols[c]
    BY <1>3, <2>4, Zenon DEF RestoreComponents
  <2> QED
    BY <2>3, <2>5, Zenon
<1>4. CASE Recreate
    BY <1>4, Zenon DEF Recreate, EmptyColumn
<1>5. CASE UNCHANGED components
    BY <1>5, <1>a, Zenon DEF components
<1> QED
    BY <1>1, <1>2, <1>3, <1>4, <1>5, ColumnChanges, Zenon

\* The rows of a saved component are those of its column.
LEMMA SavedRowsOf ==
    ASSUME NEW s, NEW c, NEW i \in DOMAIN s, s[i].name = c,
           \A j \in DOMAIN s : s[j].name = c => j = i
    PROVE  SavedRows(s, c) = RowsOfColumn(s[i].dense, s[i].data)
<1>1. {j \in DOMAIN s : s[j].name = c} = {i}
    BY Zenon
<1> QED
    BY <1>1, Zenon DEF SavedRows

\* A component that was not saved has no saved rows.
LEMMA NoSavedRows ==
    ASSUME NEW s, NEW c, \A j \in DOMAIN s : s[j].name # c
    PROVE  SavedRows(s, c) = {}
<1>1. {j \in DOMAIN s : s[j].name = c} = {}
    BY Zenon
<1> QED
    BY <1>1, Zenon DEF SavedRows

\* The rows of an encoded column are the encoded rows.
LEMMA RowsEncoded ==
    ASSUME NEW d, NEW data, DOMAIN data = DOMAIN d
    PROVE  RowsOfColumn(d, Encoded(data)) = A!Encoded(RowsOfColumn(d, data))
<1>1. DOMAIN Encoded(data) = DOMAIN d /\ \A q \in DOMAIN d : Encoded(data)[q] = Json[data[q]]
    BY Zenon DEF Encoded
<1>2. ASSUME NEW r \in RowsOfColumn(d, Encoded(data)) PROVE r \in A!Encoded(RowsOfColumn(d, data))
  <2>1. PICK q \in DOMAIN d : r = [owner |-> d[q], value |-> Json[data[q]]]
    BY <1>1, Zenon DEF RowsOfColumn
  <2>2. PICK t : t = [owner |-> d[q], value |-> data[q]]
    BY Zenon
  <2>3. t \in RowsOfColumn(d, data) /\ r = [owner |-> t.owner, value |-> Json[t.value]]
    BY <2>1, <2>2, Zenon DEF RowsOfColumn
  <2> QED
    BY <2>3, Zenon DEF A!Encoded
<1>3. ASSUME NEW r \in A!Encoded(RowsOfColumn(d, data)) PROVE r \in RowsOfColumn(d, Encoded(data))
  <2>1. PICK t \in RowsOfColumn(d, data) : r = [owner |-> t.owner, value |-> Json[t.value]]
    BY Zenon DEF A!Encoded
  <2>2. PICK q \in DOMAIN d : t = [owner |-> d[q], value |-> data[q]]
    BY Zenon DEF RowsOfColumn
  <2>3. r = [owner |-> d[q], value |-> Encoded(data)[q]]
    BY <1>1, <2>1, <2>2, Zenon
  <2> QED
    BY <2>3, Zenon DEF RowsOfColumn
<1> QED
    BY <1>2, <1>3, Zenon

\* What a snapshot holds is what becomes of the world when it is encoded.
LEMMA SaveRefines == ASSUME WorldInv, RegisteredOnly, TakeSnapshot PROVE A!ASave
<1>0. PICK p \in Payloads : snap' = Capture(p)
    BY Zenon DEF TakeSnapshot
<1>1. UNCHANGED <<dense, cols, tagged, resource>> /\ \A c \in Registered : Encodable(c)
    BY Zenon DEF TakeSnapshot, entities, components, labels
<1>2. Capture(p) \in Snapshots
    BY <1>1, CaptureOK, Zenon DEF WorldInv, SavedOK
<1>3. Saved' = {SavedWorld(Capture(p))}
    BY <1>0, <1>2, WorldAssumption, Zenon DEF Saved, SavedWorld
<1>a. ASSUME NEW c \in Comps
      PROVE  DOMAIN cols[c].data = DOMAIN cols[c].dense /\ (c \notin Registered => AllRows[c] = {})
  <2>1. /\ cols[c].dense \in Seq(Ids) /\ cols[c].data \in Seq(Values)
        /\ Len(cols[c].data) = Len(cols[c].dense)
    BY Zenon DEF WorldInv, ColumnInv, ColumnOK, Columns
  <2>2. DOMAIN cols[c].data = DOMAIN cols[c].dense
    BY <2>1
  <2>3. ASSUME c \notin Registered PROVE AllRows[c] = {}
    <3>1. cols[c].dense = <<>>
      BY <2>3, Zenon DEF RegisteredOnly
    <3> QED
      BY <3>1 DEF AllRows, RowsOfColumn
  <2> QED
    BY <2>2, <2>3, Zenon
<1>4. ASSUME NEW c \in Comps PROVE SavedRows(ComponentsSnapshot, c) = A!Encoded(AllRows[c])
  <2> DEFINE s == ComponentsSnapshot
  <2>0. names \in Seq(Comps) /\ \A i, j \in DOMAIN names : names[i] = names[j] => i = j
    BY Zenon DEF WorldInv, ColumnInv
  <2>1. DOMAIN s = DOMAIN names
        /\ \A i \in DOMAIN names : /\ s[i].name = names[i] /\ s[i].dense = cols[names[i]].dense
                                   /\ s[i].data = Encoded(cols[names[i]].data)
    BY Zenon DEF ComponentsSnapshot
  <2> HIDE DEF s
  <2>2. CASE c \in Registered
    <3>1. PICK i \in DOMAIN names : names[i] = c
      BY <2>2, Zenon DEF Registered
    <3>2. SavedRows(s, c) = RowsOfColumn(s[i].dense, s[i].data)
      BY <2>0, <2>1, <3>1, SavedRowsOf
    <3>3. SavedRows(s, c) = RowsOfColumn(cols[c].dense, Encoded(cols[c].data))
      BY <2>1, <3>1, <3>2, Zenon
    <3>4. AllRows[c] = RowsOfColumn(cols[c].dense, cols[c].data)
      BY Zenon DEF AllRows
    <3>5. DOMAIN cols[c].data = DOMAIN cols[c].dense
      BY <1>a, Zenon
    <3>6. RowsOfColumn(cols[c].dense, Encoded(cols[c].data)) = A!Encoded(RowsOfColumn(cols[c].dense, cols[c].data))
      BY <3>5, RowsEncoded
    <3> QED
      BY <3>3, <3>4, <3>6, Zenon DEF s
  <2>3. CASE c \notin Registered
    <3>1. SavedRows(s, c) = {}
      BY <2>1, <2>3, NoSavedRows DEF Registered
    <3>2. A!Encoded(AllRows[c]) = {}
      BY <1>a, <2>3, Zenon DEF A!Encoded
    <3> QED
      BY <3>1, <3>2, Zenon DEF s
  <2> QED
    BY <2>2, <2>3, Zenon
<1>5. SavedWorld(Capture(p)) = [alive |-> LiveIds, rows |-> [c \in Comps |-> A!Encoded(AllRows[c])],
                                tagged |-> tagged, resource |-> Json[resource]]
  <2>1. [c \in Comps |-> SavedRows(ComponentsSnapshot, c)] = [c \in Comps |-> A!Encoded(AllRows[c])]
    BY <1>4, Zenon
  <2>2. /\ Capture(p).entities.dense = dense /\ Capture(p).components = ComponentsSnapshot
        /\ Capture(p).tagged = tagged /\ Capture(p).resource = Json[resource]
    BY Zenon DEF Capture, EntitiesSnapshot
  <2> QED
    BY <2>1, <2>2, Zenon DEF SavedWorld, LiveIds
<1>6. ASSUME NEW c \in Comps, NEW t \in AllRows[c] PROVE Json[t.value] # NoValue
  <2>1. c \in Registered
    BY <1>a, Zenon
  <2>2. PICK q \in DOMAIN cols[c].dense : t = [owner |-> cols[c].dense[q], value |-> cols[c].data[q]]
    BY Zenon DEF AllRows, RowsOfColumn
  <2> QED
    BY <1>1, <1>a, <2>1, <2>2, Zenon DEF Encodable
<1> QED
    BY <1>1, <1>3, <1>5, <1>6, Zenon DEF A!ASave, Saved, LiveIds, AllRows

\* A Restore gives a component the rows that were saved, or does not reach it.
LEMMA RestoredRows ==
    ASSUME WorldInv, snap # NoSnap, RestoreComponents(snap.components), NEW c \in Comps
    PROVE  \/ AllRows'[c] = SavedRows(snap.components, c)
           \/ /\ AllRows'[c] = AllRows[c]
              /\ \A i \in RestoredParts(snap.components) : snap.components[i].name # c
<1>1. PICK s : s = snap.components
    BY Zenon
<1>2. \A i, j \in DOMAIN s : s[i].name = s[j].name => i = j
    BY <1>1, Zenon DEF WorldInv, SnapInv, SavedOK
<1>3. cols' = [d \in Comps |-> IF \E i \in RestoredParts(s) : s[i].name = d
                              THEN RestoredColumn(s[CHOOSE i \in RestoredParts(s) : s[i].name = d])
                              ELSE cols[d]]
    BY <1>1, Zenon DEF RestoreComponents
<1>4. CASE \E i \in RestoredParts(s) : s[i].name = c
  <2>1. PICK i : i = CHOOSE j \in RestoredParts(s) : s[j].name = c
    BY Zenon
  <2>2. i \in DOMAIN s /\ s[i].name = c
    BY <1>4, <2>1, Zenon DEF RestoredParts
  <2>3. cols'[c].dense = s[i].dense /\ cols'[c].data = s[i].data
    BY <1>3, <1>4, <2>1, Zenon DEF RestoredColumn
  <2>4. SavedRows(s, c) = RowsOfColumn(s[i].dense, s[i].data)
    BY <1>2, <2>2, SavedRowsOf, Zenon
  <2> QED
    BY <1>1, <2>3, <2>4, Zenon DEF AllRows
<1>5. CASE \A i \in RestoredParts(s) : s[i].name # c
  <2>1. cols'[c] = cols[c]
    BY <1>3, <1>5, Zenon
  <2> QED
    BY <1>1, <1>5, <2>1, Zenon DEF AllRows
<1> QED
    BY <1>4, <1>5, Zenon

\* Restore, and a Restore that fails, are those of AbstractWorld.
LEMMA RestoreRefines ==
    ASSUME WorldInv, ColumnInv', Restore \/ RestoreFailsAtComponent \/ RestoreFailsAtResource \/ RestoreFailsAtEvents
    PROVE  A!ARestore \/ A!AFailedRestore
<1>1. /\ snap # NoSnap /\ snap' = snap
      /\ RestoreEntities(snap.entities) /\ RestoreComponents(snap.components)
    BY Zenon DEF Restore, RestoreFailsAtComponent, RestoreFailsAtResource, RestoreFailsAtEvents
<1>2. PICK w : w = SavedWorld(snap)
    BY Zenon
<1>3. w \in Saved /\ Saved' = Saved
    BY <1>1, <1>2, Zenon DEF Saved
<1>4. LiveIds' = w.alive
    BY <1>1, <1>2, Zenon DEF LiveIds, SavedWorld, RestoreEntities
<1>5. \A c \in Comps : w.rows[c] = SavedRows(snap.components, c)
    BY <1>2, Zenon DEF SavedWorld
<1>6. w.tagged = snap.tagged /\ w.resource = snap.resource
    BY <1>2, Zenon DEF SavedWorld
<1>7. AllRows' \in [Comps -> SUBSET [owner : Ids, value : Values]]
  <2>1. ASSUME NEW c \in Comps PROVE AllRows'[c] \subseteq [owner : Ids, value : Values]
    <3>1. PICK col : col = cols'[c]
      BY Zenon
    <3>2. ColumnOK(col) /\ AllRows'[c] = Rows(col)
      BY <3>1, Zenon DEF ColumnInv, AllRows, Rows
    <3> QED
      BY <3>2, RowFacts
  <2>2. AllRows' = [c \in Comps |-> AllRows'[c]]
    BY Zenon DEF AllRows
  <2> HIDE DEF AllRows
  <2> QED
    BY <2>1, <2>2, Zenon
<1>8. CASE Restore
  <2>1. tagged' = w.tagged /\ resource' = w.resource
    BY <1>6, <1>8, Zenon DEF Restore
  <2>2. ASSUME NEW c \in Comps
        PROVE  AllRows'[c] = w.rows[c] \/ (w.rows[c] = {} /\ AllRows'[c] = AllRows[c])
    <3>1. RestoredParts(snap.components) = DOMAIN snap.components
      BY <1>8, Zenon DEF Restore, ComponentsRestorable
    <3> QED
      BY <1>1, <1>5, <3>1, RestoredRows, NoSavedRows
  <2>3. A!ARestore
    BY <1>3, <1>4, <1>7, <2>1, <2>2, Zenon DEF A!ARestore, LiveIds, AllRows, Saved
  <2> QED
    BY <2>3, Zenon
<1>9. CASE RestoreFailsAtComponent \/ RestoreFailsAtResource \/ RestoreFailsAtEvents
  <2>1. tagged' \in {tagged, w.tagged} /\ resource' \in {resource, w.resource, NoValue}
    BY <1>6, <1>9, Zenon DEF RestoreFailsAtComponent, RestoreFailsAtResource, RestoreFailsAtEvents, labels
  <2>2. \A c \in Comps : AllRows'[c] \in {AllRows[c], w.rows[c]}
    BY <1>1, <1>5, RestoredRows, Zenon
  <2>3. A!AFailedRestore
    BY <1>3, <1>4, <1>7, <2>1, <2>2, Zenon DEF A!AFailedRestore, LiveIds, AllRows, Saved
  <2> QED
    BY <2>3, Zenon
<1> QED
    BY <1>8, <1>9, Zenon

\* A new process has the abstract world of a new one.
LEMMA RecreateRefines == ASSUME Recreate PROVE A!ANew
<1>1. /\ dense' = <<>> /\ cols' = [c \in Comps |-> EmptyColumn]
      /\ tagged' = {} /\ resource' = NoValue /\ snap' = snap
    BY Zenon DEF Recreate
<1>2. LiveIds' = {} /\ AllRows' = [c \in Comps |-> {}]
    BY <1>1 DEF LiveIds, AllRows, RowsOfColumn, EmptyColumn
<1> QED
    BY <1>1, <1>2, Zenon DEF A!ANew, LiveIds, AllRows

\* The world implements AbstractWorld: sparse sets, swap removal, free lists and
\* snapshots in parts are a set of entities, maps of components and a Restore
\* that brings back what was encoded, or fails and leaves each part as it was or as
\* it was saved.
THEOREM Refinement == Spec => RefinesAbstractWorld
<1>1. Init => A!AInit /\ RegisteredOnly
  <2> SUFFICES ASSUME Init PROVE A!AInit /\ RegisteredOnly
    BY Zenon
  <2>1. /\ dense = <<>> /\ cols = [c \in Comps |-> EmptyColumn] /\ snap = NoSnap
        /\ tagged = {} /\ resource = NoValue
    BY Zenon DEF Init, InitEntities
  <2>2. \A c \in Comps : cols[c].dense = <<>>
    BY <2>1, Zenon DEF EmptyColumn
  <2>3. LiveIds = {} /\ AllRows = [c \in Comps |-> {}] /\ Saved = {}
    BY <2>1, <2>2 DEF LiveIds, AllRows, RowsOfColumn, Saved
  <2> QED
    BY <2>1, <2>2, <2>3, Zenon DEF A!AInit, RegisteredOnly, LiveIds, AllRows, Saved
<1>2. WorldInv /\ RegisteredOnly /\ [Next]_vars => RegisteredOnly'
    BY NextRegisteredOnly
<1>3. WorldInv /\ WorldInv' /\ RegisteredOnly /\ [Next]_vars => [A!ANext]_(A!avars)
  <2> SUFFICES ASSUME WorldInv, WorldInv', RegisteredOnly, [Next]_vars
               PROVE  A!ANext \/ UNCHANGED A!avars
    BY Zenon
  <2>a. LabelInv' /\ ColumnInv'
    BY Zenon DEF WorldInv
  <2>b. ASSUME UNCHANGED <<dense, cols, tagged, resource, snap>> PROVE UNCHANGED A!avars
    BY <2>b, Zenon DEF A!avars
  <2>1. ASSUME CreateEntity \/ \E id \in Held : DestroyEntity(id) PROVE A!ANext
    BY <2>1, CreateRefines, DestroyRefines, Zenon DEF A!ANext
  <2>2. ASSUME NEW id \in Held, NEW c \in Comps,
               \/ RemoveComponent(c, id)
               \/ \E v \in Values : AddComponent(c, id, v) \/ WriteComponent(c, id, v)
        PROVE  A!ANext
    BY <2>2, SetRefines, RemoveRefines, Zenon DEF A!ANext
  <2>3. ASSUME \/ \E id \in Held : \/ RemoveEntityTags(id)
                                   \/ \E t \in Tags : AddTag(id, t) \/ RemoveTag(id, t)
               \/ \E v \in Values : SetResource(v)
        PROVE  A!ANext
    BY <2>3, <2>a, LabelsRefine, Zenon DEF A!ANext
  <2>4. ASSUME TakeSnapshot \/ Recreate PROVE A!ANext
    BY <2>4, SaveRefines, RecreateRefines, Zenon DEF A!ANext
  <2>5. ASSUME Restore \/ RestoreFailsAtComponent \/ RestoreFailsAtResource \/ RestoreFailsAtEvents PROVE A!ANext
    BY <2>5, <2>a, RestoreRefines, Zenon DEF A!ANext
  <2>6. ASSUME \/ RegisterPayloadType \/ \E c \in Comps : RegisterComponent(c)
               \/ \E s \in Systems : FetchBegins(s) \/ FetchReads(s) \/ FetchEnds(s)
        PROVE  UNCHANGED A!avars
    BY <2>6, <2>b, Zenon DEF RegisterPayloadType, RegisterComponent, Register, FetchBegins, FetchReads,
                      FetchEnds, entities, components, labels
  <2>7. CASE UNCHANGED vars
    BY <2>7, <2>b, Zenon DEF vars, entities, components, labels
  <2> QED
    BY <2>1, <2>2, <2>3, <2>4, <2>5, <2>6, <2>7, Zenon DEF Next
<1> QED
    BY <1>1, <1>2, <1>3, Consistency, PTL DEF Spec, RefinesAbstractWorld, A!ASpec
-----------------------------------------------------------------------------
(* The owners of rows and tags *)

\* The rows of a column belong to IDs of H, and have values that survive encoding.
RowsKnown(d, data, H) ==
    /\ \A i \in DOMAIN d : d[i] \in H
    /\ \A q \in DOMAIN data : Json[data[q]] # Garbled

Owned(H, cs, tg) ==
    (\A c \in Comps : RowsKnown(cs[c].dense, cs[c].data, H)) /\ \A p \in tg : p[1] \in H

\* The IDs the model held when s was saved.
HeldThen(s) == {s.entities.dense[i] : i \in DOMAIN s.entities.dense} \cup s.gone

\* All parts of s can be restored, and they have owners among the IDs held then.
OwnedThen(s) ==
    /\ DOMAIN s.components = DOMAIN Declared
    /\ \A i \in DOMAIN Declared :
          /\ s.components[i].name = Declared[i] /\ Decodable(s.components[i])
          /\ RowsKnown(s.components[i].dense, s.components[i].data, HeldThen(s))
    /\ \A p \in s.tagged : p[1] \in HeldThen(s)

OwnerInv ==
    Tame => /\ names = Declared /\ Owned(Held, cols, tagged)
            /\ snap # NoSnap => OwnedThen(snap)

\* Joining a column, leaving it, and writing a value in it.
LEMMA KnownAppend ==
    ASSUME NEW d \in Seq(Ids), NEW e \in Seq(Values), NEW H, RowsKnown(d, e, H), NEW id \in H \cap Ids,
           NEW v \in Values, Json[v] # Garbled
    PROVE  RowsKnown(Append(d, id), Append(e, v), H)
<1>1. \A i \in DOMAIN Append(d, id) : Append(d, id)[i] = id \/ (i \in DOMAIN d /\ Append(d, id)[i] = d[i])
    OBVIOUS
<1>2. \A i \in DOMAIN Append(e, v) : Append(e, v)[i] = v \/ (i \in DOMAIN e /\ Append(e, v)[i] = e[i])
    OBVIOUS
<1> QED
    BY <1>1, <1>2, Zenon DEF RowsKnown

\* Elements of a sequence after a swap removal were there before.
LEMMA SwapRemoveFrom ==
    ASSUME NEW S, NEW d \in Seq(S), NEW p \in DOMAIN d
    PROVE  \A i \in DOMAIN SwapRemove(d, p) : \E j \in DOMAIN d : SwapRemove(d, p)[i] = d[j]
<1>1. /\ DOMAIN SwapRemove(d, p) = 1 .. Len(d) - 1
      /\ Len(d) \in DOMAIN d /\ Len(d) \in Nat /\ DOMAIN d = 1 .. Len(d)
      /\ \A i \in 1 .. Len(d) - 1 : SwapRemove(d, p)[i] = IF i = p THEN d[Len(d)] ELSE d[i]
    BY SwapRemoveSeq, Zenon
<1>2. \A i \in 1 .. Len(d) - 1 : i \in DOMAIN d
    BY <1>1
<1> QED
    BY <1>1, <1>2, Zenon

LEMMA KnownRemove ==
    ASSUME NEW d \in Seq(Ids), NEW e \in Seq(Values), NEW H, RowsKnown(d, e, H),
           NEW p \in DOMAIN d \cap DOMAIN e
    PROVE  RowsKnown(SwapRemove(d, p), SwapRemove(e, p), H)
<1>0. p \in DOMAIN d /\ p \in DOMAIN e
    BY Zenon
<1>1. \A i \in DOMAIN SwapRemove(d, p) : \E j \in DOMAIN d : SwapRemove(d, p)[i] = d[j]
    BY <1>0, SwapRemoveFrom, SMT
<1>2. \A i \in DOMAIN SwapRemove(e, p) : \E j \in DOMAIN e : SwapRemove(e, p)[i] = e[j]
    BY <1>0, SwapRemoveFrom, SMT
<1>3. ASSUME NEW i \in DOMAIN SwapRemove(d, p) PROVE SwapRemove(d, p)[i] \in H
  <2>1. PICK j \in DOMAIN d : SwapRemove(d, p)[i] = d[j]
    BY <1>1, Zenon
  <2> QED
    BY <2>1, Zenon DEF RowsKnown
<1>4. ASSUME NEW i \in DOMAIN SwapRemove(e, p) PROVE Json[SwapRemove(e, p)[i]] # Garbled
  <2>1. PICK j \in DOMAIN e : SwapRemove(e, p)[i] = e[j]
    BY <1>2, Zenon
  <2> QED
    BY <2>1, Zenon DEF RowsKnown
<1> QED
    BY <1>3, <1>4, Zenon DEF RowsKnown

LEMMA KnownWrite ==
    ASSUME NEW d, NEW e, NEW H, RowsKnown(d, e, H), NEW p, NEW v, Json[v] # Garbled
    PROVE  RowsKnown(d, [e EXCEPT ![p] = v], H)
<1>1. \A q \in DOMAIN [e EXCEPT ![p] = v] : q \in DOMAIN e /\ [e EXCEPT ![p] = v][q] \in {v, e[q]}
    BY Zenon
<1> QED
    BY <1>1, Zenon DEF RowsKnown

\* A step on one column that keeps its rows known keeps all of them known.
LEMMA OwnedColumn ==
    ASSUME ColumnInv, NEW H, NEW tg, Owned(H, cols, tg), NEW c \in Comps, NEW col,
           RowsKnown(col.dense, col.data, H)
    PROVE  Owned(H, [cols EXCEPT ![c] = col], tg)
<1>1. \A d \in Comps : [cols EXCEPT ![c] = col][d] = IF d = c THEN col ELSE cols[d]
    BY Zenon DEF ColumnInv
<1> QED
    BY <1>1, Zenon DEF Owned

\* The steps of a tame model on a column keep its rows known.
LEMMA ColumnStepOwned ==
    ASSUME WorldInv, NEW id \in Held, NEW c \in Comps, Owned(Held, cols, tagged), Tame,
           \/ RemoveComponent(c, id)
           \/ \E v \in Values : AddComponent(c, id, v) \/ WriteComponent(c, id, v)
    PROVE  Owned(Held, cols', tagged)
<1> DEFINE d == cols[c].dense
           e == cols[c].data
           x == id.index
<1>1. /\ d \in Seq(Ids) /\ e \in Seq(Values) /\ Len(e) = Len(d) /\ Linked(cols[c].sparse, d)
      /\ id \in Ids /\ x \in Indices
    BY HeldIds, IdFields, Zenon DEF WorldInv, ColumnInv, ColumnOK, Columns
<1>2. RowsKnown(d, e, Held) /\ ColumnInv
    BY Zenon DEF Owned, WorldInv
<1>3. CASE RemoveComponent(c, id)
  <2>1. cols[c].sparse[x] # 0 /\ cols' = [cols EXCEPT ![c] = WithoutRow(cols[c], x)]
    BY <1>3, Zenon DEF RemoveComponent, Remove, Has
  <2>2. cols[c].sparse[x] \in DOMAIN d /\ DOMAIN d = DOMAIN e
    <3> HIDE DEF d, e, x
    <3>1. cols[c].sparse[x] \in DOMAIN d
      BY <1>1, <2>1, Zenon DEF Linked
    <3>2. DOMAIN d = 1 .. Len(d) /\ DOMAIN e = 1 .. Len(e)
      BY <1>1, SMT
    <3> QED
      BY <1>1, <3>1, <3>2, Zenon
  <2>3. RowsKnown(SwapRemove(d, cols[c].sparse[x]), SwapRemove(e, cols[c].sparse[x]), Held)
    <3> HIDE DEF d, e, x
    <3>1. cols[c].sparse[x] \in DOMAIN d \cap DOMAIN e
      BY <2>2, Zenon
    <3> QED
      BY <1>1, <1>2, <3>1, KnownRemove, Zenon
  <2>4. RowsKnown(WithoutRow(cols[c], x).dense, WithoutRow(cols[c], x).data, Held)
    BY <2>3, Zenon DEF WithoutRow
  <2> QED
    BY <1>2, <2>1, <2>4, OwnedColumn, Zenon
<1>4. ASSUME NEW v \in Values, AddComponent(c, id, v) PROVE Owned(Held, cols', tagged)
  <2>1. PICK col : /\ col = [sparse |-> Link(cols[c].sparse, d, x), dense |-> Append(d, id), data |-> Append(e, v)]
                   /\ cols' = [cols EXCEPT ![c] = col]
    BY <1>4, Zenon DEF AddComponent, SetNew
  <2>2. Json[v] # Garbled
    BY <1>4, Zenon DEF AddComponent, Tame
  <2>3. RowsKnown(Append(d, id), Append(e, v), Held)
    BY <1>1, <1>2, <2>2, KnownAppend
  <2>4. RowsKnown(col.dense, col.data, Held)
    BY <2>1, <2>3, Zenon
  <2> QED
    BY <1>2, <2>1, <2>4, OwnedColumn, Zenon
<1>5. ASSUME NEW v \in Values, WriteComponent(c, id, v) PROVE Owned(Held, cols', tagged)
  <2>1. PICK col : /\ col = [sparse |-> cols[c].sparse, dense |-> d, data |-> [e EXCEPT ![cols[c].sparse[x]] = v]]
                   /\ cols' = [cols EXCEPT ![c] = col]
    BY <1>5, Zenon DEF WriteComponent, SetPresent, WithValue
  <2>2. Json[v] # Garbled
    BY <1>5, Zenon DEF WriteComponent, Tame
  <2>3. RowsKnown(d, [e EXCEPT ![cols[c].sparse[x]] = v], Held)
    BY <1>2, <2>2, KnownWrite, Zenon
  <2>4. RowsKnown(col.dense, col.data, Held)
    BY <2>1, <2>3, Zenon
  <2> QED
    BY <1>2, <2>1, <2>4, OwnedColumn, Zenon
<1> QED
    BY <1>3, <1>4, <1>5, Zenon

\* What a tame model saves has owners then, and can be restored.
LEMMA SaveOwned ==
    ASSUME WorldInv, names = Declared, Owned(Held, cols, tagged), TakeSnapshot
    PROVE  OwnedThen(snap')
<1>0. PICK p \in Payloads : snap' = Capture(p)
    BY Zenon DEF TakeSnapshot
<1>1. /\ HeldThen(Capture(p)) = Held /\ Capture(p).tagged = tagged
      /\ Capture(p).components = ComponentsSnapshot
    BY Zenon DEF HeldThen, Held, Capture, EntitiesSnapshot
<1>2. DOMAIN ComponentsSnapshot = DOMAIN Declared
    BY Zenon DEF ComponentsSnapshot
<1>3. ASSUME NEW i \in DOMAIN Declared
      PROVE  LET s == ComponentsSnapshot[i]
             IN  s.name = Declared[i] /\ Decodable(s) /\ RowsKnown(s.dense, s.data, Held)
  <2>1. PICK s : s = ComponentsSnapshot[i]
    BY Zenon
  <2>a. names \in Seq(Comps) /\ i \in DOMAIN names
    BY Zenon DEF WorldInv, ColumnInv
  <2>2. PICK c \in Comps : c = names[i]
    BY <2>a
  <2>3. s.name = c /\ s.dense = cols[c].dense /\ s.data = Encoded(cols[c].data)
    BY <2>1, <2>2, Zenon DEF ComponentsSnapshot
  <2>4. RowsKnown(cols[c].dense, cols[c].data, Held)
    BY Zenon DEF Owned
  <2>5. \A q \in DOMAIN cols[c].data : cols[c].data[q] \in Values /\ Json[cols[c].data[q]] # NoValue
    <3>1. cols[c].data \in Seq(Values)
      BY Zenon DEF WorldInv, ColumnInv, ColumnOK, Columns
    <3>2. Encodable(c)
      BY <2>2, Zenon DEF TakeSnapshot, Registered
    <3> QED
      BY <3>1, <3>2 DEF Encodable
  <2>6. ASSUME NEW q \in DOMAIN s.data PROVE s.data[q] # Garbled /\ Json[s.data[q]] # Garbled
    <3>1. PICK v \in Values : v = cols[c].data[q] /\ s.data[q] = Json[v] /\ Json[v] # NoValue /\ Json[v] # Garbled
      BY <2>3, <2>4, <2>5, Zenon DEF Encoded, RowsKnown
    <3>2. Json[v] \in Values
      BY <3>1, ComponentsAssumption, Zenon
    <3> QED
      BY <3>1, <3>2, ComponentsAssumption, Zenon
  <2> QED
    BY <2>1, <2>2, <2>3, <2>4, <2>6, Zenon DEF Decodable, RowsKnown
<1>4. \A q \in tagged : q[1] \in Held
    BY Zenon DEF Owned
<1>5. OwnedThen(Capture(p))
    BY <1>1, <1>2, <1>3, <1>4, Zenon DEF OwnedThen
<1> QED
    BY <1>0, <1>5, Zenon

\* The rows of a restored column.
LEMMA RestoredFields ==
    ASSUME NEW s PROVE RestoredColumn(s).dense = s.dense /\ RestoredColumn(s).data = s.data
BY Zenon DEF RestoredColumn

\* A Restore of it reaches every part, and every row gets the owner it had then.
LEMMA RestoreOwned ==
    ASSUME WorldInv, RegisteredOnly, names = Declared, snap # NoSnap, OwnedThen(snap),
           RestoreComponents(snap.components)
    PROVE  ComponentsRestorable /\ \A c \in Comps : RowsKnown(cols'[c].dense, cols'[c].data, HeldThen(snap))
<1>1. PICK s : s = snap.components
    BY Zenon
<1>2. /\ DOMAIN s = DOMAIN Declared /\ s \in Seq(SavedColumns)
      /\ \A i \in DOMAIN s : /\ s[i].name = Declared[i] /\ Decodable(s[i])
                             /\ RowsKnown(s[i].dense, s[i].data, HeldThen(snap))
    BY <1>1, Zenon DEF OwnedThen, WorldInv, SnapInv, SavedOK, Snapshots
<1>3. \A i \in DOMAIN s : \A j \in 1 .. i : j \in DOMAIN s
    BY <1>2
<1>4. \A i \in DOMAIN s : s[i].name \in Registered
    BY <1>2, Zenon DEF Registered
<1>5. RestoredParts(s) = DOMAIN s
    BY <1>2, <1>3, <1>4, Zenon DEF RestoredParts
<1>6. ASSUME NEW c \in Comps PROVE RowsKnown(cols'[c].dense, cols'[c].data, HeldThen(snap))
  <2>1. cols' = [d \in Comps |-> IF \E i \in DOMAIN s : s[i].name = d
                                THEN RestoredColumn(s[CHOOSE i \in DOMAIN s : s[i].name = d])
                                ELSE cols[d]]
    BY <1>1, <1>5, Zenon DEF RestoreComponents
  <2>2. CASE \E i \in DOMAIN s : s[i].name = c
    <3>0. PICK i : i = CHOOSE j \in DOMAIN s : s[j].name = c
      BY Zenon
    <3>1. i \in DOMAIN s /\ cols'[c] = RestoredColumn(s[i])
      BY <2>1, <2>2, <3>0, Zenon
    <3>2. cols'[c].dense = s[i].dense /\ cols'[c].data = s[i].data
      BY <3>1, RestoredFields, Zenon
    <3> QED
      BY <1>2, <3>1, <3>2, Zenon
  <2>3. CASE \A i \in DOMAIN s : s[i].name # c
    <3>1. c \notin Registered
      BY <1>2, <2>3, Zenon DEF Registered
    <3>2. cols'[c] = cols[c] /\ cols[c].dense = <<>>
      BY <2>1, <2>3, <3>1, Zenon DEF RegisteredOnly
    <3>3. cols[c].data \in Seq(Values) /\ Len(cols[c].data) = Len(cols[c].dense)
      BY Zenon DEF WorldInv, ColumnInv, ColumnOK, Columns
    <3>4. DOMAIN cols[c].data = {} /\ DOMAIN cols[c].dense = {}
      BY <3>2, <3>3
    <3> QED
      BY <3>2, <3>4, Zenon DEF RowsKnown
  <2> QED
    BY <2>2, <2>3, Zenon
<1> QED
    BY <1>1, <1>5, <1>6, Zenon DEF ComponentsRestorable

\* Every step of a tame model keeps its rows and tags, and those it saved, owned.
LEMMA NextOwnerInv == WorldInv /\ RegisteredOnly /\ OwnerInv /\ [Next]_vars => OwnerInv'
<1> SUFFICES ASSUME WorldInv, RegisteredOnly, OwnerInv, [Next]_vars, Tame'
             PROVE  /\ names' = Declared /\ Owned(Held', cols', tagged')
                    /\ snap' # NoSnap => OwnedThen(snap')
    BY Zenon DEF OwnerInv, Owned, RowsKnown, OwnedThen, HeldThen
<1>0. /\ names = Declared /\ Owned(Held, cols, tagged) /\ (snap # NoSnap => OwnedThen(snap))
      /\ Tame
  <2>1. model' = model
    BY Zenon DEF Next, vars
  <2>2. Tame
    BY <2>1, Zenon DEF Tame
  <2> QED
    BY <2>2, Zenon DEF OwnerInv
<1>1. ASSUME UNCHANGED <<names, cols, tagged, snap>>, Held \subseteq Held'
      PROVE  /\ names' = Declared /\ Owned(Held', cols', tagged')
             /\ snap' # NoSnap => OwnedThen(snap')
  <2>1. Owned(Held', cols', tagged')
    BY <1>0, <1>1, Zenon DEF Owned, RowsKnown
  <2> QED
    BY <1>0, <1>1, <2>1, Zenon
<1>2. ASSUME CreateEntity \/ \E id \in Held : DestroyEntity(id)
      PROVE  UNCHANGED <<names, cols, tagged, snap>> /\ Held \subseteq Held'
  <2>1. CASE CreateEntity
    <3>1. dense \in Seq(Ids) /\ gone' = gone /\ \E id : dense' = Append(dense, id)
      BY <2>1, Zenon DEF CreateEntity, Create, WorldInv, EntityInv, EntitiesOK
    <3>2. \A i \in DOMAIN dense : i \in DOMAIN dense' /\ dense'[i] = dense[i]
      BY <3>1
    <3> QED
      BY <2>1, <3>1, <3>2, Zenon DEF CreateEntity, components, labels, Held
  <2>2. ASSUME NEW id \in Held, DestroyEntity(id)
        PROVE  UNCHANGED <<names, cols, tagged, snap>> /\ Held \subseteq Held'
    <3>1. id \in LiveIds /\ LiveIds' = LiveIds \ {id} /\ gone' = gone \cup {id}
      BY <2>2, DestroyedId, Zenon DEF DestroyEntity
    <3>2. Held = LiveIds \cup gone /\ Held' = LiveIds' \cup gone'
      BY Zenon DEF Held, LiveIds
    <3> QED
      BY <2>2, <3>1, <3>2, Zenon DEF DestroyEntity, components, labels
  <2> QED
    BY <1>2, <2>1, <2>2, Zenon
<1>3. ASSUME NEW id \in Held, NEW c \in Comps,
             \/ RemoveComponent(c, id)
             \/ \E v \in Values : AddComponent(c, id, v) \/ WriteComponent(c, id, v)
      PROVE  /\ names' = Declared /\ Owned(Held', cols', tagged')
             /\ snap' # NoSnap => OwnedThen(snap')
  <2>1. UNCHANGED <<names, dense, gone, tagged, snap>>
    BY <1>3, Zenon DEF RemoveComponent, Remove, AddComponent, SetNew, WriteComponent, SetPresent,
                       entities, labels
  <2>2. Held' = Held
    BY <2>1, Zenon DEF Held
  <2>3. Owned(Held, cols', tagged)
    BY <1>0, <1>3, ColumnStepOwned, Zenon
  <2> QED
    BY <1>0, <2>1, <2>2, <2>3, Zenon
<1>4. ASSUME NEW id \in Held,
             RemoveEntityTags(id) \/ \E t \in Tags : AddTag(id, t) \/ RemoveTag(id, t)
      PROVE  /\ names' = Declared /\ Owned(Held', cols', tagged')
             /\ snap' # NoSnap => OwnedThen(snap')
  <2>1. /\ UNCHANGED <<names, cols, dense, gone, snap>>
        /\ tagged' \subseteq tagged \/ \E t \in Tags : tagged' = tagged \cup {<<id, t>>}
    BY <1>4, Zenon DEF RemoveEntityTags, AddTag, RemoveTag, entities, components
  <2>2. Held' = Held
    BY <2>1, Zenon DEF Held
  <2>a. \A p \in tagged : p[1] \in Held
    BY <1>0, Zenon DEF Owned
  <2>3. \A p \in tagged' : p[1] \in Held
    BY <2>1, <2>a
  <2>4. Owned(Held', cols', tagged')
    BY <1>0, <2>1, <2>2, <2>3, Zenon DEF Owned
  <2> QED
    BY <1>0, <2>1, <2>4, Zenon
<1>5. ASSUME TakeSnapshot
      PROVE  /\ names' = Declared /\ Owned(Held', cols', tagged')
             /\ snap' # NoSnap => OwnedThen(snap')
  <2>1. UNCHANGED <<names, cols, dense, gone, tagged>>
    BY <1>5, Zenon DEF TakeSnapshot, entities, components, labels
  <2>2. Held' = Held
    BY <2>1, Zenon DEF Held
  <2>3. OwnedThen(snap')
    BY <1>0, <1>5, SaveOwned, Zenon
  <2> QED
    BY <1>0, <2>1, <2>2, <2>3, Zenon
<1>6. ASSUME Restore \/ RestoreFailsAtComponent \/ RestoreFailsAtResource \/ RestoreFailsAtEvents
      PROVE  /\ names' = Declared /\ Owned(Held', cols', tagged')
             /\ snap' # NoSnap => OwnedThen(snap')
  <2>1. /\ snap # NoSnap /\ snap' = snap /\ gone' = snap.gone
        /\ RestoreEntities(snap.entities) /\ RestoreComponents(snap.components)
    BY <1>6, Zenon DEF Restore, RestoreFailsAtComponent, RestoreFailsAtResource, RestoreFailsAtEvents
  <2>2. /\ ComponentsRestorable
        /\ \A c \in Comps : RowsKnown(cols'[c].dense, cols'[c].data, HeldThen(snap))
    BY <1>0, <2>1, RestoreOwned, Zenon
  <2>3. tagged' = snap.tagged
    BY <1>6, <2>2, Zenon DEF Restore, RestoreFailsAtComponent, RestoreFailsAtResource, RestoreFailsAtEvents
  <2>4. Held' = HeldThen(snap)
    BY <2>1, Zenon DEF Held, HeldThen, RestoreEntities
  <2>5. \A p \in tagged' : p[1] \in HeldThen(snap)
    BY <1>0, <2>1, <2>3, Zenon DEF OwnedThen
  <2>6. Owned(Held', cols', tagged')
    BY <2>2, <2>4, <2>5, Zenon DEF Owned
  <2> QED
    BY <1>0, <2>1, <2>6, Zenon DEF RestoreComponents
<1>7. ASSUME Recreate
      PROVE  /\ names' = Declared /\ Owned(Held', cols', tagged')
             /\ snap' # NoSnap => OwnedThen(snap')
  <2>1. names' = Declared /\ cols' = [c \in Comps |-> EmptyColumn] /\ tagged' = {} /\ snap' = snap
    BY <1>7, Zenon DEF Recreate
  <2>2. \A c \in Comps : cols'[c].dense = <<>> /\ cols'[c].data = <<>>
    BY <2>1, Zenon DEF EmptyColumn
  <2>3. DOMAIN <<>> = {}
    OBVIOUS
  <2>4. Owned(Held', cols', tagged')
    BY <2>1, <2>2, <2>3, Zenon DEF Owned, RowsKnown
  <2> QED
    BY <1>0, <2>1, <2>4, Zenon
<1>8. ASSUME \/ \E c \in Comps : RegisterComponent(c)
             \/ \E v \in Values : SetResource(v)
             \/ RegisterPayloadType
             \/ \E s \in Systems : FetchBegins(s) \/ FetchReads(s) \/ FetchEnds(s)
             \/ UNCHANGED vars
      PROVE  UNCHANGED <<names, cols, tagged, snap>> /\ Held \subseteq Held'
  <2>1. ~ \E c \in Comps : RegisterComponent(c)
    BY <1>0, Zenon DEF RegisterComponent, Uses, Tame
  <2>2. UNCHANGED <<names, cols, tagged, snap, dense, gone>>
    BY <1>8, <2>1, Zenon DEF SetResource, RegisterPayloadType, FetchBegins, FetchReads, FetchEnds, vars,
                             entities, components, labels
  <2> QED
    BY <2>2, Zenon DEF Held
<1> QED
    BY <1>1, <1>2, <1>3, <1>4, <1>5, <1>6, <1>7, <1>8, Zenon DEF Next

\* Rows and tags belong to entities the world knows of: in a model that registers its
\* components in Initialize and writes values that can be decoded, no Restore leaves a row
\* or a tag of an entity that was not created in the history that was restored.
THEOREM KnownOwners == Spec => []OwnersKnown
<1>1. Init => RegisteredOnly /\ OwnerInv
  <2> SUFFICES ASSUME Init PROVE RegisteredOnly /\ OwnerInv
    BY Zenon
  <2>1. names = Declared /\ cols = [c \in Comps |-> EmptyColumn] /\ tagged = {} /\ snap = NoSnap
    BY Zenon DEF Init
  <2>2. \A c \in Comps : cols[c].dense = <<>> /\ cols[c].data = <<>>
    BY <2>1, Zenon DEF EmptyColumn
  <2>3. DOMAIN <<>> = {}
    OBVIOUS
  <2> QED
    BY <2>1, <2>2, <2>3, Zenon DEF RegisteredOnly, OwnerInv, Owned, RowsKnown
<1>2. OwnerInv => OwnersKnown
    BY Zenon DEF OwnerInv, OwnersKnown, Owned, RowsKnown
<1> QED
    BY <1>1, <1>2, NextRegisteredOnly, NextOwnerInv, Consistency, PTL DEF Spec
=============================================================================
