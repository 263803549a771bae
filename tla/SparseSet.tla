----------------------------- MODULE SparseSet -----------------------------
(***************************************************************************)
(* The sparse-set layout that EntityManager (pkg/simulation/entity.go) and *)
(* Column (pkg/simulation/component.go) share: dense is a sequence of      *)
(* entity IDs, sparse maps an entity index to its position in dense, or to *)
(* 0 when it is absent.  Slices grow on demand and are zeroed, so sparse   *)
(* is a total function here.  Positions count from 1, as sparse does.      *)
(***************************************************************************)
EXTENDS Naturals, Sequences

CONSTANTS
    MaxEntities,  \* bound: the entity indices that are ever allocated
    VersionSpace  \* the number of generations, 2^32 in the code

ASSUME SparseSetAssumption ==
    /\ MaxEntities \in Nat \ {0}
    /\ VersionSpace \in Nat \ {0, 1}

Indices == 0 .. MaxEntities - 1

Versions == 0 .. VersionSpace - 1

\* EntityID: the index in the high half, the generation in the low half.
Ids == [index : Indices, version : Versions]

\* s without position pos: the last element is moved into the hole.
SwapRemove(s, pos) ==
    [i \in 1 .. Len(s) - 1 |-> IF i = pos THEN s[Len(s)] ELSE s[i]]

\* sparse once index x is removed from dense by SwapRemove.
Unlink(sparse, dense, x) ==
    [[sparse EXCEPT ![dense[Len(dense)].index] = sparse[x]] EXCEPT ![x] = 0]

\* sparse once an ID with index x is appended to dense.
Link(sparse, dense, x) == [sparse EXCEPT ![x] = Len(dense) + 1]

\* sparse built from nothing by a pass over dense: a later position wins.
Rebuild(dense) ==
    LET Positions(x) == {i \in DOMAIN dense : dense[i].index = x}
    IN  [x \in Indices |->
            IF Positions(x) = {} THEN 0
            ELSE CHOOSE i \in Positions(x) : \A j \in Positions(x) : j <= i]

\* sparse and dense agree: each is the inverse of the other.
Linked(sparse, dense) ==
    /\ \A i \in DOMAIN dense : sparse[dense[i].index] = i
    /\ \A x \in Indices :
          sparse[x] # 0 => sparse[x] \in DOMAIN dense /\ dense[sparse[x]].index = x
=============================================================================
