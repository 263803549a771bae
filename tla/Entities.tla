------------------------------ MODULE Entities ------------------------------
(***************************************************************************)
(* EntityManager of pkg/simulation/entity.go.  Every method holds m.mu, so *)
(* every operation is one action.  m.count is always len(m.dense) and is   *)
(* left out; versions and sparse are total functions (see SparseSet).      *)
(***************************************************************************)
EXTENDS SparseSet

VARIABLES
    versions,  \* the generation of each index
    sparse,    \* index -> position in dense, 0 when absent
    dense,     \* the live entities
    free,      \* the recycled indices, reused last in first out
    next       \* the next index to allocate when free is empty

entities == <<versions, sparse, dense, free, next>>

InitEntities ==
    /\ versions = [x \in Indices |-> 0]
    /\ sparse = [x \in Indices |-> 0]
    /\ dense = <<>>
    /\ free = <<>>
    /\ next = 0

\* Mutant of NextVersion: the generation is not advanced.
SameVersion(v) == v

\* versions[index]++ on an uint32.
NextVersion(v) == (v + 1) % VersionSpace

\* The ID that Create returns: of the index freed last, or of a new one.
CreatedId ==
    LET x == IF free = <<>> THEN next ELSE free[Len(free)]
    IN  [index |-> x, version |-> NextVersion(versions[x])]

Create ==
    /\ \/ /\ free # <<>>
          /\ free' = SubSeq(free, 1, Len(free) - 1)
          /\ UNCHANGED next
       \/ /\ free = <<>> /\ next \in Indices
          /\ next' = next + 1
          /\ UNCHANGED free
    /\ versions' = [versions EXCEPT ![CreatedId.index] = CreatedId.version]
    /\ dense' = Append(dense, CreatedId)
    /\ sparse' = Link(sparse, dense, CreatedId.index)

\* aliveLocked
Alive(id) == versions[id.index] = id.version /\ sparse[id.index] # 0

\* Mutant of Destroy: the position of the entity that was moved is not updated.
DestroyKeepsMoved(id) ==
    /\ Alive(id)
    /\ dense' = SwapRemove(dense, sparse[id.index])
    /\ sparse' = [sparse EXCEPT ![id.index] = 0]
    /\ free' = Append(free, id.index)
    /\ UNCHANGED <<versions, next>>

\* Mutant of Destroy: the index is not recycled.
DestroyLeaks(id) ==
    /\ Alive(id)
    /\ dense' = SwapRemove(dense, sparse[id.index])
    /\ sparse' = Unlink(sparse, dense, id.index)
    /\ UNCHANGED <<versions, free, next>>

\* A stale ID is refused: nothing changes.
Destroy(id) ==
    /\ Alive(id)
    /\ dense' = SwapRemove(dense, sparse[id.index])
    /\ sparse' = Unlink(sparse, dense, id.index)
    /\ free' = Append(free, id.index)
    /\ UNCHANGED <<versions, next>>

\* entityManagerState: sparse is not part of it.
EntitiesSnapshot == [dense |-> dense, next |-> next, free |-> free, versions |-> versions]

RestoreEntities(s) ==
    /\ dense' = s.dense
    /\ next' = s.next
    /\ free' = s.free
    /\ versions' = s.versions
    /\ sparse' = Rebuild(s.dense)
=============================================================================
