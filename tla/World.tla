------------------------------- MODULE World -------------------------------
(***************************************************************************)
(* The world of pkg/simulation/world.go: entities, component columns, tags *)
(* and resources, the structural revision, snapshots of the whole world    *)
(* (snapshot.go) and the scheduler's cached entity sets (scheduler.go).    *)
(*                                                                         *)
(* A model calls the operations; each holds the lock of the part it        *)
(* changes, and bumps the revision before it releases it.  system.go asks  *)
(* of Run that it makes no structural changes.  Nothing enforces it, and   *)
(* the step of a stopped run can overlap the next run (SimRuntime), so the *)
(* steps of entitySet interleave with every operation here.  Clock and     *)
(* events are modelled in Executor: here a snapshot only knows whether its *)
(* events can be restored.                                                 *)
(***************************************************************************)
EXTENDS Entities, Components

CONSTANTS
    Tags,         \* tags
    Declared,     \* the components the model registers in Initialize, in order
    Access,       \* for each system, its Reads followed by its Writes
    Models,       \* the models: the operations a model uses, the values it writes, and
                  \* a bound on its structural changes
    MaxWorlds,    \* bound: the worlds that are created
    NoSnap        \* no snapshot was taken

Systems == DOMAIN Access

AllUses == {"components", "late", "tags", "resources", "payloads", "snapshots", "restarts", "systems"}

\* Snapshot: the parts of a world that are saved, no sparse half among them, and
\* the history that goes with them.
SavedEntities == [dense : Seq(Ids), next : 0 .. MaxEntities, free : Seq(Indices),
                  versions : [Indices -> Versions]]

SavedColumns == [name : Comps, dense : Seq(Ids), data : Seq(Values \cup {Garbled})]

\* The payloads of the saved events: plain JSON, of a registered type, or not decodable.
Payloads == {"plain", "typed", Garbled}

Snapshots == [entities : SavedEntities, components : Seq(SavedColumns),
              tagged : SUBSET (Ids \X Tags), resource : Values \cup {NoValue, Garbled},
              payload : Payloads, gone : SUBSET Ids]

ASSUME WorldAssumption ==
    /\ Models \subseteq [uses : SUBSET AllUses, values : SUBSET Values, bound : Nat]
    /\ Declared \in Seq(Comps)
    /\ \A i, j \in DOMAIN Declared : Declared[i] = Declared[j] => i = j
    /\ \A s \in Systems : Access[s] \in Seq(Comps)
    /\ NoSnap \notin Snapshots

VARIABLES
    model,     \* the model, fixed for ever
    tagged,    \* TagStore: the pairs <<entity, tag>>
    resource,  \* the value of the one resource, NoValue when it is not set
    known,     \* what is known of the type of the "resource" and of the "payload" of events
    revision,  \* the structural revision
    cache,     \* scheduler.cache: the entity set of each system, and its revision
    fetch,     \* what each system's call of entitySet has read so far
    gone,      \* history: the entities that were destroyed
    torn,      \* history: a Restore failed since the revision was last bumped
    snap,      \* a snapshot of this world, or of an earlier one of the same model
    worlds     \* how many worlds were created

labels == <<tagged, resource, known>>
sets == <<cache, fetch>>
vars == <<model, entities, components, labels, revision, sets, gone, torn, snap, worlds>>

NoFetch == [busy |-> FALSE, rev |-> 0, ids |-> <<>>, todo |-> <<>>]

EmptyCache == [s \in Systems |-> [rev |-> 0, ids |-> <<>>]]

NotFetching == [s \in Systems |-> NoFetch]

\* NewWorld, and Initialize of the model, which registers components.
Init ==
    /\ model \in Models
    /\ InitEntities
    /\ names = Declared /\ cols = [c \in Comps |-> EmptyColumn]
    /\ tagged = {} /\ resource = NoValue /\ known = {}
    /\ revision = 0 /\ cache = EmptyCache /\ fetch = NotFetching
    /\ gone = {} /\ torn = FALSE /\ snap = NoSnap /\ worlds = 1

-----------------------------------------------------------------------------
(* Structural changes: each bumps the revision. *)

Uses(op) == op \in model.uses

\* w.bump()
Bump == revision < model.bound /\ revision' = revision + 1 /\ torn' = FALSE

\* The IDs a model may hold: it got them from Create, and may have destroyed them.
Held == {dense[i] : i \in DOMAIN dense} \cup gone

CreateEntity ==
    /\ Create /\ Bump
    /\ UNCHANGED <<components, labels, sets, gone, snap, worlds>>

DestroyEntity(id) ==
    /\ Destroy(id) /\ Bump
    /\ gone' = gone \cup {id}
    /\ UNCHANGED <<components, labels, sets, snap, worlds>>

AddComponent(c, id, v) ==
    /\ Uses("components") /\ v \in model.values
    /\ SetNew(c, id, v) /\ Bump
    /\ UNCHANGED <<entities, labels, sets, gone, snap, worlds>>

RemoveComponent(c, id) ==
    /\ Remove(c, id) /\ Bump
    /\ UNCHANGED <<entities, labels, sets, gone, snap, worlds>>

-----------------------------------------------------------------------------
(* Changes that leave the structure alone. *)

WriteComponent(c, id, v) ==
    /\ v \in model.values
    /\ SetPresent(c, id, v)
    /\ UNCHANGED <<entities, labels, revision, sets, gone, torn, snap, worlds>>

\* A component that was not declared in Initialize.
RegisterComponent(c) ==
    /\ Uses("late")
    /\ Register(c)
    /\ UNCHANGED <<entities, labels, revision, sets, gone, torn, snap, worlds>>

AddTag(id, t) ==
    /\ Uses("tags")
    /\ tagged' = tagged \cup {<<id, t>>}
    /\ UNCHANGED <<entities, components, resource, known, revision, sets, gone, torn, snap, worlds>>

RemoveTag(id, t) ==
    /\ tagged' = tagged \ {<<id, t>>}
    /\ UNCHANGED <<entities, components, resource, known, revision, sets, gone, torn, snap, worlds>>

\* TagStore.RemoveEntity.  Destroying an entity does not call it.
RemoveEntityTags(id) ==
    /\ tagged' = {p \in tagged : p[1] # id}
    /\ UNCHANGED <<entities, components, resource, known, revision, sets, gone, torn, snap, worlds>>

SetResource(v) ==
    /\ Uses("resources") /\ v \in model.values
    /\ resource' = v /\ known' = known \cup {"resource"}
    /\ UNCHANGED <<entities, components, tagged, revision, sets, gone, torn, snap, worlds>>

RegisterPayloadType ==
    /\ Uses("payloads")
    /\ known' = known \cup {"payload"}
    /\ UNCHANGED <<entities, components, tagged, resource, revision, sets, gone, torn, snap, worlds>>

-----------------------------------------------------------------------------
(* Snapshot and Restore, called while nothing else changes the world. *)

\* World.Snapshot: every part, with events of payload p; gone is history and goes with it.
Capture(p) ==
    [entities |-> EntitiesSnapshot, components |-> ComponentsSnapshot, tagged |-> tagged,
     resource |-> Json[resource], payload |-> p, gone |-> gone]

\* It fails, and nothing changes, when a value cannot be encoded.
TakeSnapshot ==
    /\ Uses("snapshots")
    /\ \A c \in Registered : Encodable(c)
    /\ resource # NoValue => Json[resource] # NoValue
    /\ \E p \in Payloads : (p # "plain" => "payload" \in known) /\ snap' = Capture(p)
    /\ UNCHANGED <<entities, components, labels, revision, sets, gone, torn, worlds>>

ComponentsRestorable == RestoredParts(snap.components) = DOMAIN snap.components

ResourceRestorable == snap.resource = NoValue \/ ("resource" \in known /\ snap.resource # Garbled)

EventsRestorable == snap.payload = "plain" \/ ("payload" \in known /\ snap.payload # Garbled)

\* World.Restore: all parts in turn, then the bump.
Restore ==
    /\ snap # NoSnap /\ ComponentsRestorable /\ ResourceRestorable /\ EventsRestorable
    /\ RestoreEntities(snap.entities) /\ RestoreComponents(snap.components)
    /\ tagged' = snap.tagged /\ resource' = snap.resource /\ gone' = snap.gone
    /\ Bump
    /\ UNCHANGED <<known, sets, snap, worlds>>

\* It returns at a component that is not registered or not decodable: the entities and
\* the components before it are replaced ...
RestoreFailsAtComponent ==
    /\ snap # NoSnap /\ ~ ComponentsRestorable
    /\ RestoreEntities(snap.entities) /\ RestoreComponents(snap.components)
    /\ gone' = snap.gone /\ torn' = TRUE
    /\ UNCHANGED <<labels, revision, sets, snap, worlds>>

\* ... or at a resource whose type is not known, once all resources are gone ...
RestoreFailsAtResource ==
    /\ snap # NoSnap /\ ComponentsRestorable /\ ~ ResourceRestorable
    /\ RestoreEntities(snap.entities) /\ RestoreComponents(snap.components)
    /\ tagged' = snap.tagged /\ resource' = NoValue /\ gone' = snap.gone
    /\ torn' = TRUE
    /\ UNCHANGED <<known, revision, sets, snap, worlds>>

\* ... or at an event, when only the bump is left to do.
RestoreFailsAtEvents ==
    /\ snap # NoSnap /\ ComponentsRestorable /\ ResourceRestorable /\ ~ EventsRestorable
    /\ RestoreEntities(snap.entities) /\ RestoreComponents(snap.components)
    /\ tagged' = snap.tagged /\ resource' = snap.resource /\ gone' = snap.gone
    /\ torn' = TRUE
    /\ UNCHANGED <<known, revision, sets, snap, worlds>>

\* The simulation is built again, by Replay or in a new process, and the
\* snapshot is kept.
Recreate ==
    /\ Uses("restarts") /\ worlds < MaxWorlds /\ snap # NoSnap
    /\ versions' = [x \in Indices |-> 0] /\ sparse' = [x \in Indices |-> 0]
    /\ dense' = <<>> /\ free' = <<>> /\ next' = 0
    /\ names' = Declared /\ cols' = [c \in Comps |-> EmptyColumn]
    /\ tagged' = {} /\ resource' = NoValue /\ known' = {}
    /\ revision' = 0 /\ cache' = EmptyCache /\ fetch' = NotFetching
    /\ gone' = {} /\ torn' = FALSE /\ worlds' = worlds + 1
    /\ UNCHANGED snap

-----------------------------------------------------------------------------
(* scheduler.entitySet, called for system s on its own goroutine. *)

\* The column of component c, or every entity, in dense order.
Entries(c) == IF c = "entities" THEN dense ELSE cols[c].dense

\* add: appends to ids the entries of es that it does not have yet, one by one.
Merge(ids, es) ==
    LET out[n \in 0 .. Len(es)] ==
            IF n = 0 THEN ids
            ELSE IF \E i \in DOMAIN out[n - 1] : out[n - 1][i] = es[n] THEN out[n - 1]
            ELSE Append(out[n - 1], es[n])
    IN  out[Len(es)]

\* The parts systemEntities reads: the system's columns, or all entities.
Parts(s) == IF Access[s] = <<>> THEN <<"entities">> ELSE Access[s]

\* The revision is read, and the cached set is out of date.
FetchBegins(s) ==
    /\ Uses("systems")
    /\ ~ fetch[s].busy /\ cache[s].rev # revision
    /\ fetch' = [fetch EXCEPT ![s] = [busy |-> TRUE, rev |-> revision, ids |-> <<>>,
                                      todo |-> Parts(s)]]
    /\ UNCHANGED <<entities, components, labels, revision, cache, gone, torn, snap, worlds>>

\* One more column is read, under its lock.
FetchReads(s) ==
    /\ fetch[s].busy /\ fetch[s].todo # <<>>
    /\ fetch' = [fetch EXCEPT ![s].ids = Merge(@, Entries(Head(fetch[s].todo))),
                              ![s].todo = Tail(@)]
    /\ UNCHANGED <<entities, components, labels, revision, cache, gone, torn, snap, worlds>>

\* Mutant of FetchEnds: the set is stored with the present revision.
FetchEndsNow(s) ==
    /\ fetch[s].busy /\ fetch[s].todo = <<>>
    /\ cache' = [cache EXCEPT ![s] = [rev |-> revision, ids |-> fetch[s].ids]]
    /\ fetch' = [fetch EXCEPT ![s] = NoFetch]
    /\ UNCHANGED <<entities, components, labels, revision, gone, torn, snap, worlds>>

\* The set is stored with the revision that was read first.
FetchEnds(s) ==
    /\ fetch[s].busy /\ fetch[s].todo = <<>>
    /\ cache' = [cache EXCEPT ![s] = [rev |-> fetch[s].rev, ids |-> fetch[s].ids]]
    /\ fetch' = [fetch EXCEPT ![s] = NoFetch]
    /\ UNCHANGED <<entities, components, labels, revision, gone, torn, snap, worlds>>

-----------------------------------------------------------------------------

Next ==
    /\ model' = model
    /\ \/ CreateEntity
       \/ \E id \in Held :
             \/ DestroyEntity(id)
             \/ \E c \in Comps :
                   \/ RemoveComponent(c, id)
                   \/ \E v \in Values : AddComponent(c, id, v) \/ WriteComponent(c, id, v)
             \/ \E t \in Tags : AddTag(id, t) \/ RemoveTag(id, t)
             \/ RemoveEntityTags(id)
       \/ \E c \in Comps : RegisterComponent(c)
       \/ \E v \in Values : SetResource(v)
       \/ RegisterPayloadType
       \/ TakeSnapshot \/ Restore \/ Recreate
       \/ RestoreFailsAtComponent \/ RestoreFailsAtResource \/ RestoreFailsAtEvents
       \/ \E s \in Systems : FetchBegins(s) \/ FetchReads(s) \/ FetchEnds(s)

Spec == Init /\ [][Next]_vars

-----------------------------------------------------------------------------
(* Properties *)

\* The shape of the state; a column has as many values as entities.
TypeOK ==
    /\ versions \in [Indices -> Versions]
    /\ sparse \in [Indices -> Nat]
    /\ dense \in Seq(Ids) /\ free \in Seq(Indices) /\ next \in 0 .. MaxEntities
    /\ names \in Seq(Comps)
    /\ cols \in [Comps -> [sparse : [Indices -> Nat], dense : Seq(Ids), data : Seq(Values)]]
    /\ \A c \in Comps : Len(cols[c].data) = Len(cols[c].dense)
    /\ tagged \subseteq Ids \X Tags
    /\ resource \in Values \cup {NoValue} /\ known \subseteq {"resource", "payload"}
    /\ model \in Models /\ revision \in 0 .. model.bound
    /\ gone \subseteq Ids /\ torn \in BOOLEAN

\* The two halves of every sparse set stay inverse to each other through any
\* sequence of insertions, swap removals and restores.
SparseSetsLinked ==
    /\ Linked(sparse, dense)
    /\ \A c \in Comps : Linked(cols[c].sparse, cols[c].dense)

\* Every index that was ever allocated is either live or on the free list, once,
\* and no other index is live.
FreeListExact ==
    /\ \A x \in Indices : sparse[x] # 0 => x < next
    /\ \A i, j \in DOMAIN free : free[i] = free[j] => i = j
    /\ {free[i] : i \in DOMAIN free} = {x \in Indices : x < next /\ sparse[x] = 0}

\* A stale EntityID is not mistaken for a live entity: a destroyed ID is alive
\* again only after its index went through all of its generations.
StaleStaysDead ==
    \A id \in gone :
       Alive(id) => \A v \in Versions : [index |-> id.index, version |-> v] \in gone

\* The sets that result from merging the first n of the sequences es.
Merged(es) ==
    LET merged[n \in 0 .. Len(es)] ==
            IF n = 0 THEN <<>> ELSE Merge(merged[n - 1], es[n])
    IN  merged

\* The entities system s operates on, read all at once.
SystemEntries(s) == [i \in 1 .. Len(Parts(s)) |-> Entries(Parts(s)[i])]

SystemEntities(s) == Merged(SystemEntries(s))[Len(Parts(s))]

\* A cached entity set that carries the present revision is the present one.
CacheCurrent ==
    \A s \in Systems : cache[s].rev = revision => cache[s].ids = SystemEntities(s)

\* The scheduler never uses an entity set that is out of date, however the reads
\* of entitySet interleave with structural changes, unless a Restore failed.
CacheFresh == ~ torn => CacheCurrent

\* The model registers its components in Initialize, and writes values that can be decoded.
Tame == "late" \notin model.uses /\ \A v \in model.values : Json[v] # Garbled

\* Rows and tags belong to entities the world knows of: in a tame model a Restore, also one
\* that fails at a resource or an event, and also in a new world, leaves no row and no tag
\* of an entity that was never created in the history that was restored.
OwnersKnown ==
    Tame =>
        /\ \A c \in Comps : \A i \in DOMAIN cols[c].dense : cols[c].dense[i] \in Held
        /\ \A p \in tagged : p[1] \in Held

\* A stale ID resolves, if at all, to the row that was written for it, and never
\* to the row of another entity.
StaleNotMistaken ==
    \A id \in gone : \A c \in Comps :
       Has(c, id) => cols[c].dense[cols[c].sparse[id.index]] = id

-----------------------------------------------------------------------------
(* Refinement *)

RowsOfColumn(d, data) == {[owner |-> d[i], value |-> data[i]] : i \in DOMAIN d}

SavedRows(s, c) ==
    UNION {RowsOfColumn(s[i].dense, s[i].data) : i \in {j \in DOMAIN s : s[j].name = c}}

SavedWorld(s) ==
    [alive |-> {s.entities.dense[i] : i \in DOMAIN s.entities.dense},
     rows |-> [c \in Comps |-> SavedRows(s.components, c)],
     tagged |-> s.tagged, resource |-> s.resource]

A == INSTANCE AbstractWorld
     WITH alive <- {dense[i] : i \in DOMAIN dense},
          rows <- [c \in Comps |-> RowsOfColumn(cols[c].dense, cols[c].data)],
          saved <- IF snap = NoSnap THEN {} ELSE {SavedWorld(snap)}

\* The world implements AbstractWorld: it is a set of entities, maps of
\* components, and a Restore that brings back what was encoded, or fails and
\* leaves each part as it was or as it was saved.
RefinesAbstractWorld == A!ASpec
=============================================================================
