--------------------------- MODULE AbstractWorld ---------------------------
(***************************************************************************)
(* What a world promises its model: entities are a set of IDs, no two of   *)
(* one index; a component is a set of rows, one per entity index; tags and *)
(* resources are what was put there; and Restore brings back what became   *)
(* of what was saved.  World shows how sparse sets, swap removal, free     *)
(* lists and the parts of a snapshot implement it.                         *)
(***************************************************************************)
CONSTANTS Ids, Comps, Values, Tags, NoValue, Json

VARIABLES
    alive,     \* the live entities
    rows,      \* for each component, rows [owner, value]
    tagged,    \* pairs <<entity, tag>>
    resource,  \* a value, or NoValue
    saved      \* the worlds that were saved: none, or the last one

avars == <<alive, rows, tagged, resource, saved>>

AInit ==
    /\ alive = {} /\ rows = [c \in Comps |-> {}]
    /\ tagged = {} /\ resource = NoValue
    /\ saved = {}

ACreate ==
    /\ \E id \in Ids :
          /\ \A a \in alive : a.index # id.index
          /\ alive' = alive \cup {id}
    /\ UNCHANGED <<rows, tagged, resource, saved>>

ADestroy ==
    /\ \E id \in alive : alive' = alive \ {id}
    /\ UNCHANGED <<rows, tagged, resource, saved>>

RowsOf(c, id) == {r \in rows[c] : r.owner.index = id.index}

SetRows(c, new) == rows' = [rows EXCEPT ![c] = new]

\* Set adds a row, or changes the value of the row of that index and keeps its owner.
ASet ==
    /\ \E c \in Comps, id \in Ids, v \in Values :
          \/ /\ RowsOf(c, id) = {}
             /\ SetRows(c, rows[c] \cup {[owner |-> id, value |-> v]})
          \/ \E r \in RowsOf(c, id) :
                SetRows(c, (rows[c] \ {r}) \cup {[owner |-> r.owner, value |-> v]})
    /\ UNCHANGED <<alive, tagged, resource, saved>>

ARemove ==
    /\ \E c \in Comps : \E r \in rows[c] : SetRows(c, rows[c] \ {r})
    /\ UNCHANGED <<alive, tagged, resource, saved>>

ALabel ==
    /\ tagged' \in SUBSET (Ids \X Tags)
    /\ UNCHANGED <<alive, rows, resource, saved>>

AResource ==
    /\ resource' \in Values
    /\ UNCHANGED <<alive, rows, tagged, saved>>

Encoded(rs) == {[owner |-> r.owner, value |-> Json[r.value]] : r \in rs}

\* What becomes of the values when they are encoded and decoded; all of them can be encoded.
ASave ==
    /\ \A c \in Comps : \A r \in rows[c] : Json[r.value] # NoValue
    /\ saved' = {[alive |-> alive, rows |-> [c \in Comps |-> Encoded(rows[c])], tagged |-> tagged,
                   resource |-> Json[resource]]}
    /\ UNCHANGED <<alive, rows, tagged, resource>>

\* Restore, also of a world that has more components than were saved.
ARestore ==
    /\ \E w \in saved :
          /\ alive' = w.alive /\ tagged' = w.tagged /\ resource' = w.resource
          /\ rows' \in [Comps -> SUBSET [owner : Ids, value : Values]]
          /\ \A c \in Comps : rows'[c] = w.rows[c] \/ (w.rows[c] = {} /\ rows'[c] = rows[c])
    /\ UNCHANGED saved

\* A Restore that fails: every part is as it was or as it was saved, or empty.
AFailedRestore ==
    /\ \E w \in saved :
          /\ alive' = w.alive
          /\ rows' \in [Comps -> SUBSET [owner : Ids, value : Values]]
          /\ \A c \in Comps : rows'[c] \in {rows[c], w.rows[c]}
          /\ tagged' \in {tagged, w.tagged} /\ resource' \in {resource, w.resource, NoValue}
    /\ UNCHANGED saved

\* A new world.
ANew ==
    /\ alive' = {} /\ rows' = [c \in Comps |-> {}]
    /\ tagged' = {} /\ resource' = NoValue
    /\ UNCHANGED saved

ANext ==
    \/ ANew \/ ASave \/ ARestore \/ AFailedRestore
    \/ ALabel \/ AResource \/ ACreate \/ ADestroy \/ ARemove \/ ASet

ASpec == AInit /\ [][ANext]_avars
=============================================================================
