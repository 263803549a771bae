----------------------------- MODULE Components -----------------------------
(***************************************************************************)
(* ComponentStore and Column of pkg/simulation/component.go.  A column is  *)
(* a sparse set with a parallel sequence of values.  It is keyed by the    *)
(* INDEX of an entity: generations are not compared.                       *)
(***************************************************************************)
EXTENDS SparseSet

CONSTANTS
    Comps,   \* component names
    Values,  \* component values
    Json     \* what becomes of a value that is encoded and decoded

\* No value: a value that cannot be encoded has this for its encoding.
NoValue == "none"

\* The encoding of a value that cannot be decoded.
Garbled == "garbled"

\* Encoding may lose something (unexported fields), or fail; what is left is lost no more.
ASSUME ComponentsAssumption ==
    /\ NoValue \notin Values /\ Garbled \notin Values
    /\ Json \in [Values \cup {NoValue} -> Values \cup {NoValue, Garbled}]
    /\ Json[NoValue] = NoValue
    /\ \A v \in Values : Json[v] \in Values => Json[Json[v]] = Json[v]

VARIABLES
    names,  \* the registered names; the ID of a component is its place here
    cols    \* the column of each component

components == <<names, cols>>

EmptyColumn == [sparse |-> [x \in Indices |-> 0], dense |-> <<>>, data |-> <<>>]

Registered == {names[i] : i \in DOMAIN names}

\* RegisterComponent: the name gets the next ID, and its column is created.
Register(c) ==
    /\ c \notin Registered
    /\ names' = Append(names, c)
    /\ UNCHANGED cols

Has(c, id) == cols[c].sparse[id.index] # 0

\* Set for an entity without the component: it joins the column.
SetNew(c, id, v) ==
    /\ c \in Registered /\ ~ Has(c, id)
    /\ cols' = [cols EXCEPT ![c] = [sparse |-> Link(@.sparse, @.dense, id.index),
                                    dense  |-> Append(@.dense, id),
                                    data   |-> Append(@.data, v)]]
    /\ UNCHANGED names

\* The column with value v in the row of index x.
WithValue(col, x, v) ==
    [sparse |-> col.sparse, dense |-> col.dense,
     data   |-> [col.data EXCEPT ![col.sparse[x]] = v]]

\* Set for an entity that has it: only the value changes.
SetPresent(c, id, v) ==
    /\ c \in Registered /\ Has(c, id)
    /\ cols' = [cols EXCEPT ![c] = WithValue(@, id.index, v)]
    /\ UNCHANGED names

\* Mutant of WithoutRow: the value of the entity that was moved stays behind.
WithoutRowKeepsData(col, x) ==
    [sparse |-> Unlink(col.sparse, col.dense, x),
     dense  |-> SwapRemove(col.dense, col.sparse[x]),
     data   |-> SubSeq(col.data, 1, Len(col.data) - 1)]

\* The column once the row of index x is removed.
WithoutRow(col, x) ==
    [sparse |-> Unlink(col.sparse, col.dense, x),
     dense  |-> SwapRemove(col.dense, col.sparse[x]),
     data   |-> SwapRemove(col.data, col.sparse[x])]

Remove(c, id) ==
    /\ c \in Registered /\ Has(c, id)
    /\ cols' = [cols EXCEPT ![c] = WithoutRow(@, id.index)]
    /\ UNCHANGED names

\* Every value of the column can be encoded.
Encodable(c) == \A q \in DOMAIN cols[c].data : Json[cols[c].data[q]] # NoValue

\* snapshotJSON
Encoded(data) == [q \in DOMAIN data |-> Json[data[q]]]

\* componentSnapshot of every registered column, in ID order.
ComponentsSnapshot ==
    [i \in DOMAIN names |-> [name |-> names[i], dense |-> cols[names[i]].dense,
                             data |-> Encoded(cols[names[i]].data)]]

\* restoreJSON: all values are decoded first.
Decodable(s) == \A q \in DOMAIN s.data : s.data[q] # Garbled

RestoredColumn(s) ==
    [sparse |-> Rebuild(s.dense), dense |-> s.dense, data |-> s.data]

\* The parts of snapshot s that ComponentStore.Restore replaces: it stops at the
\* first name that is not registered, and at the first value it cannot decode.
RestoredParts(s) == {i \in DOMAIN s : \A j \in 1 .. i : s[j].name \in Registered /\ Decodable(s[j])}

\* Mutant of RestoreComponents: a part without rows is skipped.
RestoreComponentsRows(s) ==
    /\ cols' = [c \in Comps |->
                  IF \E i \in RestoredParts(s) : s[i].name = c /\ s[i].dense # <<>>
                  THEN RestoredColumn(s[CHOOSE i \in RestoredParts(s) : s[i].name = c])
                  ELSE cols[c]]
    /\ UNCHANGED names

\* A column that is not part of the snapshot keeps its rows.
RestoreComponents(s) ==
    /\ cols' = [c \in Comps |->
                  IF \E i \in RestoredParts(s) : s[i].name = c
                  THEN RestoredColumn(s[CHOOSE i \in RestoredParts(s) : s[i].name = c])
                  ELSE cols[c]]
    /\ UNCHANGED names
=============================================================================
