------------------------------- MODULE MCWorld -------------------------------
(* The instances of World that TLC checks. *)
EXTENDS World, TLC

\* One system reads a and writes b, one has no components: it gets all entities.
MCAccess == [both |-> <<"a", "b">>, all |-> <<>>]

MCDeclared == <<"a", "b">>

Model(u, n) == [uses |-> u, values |-> {"v", "w"}, bound |-> n]

\* A value that loses a field, one that cannot be encoded, and one that cannot be decoded.
MCJson == [v |-> "v", w |-> "v", f |-> NoValue, g |-> Garbled, none |-> NoValue]

Fragile(m) == [m EXCEPT !.values = {"v", "f", "g"}]
Plain(m) == [m EXCEPT !.values = {"w"}]

\* Models that use a few operations each, so that their histories can be long.
MCModels ==
    {Model({"snapshots"}, 8),
     Model({"components"}, 7),
     Model({"components", "snapshots"}, 5),
     Model({"components", "systems"}, 3),
     Model({"tags", "resources", "snapshots", "restarts"}, 2),
     Model({"components", "late", "snapshots", "restarts"}, 2),
     Fragile(Model({"components", "snapshots"}, 4)),
     Fragile(Model({"resources", "payloads", "snapshots", "restarts"}, 2)),
     Plain(Model({"components", "payloads", "snapshots", "restarts"}, 3)),
     Plain(Model({"components", "tags", "payloads", "snapshots", "restarts"}, 2)),
     Model({"snapshots", "systems"}, 3)}

\* A model that keeps IDs of entities it destroyed.
MCStale == {Model({"components"}, 5)}
==============================================================================
