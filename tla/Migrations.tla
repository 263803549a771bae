----------------------------- MODULE Migrations -----------------------------
(***************************************************************************)
(* Migrate and Rollback of internal/database/migrate.go, by processes that *)
(* share a database: servers migrate when they start, an operator calls    *)
(* cmd/migrate.  Binaries of different age know the first versions only.   *)
(*                                                                         *)
(* PostgreSQL is external.  The scripts of all versions touch the table    *)
(* simulations, so a script waits until no other transaction is open; a    *)
(* transaction works on a copy of the database that Commit publishes.  Any *)
(* statement can fail, and a process can die between any two.              *)
(***************************************************************************)
EXTENDS Integers, FiniteSets

CONSTANTS
    Processes,   \* processes
    Setups       \* what each process does and knows, and what can happen to it

Versions == 1 .. 2

\* steps: 0 for Migrate, else the number Rollback is asked for; known: the versions the
\* binary has; overlap: whether processes overlap; restarts: the starts after a failure.
ASSUME SetupsAssumption ==
    Setups \subseteq [steps : [Processes -> Nat], known : [Processes -> {0} \cup Versions],
                     overlap : BOOLEAN, faults : BOOLEAN, restarts : Nat]

VARIABLES
    setup,       \* the setup, fixed for ever
    schema,      \* what the scripts have created
    table,       \* whether schema_migrations exists
    recorded,    \* its rows
    procs,       \* each process: where it is, and the versions it has still to do
    tx,          \* the transaction of each process: whether it is open, and the database
                 \* as it sees it
    seen,        \* history: the rows each process has read
    starts       \* history: restarts so far

db == <<schema, table, recorded>>
vars == <<setup, db, procs, tx, seen, starts>>

NoTx == [open |-> FALSE, schema |-> {}, recorded |-> {}]

Proc(pc, todo) == [pc |-> pc, todo |-> todo]

Up(p) == setup.steps[p] = 0
Working(p) == procs[p].pc \notin {"new", "ok", "failed"}

Init ==
    /\ setup \in Setups
    /\ schema = {} /\ table = FALSE /\ recorded = {}
    /\ procs = [p \in Processes |-> Proc("new", {})]
    /\ tx = [p \in Processes |-> NoTx]
    /\ seen = [p \in Processes |-> {}]
    /\ starts = 0

(* ------------------------------- the scripts ---------------------------- *)

\* 0001 creates the tables of the simulations, 0002 the users and the column owner_id.
Created(v) == IF v = 1 THEN {"simulations"} ELSE {"users", "owner_id"}

\* 0002 alters the table simulations, in both directions.
ScriptFails(v, s) == v = 2 /\ "simulations" \notin s

\* Everything is created if it does not exist; ...
UpScript(v, s) == s \cup Created(v)

\* ... a table goes with its columns.
DownScript(v, s) == s \ (Created(v) \cup (IF v = 1 THEN {"owner_id"} ELSE {}))

(* ------------------------------ the processes --------------------------- *)

GoTo(p, pc, todo) == procs' = [procs EXCEPT ![p] = Proc(pc, todo)]

\* A process starts, for the first time or again.
Start(p) ==
    /\ \/ procs[p].pc = "new" /\ UNCHANGED starts
       \/ procs[p].pc = "failed" /\ starts < setup.restarts /\ starts' = starts + 1
    /\ setup.overlap \/ \A q \in Processes : ~Working(q)
    /\ GoTo(p, IF Up(p) THEN "create" ELSE "read", {})
    /\ UNCHANGED <<setup, db, tx, seen>>

\* CREATE TABLE IF NOT EXISTS schema_migrations
CreateTable(p) ==
    /\ procs[p].pc = "create"
    /\ table' = TRUE
    /\ GoTo(p, "read", {})
    /\ UNCHANGED <<setup, schema, recorded, tx, seen, starts>>

Known(p) == 1 .. setup.known[p]

\* The latest n of some versions.
Latest(rows, n) == {v \in rows : Cardinality({w \in rows : v < w}) < n}

\* Mutant: Rollback takes one version too many.
PendingOneMore(p, rows) == IF Up(p) THEN Known(p) \ rows ELSE Latest(rows, setup.steps[p] + 1) \cap Known(p)

\* What Migrate or Rollback will do, given the rows it has read: Rollback takes the latest
\* versions and then drops those its binary does not know.
Pending(p, rows) == IF Up(p) THEN Known(p) \ rows ELSE Latest(rows, setup.steps[p]) \cap Known(p)

\* Migrate goes up through its versions, and Rollback down.
IsNext(p, v) ==
    /\ v \in procs[p].todo
    /\ \A w \in procs[p].todo : IF Up(p) THEN v <= w ELSE w <= v

\* SELECT version FROM schema_migrations
Read(p) ==
    /\ procs[p].pc = "read" /\ table
    /\ seen' = [seen EXCEPT ![p] = recorded]
    /\ GoTo(p, "next", Pending(p, recorded))
    /\ UNCHANGED <<setup, db, tx, starts>>

\* A statement fails: for a reason of its own, because the table of the rows does not
\* exist, because the script meets a table that is missing, or because the row exists.
Refused(p) ==
    \/ procs[p].pc = "read" /\ ~table
    \/ procs[p].pc = "next" /\ \E v \in Versions : IsNext(p, v) /\ ScriptFails(v, schema)
    \/ procs[p].pc = "record" /\ Up(p) /\ \E v \in Versions : IsNext(p, v) /\ v \in tx[p].recorded

Unlocked(p) == \A q \in Processes \ {p} : ~tx[q].open

Scripted(p, v, s) == IF Up(p) THEN UpScript(v, s) ELSE DownScript(v, s)
Noted(p, v, rows) == IF Up(p) THEN rows \cup {v} ELSE rows \ {v}

\* Mutant: the script is committed before the row is written.
ScriptCommits(p) ==
    /\ procs[p].pc = "next" /\ Unlocked(p) /\ ~Refused(p)
    /\ \E v \in Versions :
         /\ IsNext(p, v)
         /\ schema' = Scripted(p, v, schema)
         /\ tx' = [tx EXCEPT ![p] = [open |-> TRUE, schema |-> schema', recorded |-> recorded]]
    /\ GoTo(p, "record", procs[p].todo)
    /\ UNCHANGED <<setup, table, recorded, seen, starts>>

\* applyOne begins a transaction and executes the script.
Script(p) ==
    /\ procs[p].pc = "next" /\ Unlocked(p) /\ ~Refused(p)
    /\ \E v \in Versions :
         /\ IsNext(p, v)
         /\ tx' = [tx EXCEPT ![p] = [open |-> TRUE, schema |-> Scripted(p, v, schema), recorded |-> recorded]]
    /\ GoTo(p, "record", procs[p].todo)
    /\ UNCHANGED <<setup, db, seen, starts>>

\* INSERT INTO, or DELETE FROM, schema_migrations
Record(p) ==
    /\ procs[p].pc = "record" /\ ~Refused(p)
    /\ \E v \in Versions :
         /\ IsNext(p, v)
         /\ tx' = [tx EXCEPT ![p] = [open |-> TRUE, schema |-> tx[p].schema, recorded |-> Noted(p, v, tx[p].recorded)]]
    /\ GoTo(p, "commit", procs[p].todo)
    /\ UNCHANGED <<setup, db, seen, starts>>

Commit(p) ==
    /\ procs[p].pc = "commit"
    /\ schema' = tx[p].schema /\ recorded' = tx[p].recorded
    /\ tx' = [tx EXCEPT ![p] = NoTx]
    /\ \E v \in Versions : IsNext(p, v) /\ GoTo(p, "next", procs[p].todo \ {v})
    /\ UNCHANGED <<setup, table, seen, starts>>

Succeed(p) ==
    /\ procs[p].pc = "next" /\ procs[p].todo = {}
    /\ GoTo(p, "ok", {})
    /\ UNCHANGED <<setup, db, tx, seen, starts>>

\* Mutant: the transaction is left open.
FailKeepsTx(p) ==
    /\ Working(p) /\ Refused(p)
    /\ GoTo(p, "failed", {})
    /\ UNCHANGED <<setup, db, tx, seen, starts>>

\* A statement that is refused ends the call; the deferred Rollback closes the transaction.
Fail(p) ==
    /\ Working(p) /\ Refused(p)
    /\ procs[p].pc = "next" => Unlocked(p)
    /\ tx' = [tx EXCEPT ![p] = NoTx]
    /\ GoTo(p, "failed", {})
    /\ UNCHANGED <<setup, db, seen, starts>>

\* Any other error, or the end of the process; PostgreSQL rolls back.
Crash(p) ==
    /\ setup.faults /\ Working(p)
    /\ tx' = [tx EXCEPT ![p] = NoTx]
    /\ GoTo(p, "failed", {})
    /\ UNCHANGED <<setup, db, seen, starts>>

Step(p) == CreateTable(p) \/ Read(p) \/ Script(p) \/ Record(p) \/ Commit(p) \/ Succeed(p) \/ Fail(p)

Next == \E p \in Processes : Start(p) \/ Step(p) \/ Crash(p)

Spec == Init /\ [][Next]_vars

\* Statements are answered and processes go on.
FairSpec == Spec /\ \A p \in Processes : WF_vars(Step(p))

(* ------------------------------ properties ------------------------------ *)

\* Nobody rolls back while somebody else works, nor with a binary older than the others: an
\* old binary passes over the versions it does not know and undoes the ones below them.
Orderly ==
    \A p \in Processes : ~Up(p) =>
       ~setup.overlap /\ \A q \in Processes : setup.known[q] <= setup.known[p]

(* The schema is what the recorded migrations create, no more and no less, however servers
   race and die (applyOne runs script and row in one transaction); and no migration is
   recorded without the ones before it. *)
SchemaMatchesRows ==
    Orderly => /\ schema = UNION {Created(v) : v \in recorded}
               /\ recorded = 1 .. Cardinality(recorded)

(* A Migrate that returns without an error leaves every version it knows applied; a
   Rollback has undone the latest versions of those it found, as many as it was asked for,
   and no other. *)
DoneIsDone ==
    [][\A p \in Processes : Orderly /\ procs[p].pc # "ok" /\ procs'[p].pc = "ok" =>
          IF Up(p) THEN Known(p) \subseteq recorded'
          ELSE recorded' = {v \in seen[p] : v + setup.steps[p] <= Cardinality(seen[p])}]_vars

(* Nobody waits for ever: a call ends, with or without an error, also when others fail or
   die in the middle of a transaction (defer tx.Rollback). *)
EveryCallEnds == \A p \in Processes : Working(p) ~> ~Working(p)
=============================================================================
