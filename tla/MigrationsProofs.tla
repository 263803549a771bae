--------------------------- MODULE MigrationsProofs ---------------------------
(***************************************************************************)
(* The theorems about Migrations, for any processes, restarts and faults.  *)
(***************************************************************************)
EXTENDS Migrations, FiniteSetTheorems, TLAPS

Things == {"simulations", "users", "owner_id"}
Pcs == {"new", "create", "read", "next", "record", "commit", "ok", "failed"}

\* Every variable has the type of what it models.
TypeOK ==
    /\ setup \in Setups
    /\ schema \subseteq Things /\ table \in BOOLEAN /\ recorded \subseteq Versions
    /\ procs \in [Processes -> [pc : Pcs, todo : SUBSET Versions]]
    /\ tx \in [Processes -> [open : BOOLEAN, schema : SUBSET Things, recorded : SUBSET Versions]]
    /\ seen \in [Processes -> SUBSET Versions]

\* What the versions in rows create; no version is there without the ones before it.
Matches(s, rows) ==
    /\ rows \in {{}, {1}, {1, 2}}
    /\ "simulations" \in s <=> 1 \in rows
    /\ "users" \in s <=> 2 \in rows
    /\ "owner_id" \in s <=> 2 \in rows

\* A transaction is open between the script and the commit, and it is the only one;
\* processes that must not overlap do not.
Exclusive ==
    /\ \A p \in Processes : tx[p].open <=> procs[p].pc \in {"record", "commit"}
    /\ \A p, q \in Processes : tx[p].open /\ tx[q].open => p = q
    /\ ~setup.overlap => \A p, q \in Processes : Working(p) /\ Working(q) => p = q

\* An open transaction has executed the script of the next version on the database as it
\* still is, and then its row.
InTx(p) ==
    \A v \in Versions : IsNext(p, v) =>
       /\ procs[p].pc \in {"record", "commit"} => tx[p].schema = Scripted(p, v, schema)
       /\ procs[p].pc = "record" => tx[p].recorded = recorded
       /\ procs[p].pc = "commit" => tx[p].recorded = Noted(p, v, recorded)

\* What is not to be done any more is done: Migrate has recorded it, Rollback has undone it.
Progress(p) ==
    procs[p].pc \in {"next", "record", "commit"} =>
       /\ Up(p) => procs[p].todo \subseteq Known(p) /\ Known(p) \ procs[p].todo \subseteq recorded
       /\ ~Up(p) => /\ seen[p] \in {{}, {1}, {1, 2}}
                    /\ procs[p].todo \subseteq Latest(seen[p], setup.steps[p])
                    /\ recorded = (seen[p] \ Latest(seen[p], setup.steps[p])) \cup procs[p].todo

\* Who rolls back knows every version that is recorded.
AllKnown == \A p \in Processes : ~Up(p) => recorded \subseteq Known(p)

OrderlyInv ==
    /\ Matches(schema, recorded) /\ Exclusive /\ AllKnown
    /\ \A p \in Processes : InTx(p) /\ Progress(p)

MigrationsInv == TypeOK /\ (Orderly => OrderlyInv)

\* What the assumption on the setups says of the one at hand.
LEMMA SetupFacts ==
    ASSUME setup \in Setups, NEW p \in Processes
    PROVE  /\ setup.steps[p] \in Nat
           /\ setup.known[p] \in 0 .. 2
           /\ \A v \in Known(p) : v = 1 \/ v = 2
<1>1. setup.steps \in [Processes -> Nat] /\ setup.known \in [Processes -> 0 .. 2]
    BY SetupsAssumption DEF Versions
<1> QED
    BY <1>1 DEF Known

\* The latest versions are above the others.
LEMMA LatestAbove ==
    ASSUME NEW rows \in SUBSET Versions, NEW n \in Nat \ {0}
    PROVE  /\ Latest(rows, n) \subseteq rows
           /\ 2 \in rows => 2 \in Latest(rows, n)
<1>1. \A w \in rows : ~(2 < w)
    BY DEF Versions
<1>2. {w \in rows : 2 < w} = {}
    BY <1>1, Zenon
<1>3. Cardinality({w \in rows : 2 < w}) = 0
    BY <1>2, FS_EmptySet, Zenon
<1> QED
    BY <1>3 DEF Latest

\* How many versions there are in the sets of rows that occur.
LEMMA SmallSets == Cardinality({}) = 0 /\ Cardinality({1}) = 1 /\ Cardinality({2}) = 1 /\ Cardinality({1, 2}) = 2
<1>1. Cardinality({}) = 0 /\ Cardinality({1}) = 1 /\ Cardinality({2}) = 1
    BY FS_EmptySet, FS_Singleton, Zenon
<1>2. {1, 2} = {1} \cup {2} /\ 2 \notin {1}
    OBVIOUS
<1>3. Cardinality({1} \cup {2}) = Cardinality({1}) + 1
    BY <1>2, FS_AddElement, FS_Singleton, Zenon
<1> QED
    BY <1>1, <1>2, <1>3

\* The rows a Rollback leaves.
LEMMA LatestGone ==
    ASSUME NEW rows \in {{}, {1}, {1, 2}}, NEW n \in Nat \ {0}
    PROVE  rows \ Latest(rows, n) = {v \in rows : v + n <= Cardinality(rows)}
<1>1. Cardinality({}) = 0 /\ Cardinality({1}) = 1 /\ Cardinality({2}) = 1 /\ Cardinality({1, 2}) = 2
    BY SmallSets, Zenon
<1>2. SUFFICES \A v \in rows : Cardinality({w \in rows : v < w}) < n <=> ~(v + n <= Cardinality(rows))
    BY <1>2, Zenon DEF Latest
<1>3. CASE rows = {}
    BY <1>3, Zenon
<1>4. CASE rows = {1}
    <2>1. {w \in rows : 1 < w} = {}
        BY <1>4
    <2> QED
        BY <1>1, <1>4, <2>1
<1>5. CASE rows = {1, 2}
    <2>1. {w \in rows : 2 < w} = {} /\ {w \in rows : 1 < w} = {2}
        BY <1>5
    <2>2. Cardinality(rows) = 2
        BY <1>1, <1>5, Zenon
    <2>3. Cardinality({w \in rows : 2 < w}) = 0 /\ Cardinality({w \in rows : 1 < w}) = 1
        BY <1>1, <2>1, Zenon
    <2> QED
        BY <1>5, <2>2, <2>3
<1> QED
    BY <1>3, <1>4, <1>5, Zenon

\* A process that goes to a place of the code stays a process.
LEMMA ProcTyped ==
    ASSUME TypeOK, NEW p \in Processes, NEW to \in Pcs, NEW todo \in SUBSET Versions, GoTo(p, to, todo)
    PROVE  procs' \in [Processes -> [pc : Pcs, todo : SUBSET Versions]]
BY Zenon DEF TypeOK, GoTo, Proc

\* The same of its transaction.
LEMMA TxTyped ==
    ASSUME TypeOK, NEW p \in Processes, NEW o \in BOOLEAN, NEW s \in SUBSET Things, NEW rows \in SUBSET Versions,
           tx' = [tx EXCEPT ![p] = [open |-> o, schema |-> s, recorded |-> rows]]
    PROVE  tx' \in [Processes -> [open : BOOLEAN, schema : SUBSET Things, recorded : SUBSET Versions]]
BY Zenon DEF TypeOK

\* Every statement leaves the variables well typed.
LEMMA Typed == ASSUME TypeOK, [Next]_vars PROVE TypeOK'
<1> DEFINE P == [Processes -> [pc : Pcs, todo : SUBSET Versions]]
           T == [Processes -> [open : BOOLEAN, schema : SUBSET Things, recorded : SUBSET Versions]]
<1>t. ASSUME NEW p \in Processes PROVE /\ procs[p].todo \in SUBSET Versions
                                       /\ tx[p].schema \in SUBSET Things /\ tx[p].recorded \in SUBSET Versions
    BY <1>t, Zenon DEF TypeOK
<1>0. {} \in SUBSET Versions /\ {} \in SUBSET Things /\ FALSE \in BOOLEAN /\ TRUE \in BOOLEAN
    BY Zenon
<1>1. CASE UNCHANGED vars
    BY <1>1, Zenon DEF vars, db, TypeOK
<1>2. ASSUME NEW p \in Processes, Start(p) \/ Succeed(p) PROVE TypeOK'
    <2>1. procs' \in P
        BY <1>0, <1>2, ProcTyped, Zenon DEF Start, Succeed, Pcs
    <2> QED
        BY <1>2, <2>1, Zenon DEF Start, Succeed, db, TypeOK
<1>3. ASSUME NEW p \in Processes, CreateTable(p) PROVE TypeOK'
    <2>1. procs' \in P
        BY <1>0, <1>3, ProcTyped, Zenon DEF CreateTable, Pcs
    <2> QED
        BY <1>3, <2>1, Zenon DEF CreateTable, TypeOK
<1>4. ASSUME NEW p \in Processes, Read(p) PROVE TypeOK'
    <2>1. Pending(p, recorded) \in SUBSET Versions
        BY SetupFacts DEF Pending, Latest, Versions, TypeOK
    <2>2. procs' \in P
        BY <2>1, <1>4, ProcTyped, Zenon DEF Read, Pcs
    <2> QED
        BY <1>4, <2>2, Zenon DEF Read, db, TypeOK
<1>5. ASSUME NEW p \in Processes, Script(p) PROVE TypeOK'
    <2>1. procs' \in P
        BY <1>t, <1>5, ProcTyped, Zenon DEF Script, Pcs
    <2>2. \A v \in Versions : Scripted(p, v, schema) \in SUBSET Things
        BY Zenon DEF Scripted, UpScript, DownScript, Created, Things, TypeOK
    <2>3. tx' \in T
        BY <1>0, <1>5, <2>2, TxTyped DEF Script, TypeOK
    <2> QED
        BY <1>5, <2>1, <2>3, Zenon DEF Script, db, TypeOK
<1>6. ASSUME NEW p \in Processes, Record(p) PROVE TypeOK'
    <2>1. procs' \in P
        BY <1>t, <1>6, ProcTyped, Zenon DEF Record, Pcs
    <2>2. \A v \in Versions : Noted(p, v, tx[p].recorded) \in SUBSET Versions
        BY <1>t, Zenon DEF Noted
    <2>3. tx' \in T
        BY <1>0, <1>t, <1>6, <2>2, TxTyped DEF Record
    <2> QED
        BY <1>6, <2>1, <2>3, Zenon DEF Record, db, TypeOK
<1>7. ASSUME NEW p \in Processes, Commit(p) PROVE TypeOK'
    <2>1. \A v : procs[p].todo \ {v} \in SUBSET Versions
        BY <1>t, Zenon
    <2>2. procs' \in P
        BY <2>1, <1>7, ProcTyped, Zenon DEF Commit, Pcs
    <2>3. tx' \in T
        BY <1>0, <1>7, TxTyped, Zenon DEF Commit, NoTx
    <2> QED
        BY <1>t, <1>7, <2>2, <2>3, Zenon DEF Commit, TypeOK
<1>8. ASSUME NEW p \in Processes, Fail(p) \/ Crash(p) PROVE TypeOK'
    <2>1. procs' \in P
        BY <1>0, <1>8, ProcTyped, Zenon DEF Fail, Crash, Pcs
    <2>2. tx' \in T
        BY <1>0, <1>8, TxTyped, Zenon DEF Fail, Crash, NoTx
    <2> QED
        BY <1>8, <2>1, <2>2, Zenon DEF Fail, Crash, db, TypeOK
<1>9. ASSUME NEW p \in Processes, Start(p) \/ Step(p) \/ Crash(p) PROVE TypeOK'
    BY <1>2, <1>3, <1>4, <1>5, <1>6, <1>7, <1>8, <1>9, Zenon DEF Step
<1> QED
    BY <1>1, <1>9, Zenon DEF Next

\* A process does not notice what others do while schema and rows stay as they are.
LEMMA OtherStep ==
    ASSUME NEW q \in Processes, InTx(q), Progress(q), procs'[q] = procs[q], tx'[q] = tx[q], seen'[q] = seen[q],
           UNCHANGED <<setup, schema, recorded>>
    PROVE  InTx(q)' /\ Progress(q)'
<1>1. InTx(q)'
    <2>1. \A v : IsNext(q, v)' <=> IsNext(q, v)
        BY Zenon DEF IsNext, Up
    <2>2. \A v : /\ Scripted(q, v, schema)' = Scripted(q, v, schema)
                /\ Noted(q, v, recorded)' = Noted(q, v, recorded)
        BY Zenon DEF Scripted, Noted, UpScript, DownScript, Up
    <2> QED
        BY <2>1, <2>2, Zenon DEF InTx
<1>2. Progress(q)'
    BY Zenon DEF Progress, Latest, Up, Known
<1> QED
    BY <1>1, <1>2, Zenon

\* A process at a place where it has nothing to do.
LEMMA NothingToDo ==
    ASSUME NEW q \in Processes, procs'[q].todo = {}, procs'[q].pc \notin {"next", "record", "commit"}
    PROVE  InTx(q)' /\ Progress(q)'
BY Zenon DEF InTx, Progress, IsNext

\* The steps of a process that change neither schema nor rows, and leave it outside its loop.
LEMMA OutsideStep ==
    ASSUME TypeOK, OrderlyInv, NEW p \in Processes,
           NEW to \in Pcs \ {"next", "record", "commit"}, GoTo(p, to, {}),
           tx' = [tx EXCEPT ![p] = NoTx] \/ (tx' = tx /\ ~tx[p].open),
           UNCHANGED <<setup, schema, recorded, seen>>,
           Working(p) \/ setup.overlap \/ \A q \in Processes : ~Working(q)
    PROVE  OrderlyInv'
<1>1. /\ procs'[p].pc = to /\ procs'[p].todo = {}
      /\ \A q \in Processes \ {p} : procs'[q] = procs[q]
    BY Zenon DEF GoTo, Proc, TypeOK
<1>2. ~tx'[p].open /\ \A q \in Processes \ {p} : tx'[q] = tx[q]
    BY DEF NoTx, TypeOK
<1>3. Exclusive'
    BY <1>1, <1>2 DEF OrderlyInv, Exclusive, Working
<1>4. ASSUME NEW q \in Processes PROVE InTx(q)' /\ Progress(q)'
    <2>1. CASE q = p
        BY <1>1, <2>1, NothingToDo, Zenon
    <2>2. CASE q # p
        BY <1>1, <1>2, <2>2, OtherStep, Zenon DEF OrderlyInv
    <2> QED
        BY <2>1, <2>2, Zenon
<1>5. Matches(schema, recorded)' /\ AllKnown'
    BY Zenon DEF OrderlyInv, Matches, AllKnown, Up, Known
<1> QED
    BY <1>3, <1>4, <1>5, Zenon DEF OrderlyInv

\* Orderly is a matter of the setup.
LEMMA OrderlyStays == ASSUME UNCHANGED setup PROVE Orderly' <=> Orderly
BY Zenon DEF Orderly, Up

\* What a process reads is what its progress is measured by.
LEMMA ReadStep ==
    ASSUME TypeOK, Orderly, OrderlyInv, NEW p \in Processes, Read(p)
    PROVE  OrderlyInv'
<1>1. /\ procs'[p].pc = "next" /\ procs'[p].todo = Pending(p, recorded) /\ seen'[p] = recorded
      /\ \A q \in Processes \ {p} : procs'[q] = procs[q] /\ seen'[q] = seen[q]
      /\ UNCHANGED <<setup, schema, recorded, tx>>
    BY Zenon DEF Read, GoTo, Proc, TypeOK, db
<1>2. Exclusive'
    BY <1>1 DEF OrderlyInv, Exclusive, Working, Read
<1>3. ASSUME NEW q \in Processes \ {p} PROVE InTx(q)' /\ Progress(q)'
    BY <1>1, <1>3, OtherStep, Zenon DEF OrderlyInv
<1>4. InTx(p)'
    BY <1>1, Zenon DEF InTx
<1>5. Progress(p)'
    <2>1. CASE Up(p)
        BY <1>1, <2>1, Zenon DEF Progress, Pending, Up, Known
    <2>2. CASE ~Up(p)
        <3>1. recorded \subseteq Known(p) /\ recorded \in {{}, {1}, {1, 2}}
            BY <2>2, Zenon DEF OrderlyInv, AllKnown, Matches
        <3>2. Latest(recorded, setup.steps[p]) \subseteq recorded
            BY Zenon DEF Latest
        <3>3. Pending(p, recorded) = Latest(recorded, setup.steps[p])
            BY <2>2, <3>1, <3>2, Zenon DEF Pending
        <3>4. recorded = (recorded \ Latest(recorded, setup.steps[p])) \cup Latest(recorded, setup.steps[p])
            BY <3>2, Zenon
        <3>5. Latest(seen[p], setup.steps[p])' = Latest(recorded, setup.steps[p])
            BY <1>1, Zenon DEF Latest
        <3> QED
            BY <1>1, <2>2, <3>1, <3>3, <3>4, <3>5, Zenon DEF Progress, Up
    <2> QED
        BY <2>1, <2>2, Zenon
<1>6. Matches(schema, recorded)' /\ AllKnown'
    BY <1>1, Zenon DEF OrderlyInv, Matches, AllKnown, Up, Known
<1> QED
    BY <1>2, <1>3, <1>4, <1>5, <1>6, Zenon DEF OrderlyInv

\* A script opens the only transaction, on the database as it is.
LEMMA ScriptStep ==
    ASSUME TypeOK, OrderlyInv, NEW p \in Processes, Script(p)
    PROVE  OrderlyInv'
<1>1. PICK v \in Versions :
         IsNext(p, v) /\ tx' = [tx EXCEPT ![p] = [open |-> TRUE, schema |-> Scripted(p, v, schema), recorded |-> recorded]]
    BY Zenon DEF Script
<1>2. /\ procs[p].pc = "next" /\ procs'[p].pc = "record" /\ procs'[p].todo = procs[p].todo
      /\ tx'[p] = [open |-> TRUE, schema |-> Scripted(p, v, schema), recorded |-> recorded]
      /\ \A q \in Processes \ {p} : procs'[q] = procs[q] /\ tx'[q] = tx[q] /\ ~tx[q].open
      /\ UNCHANGED <<setup, schema, recorded, seen>>
    BY <1>1, Zenon DEF Script, GoTo, Proc, TypeOK, db, Unlocked
<1>3. Exclusive'
    BY <1>2 DEF OrderlyInv, Exclusive, Working
<1>4. ASSUME NEW q \in Processes \ {p} PROVE InTx(q)' /\ Progress(q)'
    BY <1>2, <1>4, OtherStep, Zenon DEF OrderlyInv
<1>5. InTx(p)'
    <2>1. \A w \in Versions : IsNext(p, w)' => w = v
        BY <1>1, <1>2 DEF IsNext, Up, Versions
    <2>2. Scripted(p, v, schema)' = Scripted(p, v, schema)
        BY <1>2, Zenon DEF Scripted, UpScript, DownScript, Up
    <2> QED
        BY <1>2, <2>1, <2>2 DEF InTx
<1>6. Progress(p)'
    BY <1>2, Zenon DEF OrderlyInv, Progress, Latest, Up, Known
<1>7. Matches(schema, recorded)' /\ AllKnown'
    BY <1>2, Zenon DEF OrderlyInv, Matches, AllKnown, Up, Known
<1> QED
    BY <1>3, <1>4, <1>5, <1>6, <1>7, Zenon DEF OrderlyInv

\* The row goes into the transaction of its script.
LEMMA RecordStep ==
    ASSUME TypeOK, OrderlyInv, NEW p \in Processes, Record(p)
    PROVE  OrderlyInv'
<1>1. PICK v \in Versions :
         /\ IsNext(p, v)
         /\ tx' = [tx EXCEPT ![p] = [open |-> TRUE, schema |-> tx[p].schema, recorded |-> Noted(p, v, tx[p].recorded)]]
    BY Zenon DEF Record
<1>2. /\ procs[p].pc = "record" /\ procs'[p].pc = "commit" /\ procs'[p].todo = procs[p].todo
      /\ tx'[p] = [open |-> TRUE, schema |-> tx[p].schema, recorded |-> Noted(p, v, tx[p].recorded)]
      /\ \A q \in Processes \ {p} : procs'[q] = procs[q] /\ tx'[q] = tx[q]
      /\ UNCHANGED <<setup, schema, recorded, seen>>
    BY <1>1, Zenon DEF Record, GoTo, Proc, TypeOK, db
<1>3. Exclusive'
    BY <1>2 DEF OrderlyInv, Exclusive, Working
<1>4. ASSUME NEW q \in Processes \ {p} PROVE InTx(q)' /\ Progress(q)'
    BY <1>2, <1>4, OtherStep, Zenon DEF OrderlyInv
<1>5. InTx(p)'
    <2>1. \A w \in Versions : IsNext(p, w)' => w = v
        BY <1>1, <1>2 DEF IsNext, Up, Versions
    <2>2. tx[p].schema = Scripted(p, v, schema) /\ tx[p].recorded = recorded
        BY <1>1, <1>2, Zenon DEF OrderlyInv, InTx
    <2>3. Scripted(p, v, schema)' = Scripted(p, v, schema) /\ Noted(p, v, recorded)' = Noted(p, v, recorded)
        BY <1>2, Zenon DEF Scripted, UpScript, DownScript, Noted, Up
    <2> QED
        BY <1>2, <2>1, <2>2, <2>3 DEF InTx
<1>6. Progress(p)'
    BY <1>2, Zenon DEF OrderlyInv, Progress, Latest, Up, Known
<1>7. Matches(schema, recorded)' /\ AllKnown'
    BY <1>2, Zenon DEF OrderlyInv, Matches, AllKnown, Up, Known
<1> QED
    BY <1>3, <1>4, <1>5, <1>6, <1>7 DEF OrderlyInv

\* Only a commit changes the database.
LEMMA CommitStep ==
    ASSUME TypeOK, Orderly, OrderlyInv, NEW p \in Processes, Commit(p)
    PROVE  OrderlyInv'
<1>1. PICK v \in Versions : IsNext(p, v) /\ GoTo(p, "next", procs[p].todo \ {v})
    BY Zenon DEF Commit
<1>2. /\ procs[p].pc = "commit" /\ procs'[p].pc = "next" /\ procs'[p].todo = procs[p].todo \ {v}
      /\ ~tx'[p].open /\ tx[p].open
      /\ \A q \in Processes \ {p} : procs'[q] = procs[q] /\ tx'[q] = tx[q] /\ ~tx[q].open
      /\ UNCHANGED <<setup, seen>>
    BY <1>1 DEF Commit, GoTo, Proc, NoTx, TypeOK, OrderlyInv, Exclusive
<1>3. schema' = Scripted(p, v, schema) /\ recorded' = Noted(p, v, recorded)
    BY <1>1, <1>2, Zenon DEF Commit, OrderlyInv, InTx
<1>4. v = 1 \/ v = 2
    BY DEF Versions
<1>5. Exclusive'
    BY <1>2, Zenon DEF OrderlyInv, Exclusive, Working
<1>6. \A q \in Processes : InTx(q)'
    BY <1>2 DEF OrderlyInv, Exclusive, InTx
<1>7. /\ setup.steps[p] \in Nat
      /\ procs[p].todo \subseteq Versions /\ seen[p] \in SUBSET Versions
    BY SetupFacts, Zenon DEF TypeOK
<1>8. CASE Up(p)
    <2>1. v \in Known(p) /\ recorded' = recorded \cup {v} /\ schema' = schema \cup Created(v)
        BY <1>1, <1>2, <1>3, <1>8, Zenon DEF OrderlyInv, Progress, IsNext, Noted, Scripted, UpScript
    <2>2. v = 2 => 1 \in recorded
        <3>1. SUFFICES ASSUME v = 2 PROVE 1 \in recorded
            BY Zenon
        <3>2. 1 \in Known(p)
            BY <2>1, <3>1, SetupFacts DEF Known, TypeOK
        <3>3. 1 \notin procs[p].todo
            BY <1>1, <1>8, <3>1 DEF IsNext
        <3> QED
            BY <1>2, <1>8, <3>2, <3>3, Zenon DEF OrderlyInv, Progress
    <2>3. Matches(schema, recorded)'
        BY <1>4, <2>1, <2>2, Zenon DEF OrderlyInv, Matches, Created
    <2>4. AllKnown'
        <3>1. ASSUME NEW q \in Processes, ~Up(q) PROVE v \in Known(q)
            BY <2>1, <3>1, SetupFacts DEF Orderly, Known, TypeOK
        <3> QED
            BY <1>2, <2>1, <3>1, Zenon DEF OrderlyInv, AllKnown, Up, Known
    <2>5. Progress(p)'
        BY <1>2, <1>8, <2>1, Zenon DEF OrderlyInv, Progress, Up, Known
    <2>6. ASSUME NEW q \in Processes \ {p} PROVE Progress(q)'
        <3>1. CASE Up(q)
            BY <1>2, <2>1, <2>6, <3>1, Zenon DEF OrderlyInv, Progress, Up, Known
        <3>2. CASE ~Up(q)
            <4>1. ~Working(q)
                BY <1>2, <2>6, <3>2, Zenon DEF OrderlyInv, Orderly, Exclusive, Working
            <4> QED
                BY <1>2, <4>1, Zenon DEF Progress, Working
        <3> QED
            BY <3>1, <3>2, Zenon
    <2> QED
        BY <1>5, <1>6, <2>3, <2>4, <2>5, <2>6, Zenon DEF OrderlyInv
<1>9. CASE ~Up(p)
    <2> DEFINE L == Latest(seen[p], setup.steps[p])
    <2>1. /\ recorded' = recorded \ {v} /\ schema' = DownScript(v, schema)
          /\ v \in procs[p].todo /\ \A w \in procs[p].todo : w <= v
        BY <1>1, <1>3, <1>9, Zenon DEF IsNext, Noted, Scripted
    <2>2. procs[p].todo \subseteq L /\ recorded = (seen[p] \ L) \cup procs[p].todo
        BY <1>2, <1>9, Zenon DEF OrderlyInv, Progress
    <2>3. L \subseteq seen[p] /\ (2 \in seen[p] => 2 \in L)
        BY <1>7, <1>9, LatestAbove, Zenon DEF Up
    <2>4. v = 1 => 2 \notin recorded
        BY <2>1, <2>2, <2>3
    <2>5. Matches(schema, recorded)'
        <3>1. v \in recorded
            BY <2>1, <2>2, Zenon
        <3>2. recorded' \in {{}, {1}, {1, 2}}
            BY <1>4, <2>1, <2>4, <3>1, Zenon DEF OrderlyInv, Matches
        <3> QED
            BY <1>4, <2>1, <2>4, <3>1, <3>2, Zenon DEF OrderlyInv, Matches, DownScript, Created
    <2>6. AllKnown'
        BY <1>2, <2>1, Zenon DEF OrderlyInv, AllKnown, Up, Known
    <2>7. Progress(p)'
        <3>1. recorded \ {v} = (seen[p] \ L) \cup (procs[p].todo \ {v})
            BY <2>1, <2>2, Zenon
        <3>2. L' = L
            BY <1>2, Zenon DEF Latest
        <3> QED
            BY <1>2, <1>9, <2>1, <2>2, <3>1, <3>2, Zenon DEF OrderlyInv, Progress, Up
    <2>8. ASSUME NEW q \in Processes \ {p} PROVE Progress(q)'
        <3>1. ~Working(q)
            BY <1>2, <1>9, <2>8, Zenon DEF OrderlyInv, Orderly, Exclusive, Working
        <3> QED
            BY <1>2, <3>1 DEF Progress, Working
    <2> QED
        BY <1>5, <1>6, <2>5, <2>6, <2>7, <2>8 DEF OrderlyInv
<1> QED
    BY <1>8, <1>9, Zenon

\* The inductive invariant holds for ever.
LEMMA Invariance == Spec => []MigrationsInv
<1>1. Init => MigrationsInv
    <2> SUFFICES ASSUME Init PROVE MigrationsInv
        BY Zenon
    <2>1. TypeOK
        BY Zenon DEF Init, TypeOK, Proc, NoTx, Pcs
    <2>2. Matches(schema, recorded) /\ AllKnown
        BY Zenon DEF Init, Matches, AllKnown
    <2>3. Exclusive
        BY Zenon DEF Init, Exclusive, Working, Proc, NoTx
    <2>4. \A p \in Processes : InTx(p) /\ Progress(p)
        BY Zenon DEF Init, InTx, Progress, IsNext, Proc
    <2> QED
        BY <2>1, <2>2, <2>3, <2>4, Zenon DEF MigrationsInv, OrderlyInv
<1>2. MigrationsInv /\ [Next]_vars => MigrationsInv'
    <2> SUFFICES ASSUME MigrationsInv, [Next]_vars PROVE MigrationsInv'
        BY Zenon
    <2>1. TypeOK /\ TypeOK'
        BY Typed, Zenon DEF MigrationsInv
    <2>2. UNCHANGED setup
        BY Zenon DEF Next, Step, Start, CreateTable, Read, Script, Record, Commit, Succeed, Fail,
           Crash, vars
    <2>3. SUFFICES ASSUME Orderly, OrderlyInv PROVE OrderlyInv'
        BY <2>1, <2>2, OrderlyStays, Zenon DEF MigrationsInv
    <2>4. CASE UNCHANGED vars
        <3>1. \A q \in Processes : InTx(q)' /\ Progress(q)'
            BY <2>3, <2>4, OtherStep, Zenon DEF vars, db, OrderlyInv
        <3>2. Matches(schema, recorded)' /\ AllKnown' /\ Exclusive'
            BY <2>3, <2>4, Zenon DEF vars, db, OrderlyInv, Matches, Exclusive, Working, AllKnown,
               Up, Known
        <3> QED
            BY <3>1, <3>2, Zenon DEF OrderlyInv
    <2>5. ASSUME NEW p \in Processes, Start(p) PROVE OrderlyInv'
        <3>1. ~tx[p].open
            BY <2>3, <2>5, Zenon DEF Start, OrderlyInv, Exclusive
        <3> QED
            BY <2>1, <2>3, <2>5, <3>1, OutsideStep, Zenon DEF Start, db, Pcs
    <2>6. ASSUME NEW p \in Processes, CreateTable(p) PROVE OrderlyInv'
        <3>1. ~tx[p].open /\ Working(p)
            BY <2>3, <2>6, Zenon DEF CreateTable, OrderlyInv, Exclusive, Working
        <3> QED
            BY <2>1, <2>3, <2>6, <3>1, OutsideStep, Zenon DEF CreateTable, Pcs
    <2>7. ASSUME NEW p \in Processes, Succeed(p) PROVE OrderlyInv'
        <3>1. ~tx[p].open /\ Working(p)
            BY <2>3, <2>7, Zenon DEF Succeed, OrderlyInv, Exclusive, Working
        <3> QED
            BY <2>1, <2>3, <2>7, <3>1, OutsideStep, Zenon DEF Succeed, db, Pcs
    <2>8. ASSUME NEW p \in Processes, Fail(p) \/ Crash(p) PROVE OrderlyInv'
        BY <2>1, <2>3, <2>8, OutsideStep, Zenon DEF Fail, Crash, db, Pcs
    <2> QED
        BY <2>1, <2>3, <2>4, <2>5, <2>6, <2>7, <2>8, ReadStep, ScriptStep, RecordStep, CommitStep,
           Zenon
        DEF Next, Step
<1> QED
    BY <1>1, <1>2, PTL DEF Spec

(* For any processes, however they race, fail, die and start again: the schema is what the
   recorded migrations create, and no migration is recorded without the ones before it. *)
THEOREM SchemaIsRecorded == Spec => []SchemaMatchesRows
<1>1. MigrationsInv => SchemaMatchesRows
    <2> SUFFICES ASSUME TypeOK, Matches(schema, recorded)
                 PROVE  schema = UNION {Created(v) : v \in recorded} /\ recorded = 1 .. Cardinality(recorded)
        BY Zenon DEF MigrationsInv, OrderlyInv, SchemaMatchesRows
    <2>1. /\ schema \subseteq Things /\ recorded \in {{}, {1}, {1, 2}}
          /\ "simulations" \in schema <=> 1 \in recorded
          /\ "users" \in schema <=> 2 \in recorded
          /\ "owner_id" \in schema <=> 2 \in recorded
        BY Zenon DEF TypeOK, Matches
    <2>2. Created(1) = {"simulations"} /\ Created(2) = {"users", "owner_id"}
        BY DEF Created
    <2>3. \A v \in recorded : v = 1 \/ v = 2
        BY <2>1, Zenon
    <2>4. \A x : x \in schema => \E v \in recorded : x \in Created(v)
        BY <2>1, <2>2, Zenon DEF Things
    <2>5. \A v \in recorded : \A x \in Created(v) : x \in schema
        BY <2>1, <2>2, <2>3, Zenon
    <2>6. schema = UNION {Created(v) : v \in recorded}
        BY <2>4, <2>5, Zenon
    <2>7. {} = 1 .. 0 /\ {1} = 1 .. 1 /\ {1, 2} = 1 .. 2
        OBVIOUS
    <2>8. recorded = 1 .. Cardinality(recorded)
        BY <2>1, <2>7, SmallSets, Zenon
    <2> QED
        BY <2>6, <2>8, Zenon
<1> QED
    BY <1>1, Invariance, PTL

(* A call that returns without an error has done what it was asked for: Migrate has left
   every version it knows applied, Rollback has undone the latest of those it found. *)
THEOREM DoneMeansDone == Spec => DoneIsDone
<1>1. MigrationsInv /\ [Next]_vars =>
         [\A p \in Processes : Orderly /\ procs[p].pc # "ok" /\ procs'[p].pc = "ok" =>
             IF Up(p) THEN Known(p) \subseteq recorded'
             ELSE recorded' = {v \in seen[p] : v + setup.steps[p] <= Cardinality(seen[p])}]_vars
    <2> SUFFICES ASSUME MigrationsInv, Next, NEW p \in Processes, Orderly, procs[p].pc # "ok", procs'[p].pc = "ok"
                 PROVE  IF Up(p) THEN Known(p) \subseteq recorded'
                        ELSE recorded' = {v \in seen[p] : v + setup.steps[p] <= Cardinality(seen[p])}
        BY Zenon
    <2>1. Succeed(p)
        <3>1. PICK q \in Processes : Start(q) \/ Step(q) \/ Crash(q)
            BY Zenon DEF Next
        <3>2. \A to, todo : GoTo(q, to, todo) => q = p /\ to = "ok"
            BY DEF GoTo, Proc, MigrationsInv, TypeOK
        <3>3. ~Start(q) /\ ~CreateTable(q) /\ ~Read(q)
            BY <3>2 DEF Start, CreateTable, Read
        <3>4. \A todo : ~GoTo(q, "next", todo) /\ ~GoTo(q, "record", todo) /\ ~GoTo(q, "commit", todo)
            BY <3>2
        <3>5. ~Script(q) /\ ~Record(q) /\ ~Commit(q)
            BY <3>4, Zenon DEF Script, Record, Commit
        <3>6. ~Fail(q) /\ ~Crash(q)
            BY <3>2 DEF Fail, Crash
        <3> QED
            BY <3>1, <3>2, <3>3, <3>5, <3>6, Zenon DEF Step, Succeed
    <2>2. recorded' = recorded /\ procs[p].todo = {} /\ Progress(p) /\ procs[p].pc = "next"
        BY <2>1, Zenon DEF Succeed, db, MigrationsInv, OrderlyInv
    <2>3. CASE Up(p)
        BY <2>2, <2>3, Zenon DEF Progress
    <2>4. CASE ~Up(p)
        <3>1. setup.steps[p] \in Nat \ {0}
            BY <2>4, SetupFacts, Zenon DEF MigrationsInv, TypeOK, Up
        <3>2. recorded = seen[p] \ Latest(seen[p], setup.steps[p]) /\ seen[p] \in {{}, {1}, {1, 2}}
            BY <2>2, <2>4, Zenon DEF Progress
        <3> QED
            BY <2>2, <2>4, <3>1, <3>2, LatestGone, Zenon
    <2> QED
        BY <2>3, <2>4, Zenon
<1> QED
    BY <1>1, Invariance, PTL DEF Spec, DoneIsDone
===============================================================================
