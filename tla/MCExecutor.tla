----------------------------- MODULE MCExecutor -----------------------------
(* The instances of Executor that TLC checks. *)
EXTENDS Executor, TLC

\* The IDs of the components are constants of the model.
Sys(r, w, es) ==
    [reads |-> r, writes |-> w, known |-> [reads |-> r, writes |-> w], serial |-> FALSE, entities |-> es]

\* The model keeps the IDs Initialize is given: before that all of them are 0, here "a".
Zero(cs) == IF cs = {} THEN {} ELSE {"a"}
Late(r, w, es) == [Sys(r, w, es) EXCEPT !.known = [reads |-> Zero(r), writes |-> Zero(w)]]

\* The lists are empty before Initialize.
Silent(r, w, es) == [Sys(r, w, es) EXCEPT !.known = [reads |-> {}, writes |-> {}]]

Plan(ss, h, w, f) == [systems |-> ss, holds |-> h, workers |-> w, faults |-> f]

AllHold == [c \in {"a", "b"} |-> {"x", "y", "z"}]
SomeHold == [a |-> {"x", "y"}, b |-> {"z", "y"}]

Move == Sys({"a"}, {"b"}, <<"x", "y", "z">>)
Reset == Sys({}, {"a"}, <<"x", "y", "z">>)
Follow == [Sys({}, {"a"}, <<"y", "x", "z">>) EXCEPT !.serial = TRUE]

\* Write after read and read after write, with a serial system, on one to four workers; the
\* last two are not disciplined.
MCPlans ==
    {Plan(<<Move, Reset>>, AllHold, 2, {}),
     Plan(<<Reset, Move>>, AllHold, 4, {}),
     Plan(<<Follow, Move>>, AllHold, 2, {}),
     Plan(<<Sys({}, {"a"}, <<"x", "y">>), Sys({}, {"b"}, <<"z", "y">>), Sys({"b", "a"}, {}, <<"z", "y", "x">>)>>, SomeHold, 2, {}),
     Plan(<<Sys({}, {"a"}, <<"x", "y">>), Sys({"a"}, {"b"}, <<"x", "y", "z">>)>>, SomeHold, 2, {"error", "cancel"}),
     Plan(<<Sys({}, {"a"}, <<"x", "y">>), Sys({}, {"b"}, <<"z", "y">>)>>, SomeHold, 1, {"error", "panic"}),
     Plan(<<Sys({}, {"a"}, <<"x", "y">>)>>, SomeHold, 1, {"panic"}),
     Plan(<<Sys({}, {"a"}, <<"x", "y", "z", "u", "v">>)>>, [a |-> {"x", "y", "z", "u", "v"}, b |-> {}], 4, {}),
     Plan(<<Sys({}, {"a"}, <<>>), Sys({"a"}, {"b"}, <<>>)>>, [c \in {"a", "b"} |-> {}], 2, {}),
     Plan(<<>>, AllHold, 2, {}),
     Plan(<<Late({"b"}, {}, <<"z", "y">>), Late({"a"}, {"b"}, <<"x", "y", "z">>), Late({}, {"a"}, <<"x", "y">>)>>, SomeHold, 2, {}),
     Plan(<<Silent({}, {"a"}, <<"x", "y">>), Silent({"a"}, {"b"}, <<"x", "y", "z">>)>>, SomeHold, 1, {}),
     Plan(<<Sys({"b"}, {"a"}, <<"z", "y", "x", "y">>)>>, SomeHold, 2, {})}

Setup(m, by, max, ts, prs, ps, n, s) ==
    [mode |-> m, entry |-> by, maxTime |-> max, times |-> ts, priorities |-> prs, payloads |-> ps, events |-> n, saves |-> s]

\* Ticks; events in any order of time and priority, with and without a limit; snapshots.
MCSetups ==
    {Setup("systems", "any", 0, {}, {}, {}, 0, FALSE),
     Setup("tick", "any", 0, {}, {}, {}, 0, FALSE),
     Setup("events", "any", 0, 0 .. 2, {0, 1}, {"none"}, 4, FALSE),
     Setup("events", "run", 2, 0 .. 3, {0}, {"none"}, 3, FALSE),
     Setup("events", "any", 2, 0 .. 3, {0}, {"none"}, 2, FALSE),
     Setup("events", "any", 0, 0 .. 1, {0}, {"none", "typed"}, 3, TRUE)}
=============================================================================
