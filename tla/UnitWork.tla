------------------------------ MODULE UnitWork ------------------------------
(***************************************************************************)
(* What the processing queue promises about units of work, whatever the    *)
(* batches, tasks, links and restarts it takes to get there.  A unit is    *)
(* idle, queued or held by the worker, which holds one at a time.  A unit  *)
(* is picked up, and its result published, only while somebody wants it;   *)
(* a result is published once, by whoever holds the unit, and never lost.  *)
(***************************************************************************)
CONSTANTS Unit, Result

VARIABLES flight,    \* [Unit -> {"idle", "queued", "held"}]
          results,   \* the results published, each of one unit
          wanted     \* the units some batch wants worked on now

vars == <<flight, results, wanted>>

Init == /\ flight = [u \in Unit |-> "idle"]
        /\ results = {}
        /\ wanted = {}

In(state) == {u \in Unit : flight[u] = state}

\* From one state to another, any number of units at once; the rest stay.
Move(units, from, to) ==
    /\ units \subseteq In(from)
    /\ flight' = [u \in Unit |-> IF u \in units THEN to ELSE flight[u]]

\* Work is asked for.
Admit == /\ \E units \in SUBSET Unit : Move(units, "idle", "queued")
         /\ UNCHANGED results

\* Work is given up, or set back: nothing is picked up or published by that.
Recede == /\ \A u \in Unit : \/ flight'[u] = flight[u]
                             \/ flight[u] = "queued" /\ flight'[u] = "idle"
                             \/ flight[u] = "held" /\ flight'[u] \in {"queued", "idle"}
          /\ flight' \in [Unit -> {"idle", "queued", "held"}]
          /\ UNCHANGED results

Hold(u) == /\ In("held") = {}
           /\ u \in wanted
           /\ Move({u}, "queued", "held")
           /\ UNCHANGED results

\* Other units may be given up because this one is done.
Publish(u, result) ==
    /\ flight[u] = "held"
    /\ u \in wanted
    /\ result \notin results
    /\ results' = results \cup {result}
    /\ flight' \in [Unit -> {"idle", "queued", "held"}]
    /\ flight'[u] = "idle"
    /\ \A v \in Unit \ {u} : flight'[v] \in {flight[v], "idle"}

Next == \/ Admit \/ Recede
        \/ \E u \in Unit : Hold(u)
        \/ \E u \in Unit, result \in Result : Publish(u, result)

Spec == Init /\ [][Next]_vars
=============================================================================
