------------------------------ MODULE EventLog ------------------------------
(***************************************************************************)
(* One aggregate's events in csv-runtime's event store, by version, and    *)
(* what append does to them in InMemoryEventStore and in RedbEventStore    *)
(* (event_persistence.rs).                                                 *)
(***************************************************************************)
EXTENDS Integers, FiniteSetsExt

CONSTANT Backend      \* "memory" or "redb"

ASSUME BackendAssumption == Backend \in {"memory", "redb"}

NoEvents == [v \in {} |-> {}]

get_latest_version(log) == Max(DOMAIN log \cup {0})

Put(log, v, id) == [w \in DOMAIN log \cup {v} |-> IF w = v THEN id ELSE log[w]]

LoggedIds(log) == {log[v] : v \in DOMAIN log}

(* Whether append accepts the event; the redb store never refuses.         *)
Accepts(log, v, id) ==
    Backend = "memory" => id \notin LoggedIds(log) /\ v > get_latest_version(log)

append(log, v, id) == IF Accepts(log, v, id) THEN Put(log, v, id) ELSE log
=============================================================================
