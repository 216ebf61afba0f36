--------------------------- MODULE ReplayPostgres ---------------------------
(***************************************************************************)
(* PostgresReplayDb (csv-storage/src/backends/postgres.rs).  Every call is *)
(* one or two SQL statements, each its own transaction: an UPDATE          *)
(* evaluates its WHERE clause on the row as it is then, and what another   *)
(* coordinator does between two statements of a call is seen by the second.*)
(***************************************************************************)
EXTENDS Integers, FiniteSets

CONSTANTS PgClients, PgIds

VARIABLES
    rows,      \* rows[id]: the state column of replay_entries, "None" without a row
    session,   \* session[c]: the call of c as in ReplayDatabase, with the steps in between
    pg_holds   \* history, as in ReplayDatabase

postgresVars == <<rows, session, pg_holds>>

AbstractSession ==
    [c \in PgClients |->
        IF session[c].at \in {"rearm", "insert", "check"}
          THEN [session[c] EXCEPT !.at = "called"] ELSE session[c]]

PG == INSTANCE ReplayDatabase WITH
    entries <- rows, call <- AbstractSession, holds <- pg_holds,
    Clients <- PgClients, Ids <- PgIds

PostgresInit ==
    /\ rows = [id \in PgIds |-> "None"]
    /\ session = [c \in PgClients |-> PG!Idle]
    /\ pg_holds = {}

Query(c, op, id) ==
    /\ session[c].at = "idle"
    /\ op = "mark_rolled_back" => <<c, id>> \in pg_holds
    /\ session' = [session EXCEPT ![c] = PG!Calling(op, id)]
    /\ pg_holds' = IF op = "mark_rolled_back" THEN pg_holds \ {<<c, id>>} ELSE pg_holds
    /\ UNCHANGED rows

SessionAt(c, step) == session' = [session EXCEPT ![c].at = step]

SessionAnswer(c, res) ==
    /\ session' = [session EXCEPT ![c].at = "done", ![c].res = res]
    /\ pg_holds' = PG!HoldsAfter(c, session[c].op, session[c].id, res)

(* SELECT state, the first statement of consume_if_unconsumed.             *)
select_state(c) ==
    LET s == rows[session[c].id] IN
    /\ session[c].at = "called" /\ session[c].op = "consume_if_unconsumed"
    /\ \/ s = "Consumed" /\ SessionAnswer(c, "Ok")
       \/ s = "Pending" /\ SessionAnswer(c, "AlreadyExists")
       \/ s = "RolledBack" /\ SessionAt(c, "rearm") /\ UNCHANGED pg_holds
       \/ s = "None" /\ SessionAt(c, "insert") /\ UNCHANGED pg_holds
    /\ UNCHANGED rows

(* UPDATE ... SET state = 'Pending' WHERE state = 'RolledBack': the answer *)
(* is Ok whether or not a row matched.                                     *)
update_rolled_back(c) ==
    LET id == session[c].id IN
    /\ session[c].at = "rearm"
    /\ rows' = [rows EXCEPT ![id] = IF @ = "RolledBack" THEN "Pending" ELSE @]
    /\ SessionAnswer(c, "Ok")

\* The mutation with ON CONFLICT DO UPDATE for DO NOTHING.
InsertOverwrites(c) ==
    LET id == session[c].id IN
    /\ \/ session[c].at = "insert"
       \/ session[c].at = "called" /\ session[c].op = "insert_if_absent"
    /\ rows' = [rows EXCEPT ![id] = "Pending"]
    /\ SessionAnswer(c, "Ok")

(* INSERT ... ON CONFLICT (id) DO NOTHING RETURNING id.                    *)
insert_row(c) ==
    LET id == session[c].id IN
    /\ \/ session[c].at = "insert"
       \/ session[c].at = "called" /\ session[c].op = "insert_if_absent"
    /\ \/ /\ rows[id] = "None"
          /\ rows' = [rows EXCEPT ![id] = "Pending"]
          /\ SessionAnswer(c, "Ok")
       \/ /\ rows[id] # "None"
          /\ SessionAnswer(c, "AlreadyExists")
          /\ UNCHANGED rows

Target(op) == IF op = "confirm_consumed" THEN "Consumed" ELSE "RolledBack"

(* UPDATE ... SET state = target WHERE state = 'Pending', the first        *)
(* statement of confirm_consumed_replay_id and of mark_rolled_back.        *)
update_pending(c) ==
    LET id == session[c].id IN
    /\ session[c].at = "called"
    /\ session[c].op \in {"confirm_consumed", "mark_rolled_back"}
    /\ \/ /\ rows[id] = "Pending"
          /\ rows' = [rows EXCEPT ![id] = Target(session[c].op)]
          /\ SessionAnswer(c, "Ok")
       \/ /\ rows[id] # "Pending"
          /\ SessionAt(c, "check")
          /\ UNCHANGED <<rows, pg_holds>>

(* No row matched: a second SELECT finds out why.                          *)
select_current(c) ==
    LET s == rows[session[c].id] IN
    /\ session[c].at = "check"
    /\ \/ s = Target(session[c].op) /\ SessionAnswer(c, "Ok")
       \/ s \notin {Target(session[c].op), "None"} /\ SessionAnswer(c, "Storage")
       \/ s = "None" /\ SessionAnswer(c, "NotFound")
    /\ UNCHANGED rows

(* The connection fails before or after the statement took effect.         *)
ConnectionError(c) ==
    LET id == session[c].id
        out == PG!Apply(session[c].op, rows[id]) IN
    /\ session[c].at \in {"called", "rearm", "insert", "check"}
    /\ SessionAnswer(c, "Storage")
    /\ \/ UNCHANGED rows
       \/ /\ \/ session[c].at = "called" /\ session[c].op # "consume_if_unconsumed"
             \/ session[c].at = "rearm" /\ rows[id] = "RolledBack"
             \/ session[c].at = "insert" /\ rows[id] = "None"
          /\ rows' = [rows EXCEPT ![id] = out.state]

SessionReturn(c) ==
    /\ session[c].at = "done"
    /\ session' = [session EXCEPT ![c] = PG!Idle]
    /\ UNCHANGED <<rows, pg_holds>>

SessionCrash(c) ==
    /\ session[c].at # "idle"
    /\ session' = [session EXCEPT ![c] = PG!Idle]
    /\ UNCHANGED <<rows, pg_holds>>

PostgresNext ==
    \E c \in PgClients :
        \/ \E op \in PG!Ops, id \in PgIds : Query(c, op, id)
        \/ select_state(c)
        \/ update_rolled_back(c)
        \/ insert_row(c)
        \/ update_pending(c)
        \/ select_current(c)
        \/ ConnectionError(c)
        \/ SessionReturn(c)
        \/ SessionCrash(c)

PostgresSpec == PostgresInit /\ [][PostgresNext]_postgresVars

-----------------------------------------------------------------------------
(* "PostgreSQL-backed replay database (multi-coordinator CAS)": while an   *)
(* entry is pending at most one coordinator was told the transfer is its   *)
(* to run.                                                                 *)
ExclusiveHolder == PG!ExclusiveHolder

(* Entries are append-only and Consumed is terminal, whatever the          *)
(* statements of the coordinators interleave to.                           *)
EntriesAppendOnly == PG!EntriesAppendOnly

(* A re-arm that found the row no longer rolled back, and still answers Ok.*)
LostRearm ==
    \E c \in PgClients : /\ session[c].at = "rearm"
                       /\ rows[session[c].id] # "RolledBack"
                       /\ update_rolled_back(c)

(* The race is confined to re-arming: every step but that one is a step of *)
(* the contract or leaves it alone.                                        *)
OtherStepsImplementContract ==
    [][UNCHANGED postgresVars \/ LostRearm \/ PG!Next]_<<rows, AbstractSession, pg_holds>>
=============================================================================
