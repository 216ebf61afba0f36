----------------------------- MODULE ReplayRedb -----------------------------
(***************************************************************************)
(* RedbReplayDb (csv-storage/src/backends/redb.rs).  Two tables are kept:  *)
(* the entry's state, and a conflict key that an insert tests and writes.  *)
(* Write transactions are serialised, so each is one step, but             *)
(* consume_if_unconsumed reads in a transaction of its own before it       *)
(* writes in a second, and the entry may change in between.                *)
(***************************************************************************)
EXTENDS Integers, FiniteSets

CONSTANTS Clients, Ids

VARIABLES
    replay,     \* REPLAY_TABLE
    conflict,   \* CONFLICT_TABLE: the ids with a conflict key
    call,       \* call[c]: as in ReplayDatabase, with the steps in between
    holds       \* history, as in ReplayDatabase

redbVars == <<replay, conflict, call, holds>>

(* A client between the two transactions of consume_if_unconsumed has a    *)
(* call that has not taken effect yet.                                     *)
AbstractCall ==
    [c \in Clients |->
        IF call[c].at \in {"rearm", "insert"} THEN [call[c] EXCEPT !.at = "called"]
                                              ELSE call[c]]

DB == INSTANCE ReplayDatabase WITH entries <- replay, call <- AbstractCall

RedbInit ==
    /\ replay = [id \in Ids |-> "None"]
    /\ conflict = {}
    /\ call = [c \in Clients |-> DB!Idle]
    /\ holds = {}

Invoke(c, op, id) ==
    /\ call[c].at = "idle"
    /\ op = "mark_rolled_back" => <<c, id>> \in holds
    /\ call' = [call EXCEPT ![c] = DB!Calling(op, id)]
    /\ holds' = IF op = "mark_rolled_back" THEN holds \ {<<c, id>>} ELSE holds
    /\ UNCHANGED <<replay, conflict>>

At(c, step) == call' = [call EXCEPT ![c].at = step]

Respond(c, res) ==
    /\ call' = [call EXCEPT ![c].at = "done", ![c].res = res]
    /\ holds' = DB!HoldsAfter(c, call[c].op, call[c].id, res)

(* The read of consume_if_unconsumed: Consumed and Pending are answered    *)
(* from what it saw, the other two need a write transaction.               *)
read_state(c) ==
    LET s == replay[call[c].id] IN
    /\ call[c].at = "called" /\ call[c].op = "consume_if_unconsumed"
    /\ \/ s = "Consumed" /\ Respond(c, "Ok")
       \/ s = "Pending" /\ Respond(c, "AlreadyExists")
       \/ s = "RolledBack" /\ At(c, "rearm") /\ UNCHANGED holds
       \/ s = "None" /\ At(c, "insert") /\ UNCHANGED holds
    /\ UNCHANGED <<replay, conflict>>

\* The mutation that trusts the state read before the transaction.
RearmUnchecked(c) ==
    /\ call[c].at = "rearm"
    /\ replay' = [replay EXCEPT ![call[c].id] = "Pending"]
    /\ Respond(c, "Ok")
    /\ UNCHANGED conflict

(* transition, as consume_if_unconsumed uses it: it looks at the entry     *)
(* again inside the write transaction.                                     *)
rearm(c) ==
    LET id == call[c].id IN
    /\ call[c].at = "rearm"
    /\ \/ /\ replay[id] = "RolledBack"
          /\ replay' = [replay EXCEPT ![id] = "Pending"]
          /\ Respond(c, "Ok")
       \/ /\ replay[id] \in {"Consumed", "Pending"}
          /\ Respond(c, "AlreadyExists")
          /\ UNCHANGED replay
    /\ UNCHANGED conflict

(* cas_insert: the conflict key decides, and both tables are written in    *)
(* one transaction.                                                        *)
cas_insert(c) ==
    LET id == call[c].id IN
    /\ \/ call[c].at = "insert"
       \/ call[c].at = "called" /\ call[c].op = "insert_if_absent"
    /\ \/ /\ id \notin conflict
          /\ conflict' = conflict \cup {id}
          /\ replay' = [replay EXCEPT ![id] = "Pending"]
          /\ Respond(c, "Ok")
       \/ /\ id \in conflict
          /\ Respond(c, "AlreadyExists")
          /\ UNCHANGED <<replay, conflict>>

(* transition, as confirm_consumed_replay_id and mark_rolled_back use it.  *)
transition(c) ==
    LET id == call[c].id
        out == DB!Apply(call[c].op, replay[id]) IN
    /\ call[c].at = "called"
    /\ call[c].op \in {"confirm_consumed", "mark_rolled_back"}
    /\ replay' = [replay EXCEPT ![id] = out.state]
    /\ Respond(c, out.res)
    /\ UNCHANGED conflict

(* Any of redb's own calls fails: the open transaction is dropped.         *)
StorageError(c) ==
    /\ call[c].at \in {"called", "rearm", "insert"}
    /\ Respond(c, "Storage")
    /\ UNCHANGED <<replay, conflict>>

Return(c) ==
    /\ call[c].at = "done"
    /\ call' = [call EXCEPT ![c] = DB!Idle]
    /\ UNCHANGED <<replay, conflict, holds>>

ClientCrash(c) ==
    /\ call[c].at # "idle"
    /\ call' = [call EXCEPT ![c] = DB!Idle]
    /\ UNCHANGED <<replay, conflict, holds>>

RedbNext ==
    \E c \in Clients :
        \/ \E op \in DB!Ops, id \in Ids : Invoke(c, op, id)
        \/ read_state(c)
        \/ rearm(c)
        \/ cas_insert(c)
        \/ transition(c)
        \/ StorageError(c)
        \/ Return(c)
        \/ ClientCrash(c)

RedbSpec == RedbInit /\ [][RedbNext]_redbVars

-----------------------------------------------------------------------------
(* contains, which recovery uses, reads the conflict key; everything else  *)
(* reads the state.  The two tables never disagree on which ids exist, and *)
(* a client that is about to re-arm an entry does so on one that exists    *)
(* (so transition's NotFound arm is dead).                                 *)
ConflictKeysAreEntries ==
    /\ conflict = {id \in Ids : replay[id] # "None"}
    /\ \A c \in Clients : call[c].at = "rearm" => replay[call[c].id] # "None"

(* redb implements the contract: whatever changes between the read and the *)
(* write of consume_if_unconsumed, each call takes effect once, atomically.*)
ImplementsContract == DB!Spec
=============================================================================
