--------------------------- MODULE ReplayDatabase ---------------------------
(***************************************************************************)
(* The contract of csv-storage's ReplayDatabase trait, the compare-and-    *)
(* swap store that decides which coordinator may run a transfer.  A call   *)
(* is three steps: the client invokes it, it takes effect once and         *)
(* atomically, and the client takes the answer.  The backends implement    *)
(* it: the in-memory one does each call under a write lock; ReplayRedb and *)
(* ReplayPostgres model the two that need several steps.                   *)
(***************************************************************************)
EXTENDS Integers, FiniteSets, ReplayStates

CONSTANTS
    Clients,   \* coordinators sharing the database
    Ids        \* replay ids

VARIABLES
    entries,   \* entries[id]: ReplayEntryState, "None" without an entry
    call,      \* call[c]: the call of client c and how far it got
    holds      \* history: <<c, id>> once c was answered Ok by an arming call on
               \* id, until c gives up and asks for id to be rolled back

vars == <<entries, call, holds>>

-----------------------------------------------------------------------------
Apply(op, s) ==
    CASE op = "insert_if_absent"      -> insert_if_absent(s)
      [] op = "consume_if_unconsumed" -> consume_if_unconsumed(s)
      [] op = "confirm_consumed"      -> confirm_consumed(s)
      [] op = "mark_rolled_back"      -> mark_rolled_back(s)

(* What the contract lets a call answer.  A backend that loses a race      *)
(* between its read and its write may say AlreadyExists of any entry that  *)
(* exists, and an I/O error leaves open whether the call took effect.      *)
Outcomes(op, s) ==
    {Apply(op, s), Answer(Apply(op, s).state, "Storage"), Answer(s, "Storage")}
      \cup (IF op = "consume_if_unconsumed" /\ s # "None"
              THEN {Answer(s, "AlreadyExists")} ELSE {})

-----------------------------------------------------------------------------
Idle == [at |-> "idle", op |-> "none", id |-> "none", res |-> "none"]

Calling(op, id) == [at |-> "called", op |-> op, id |-> id, res |-> "none"]

Answered(c, res) == [call EXCEPT ![c] = [@ EXCEPT !.at = "done", !.res = res]]

(* The holders after client c's call op on id was answered res.            *)
HoldsAfter(c, op, id, res) ==
    IF res = "Ok" /\ op \in ArmingOps THEN holds \cup {<<c, id>>} ELSE holds

Init ==
    /\ entries = [id \in Ids |-> "None"]
    /\ call = [c \in Clients |-> Idle]
    /\ holds = {}

(* A coordinator rolls back only an id it was itself admitted to, and goes *)
(* on to fail the transfer whatever the answer; any coordinator may        *)
(* confirm an id, since recovery runs in another process.                  *)
Invoke(c, op, id) ==
    /\ call[c].at = "idle"
    /\ op = "mark_rolled_back" => <<c, id>> \in holds
    /\ call' = [call EXCEPT ![c] = Calling(op, id)]
    /\ holds' = IF op = "mark_rolled_back" THEN holds \ {<<c, id>>} ELSE holds
    /\ UNCHANGED entries

Effect(c) ==
    /\ call[c].at = "called"
    /\ \E out \in Outcomes(call[c].op, entries[call[c].id]) :
          /\ entries' = [entries EXCEPT ![call[c].id] = out.state]
          /\ call' = Answered(c, out.res)
          /\ holds' = HoldsAfter(c, call[c].op, call[c].id, out.res)

Return(c) ==
    /\ call[c].at = "done"
    /\ call' = [call EXCEPT ![c] = Idle]
    /\ UNCHANGED <<entries, holds>>

(* The client process dies: its call is forgotten, the database is not.    *)
Crash(c) ==
    /\ call[c].at # "idle"
    /\ call' = [call EXCEPT ![c] = Idle]
    /\ UNCHANGED <<entries, holds>>

Next ==
    \E c \in Clients :
        \/ \E op \in Ops, id \in Ids : Invoke(c, op, id)
        \/ Effect(c)
        \/ Return(c)
        \/ Crash(c)

Spec == Init /\ [][Next]_vars

-----------------------------------------------------------------------------
Calls ==
    {Idle} \cup [at : {"called", "done"}, op : Ops, id : Ids, res : Results \cup {"none"}]

TypeOK ==
    /\ entries \in [Ids -> States]
    /\ call \in [Clients -> Calls]
    /\ holds \subseteq Clients \X Ids

(* The purpose of the store: while an entry is pending at most one client  *)
(* has been told that the transfer is its to run, and once it has been     *)
(* rolled back nobody still has.                                           *)
ExclusiveHolder ==
    \A id \in Ids :
        /\ entries[id] = "Pending" =>
             \A c, d \in Clients : <<c, id>> \in holds /\ <<d, id>> \in holds => c = d
        /\ entries[id] \in {"None", "RolledBack"} => \A c \in Clients : <<c, id>> \notin holds

\* What a step may do to an entry.
EntryStep ==
    \A id \in Ids : entries'[id] # entries[id] =>
        /\ entries[id] # "Consumed"
        /\ entries'[id] # "None"
        /\ entries'[id] \in {"Consumed", "RolledBack"} => entries[id] = "Pending"

(* "Mint confirmed on-chain - terminal" and "append-only: never deleted,   *)
(* only state-changed": no call takes an entry out of Consumed, deletes    *)
(* one, or consumes one that was not pending.                              *)
EntriesAppendOnly == [][EntryStep]_vars
=============================================================================
