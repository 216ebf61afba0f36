-------------------------- MODULE ExecutionJournal --------------------------
(***************************************************************************)
(* The execution journal (csv-runtime/src/execution_journal.rs): the redb  *)
(* table whose keys come from a counter behind a mutex and are read back   *)
(* when the file is opened, and the bounded list kept in memory.  Tasks    *)
(* record entries at the same time, commits fail, and the process stops    *)
(* and opens the file again.                                               *)
(***************************************************************************)
EXTENDS Naturals

CONSTANTS
    Recorders,      \* tasks that call record
    JournalIds,     \* transfers
    Unheld,
    max_entries,    \* capacity of the list in memory
    MaxRecords,     \* bound on calls of record
    MaxStops        \* bound on process stops

ASSUME JournalAssumption ==
    /\ Unheld \notin Recorders
    /\ max_entries \in Nat /\ MaxRecords \in Nat /\ MaxStops \in Nat

VARIABLES
    backing,         \* "redb" or "memory"
    table,           \* the entries by key
    next_sequence,
    mutex,           \* who holds the lock of next_sequence
    recorder,        \* recorder[w]: the call task w is in
    issued,          \* history: calls of record so far
    acked,           \* history: acked[n], what issued was when call n returned Ok
    opened,          \* the process has the file open
    stops

journalVars ==
    <<backing, table, next_sequence, mutex, recorder, issued, acked, opened, stops>>

\* An entry is known by the number of the call that recorded it.
JournalEntry == [transfer : JournalIds, call : 1 .. MaxRecords]

Waiting(e) == [at |-> "waiting", entry |-> e]
Holding(e) == [at |-> "holding", entry |-> e]
Committed(e) == [at |-> "committed", entry |-> e]
NotRecording == [at |-> "idle"]

JournalInit ==
    /\ backing \in {"redb", "memory"}
    /\ table = [k \in {} |-> 0]
    /\ next_sequence = 0
    /\ mutex = Unheld
    /\ recorder = [w \in Recorders |-> NotRecording]
    /\ issued = 0
    /\ acked = [n \in 1 .. MaxRecords |-> 0]
    /\ opened = TRUE
    /\ stops = 0

-----------------------------------------------------------------------------
CallRecord(w, t) ==
    /\ opened /\ recorder[w] = NotRecording /\ issued < MaxRecords
    /\ issued' = issued + 1
    /\ recorder' = [recorder EXCEPT ![w] = Waiting([transfer |-> t, call |-> issued + 1])]
    /\ UNCHANGED <<backing, table, next_sequence, mutex, acked, opened, stops>>

\* table.insert: a key that is there is overwritten.
Inserted(e) ==
    [k \in DOMAIN table \cup {next_sequence} |-> IF k = next_sequence THEN e ELSE table[k]]

Acked(e) == [acked EXCEPT ![e.call] = issued]

\* InMemoryJournal::record_locked
record_locked(w) ==
    /\ backing = "memory" /\ recorder[w].at = "waiting"
    /\ recorder' = [recorder EXCEPT ![w] = NotRecording]
    /\ IF next_sequence >= max_entries
       THEN UNCHANGED <<table, next_sequence, acked>>
       ELSE /\ table' = Inserted(recorder[w].entry)
            /\ next_sequence' = next_sequence + 1
            /\ acked' = Acked(recorder[w].entry)
    /\ UNCHANGED <<backing, mutex, issued, opened, stops>>

(***************************************************************************)
(* RedbExecutionJournal::record                                            *)
(***************************************************************************)
LocksNothing(w) ==
    /\ backing = "redb" /\ recorder[w].at = "waiting"
    /\ mutex' = w
    /\ recorder' = [recorder EXCEPT ![w] = Holding(recorder[w].entry)]
    /\ UNCHANGED <<backing, table, next_sequence, issued, acked, opened, stops>>

lock(w) ==
    /\ backing = "redb" /\ recorder[w].at = "waiting" /\ mutex = Unheld
    /\ mutex' = w
    /\ recorder' = [recorder EXCEPT ![w] = Holding(recorder[w].entry)]
    /\ UNCHANGED <<backing, table, next_sequence, issued, acked, opened, stops>>

commit(w) ==
    /\ recorder[w].at = "holding"
    /\ table' = Inserted(recorder[w].entry)
    /\ recorder' = [recorder EXCEPT ![w] = Committed(recorder[w].entry)]
    /\ UNCHANGED <<backing, next_sequence, mutex, issued, acked, opened, stops>>

\* begin_write, insert or commit fails; a commit that fails may be on the disk.
JournalIoError(w, durable) ==
    /\ recorder[w].at = "holding"
    /\ table' = IF durable THEN Inserted(recorder[w].entry) ELSE table
    /\ recorder' = [recorder EXCEPT ![w] = NotRecording]
    /\ mutex' = Unheld
    /\ UNCHANGED <<backing, next_sequence, issued, acked, opened, stops>>

record_returns(w) ==
    /\ recorder[w].at = "committed"
    /\ next_sequence' = next_sequence + 1
    /\ acked' = Acked(recorder[w].entry)
    /\ recorder' = [recorder EXCEPT ![w] = NotRecording]
    /\ mutex' = Unheld
    /\ UNCHANGED <<backing, table, issued, opened, stops>>

\* What is in memory is lost, and with it the promise of the calls that returned.
ProcessStops ==
    /\ opened /\ stops < MaxStops
    /\ stops' = stops + 1
    /\ opened' = FALSE
    /\ recorder' = [w \in Recorders |-> NotRecording]
    /\ mutex' = Unheld
    /\ table' = IF backing = "redb" THEN table ELSE [k \in {} |-> 0]
    /\ acked' = IF backing = "redb" THEN acked ELSE [n \in 1 .. MaxRecords |-> 0]
    /\ UNCHANGED <<backing, next_sequence, issued>>

\* The counter goes on after the last key.
open ==
    /\ ~opened
    /\ opened' = TRUE
    /\ next_sequence' = IF DOMAIN table = {} THEN 0
                        ELSE (CHOOSE k \in DOMAIN table : \A j \in DOMAIN table : j <= k) + 1
    /\ UNCHANGED <<backing, table, mutex, recorder, issued, acked, stops>>

JournalNext ==
    \/ \E w \in Recorders :
         \/ \E t \in JournalIds : CallRecord(w, t)
         \/ record_locked(w) \/ lock(w) \/ commit(w) \/ record_returns(w)
         \/ \E durable \in BOOLEAN : JournalIoError(w, durable)
    \/ ProcessStops \/ open

JournalSpec == JournalInit /\ [][JournalNext]_journalVars

-----------------------------------------------------------------------------
KeysOf(t) == {k \in DOMAIN table : table[k].transfer = t}

\* latest_entry: iteration is in the order of the keys.
latest_entry(t) == table[CHOOSE k \in KeysOf(t) : \A j \in KeysOf(t) : j <= k]

(* "Get the latest durable recovery entry for a transfer": an entry whose  *)
(* record returned Ok is in the journal for good, and what recovery reads  *)
(* is no older: the latest entry of the transfer had not been acknowledged *)
(* before that record was called.                                          *)
RecoveryReadsLatest ==
    \A n \in 1 .. MaxRecords : acked[n] # 0 =>
        \E k \in DOMAIN table :
            /\ table[k].call = n
            /\ LET last == latest_entry(table[k].transfer).call
               IN  acked[last] = 0 \/ acked[last] >= n
=============================================================================
