------------------------------ MODULE SlotSync ------------------------------
(***************************************************************************)
(* Solana's SyncCoordinator: a background loop reads the slots one after   *)
(* the other and buffers the CSV instructions it finds, callers may force  *)
(* it forward, stop it and start it again, and a consumer drains the       *)
(* buffer.  No lock is held over a call of the node, so loops and callers  *)
(* go on with a slot number they read before.  An observation is the       *)
(* number of its slot.                                                     *)
(***************************************************************************)
EXTENDS Integers, FiniteSets, Sequences

CONSTANTS Loops,            \* tasks start may spawn
          SyncCallers,      \* callers of sync_to_slot
          Active,           \* slots whose block has a CSV instruction
          MaxSlot,          \* bound: slots of the chain
          max_recovery_gap,
          MaxBuffered,      \* MAX_BUFFERED_OBSERVATIONS
          ConfirmedAfter    \* slots until a slot is final, 32 in the code

ASSUME SlotSyncAssumption ==
    /\ MaxSlot \in Nat /\ Active \subseteq 1 .. MaxSlot
    /\ max_recovery_gap \in Nat /\ MaxBuffered \in Nat \ {0} /\ ConfirmedAfter \in Nat

VARIABLES head,             \* the last slot of the chain
          sync,             \* SlotSyncState: latest_synced_slot, latest_confirmed_slot
          running,
          starting,         \* calls of start that set running and have not returned
          worker,           \* loops and callers: where they are, their slot and target
          observations,     \* the buffer
          removed           \* history: what was drained, or dropped from a full buffer

syncVars == <<head, sync, running, starting, worker, observations, removed>>

NoWork == [at |-> "none", slot |-> 0, target |-> 0]

TopOfLoop == [NoWork EXCEPT !.at = "top"]

SlotSyncInit ==
    /\ head = 0
    /\ sync = [synced |-> 0, confirmed |-> 0]
    /\ running = FALSE /\ starting = 0
    /\ worker = [w \in Loops \cup SyncCallers |-> NoWork]
    /\ observations = <<>> /\ removed = {}

\* The slots whose observations are in the buffer.
Buffered == {observations[i] : i \in DOMAIN observations}

-----------------------------------------------------------------------------
(* A slot passes on the chain.                                             *)
NextSlot ==
    /\ head < MaxSlot
    /\ head' = head + 1
    /\ UNCHANGED <<sync, running, starting, worker, observations, removed>>

drain_observations ==
    /\ observations # <<>>
    /\ removed' = removed \cup Buffered
    /\ observations' = <<>>
    /\ UNCHANGED <<head, sync, running, starting, worker>>

(* start: nothing to do if it is running.  If the node does not answer     *)
(* initialize_state, no loop is spawned and running stays set.             *)
start ==
    /\ ~running /\ starting < Cardinality(Loops)
    /\ running' = TRUE /\ starting' = starting + 1
    /\ UNCHANGED <<head, sync, worker, observations, removed>>

initialize_state ==
    /\ starting > 0
    /\ starting' = starting - 1
    /\ \/ UNCHANGED worker
       \/ LET free == {w \in Loops : worker[w] = NoWork}
          IN  free # {} /\ worker' = [worker EXCEPT ![CHOOSE w \in free : TRUE] = TopOfLoop]
    /\ UNCHANGED <<head, sync, running, observations, removed>>

stop ==
    /\ running
    /\ running' = FALSE
    /\ UNCHANGED <<head, sync, starting, worker, observations, removed>>

-----------------------------------------------------------------------------
(* The top of the loop: it ends when it sees running unset.                *)
loop_ends(w) ==
    /\ worker[w].at = "top" /\ ~running
    /\ worker' = [worker EXCEPT ![w] = NoWork]
    /\ UNCHANGED <<head, sync, running, starting, observations, removed>>

(* sync_slot, up to its call for the block: the state is read, then the    *)
(* tip; at the tip there is nothing to do, and an error of the node is     *)
(* left to the next round.                                                 *)
sync_slot(w) ==
    /\ worker[w].at = "top" /\ running
    /\ worker' = [worker EXCEPT ![w] = [at |-> "tip", slot |-> sync.synced + 1, target |-> 0]]
    /\ UNCHANGED <<head, sync, running, starting, observations, removed>>

sync_tip(w) ==
    /\ worker[w].at = "tip"
    /\ \/ /\ worker[w].slot <= head
          /\ worker' = [worker EXCEPT ![w].at = "block"]
       \/ worker' = [worker EXCEPT ![w] = TopOfLoop]
    /\ UNCHANGED <<head, sync, running, starting, observations, removed>>

(* sync_to_slot, up to its first call for a block.                         *)
sync_to_slot(w, target) ==
    /\ worker[w] = NoWork
    /\ target > sync.synced /\ target - sync.synced <= max_recovery_gap
    /\ worker' = [worker EXCEPT ![w] = [at |-> "block", slot |-> sync.synced + 1, target |-> target]]
    /\ UNCHANGED <<head, sync, running, starting, observations, removed>>

(* buffer_observations of the one observation a slot may have.             *)
buffer_observations(slot) ==
    IF slot \notin Active THEN UNCHANGED <<observations, removed>>
    ELSE IF Len(observations) = MaxBuffered
    THEN /\ observations' = Append(Tail(observations), slot)
         /\ removed' = removed \cup {Head(observations)}
    ELSE observations' = Append(observations, slot) /\ UNCHANGED removed

(* process_slot found the block: a caller goes on with its next slot.      *)
process_slot(w) ==
    LET slot == worker[w].slot
    IN  /\ worker[w].at = "block" /\ slot <= head
        /\ buffer_observations(slot)
        /\ worker' = [worker EXCEPT ![w] =
                        IF slot < @.target THEN [@ EXCEPT !.slot = slot + 1]
                        ELSE [@ EXCEPT !.at = "done"]]
        /\ UNCHANGED <<head, sync, running, starting>>

\* The loop records the slot although the block could not be read.
ErrorPasses(w) ==
    /\ worker[w].at = "block"
    /\ worker' = [worker EXCEPT ![w].at = IF w \in Loops THEN "done" ELSE "none"]
    /\ UNCHANGED <<head, sync, running, starting, observations, removed>>

(* The node does not answer, or the slot was skipped and has no block,     *)
(* which the client of the node reports as an error too: it ends the call, *)
(* or sends the loop to its next round.                                    *)
process_slot_fails(w) ==
    /\ worker[w].at = "block"
    /\ worker' = [worker EXCEPT ![w] = IF w \in Loops THEN TopOfLoop ELSE NoWork]
    /\ UNCHANGED <<head, sync, running, starting, observations, removed>>

(* The end of sync_slot: the slot is synced, and one further back final.   *)
slot_synced(w) ==
    /\ w \in Loops /\ worker[w].at = "done"
    /\ sync' = [synced |-> worker[w].slot,
                confirmed |-> IF worker[w].slot >= ConfirmedAfter
                              THEN worker[w].slot - ConfirmedAfter ELSE sync.confirmed]
    /\ worker' = [worker EXCEPT ![w] = TopOfLoop]
    /\ UNCHANGED <<head, running, starting, observations, removed>>

target_synced(w) ==
    /\ w \in SyncCallers /\ worker[w].at = "done"
    /\ sync' = [sync EXCEPT !.synced = worker[w].target]
    /\ worker' = [worker EXCEPT ![w] = NoWork]
    /\ UNCHANGED <<head, running, starting, observations, removed>>

SlotSyncNext ==
    \/ NextSlot \/ drain_observations
    \/ start \/ initialize_state \/ stop
    \/ \E w \in Loops : loop_ends(w) \/ sync_slot(w) \/ sync_tip(w) \/ slot_synced(w)
    \/ \E w \in SyncCallers :
          target_synced(w) \/ \E target \in 1 .. MaxSlot : sync_to_slot(w, target)
    \/ \E w \in Loops \cup SyncCallers : process_slot(w) \/ process_slot_fails(w)

SlotSyncSpec == SlotSyncInit /\ [][SlotSyncNext]_syncVars

-----------------------------------------------------------------------------
(* "preventing missed slots": every slot up to the one the state gives as  *)
(* synced was read, and its observation is in the buffer, was drained or   *)
(* was dropped by a full one, however loops and callers that work with a   *)
(* stale slot interleave, and though the synced slot may go back.  What is *)
(* given as confirmed is that much older than a slot that was read.        *)
SyncedSlotsWereRead ==
    /\ \A slot \in Active \cap (1 .. sync.synced) :
          slot \in Buffered \cup removed
    /\ sync.synced <= head
    /\ sync.confirmed > 0 => sync.confirmed + ConfirmedAfter <= head
=============================================================================
