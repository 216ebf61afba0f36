------------------------ MODULE TransferCoordinator ------------------------
(***************************************************************************)
(* Materialize-mode transfers in csv-runtime's TransferCoordinator         *)
(* (transfer_coordinator.rs): execute_outcome locks a sanad on its source  *)
(* chain, waits for finality, proves the lock, mints on the destination    *)
(* and settles the replay slot; resume_transfer_outcome and its helpers    *)
(* execute_from_lock, execute_from_proof and execute_from_mint continue an *)
(* interrupted transfer from the last entry of the execution journal.      *)
(*                                                                         *)
(* Every durable write and every chain call is a step of its own, so that  *)
(* other tasks, errors and crashes come between any two of them.  A name   *)
(* starting with r_ belongs to the resume path.  Only the parts of a       *)
(* journal entry the code reads back are kept: the phase, whether it holds *)
(* a proof payload and whether it holds the transfer's context.  Nothing   *)
(* reads an entry's outcome, so an Entered, a Completed and a Failed entry *)
(* of one phase are one entry here.                                        *)
(***************************************************************************)
EXTENDS Integers, FiniteSets, ReplayStates, EventLog, BreakerStates

CONSTANTS
    Transfers,    \* transfer ids
    Sanads,       \* sanads; a sanad's id is also its replay id
    SanadOf,      \* the sanad a transfer moves
    NoTransfer,
    Tasks,        \* concurrent callers of the coordinator
    MaxRetries,   \* policy.max_retries
    FreshIds,     \* whether every execute call comes with a new transfer id
    OneTask,      \* whether calls on one sanad exclude each other
    MaxFaults,    \* bound on storage errors and crashes
    MaxVersion    \* bound on a sanad's event versions, beyond which none calls

ASSUME CoordinatorAssumption ==
    /\ SanadOf \in [Transfers -> Sanads] /\ NoTransfer \notin Transfers
    /\ MaxRetries \in Nat /\ MaxFaults \in Nat /\ MaxVersion \in Nat
    /\ FreshIds \in BOOLEAN /\ OneTask \in BOOLEAN

VARIABLES
    replay,    \* replay[s]: the state of the sanad's replay entry
    registry,  \* registry[s]: its row in the transfers table: id, mint hash set
    journal,   \* journal[t]: latest_entry of the execution journal
    events,    \* events[s]: the sanad's log in the event store
    breaker,   \* the circuit breaker, in memory
    task,      \* task[k]: the call task k is executing
    chain,     \* chain[s]: what the chains hold of the sanad: "locked", "final", "minted"
    faults

vars == <<replay, registry, journal, events, breaker, task, chain, faults>>

Phases == {"None", "Initialized", "LockConfirmed", "AwaitingFinality", "ProofBuilding",
           "ProofValidated", "MintSubmitted", "MintConfirmed", "Completed"}

Entry(phase, payload, context) ==
    [phase |-> phase, payload |-> payload, context |-> context]

Bare(phase) == Entry(phase, FALSE, FALSE)

NoRow == [id |-> NoTransfer, minted |-> FALSE]

Idle == [at |-> "idle", transfer |-> NoTransfer, attempt |-> 0, cached |-> FALSE]

Init ==
    /\ replay = [s \in Sanads |-> "None"]
    /\ registry = [s \in Sanads |-> NoRow]
    /\ journal = [t \in Transfers |-> Bare("None")]
    /\ events = [s \in Sanads |-> NoEvents]
    /\ breaker = Fresh
    /\ task = [k \in Tasks |-> Idle]
    /\ chain = [s \in Sanads |-> {}]
    /\ faults = 0

Transfer(k) == task[k].transfer
Sanad(k) == SanadOf[Transfer(k)]
Active(k) == task[k].at # "idle"

Free(k, t) ==
    /\ ~Active(k) /\ get_latest_version(events[SanadOf[t]]) < MaxVersion
    /\ OneTask => \A j \in Tasks : Active(j) => Sanad(j) # SanadOf[t]

Call(k, t, at, cached) ==
    task' = [task EXCEPT ![k] = [at |-> at, transfer |-> t, attempt |-> 0, cached |-> cached]]

Goto(k, at) == Call(k, Transfer(k), at, task[k].cached)

Retry(k) ==
    task' = [task EXCEPT ![k] = [at |-> task[k].at, transfer |-> Transfer(k),
                                 attempt |-> task[k].attempt + 1, cached |-> task[k].cached]]

Return(k) == task' = [task EXCEPT ![k] = Idle]

(***************************************************************************)
(* The durable writes: each moves the task from one step to the next.      *)
(***************************************************************************)

Record(k, from, entry, to) ==
    /\ task[k].at = from
    /\ journal' = [journal EXCEPT ![Transfer(k)] = entry]
    /\ Goto(k, to)
    /\ UNCHANGED <<replay, registry, events, breaker, chain, faults>>

store_transfer_entry(k, from, minted, to) ==
    /\ task[k].at = from
    /\ registry' = [registry EXCEPT ![Sanad(k)] = [id |-> Transfer(k), minted |-> minted]]
    /\ Goto(k, to)
    /\ UNCHANGED <<replay, journal, events, breaker, chain, faults>>

Fail == faults < MaxFaults /\ faults' = faults + 1

(* An event is appended, or the append fails and the failure is logged.    *)
Emit(s, kind, v) ==
    \/ /\ events' = [events EXCEPT ![s] = append(@, v, <<kind, v>>)]
       /\ UNCHANGED faults
    \/ Fail /\ UNCHANGED events

(***************************************************************************)
(* execute_outcome up to the lock.                                         *)
(***************************************************************************)

(* The sanad has a recorded receipt: its row has a mint hash and the       *)
(* journal of the transfer the row names ends in Completed.                *)
HasReceipt(s) ==
    /\ replay[s] # "None"
    /\ registry[s].minted
    /\ registry[s].id \in Transfers /\ journal[registry[s].id].phase = "Completed"

execute_outcome(k, t) ==
    /\ Free(k, t)
    /\ FreshIds => journal[t].phase = "None" /\ \A j \in Tasks : Transfer(j) # t
    /\ Call(k, t, "receipt", FALSE)
    /\ UNCHANGED <<replay, registry, journal, events, breaker, chain, faults>>

completed_receipt_for(k) ==
    /\ task[k].at = "receipt"
    /\ IF HasReceipt(Sanad(k)) THEN Return(k) ELSE Goto(k, "init")
    /\ UNCHANGED <<replay, registry, journal, events, breaker, chain, faults>>

initialized(k) == Record(k, "init", Bare("Initialized"), "consume")

(* Only Ok lets the call go on; a slot still pending is reported as an     *)
(* event with the version of the first.                                    *)
consume(k) ==
    /\ task[k].at = "consume"
    /\ LET s == Sanad(k)
           a == consume_if_unconsumed(replay[s])
       IN  /\ replay' = [replay EXCEPT ![s] = a.state]
           /\ \/ a.res = "Ok" /\ Goto(k, "initialized") /\ UNCHANGED <<events, faults>>
              \/ a.res = "AlreadyExists" /\ Return(k) /\ Emit(s, "replay_detected", 1)
    /\ UNCHANGED <<registry, journal, breaker, chain>>

initialize_complete(k) ==
    Record(k, "initialized", Bare("Initialized"), IF task[k].cached THEN "store" ELSE "gates")

(* A transfer that comes with a lock hash, which only one rebuilt from the *)
(* registry does, is stored again before it is locked.                     *)
store_with_lock_hash(k) == store_transfer_entry(k, "store", FALSE, "gates")

(* The chains' capabilities admit the transfer or the call ends.           *)
capability_gates(k) ==
    /\ task[k].at = "gates"
    /\ Goto(k, "lock_enter") \/ Return(k)
    /\ UNCHANGED <<replay, registry, journal, events, breaker, chain, faults>>

lock_entered(k) == Record(k, "lock_enter", Bare("LockConfirmed"), "lock_check")

lock_check(k) ==
    /\ task[k].at = "lock_check"
    /\ Emit(Sanad(k), "locked", 1)
    /\ IF allow_request(breaker) THEN Goto(k, "lock") ELSE Return(k)
    /\ UNCHANGED <<replay, registry, journal, breaker, chain>>

(* The chain call either answers, or fails with the call accepted or not.  *)
(* The loop makes max_retries + 1 attempts.                                *)
Attempt(k, from, fact, done, failed) ==
    /\ task[k].at = from
    /\ \/ /\ chain' = [chain EXCEPT ![Sanad(k)] = @ \cup {fact}]
          /\ breaker' = record_success(breaker)
          /\ Goto(k, done)
       \/ /\ \/ UNCHANGED chain
             \/ chain' = [chain EXCEPT ![Sanad(k)] = @ \cup {fact}]
          /\ breaker' = record_failure(breaker)
          /\ \/ task[k].attempt < MaxRetries /\ Retry(k)
             \/ task[k].attempt >= MaxRetries /\ Goto(k, failed)
    /\ UNCHANGED <<replay, registry, journal, events, faults>>

lock_sanad(k) == Attempt(k, "lock", "locked", "locked", "lock_failed")

lock_failed(k) == Record(k, "lock_failed", Bare("LockConfirmed"), "rollback")

rollback(k) ==
    /\ task[k].at = "rollback"
    /\ replay' = [replay EXCEPT ![Sanad(k)] = mark_rolled_back(@).state]
    /\ Return(k)
    /\ UNCHANGED <<registry, journal, events, breaker, chain, faults>>

lock_complete(k) == Record(k, "locked", Bare("LockConfirmed"), "lock_store")

lock_store(k) == store_transfer_entry(k, "lock_store", FALSE, "await")

(***************************************************************************)
(* execute_outcome from the lock to the receipt.                           *)
(***************************************************************************)

await_entered(k) == Record(k, "await", Bare("AwaitingFinality"), "finality")

(* The finality query fails, finds too few confirmations (the call returns *)
(* Pending) or finds the lock final.                                       *)
Gate(k, next) ==
    \/ "final" \in chain[Sanad(k)] /\ Goto(k, next)
    \/ Return(k)

finality_gate(k) ==
    /\ task[k].at = "finality"
    /\ Emit(Sanad(k), "awaiting", 2)
    /\ Gate(k, "final")
    /\ UNCHANGED <<replay, registry, journal, breaker, chain>>

await_complete(k) == Record(k, "final", Bare("AwaitingFinality"), "proof_enter")

proof_entered(k) == Record(k, "proof_enter", Bare("ProofBuilding"), "build")

build_inclusion_proof(k) ==
    /\ task[k].at = "build"
    /\ Emit(Sanad(k), "proof_built", 3)
    /\ Goto(k, "verify")
    /\ UNCHANGED <<replay, registry, journal, breaker, chain>>

(* The proof cannot be built or does not verify, or it verifies.           *)
verify_proof(k) ==
    /\ task[k].at = "verify"
    /\ \/ Return(k) /\ UNCHANGED <<events, faults>>
       \/ Goto(k, "verified") /\ Emit(Sanad(k), "verified", 4)
    /\ UNCHANGED <<replay, registry, journal, breaker, chain>>

proof_complete(k) == Record(k, "verified", Bare("ProofBuilding"), "proof")

proof_validated(k) == Record(k, "proof", Entry("ProofValidated", TRUE, FALSE), "mint_check")

(* With the breaker open the slot is rolled back although the lock stands. *)
mint_check(k) ==
    /\ task[k].at = "mint_check"
    /\ Goto(k, IF allow_request(breaker) THEN "mint_enter" ELSE "mint_blocked")
    /\ UNCHANGED <<replay, registry, journal, events, breaker, chain, faults>>

mint_blocked(k) == Record(k, "mint_blocked", Bare("MintConfirmed"), "rollback")

mint_entered(k) == Record(k, "mint_enter", Bare("MintConfirmed"), "mint")

\* The mutation that goes on as if the last failed attempt had minted.
MintFailureGoesOn(k) == Attempt(k, "mint", "minted", "minted", "minted")

mint_sanad(k) == Attempt(k, "mint", "minted", "minted", "mint_failed")

(* The slot stays pending when every attempt has failed.                   *)
mint_failed(k) == Record(k, "mint_failed", Bare("MintConfirmed"), "return")

return(k) ==
    /\ task[k].at = "return"
    /\ Return(k)
    /\ UNCHANGED <<replay, registry, journal, events, breaker, chain, faults>>

mint_store(k) == store_transfer_entry(k, "minted", TRUE, "mint_submitted")

\* The mutation that takes an accepted mint for the end of the transfer.
CompletesEarly(k) == Record(k, "mint_submitted", Bare("Completed"), "mint_confirmed")

mint_submitted(k) == Record(k, "mint_submitted", Bare("MintSubmitted"), "mint_confirmed")

mint_confirmed(k) == Record(k, "mint_confirmed", Bare("MintConfirmed"), "confirm")

Confirm(k, from, to) ==
    /\ task[k].at = from
    /\ LET a == confirm_consumed(replay[Sanad(k)]) IN
       /\ replay' = [replay EXCEPT ![Sanad(k)] = a.state]
       /\ IF a.res = "Ok" THEN Goto(k, to) ELSE Return(k)
    /\ UNCHANGED <<registry, journal, events, breaker, chain, faults>>

confirm(k) == Confirm(k, "confirm", "evidence")

record_settlement_evidence(s) ==
    Emit(s, "evidence", get_latest_version(events[s]) + 1)

evidence(k) ==
    /\ task[k].at = "evidence"
    /\ record_settlement_evidence(Sanad(k))
    /\ Goto(k, "confirm_store")
    /\ UNCHANGED <<replay, registry, journal, breaker, chain>>

confirm_store(k) == store_transfer_entry(k, "confirm_store", TRUE, "complete_event")

complete_event(k) ==
    /\ task[k].at = "complete_event"
    /\ Emit(Sanad(k), "complete", 5)
    /\ Goto(k, "complete")
    /\ UNCHANGED <<replay, registry, journal, breaker, chain>>

completed(k) == Record(k, "complete", Bare("Completed"), "return")

(***************************************************************************)
(* resume_transfer_outcome and the helpers it continues in.                *)
(***************************************************************************)

\* The mutation that looks the row up by its sanad only.
CachedBySanad(t) == registry[SanadOf[t]].id # NoTransfer

Cached(t) == registry[SanadOf[t]].id = t

(* Where an interrupted transfer continues; "idle" where the call ends in  *)
(* an error, or in the receipt, without changing anything.                 *)
ResumePoint(t) ==
    LET entry == journal[t]
        known == Cached(t) \/ entry.context
    IN  CASE entry.phase = "Initialized" /\ Cached(t) -> "receipt"
          [] entry.phase \in {"LockConfirmed", "AwaitingFinality"} /\ known -> "r_await"
          [] entry.phase = "ProofBuilding" /\ known ->
                IF entry.payload THEN "r_reverify" ELSE "r_await"
          [] entry.phase = "ProofValidated" /\ Cached(t) /\ entry.payload -> "r_from_proof"
          [] entry.phase = "MintSubmitted" /\ Cached(t) ->
                IF registry[SanadOf[t]].minted THEN "r_from_mint"
                ELSE IF entry.payload THEN "r_from_proof" ELSE "idle"
          [] OTHER -> "idle"

(* The replay reservation must exist (validate_recovery_context) on every  *)
(* path but re-execution.                                                  *)
resume_transfer_outcome(k, t) ==
    /\ Free(k, t)
    /\ ResumePoint(t) # "idle"
    /\ ResumePoint(t) # "receipt" => replay[SanadOf[t]] # "None"
    /\ Call(k, t, ResumePoint(t), ResumePoint(t) = "receipt")
    /\ UNCHANGED <<replay, registry, journal, events, breaker, chain, faults>>

r_await_entered(k) == Record(k, "r_await", Entry("AwaitingFinality", FALSE, TRUE), "r_finality")

Check(k, from, to) ==
    /\ task[k].at = from
    /\ Gate(k, to)
    /\ UNCHANGED <<replay, registry, journal, events, breaker, chain, faults>>

r_finality_gate(k) == Check(k, "r_finality", "r_final")

r_await_complete(k) == Record(k, "r_final", Bare("AwaitingFinality"), "r_proof_enter")

r_proof_entered(k) == Record(k, "r_proof_enter", Bare("ProofBuilding"), "r_build")

(* verify_recovery_proof observes finality once more.                      *)
r_verify_proof(k) == Check(k, "r_build", "r_verified")

r_proof_complete(k) == Record(k, "r_verified", Entry("ProofBuilding", TRUE, FALSE), "r_proof")

r_proof_validated(k) == Record(k, "r_proof", Entry("ProofValidated", TRUE, FALSE), "r_from_proof")

(* The proof of the journal is confirmed and verified again.               *)
r_reverify(k) == Check(k, "r_reverify", "r_from_proof")

execute_from_proof(k) == Check(k, "r_from_proof", "r_mint_enter")

\* The mutation that journals the start of the mint without the proof.
EntersWithoutProof(k) == Record(k, "r_mint_enter", Bare("MintSubmitted"), "r_mint")

r_mint_entered(k) == Record(k, "r_mint_enter", Entry("MintSubmitted", TRUE, FALSE), "r_mint")

(* One attempt, outside the breaker.                                       *)
r_mint_sanad(k) ==
    /\ task[k].at = "r_mint"
    /\ \/ /\ chain' = [chain EXCEPT ![Sanad(k)] = @ \cup {"minted"}]
          /\ Goto(k, "r_minted") \/ Return(k)
       \/ UNCHANGED chain /\ Return(k)
    /\ UNCHANGED <<replay, registry, journal, events, breaker, faults>>

r_mint_store(k) == store_transfer_entry(k, "r_minted", TRUE, "r_submitted")

r_mint_submitted(k) == Record(k, "r_submitted", Entry("MintSubmitted", TRUE, FALSE), "r_from_mint")

(* The row must still be this transfer's; confirm_tx finds the accepted    *)
(* mint or fails.                                                          *)
execute_from_mint(k) ==
    /\ task[k].at = "r_from_mint"
    /\ \/ Cached(Transfer(k)) /\ "minted" \in chain[Sanad(k)] /\ Goto(k, "r_confirm")
       \/ Return(k)
    /\ UNCHANGED <<replay, registry, journal, events, breaker, chain, faults>>

r_confirm(k) == Confirm(k, "r_confirm", "r_evidence")

(* Evidence needs the payload of the journal's latest entry.               *)
record_resumed_settlement_evidence(k) ==
    /\ task[k].at = "r_evidence"
    /\ IF journal[Transfer(k)].payload
       THEN record_settlement_evidence(Sanad(k))
       ELSE UNCHANGED <<events, faults>>
    /\ Goto(k, "r_store")
    /\ UNCHANGED <<replay, registry, journal, breaker, chain>>

r_confirm_store(k) == store_transfer_entry(k, "r_store", TRUE, "r_mint_confirmed")

r_mint_confirmed(k) == Record(k, "r_mint_confirmed", Bare("MintConfirmed"), "r_complete")

r_completed(k) == Record(k, "r_complete", Bare("Completed"), "return")

(***************************************************************************)
(* Errors, crashes and the environment.                                    *)
(***************************************************************************)

(* The call ends between two steps: a write or a query failed with an      *)
(* error the code passes on, applied or not, or the future was dropped.    *)
interrupt(k) ==
    /\ Active(k) /\ Fail
    /\ Return(k)
    /\ UNCHANGED <<replay, registry, journal, events, breaker, chain>>

(* Before it rolls the slot back the code ignores a failed journal write.  *)
lose_failed_entry(k) ==
    /\ task[k].at \in {"lock_failed", "mint_blocked"} /\ Fail
    /\ Goto(k, "rollback")
    /\ UNCHANGED <<replay, registry, journal, events, breaker, chain>>

(* The process stops and starts again: memory is lost.                     *)
crash ==
    /\ Fail
    /\ task' = [k \in Tasks |-> Idle]
    /\ breaker' = Fresh
    /\ UNCHANGED <<replay, registry, journal, events, chain>>

(* The source chain buries the lock; there are no reorganisations.         *)
finalize(s) ==
    /\ "locked" \in chain[s] /\ "final" \notin chain[s]
    /\ chain' = [chain EXCEPT ![s] = @ \cup {"final"}]
    /\ UNCHANGED <<replay, registry, journal, events, breaker, task, faults>>

(* The open breaker's recovery timeout passes.                             *)
elapse ==
    /\ breaker.state = "Open" /\ ~breaker.waited
    /\ breaker' = [breaker EXCEPT !.waited = TRUE]
    /\ UNCHANGED <<replay, registry, journal, events, task, chain, faults>>

attempt_circuit_breaker_recovery ==
    /\ CanRecover(breaker)
    /\ breaker' = attempt_recovery(breaker)
    /\ UNCHANGED <<replay, registry, journal, events, task, chain, faults>>

execute_step(k) ==
    \/ completed_receipt_for(k) \/ initialized(k) \/ consume(k) \/ initialize_complete(k)
    \/ store_with_lock_hash(k) \/ capability_gates(k) \/ lock_entered(k) \/ lock_check(k)
    \/ lock_sanad(k) \/ lock_failed(k) \/ rollback(k) \/ lock_complete(k) \/ lock_store(k)
    \/ await_entered(k) \/ finality_gate(k) \/ await_complete(k) \/ proof_entered(k)
    \/ build_inclusion_proof(k) \/ verify_proof(k) \/ proof_complete(k) \/ proof_validated(k)
    \/ mint_check(k) \/ mint_blocked(k) \/ mint_entered(k) \/ mint_sanad(k) \/ mint_failed(k)
    \/ mint_store(k) \/ mint_submitted(k) \/ mint_confirmed(k) \/ confirm(k) \/ evidence(k)
    \/ confirm_store(k) \/ complete_event(k) \/ completed(k) \/ return(k)

resume_step(k) ==
    \/ r_await_entered(k) \/ r_finality_gate(k) \/ r_await_complete(k) \/ r_proof_entered(k)
    \/ r_verify_proof(k) \/ r_proof_complete(k) \/ r_proof_validated(k) \/ r_reverify(k)
    \/ execute_from_proof(k) \/ r_mint_entered(k) \/ r_mint_sanad(k) \/ r_mint_store(k)
    \/ r_mint_submitted(k) \/ execute_from_mint(k) \/ r_confirm(k)
    \/ record_resumed_settlement_evidence(k) \/ r_confirm_store(k) \/ r_mint_confirmed(k)
    \/ r_completed(k)

Step ==
    \/ \E k \in Tasks :
          \/ \E t \in Transfers : execute_outcome(k, t) \/ resume_transfer_outcome(k, t)
          \/ execute_step(k) \/ resume_step(k)
          \/ interrupt(k) \/ lose_failed_entry(k)
    \/ \E s \in Sanads : finalize(s)
    \/ elapse \/ attempt_circuit_breaker_recovery

Next == Step \/ crash

Spec == Init /\ [][Next]_vars

(***************************************************************************)
(* Properties.                                                             *)
(***************************************************************************)

Steps ==
    {"idle", "receipt", "init", "consume", "initialized", "store", "gates", "lock_enter",
     "lock_check", "lock", "lock_failed", "rollback", "locked", "lock_store", "await",
     "finality", "final", "proof_enter", "build", "verify", "verified", "proof", "mint_check",
     "mint_blocked", "mint_enter", "mint", "mint_failed", "return", "minted",
     "mint_submitted", "mint_confirmed", "confirm", "evidence", "confirm_store",
     "complete_event", "complete", "r_await", "r_finality", "r_final", "r_proof_enter",
     "r_build", "r_verified", "r_proof", "r_reverify", "r_from_proof", "r_mint_enter",
     "r_mint", "r_minted", "r_submitted", "r_from_mint", "r_confirm", "r_evidence",
     "r_store", "r_mint_confirmed", "r_complete"}

(* The steps of a call that holds the slot it reserved.                    *)
Reserved ==
    {"initialized", "store", "gates", "lock_enter", "lock_check", "lock", "lock_failed",
     "rollback", "locked", "lock_store", "await", "finality", "final", "proof_enter",
     "build", "verify", "verified", "proof", "mint_check", "mint_blocked", "mint_enter",
     "mint", "mint_failed", "minted", "mint_submitted", "mint_confirmed", "confirm",
     "evidence", "confirm_store", "complete_event", "complete"}

(* Every component keeps its shape, the journal its phases, a call its     *)
(* steps and a lock or mint loop its max_retries + 1 attempts.             *)
TypeOK ==
    /\ replay \in [Sanads -> States]
    /\ registry \in [Sanads -> [id : Transfers \cup {NoTransfer}, minted : BOOLEAN]]
    /\ journal \in [Transfers -> [phase : Phases, payload : BOOLEAN, context : BOOLEAN]]
    /\ breaker \in Breakers
    /\ task \in [Tasks -> [at : Steps, transfer : Transfers \cup {NoTransfer},
                           attempt : 0 .. MaxRetries, cached : BOOLEAN]]
    /\ \A k \in Tasks : Active(k) => Transfer(k) \in Transfers
    /\ chain \in [Sanads -> SUBSET {"locked", "final", "minted"}]
    /\ faults \in 0 .. MaxFaults

(* Nothing is minted on the destination before its lock is final on the    *)
(* source, on the fresh path and on every resume path.                     *)
MintedOnlyFinal == \A s \in Sanads : "minted" \in chain[s] => "final" \in chain[s]

(* A replay slot is promoted to Consumed only after the destination chain  *)
(* has accepted a mint of the sanad, and the registry shows a mint hash    *)
(* only then.                                                              *)
ConsumedOnlyMinted ==
    \A s \in Sanads : replay[s] = "Consumed" \/ registry[s].minted => "minted" \in chain[s]

(* A transfer whose journal ends in Completed left its slot Consumed.      *)
CompletedOnlyConsumed ==
    \A t \in Transfers : journal[t].phase = "Completed" => replay[SanadOf[t]] = "Consumed"

(* Every record of progress has what it stands for behind it, on the fresh *)
(* path and on every resume path: a mint its final lock, a consumed slot   *)
(* and a registry row with a mint hash an accepted mint, a completed       *)
(* journal a consumed slot.                                                *)
MintJustified == MintedOnlyFinal /\ ConsumedOnlyMinted /\ CompletedOnlyConsumed

(* While calls on one sanad exclude each other and every execute has a new *)
(* id, Completed is terminal: no resume, retry or crash takes the journal  *)
(* of a transfer back from it.                                             *)
CompletedIsFinal ==
    [][\A t \in Transfers : journal[t].phase = "Completed" => journal'[t].phase = "Completed"]_vars

(* Of two calls that execute one sanad, only one is between its reservation *)
(* of the slot and the end of the transfer, until the slot is Consumed:    *)
(* consume_if_unconsumed lets no second one past a pending slot, whatever  *)
(* resumes, rollbacks and crashes come in between.                         *)
OneExecutionPerSlot ==
    \A j, k \in Tasks :
        /\ j # k /\ task[j].at \in Reserved /\ task[k].at \in Reserved
        /\ Sanad(j) = Sanad(k)
        => replay[Sanad(k)] = "Consumed"

(* The breaker's failure count decides between closed and not closed,      *)
(* whatever late answers other calls bring in: a half-open circuit still   *)
(* carries the failures that opened it, so that one more opens it again.   *)
CountDecides == breaker.state = "Closed" <=> breaker.failures < FailureThreshold

(* With a new id for every execute call, resuming never sends a lock: a    *)
(* transfer the journal has at Initialized has no row to be rebuilt from.  *)
ResumeNeverLocks == \A k \in Tasks : task[k].at = "lock" => ~task[k].cached

Quiet(s) == \A k \in Tasks : Active(k) => Sanad(k) # s

(* A pending slot whose row names a transfer can be driven on by resuming  *)
(* that transfer, unless its journal ends in MintConfirmed: whatever was   *)
(* interrupted, the proof payload is there when the step needs it.         *)
PendingResumable ==
    \A t \in Transfers :
        /\ replay[SanadOf[t]] = "Pending" /\ Cached(t) /\ Quiet(SanadOf[t])
        /\ journal[t].phase # "MintConfirmed"
        => ResumePoint(t) # "idle"

(* As the comment on consume_if_unconsumed has it, the reservation         *)
(* prevents duplicate mints: no call asks for a mint of a consumed sanad.  *)
ConsumedNotReminted ==
    \A k \in Tasks : task[k].at \in {"mint", "r_mint"} => replay[Sanad(k)] # "Consumed"

(* An interrupted transfer that PendingResumable says can be resumed does  *)
(* reach a consumed slot, through further errors and crashes, if callers   *)
(* resume it again and again, the lock gets buried and the chains do not   *)
(* fail every call: the resume path has no dead end before confirmation.   *)
InterruptedTransferSettles ==
    \A t \in Transfers :
        /\ replay[SanadOf[t]] = "Pending" /\ Cached(t) /\ Quiet(SanadOf[t])
        /\ journal[t].phase # "MintConfirmed"
        ~> replay[SanadOf[t]] = "Consumed"

(* The fairness behind it: a call goes on, the chain buries the lock, a    *)
(* caller resumes a transfer that can be, and a query or a mint that is    *)
(* made again and again succeeds at last.                                  *)
ChainSteps ==
    {"r_finality", "r_build", "r_reverify", "r_from_proof", "r_mint", "r_from_mint"}

Succeeds(k, at) == task[k].at = at /\ resume_step(k) /\ Active(k)'

FairSpec ==
    /\ Spec
    /\ \A k \in Tasks : WF_vars(execute_step(k) \/ resume_step(k))
    /\ \A k \in Tasks, at \in ChainSteps : SF_vars(Succeeds(k, at))
    /\ \A t \in Transfers : SF_vars(\E k \in Tasks : resume_transfer_outcome(k, t))
    /\ \A s \in Sanads : WF_vars(finalize(s))
=============================================================================
