# Parwana: TLA+ models and proofs

Parwana moves a *sanad*, a single-use right, between chains. This directory
models the parts that decide whether a sanad can be moved twice, lost, or left
half-moved: the transfer coordinator of `csv-runtime`, the stores and leases it
relies on, the chain adapters below it, and the parts beside it whose own state
is hard to test (delivery, accountability, Merkle proofs, the state file of the
command line). `PROJECT.json` maps every definition to the lines it models and
lists components, hazards, findings and theorems.

Contents: 1 the system, 2 modules, 3 runs and bounds, 4 fairness, 5 proofs,
6 what is only model-checked, 7 findings and observations, 8 not modelled.

## 1. The system

| Part | Source | State | Operations | Hard behaviour | What must hold |
|---|---|---|---|---|---|
| Materialize transfers | `csv-runtime/src/transfer_coordinator.rs` | replay slot, registry row, journal, events, breaker, running calls | `execute_outcome`, `resume_transfer_outcome`, `execute_from_lock/proof/mint` | an error or crash between any two durable writes; chain calls that took effect although they failed; two callers on one sanad | mint only behind a final lock, slot consumed only behind a mint, one execution per slot; interrupted transfers can be resumed and settle |
| Escrow settlement | same file | events, escrow on the source chain | `release_escrow`, `refund_escrow`, `record_settlement` | check, submit and record are three steps | the operator is paid only for a mint; records match the chain |
| Send transfers | same file, `send_transfer.rs` | journal with cumulative progress, seal reservations | `execute_send`, `resume_send`, `drive_send` | a crash between reservation, close, emission and their entries; two tasks on one send | a seal is closed for one transfer; recorded steps are not repeated; started sends end |
| Replay database | `csv-storage/src/traits.rs`, `backends/*.rs` | entry state per id | `insert_if_absent`, `consume_if_unconsumed`, `confirm_consumed_replay_id`, `mark_rolled_back` | read and write in two transactions or statements | one holder of a pending entry; entries append-only |
| Event store | `event_persistence.rs` | events of an aggregate | `append`, `get_latest_version` | two writers of one version, a store that replaces and one that refuses | settlement records match the chain |
| Execution journal | `execution_journal.rs` | redb table or bounded list | `record`, opening, `latest` | failing commits, stops, concurrent records | recovery reads no entry older than an acknowledged one |
| Leases | `distributed_coordinator_lease.rs`, `user_runtime_lease.rs` | owner, epoch, expiry | acquire, renew, release, `accept_execution_lease`, `execute_mint` | expiry between a check and the call it admits | one active coordinator; one mint per proof |
| Breaker, admission, quorum | `runtime_mode.rs`, `csv-admission`, `verification_quorum.rs` | counters, votes | record, acquire, fold | late answers, limits, order of answers | counts decide, limits hold, a decision is backed |
| Reorganisations, accepted state, state use | `csv-protocol/src/{reorg,exclusivity,resolution}`, `csv-storage/src/accepted_state.rs` | transfer states, lineage, outputs | detect, roll back, reconcile, accept, resolve | the chain moves between the steps; damaged sources | a rollback takes nothing forward; no reconciliation without a lock; lineage is kept; use is fixed at creation |
| Chain adapters | `csv-adapters/csv-{bitcoin,ethereum,solana,sui,aptos}` | chain, registry of seals, slots | `tx_finality`, `build_inclusion_proof`, `validate_source_proof`, lock, mint, consume, `enforce_seal`, slot sync | answers lost, blocks and reorganisations between two reads | Ok means done; final is buried; seals are enforced once; no slot is passed over |
| Merkle trees and DAG | `csv-hash/src`, `csv-bitcoin/src/{mpc_batch,proofs,blockbook_rpc}.rs` | leaves, queued commitments, segments | build, prove, verify, finalize | odd levels, duplicates, concurrent finalizers, altered segments | a proof shows its leaf and no other; a graph has one identity |
| Coordinator cells, delivery | `csv-coordinator`, `csv-p2p` | queue, memory, events seen | submit, worker, deliver, subscribe | full queues, handlers that do not answer, loss, duplication | calls return while handlers answer; consignments arrive once |
| Mandates | `csv-accountability/src/state.rs` | row, attempts, journal | reserve, dispatch, settle, release | lost answers, races for the reservation | an action is performed once at most and the row is true of it |
| Command line state | `csv-cli/src/state.rs`, `main.rs` | state file and its copies | load, accept, transfer, save | overlapping processes | what was answered is on file |

The coordinator calls the replay database (slot and row), the journal and the
event store in a fixed order, and the chains through an adapter registry. A
sanad's id is its replay id. The SDK gives each execute call a new transfer id
(`csv-sdk/src/transfers.rs`) and opens the redb stores (`csv-sdk/src/builder.rs`),
which is what the configurations assume unless they say otherwise. The adapters
tell the coordinator when a lock is final and whether a mint took effect;
`TransferCoordinator` takes these answers as given or lost, and `TxConfirmation`
and `ChainOperations` say what the adapters' answers are worth.

## 2. Modules and how they correspond to the code

Shared operators: `ReplayStates` (one replay entry), `EventLog` (one aggregate's
events, `Backend` being the in-memory or the redb store), `BreakerStates` (one
breaker), `MerkleTrees` (the three trees, on symbolic hashes).

### The runtime

**`TransferCoordinator`** is the core. Every durable write and every chain call
of `execute_outcome`, and of the resume path (names starting with `r_`), is one
action, so that other callers, errors and crashes come between any two of them.
`task[k]` is where caller `k` is; `replay`, `registry`, `journal` and `events`
are durable; `breaker` is in memory; `chain[s]` is what the chains hold of the
sanad. `interrupt` ends a call between two steps (an error the code passes on,
or a dropped future), `lose_failed_entry` is a journal error the code ignores,
`crash` loses memory. An append to the event store may fail and is then only
logged, as in the code. Nothing reads a journal entry's outcome, so an entry is
its phase and whether it holds the proof payload and the transfer's context.
Left out: admission and the lease checks at the entry (they refuse a call before
it changes anything), metrics, reorganisations. `FreshIds` says that each execute
has a new id, `OneTask` that calls on one sanad exclude each other.

**`Settlement`** composes it with clerks that call `release_escrow` and
`refund_escrow`, and the escrow on the source chain.

**`SendTransfer`** is `execute_send`, `resume_send` and `drive_send`. `recorded`,
`closed` and `emitted` are histories of what was journaled and executed;
`OneDriver` says that one task at a time drives a send.

**`ReplayDatabase`** is the contract of the trait: a call is invoked, takes effect
once and atomically, and is answered. **`ReplayRedb`** refines it (a call between
its two transactions has not taken effect yet). **`ReplayPostgres`** refines it
except for one step. `holds` records who was told that a transfer is theirs.

**`ExecutionJournal`** has both journals: the redb table whose next key is a counter behind a mutex that
is read back on opening, and the bounded list. **`CoordinatorLease`** is the
process lease with `MintCoordinator::execute_mint`: the clock is read before the
lock is taken, a check of the guard and the call it admits are two steps, and
`release` may come while a call of the same coordinator is running.
**`ExecutionLease`** is the per-transfer lease and `accept_execution_lease`.
**`Admission`** is the controller under its mutex. **`VerificationQuorum`** folds
the observations in any order; a tie is a choice, since the winner comes out of a
HashMap.

### Protocol and storage

**`ReorgRecovery`** has the detector, the rollback handler and the reconciliation
engine beside a chain that reorganises and transfers that advance; the queries of
`revalidate_proof_for_transfer` are steps of their own, so the chain moves between
them. A history, `held`, says whether the lock was at its height at some moment since
the engine took the transfer up. **`AcceptedState`**
is `accept` and `reconcile_checkpoint` over a lineage. **`StateUse`** binds a class
to a type, creates outputs under it, and resolves transitions under a revised
schema from a source that lost, doubled or damaged them. **`Mandate`** is the
transition law of `state.rs` beside the database row and the provider it is
written for (both external).

### Chain adapters

**`TxConfirmation`** is the finality gate, the proof builder and the validation of
all five adapters, each reading the chain twice with blocks and reorganisations in
between. There are two depths: `FinalityDepth` is the caller's, which `tx_finality`
is compared with, and `AdapterDepth` the `finality_depth` of the adapter's own
capabilities, which `confirm_tx` and the validation use; the second is assumed not
to exceed the first. **`ChainOperations`** is lock, mint and consume of the four contract
chains (and Ethereum's create and refund), called again by a caller who does not
know whether the first call got through; a failed send may have been broadcast.
The contract is external: it lets one transaction take effect. What Sui's client
reports as the status of a transaction is external too (`sui_success`): a status is
there and says failure exactly for a transaction without effect. **`SealProtocol`**
is `publish`, `enforce_seal` and `rollback` over the adapters' registries; `ObjectOf`
gives two references of Bitcoin or Sui that differ in their nonce the same object on
the chain, while the registry's key (`seal_key`) is the whole reference.
**`SlotSync`** is Solana's `SyncCoordinator`.

### Proof data, delivery, command line

**`StreamingProofs`** (the streaming generator), **`CommitmentBatch`** (the batcher and
`finalize_batch`, whose publication may fail after the transaction got through) and
**`BlockInclusion`** (Blockbook's pages; a server that reports no `totalPages` is
assumed to have one page, which is the default of the code) use the trees of
`MerkleTrees` where the code does. The last two take the root, the branch and the
verification as constants, with the assumption that the branch of a leaf verifies
that leaf and no other (`CommitMuxAssumption`, `BlockTreeAssumption`); `components`
gives them the trees of `MerkleTrees`, so TLC evaluates the assumptions of these at
every size within the bounds before it explores a state. **`TransitionDag`** seals nodes and segments
and validates a segment that was altered on its way; `digest` numbers preimages in
any order, because the canonical order compares hashes. **`ChainCell`** is one cell
of the coordinator service; **`ProofDelivery`** the routers, the Nostr transport and
the cache of seen events; **`CliState`** the processes of `csv` that each load, change
and write back the whole file.

### Harness

`MC*` modules fix instances. `MCConcurrentCalls` has either two callers or two clerks.
`MCComponents` and `MCTemporal` put independent components into one run: a variable `part`, chosen in the initial state, says which
of them moves, so that the run is the union of the separate state graphs. `*Proofs`
modules hold theorems. An operator introduced by "The mutation that" is a deliberate
bug, never part of a specification: put in place of the definition it follows, it
makes TLC refute the property it is paired with in `PROJECT.json`.

## 3. Runs and bounds

| Run | Instance | Shows |
|---|---|---|
| `transfer` | two transfers of one sanad, one caller, new ids, redb events, 3 faults, 1 retry | `MintJustified`, `CompletedIsFinal`, `ResumeNeverLocks`, `PendingResumable`, and that an interrupted transfer reaches a consumed slot (`InterruptedTransferSettles`) |
| `concurrent_calls` | one sanad, two tasks, 1 fault, symmetry: either two transfers of it by concurrent callers, calls begun below event version 5; or one transfer, executed again and resumed under its id, beside two clerks | `OneExecutionPerSlot`, and the breaker's count decides its state (`CountDecides`); `ReleasedOnlyMinted`, `RecordsMatchEscrow` |
| `temporal` | five parts, deadlock checked: a cell (queue of 1, memory for 3 tasks, thresholds 2), deliveries over two transports (2 retries, 3 events, buffer of 2, cache of 2), two sends of one seal (one task each, 2 faults, 3 calls), two clients of one redb entry, two clients of one PostgreSQL entry | `SubmitReturns`, `CeilingOvershoot`; `ConsignmentArrives`, `DuplicatesOnlyWhenFull`; `EmittedAfterClose`, `CompletedStepsNotRepeated`, `StartedSendEnds`; `ImplementsContract`; `OtherStepsImplementContract` |
| `components` | nineteen parts, see below | one property for each part, two for reorganisations, confirmation and the adapters' operations |
| `transfer_remint`, `settlement_refund`, `replay_postgres_rearm`, `proof_broadcast`, `seal_enforced_solana`, `cli_accept_race`, `cell_backpressure`, `rollback_completed` | the smallest instance of the same modules | refuted: section 7 |

The parts of `components`:

| Part | Instance | Property |
|---|---|---|
| admission | four callers, three chains, total limit 3, 2 per chain | `CapacityAccounted` |
| lease | two coordinators, three calls over one proof, time to live 2, clock to 3 | `NoSplitBrain` |
| execution | two runtimes, one sanad, epochs to 3, duration 2, time to 4 | `LiveOwnersAgree` |
| quorum | five endpoints of four providers, 3 providers and 2 agreeing needed | `DecisionIsBacked` |
| reorg | one transfer, heights to 4, five block ids, deep from 2, with and without revalidation | `RollbackNeverForward`, `ReconciledWasLocked` |
| accepted | a lineage of four transitions and a rival, three checkpoints | `LineageKept` |
| confirmation | five networks, depths of 2 (caller) and 1 (adapter), tip to 6, one reorganisation | `FinalIsBuried`, `ProofIsOnChain` |
| operations | every operation of four adapters, two callers, two transactions, two polls | `OkMeansDone`, `RetryRecovers` |
| seal | five adapters, two callers, two references to one object, a registry of one | `EnforcedOnce` |
| cli | two processes, one sanad, two accepts, kills at any step | `AnsweredIsOnFile` |
| send | two tasks that may drive the same send | `SealClosedForOneTransfer` |
| mandate | two executors, an interval inside the clock's range, both release policies | `OutcomeIsHonest` |
| journal | two tasks, two transfers, 3 records, 2 stops, a list of 2 | `RecoveryReadsLatest` |
| streaming | up to six leaves over two values | `KeptProofsAreSound` |
| batch | four requests, two with one commitment, batches of 3, queue of 3, two finalizers | `BatchedOnceAndProved` |
| inclusion | blocks of up to eight transactions, pages of 3 | `InclusionIsExact` |
| use | two types, one owner, two outputs, two damages | `UseFixedAtCreation` |
| slots | two loops, one caller, two slots, both active, a buffer of one | `SyncedSlotsWereRead` |
| dag | up to three nodes, any relation of parents, any alteration | `OneIdentityPerGraph` |

Why the bounds are enough. Two transfers of one sanad give every rivalry over a
slot and a row, since nothing relates two sanads but the breaker. Two tasks give
every pairwise interleaving. Three faults interrupt the recovery of a recovery.
`MaxRetries = 1` takes both branches of the retry loops. Six leaves are the least
number for which an upper level of the canonical tree is odd after the leaves were
balanced (6, 3, 2, 1); blocks of up to eight transactions with pages of three have
one to three pages, the last of them full or short. Three nodes give a chain, a fork,
a join and a cycle. Five block ids are a chain of three blocks and a fork that
replaces two of them, or two forks that replace one each. With two active slots one
worker may be a slot behind another and the buffer overflows; four requests are one
more than a batch and than the queue, and three records one more than the list. Queues, registries, caches and buffers are as small as lets
them be full. `MaxVersion` stops
new calls once repeated executions have made the event log that long; the other
`Max*` constants cap counters that only grow, clocks and chain heights.

`transfer*`, `concurrent_calls` and `components` do not check deadlock: ids, faults,
clocks and requests run out and callers may stop for good.

What the properties except is as telling as what they state:

* `PendingResumable` asks for a registry row and for a journal that is not at
  MintConfirmed. A crash between the lock and the row leaves nothing to resume
  from, and a mint whose attempts all failed leaves the journal at MintConfirmed,
  which `resume_transfer` refuses. Both leave the slot Pending.
* `OneExecutionPerSlot` excepts a Consumed slot, through which
  `consume_if_unconsumed` lets any execute pass.
* `SubmitReturns` asks that the worker is done with its task again and again: the
  worker awaits a handler without a timeout, and `send` waits for room without one.
* `CompletedStepsNotRepeated` is checked with one task per send: two tasks that
  resume one send read the journal before either closes the seal.
* A send interrupted between its reservation and the next entry ends in
  DuplicateSourceSeal (`StartedSendEnds` counts that as an end); the comment on
  `reserve_source_seal` says so.
* `CeilingOvershoot` allows what racing submitters charge between test and add.
* `OkMeansDone` excepts Solana's lock and consume, which answer after the
  broadcast, and Sui's consume, which submits nothing.
* `EnforcedOnce` excepts Solana from the first half and Aptos, which asks the chain
  for something else, from the second.
* `RollbackNeverForward` says nothing of where a transfer ought to be: the rollback
  writes from a list that is stale, and gives up completed transfers too.
* `ReconciledWasLocked` is about reconciliation with `revalidate_proofs`. Without it a
  lock at or above the old tip is taken for canonical and no query is made.
* `LineageKept` says nothing of a child accepted Final below a record that is not.
* `UseFixedAtCreation` assumes that damage leaves an output's place and its recorded
  commitment alone: the code recomputes the one from the content and looks the
  output up by the other.
* `FinalIsBuried` and `ProofIsOnChain` ask that no reorganisation came between two
  reads of one call.
* `LiveOwnersAgree` excepts a runtime that itself brought a lease that expired
  earlier.
* `KeptProofsAreSound` does not claim that a stale proof fails: one taken for a
  doubled last leaf may pass for the next leaf added.

## 4. Fairness

* `TransferCoordinator`: weak fairness of a call's steps (the runtime polls a task
  that can run) and of the chain burying a lock; strong fairness of resuming (the
  caller repeats it until it settles) and of the success of each chain call of the
  resume path (a query that is repeated for ever does not fail for ever). Nothing
  is assumed of new execute calls, nor of chain calls on the fresh path: those may
  fail until their retries run out.
* `SendTransfer`: weak fairness of a task's steps, strong fairness of resuming a
  send that has neither a receipt nor a rejection.
* `ChainCell`: weak fairness of the worker's `recv` (it loops until the channel
  closes), of refusing a stage that has no handler, and of a submitter's own step;
  strong fairness of `send`, since tokio's bounded channel serves waiting senders in
  turn. Nothing is assumed of a handler's answer, which the worker awaits without a
  timeout: `SubmitReturns` has it as its hypothesis, `[]<>(worker = <<>>)`. Nothing
  is assumed of the timeout that lets the breaker half-open.
* `ProofDelivery`: weak fairness of the subscription task, its reader, and the
  answer or timeout of a send. Nothing is assumed of relays.

Faults are finitely many (`MaxFaults`); no fairness makes them happen.

## 5. Proofs

Every theorem holds for all values of the constants, under the named assumptions
of the modules that declare them (constants have their types, thresholds and
durations are positive) and under what its statement assumes (`FreshIds`,
`OneTask`, `OneDriver`). The argument is the same throughout: an inductive
invariant that says what each position of a running call implies, one lemma per
kind of step, one step per action.

* **`TransferCoordinatorProofs`**. `WellTyped`, `MintIsJustified`
  (`MintJustified`), `ReservationExcludes` (`OneExecutionPerSlot`) share `IInv`.
  The properties are not inductive: that a mint is behind a final lock depends on
  where the caller is. `IInv` adds what each position implies: past a finality
  gate the lock is final, past the mint the sanad is minted, past confirmation the
  slot is Consumed, and of two calls on one sanad past their reservation the slot
  is Consumed. `BreakerFollowsCount` (`CountDecides`) rests on `WellTyped` and on
  what each breaker operation does to the count.
* **`RecoveryProofs`** extends them. `ResumeInv` ties journals, rows and running
  calls together: a transfer's journal at an early phase has no row, a call that
  resumes started from an entry that had one, and the proof payload is in every
  entry that a later step reads it from. Under `FreshIds` it gives
  `ResumingNeverLocks` and `PendingIsResumable`, and with `OneTask`
  `CompletedIsTerminal`. `SettlementInv` adds the clerks: evidence in the event
  store stands for a minted sanad, and a clerk between check, submit and record
  knows what the chain made of its call. It gives `ReleaseNeedsMint` and
  `RecordsAreTrue`, for both event stores.
* **`SendTransferProofs`**. `SealIsSingleUse`: `IInv` ties every close, and every
  call that may close, to the transfer holding the reservation, and the claim to
  own a prior close to a journal entry only the holder can have. Under
  `OneDriver`, `OrderInv` (the journal's last entry carries the history, the
  driver knows it, and drives alone) gives `EmissionFollowsClose` and
  `RecordedIsNotRepeated`.
* **`ReplayProofs`**, on the stores and on following a chain. Of the redb backend
  `TablesAgree`, and `RedbImplementsContract` by step simulation under the
  invariant that its two tables agree. Of the PostgreSQL backend `OnlyRearmRaces`
  (`OtherStepsImplementContract`): every statement but the re-arm that lost its
  race simulates a step of the contract, since `PostgresInv` says which operation
  stands between two statements; and `PostgresAppendOnly`: even with that step no
  row leaves Consumed. `RollbackIsConservative` (`RollbackNeverForward`): the list
  a rollback writes from is stale, but `ListHolds` says that a transfer that was
  minting on it can only have completed since. `ReconciliationSawTheLock`
  (`ReconciledWasLocked`): `EngineKnows` says that past the query for the commitment
  the lock was seen at its height. `SyncMissesNothing`: every worker,
  however stale its slot, has the active slots before it read.
* **`ExclusionProofs`**. Of the replay contract `HolderIsExclusive` and
  `AppendOnly`; with the refinement, a pending redb entry has one holder.
  `LeasesExclude` (`NoSplitBrain`): `LeaseInv` says that a valid guard is the
  lease unless its coordinator made overlapping calls, and that one call at most
  stands between taking a slot and its mint. `OwnersAgree`
  (`LiveOwnersAgree`): `ExecutionInv` says that the table holds the latest lease
  accepted and that whoever was replaced had let a lease lapse.
  `SealsAreEnforcedOnce` (`EnforcedOnce`): `SealInv` says that a granted seal is in
  the registry (but on Solana), and that a call on a seal spent before it began
  never gets past the chain's answer (but on Aptos). `RequestsAreBatchedOnce`
  (`BatchedOnceAndProved`): `Shaped` and `Apart` say that no sequence holds a request
  twice and that the queue and the batches are apart and together what waits, and
  `Proved` that a batch past its publication has its root published; the tree is any
  that satisfies `CommitMuxAssumption`.
* **`LedgerProofs`**. `MandateIsHonest`: `MandateInv` joins what the executors
  know, who owns the reservation, what the provider did, and that the exported
  journal is a path of the transition law that ends in the row.
  `JournalIsCurrent`: `JournalInv` joins the keys (none is above the counter, and
  the one at the counter is not acknowledged), the calls under the mutex, and the
  order of the acknowledged entries; `Lasts` adds that any keys of the table have a
  last one. `UseIsFixed` (`UseFixedAtCreation`): `StateUseInv` says that whatever
  became of an output in the source, the commitment it carries is one that was
  recorded at a creation, so an output that reproduces it is the one created.
* **`AdapterProofs`**. `GateIsSound` (`FinalIsBuried`) and `ProofsAreSound`
  (`ProofIsOnChain`): `ConfirmationInv` says what the first read of a call still
  says of the chain at the second, up to the blocks mined since, from the gate
  through the built proof to its validation. `OkNamesTheEffect` (`OkMeansDone`) and
  `RetriesRecover` (`RetryRecovers`): `OperationsInv` says that one transaction has
  landed at most, what a call at each position knows of it, and that a call which
  began after the effect and met no trouble has sent nothing. `ReportedIsKept`
  (`AnsweredIsOnFile`): `CliInv` says that the copy of the one process that runs
  holds all that was reported and what it is about to report.
* **`ComponentProofs`**. `CountsAreExact`, `LimitsHold`, `CapacityIsAccounted` of
  `Admission`; `LineageIsKept` of `AcceptedState` (a step property and an
  invariant, using that a set closed under children is downgraded as a whole);
  `OvershootIsBounded` (`CeilingOvershoot`): what is charged and the submitters that
  will still pass the test stay below the bound together; `NewIsNewOnce`
  (`DuplicatesOnlyWhenFull`): an event taken for new is in the cache or the cache
  is full; `DecisionsAreBacked` (`DecisionIsBacked`): the fold's entry of a provider
  holds a value exactly when all its endpoints that answered said it;
  `InclusionProofsAreExact` (`InclusionIsExact`):
  `InclusionInv` says that the list is the beginning of the block as long as the
  pages read; the lemmas `PagesLeft` and `PageAppended` say that rounding up leaves no
  transaction behind and that a page continues the list, and the tree is any that
  satisfies `BlockTreeAssumption`.

`ResumeInv`, the largest of these invariants, was also checked by TLC on the
instances of `transfer` and of two concurrent callers; so were, on the instances of
their runs, the invariants of `AdapterProofs` and those of the seals, the use of
state, the PostgreSQL backend, cells, delivery, quorum,
batches and inclusion proofs.

## 6. Only model-checked

* Liveness (`InterruptedTransferSettles`, `StartedSendEnds`, `SubmitReturns`,
  `ConsignmentArrives`): the prover has neither fairness nor ENABLED.
* What recursion computes (`KeptProofsAreSound` of `StreamingProofs` and
  `OneIdentityPerGraph` of `TransitionDag`; and that the trees of `MerkleTrees` satisfy
  `CommitMuxAssumption` and `BlockTreeAssumption`): induction over data and recursive
  operators are out of the prover's reach.

Every other property of a passing run is the statement of a theorem.

## 7. Findings and observations

Eight runs are refuted; each is a disagreement of the code with its own comments
(quoted in `PROJECT.json`):

* `transfer_remint`: an execute of a sanad whose mint is confirmed, but whose
  journal was interrupted before Completed, asks for another mint.
* `settlement_refund`: over redb the Complete event, at the fixed version 5,
  replaces the settlement evidence at version 5, and the escrow of a confirmed
  mint is refunded.
* `replay_postgres_rearm`: two coordinators that re-arm one rolled back entry
  are both answered Ok, because the UPDATE's row count is not looked at.
* `proof_broadcast`: a broadcast proof bundle is written in hex and parsed as raw
  canonical bytes, so it never reaches the router; consignments do.
* `seal_enforced_solana`: two calls of Solana's `enforce_seal` on one seal are both
  answered Ok, since marking by removal never fails.
* `cli_accept_race`: `csv` loads the state before `accept` takes its lock file, so
  two overlapping accepts of one consignment are both answered Ok.
* `cell_backpressure`: `submit` is documented to answer Backpressure when the queue is
  full; it waits for room instead, for ever behind a task that does not end.
* `rollback_completed`: completed transfers are said not to be affected by a
  reorganisation; `determine_rollback_action` has them rolled back or compromised.

Met while modelling, and not made into runs because no property is needed to see
them or because the code is not reached from the rest of the system:

* Sui's `consume_sanad` signs a transaction, submits nothing and answers with a
  local hash; the trait says it "Marks the sanad as consumed and records the
  nullifier". The model does the same, and `OkMeansDone` names the exception.
* The command line never stores the seal a lock re-points a sanad to, although a
  comment in `csv-bitcoin` counts on the seal map being kept current.
* `sanad create` retries over UTXOs, but the transaction builder adds all spendable
  ones, so the retry fails as the first attempt did.
* The canonical tree's documentation says that its leaves are balanced to a power
  of two; six leaves are balanced to six, and the upper level of three is handled
  by the branch whose comment says that it "Should not happen".
* `finalize_batch` has no caller; an error after it drained the queue loses the
  drained commitments, and its transaction has an empty witness.
* `csv-bitcoin`'s `verify_merkle_proof` does not use the index, and
  `verify_full_spv_proof` compares the branch with the block hash.
* Solana's `SyncCoordinator` has no user outside its file. A failed `start` leaves
  `running` set without a loop; stop and start within one sleep leave two loops;
  the synced slot can go back; a skipped slot is an error of the client and is
  never passed. Its header speaks of a rollback that does not exist.
* `FileKeystore`: a crash inside `delete_key` leaves an entry that cannot be deleted;
  the session cache still answers for a deleted key; a second process writes
  `meta.json` from a stale copy.

## 8. Not modelled

The share of the source that is mapped is small because most of it has no state
that two steps could disagree about. What is left out, and why:

* **Encodings, digests, signatures, schemas** (`csv-codec`, `csv-wire`, `csv-schema`,
  `csv-content`, `csv-proof`, `csv-verifier`, the accountability verifiers): pure
  functions over bytes, out of TLC's reach. The models see a proof that verifies
  or does not, and injective hashes. Byte orders are not modelled.
* **Keys, wallet, browser store, observability, bindings, test support,
  architecture checks**: state of one owner, or none.
* **Other commands, the MCP server, the SDK's wrappers**: interfaces over the
  coordinator; they load and save the state file as `CliState` has it.
* **Celestia, the remote adapter, adapter core and factory**: blobs outside the
  transfers, forwarding, construction from configuration. On-chain contracts are
  not in the source tree; `ChainOperations` has what the adapters expect of them.
* **The rest of the event store** (batches, snapshots, processor positions,
  `clear_aggregate`): no caller outside the tests.
* **Queue, backpressure, policy, failure domains, checkpoint manager, event bus,
  in-memory replay registry, cell router, negotiation, finality policies,
  recovery planner, monitor**: a guarded assignment, a lookup or a comparison
  each, with no second actor; where the hazard exists elsewhere (a bounded queue,
  a lagging receiver) it is in `ChainCell` and `ProofDelivery`.
* **The rest of the partly modelled parts**: lease checks and metrics at the entry
  of a transfer, the breaker's manual reset and the health monitor, burns,
  deployments and balance queries of the adapters, `create_seal` and proof
  builders beside the registries, encrypted messages and IPFS calls, the decoding
  of Solana instructions, Aptos' accumulator and the content tree.

Two hazards of `PROJECT.json` have no property: a crash between the lock and the
registry row, from which the code has no recovery, and a breaker that opens after
the lock and rolls the slot back, about which the code promises nothing.
