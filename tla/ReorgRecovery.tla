--------------------------- MODULE ReorgRecovery ---------------------------
(***************************************************************************)
(* What csv-protocol does about a chain reorganisation (reorg/): the       *)
(* ReorgDetector compares the polled tip with the one it knows, the        *)
(* RollbackHandler rewrites the states of the affected transfers, and the  *)
(* ReconciliationEngine asks the chain about their locks, one query at a   *)
(* time.  The chain moves and the transfers go on between any two of these *)
(* steps.                                                                  *)
(***************************************************************************)
EXTENDS Integers, Sequences, FiniteSets

CONSTANTS
    ReorgTransfers,
    MaxHeight,       \* bound on the height of the chain
    MaxBlockId,      \* bound on the blocks ever mined
    DeepReorg        \* 6 in compute_new_state

ASSUME ReorgAssumption ==
    MaxHeight \in Nat \ {0} /\ MaxBlockId \in Nat \ {0} /\ DeepReorg \in Nat \ {0}

VARIABLES
    chain,       \* the canonical chain: blocks with an id and the locks they hold
    mined,       \* how many blocks were ever mined
    last_known,  \* ReorgDetector: a sequence of at most one [height, id]
    stored,      \* stored[t]: the transfer's state in the rollback storage
    lock_height, \* lock_height[t]: where its lock was first included, 0 for nowhere
    handler,     \* the handling of the last event
    verdict      \* verdict[t]: the ReconciliationAction for t

reorgVars == <<chain, mined, last_known, stored, lock_height, handler, verdict>>

Pipeline ==
    <<"init", "locking", "awaiting_finality", "proof_building", "proof_validated", "minting",
      "completed">>

Rank(s) == CHOOSE i \in 1 .. Len(Pipeline) : Pipeline[i] = s

(* of: the transfer the engine has in hand; held (history): its lock was   *)
(* at its height of the canonical chain since the engine took it up.       *)
NoEvent == [doing |-> "nothing", old |-> [height |-> 0, id |-> 0],
            new |-> [height |-> 0, id |-> 0], affected |-> <<>>, todo |-> {},
            revalidate |-> FALSE, of |-> {}, held |-> FALSE]

ReorgInit ==
    /\ chain = << [id |-> 1, locks |-> {}] >> /\ mined = 1
    /\ last_known = <<>>
    /\ stored = [t \in ReorgTransfers |-> "init"]
    /\ lock_height = [t \in ReorgTransfers |-> 0]
    /\ handler = NoEvent
    /\ verdict = [t \in ReorgTransfers |-> "none"]

Locked(t) == lock_height[t] \in 1 .. Len(chain) /\ t \in chain[lock_height[t]].locks

-----------------------------------------------------------------------------
(* The chain: its last k blocks are replaced by one that holds some locks  *)
(* (k = 0 extends it).  A lock is mined once, again only if it fell off.   *)
mine(k, locks) ==
    LET kept == SubSeq(chain, 1, Len(chain) - k) IN
    /\ k < Len(chain) /\ Len(kept) < MaxHeight /\ mined < MaxBlockId
    /\ \A t \in locks : \A h \in 1 .. Len(kept) : t \notin kept[h].locks
    /\ mined' = mined + 1
    /\ chain' = Append(kept, [id |-> mined + 1, locks |-> locks])
    /\ lock_height' = [t \in ReorgTransfers |->
                         IF t \in locks /\ lock_height[t] = 0 THEN Len(chain') ELSE lock_height[t]]
    /\ stored' = [t \in ReorgTransfers |->
                    IF t \in locks /\ stored[t] = "init" THEN "locking" ELSE stored[t]]
    /\ handler' = [handler EXCEPT !.held = @ \/ \E t \in handler.of : Locked(t)']
    /\ UNCHANGED <<last_known, verdict>>

(* The transfer's own driver takes it to its next state.                   *)
advance(t) ==
    /\ stored[t] \in {"locking", "awaiting_finality", "proof_building", "proof_validated", "minting"}
    /\ stored' = [stored EXCEPT ![t] = Pipeline[Rank(@) + 1]]
    /\ UNCHANGED <<chain, mined, last_known, lock_height, handler, verdict>>

-----------------------------------------------------------------------------
Tip == [height |-> Len(chain), id |-> chain[Len(chain)].id]

IsReorg(known, tip) ==
    \/ tip.height < known.height
    \/ tip.height = known.height /\ tip.id # known.id

(* ReorgDetector::update with the polled tip, then the handler is called   *)
(* with a list of the transfers as they are now, and the engine later with *)
(* or without revalidate_proofs.  The known tip is kept when a             *)
(* reorganisation is reported.                                             *)
update(revalidate) ==
    /\ handler.doing = "nothing"
    /\ IF last_known # <<>> /\ IsReorg(last_known[1], Tip)
       THEN /\ handler' = [doing |-> "rollback", old |-> last_known[1], new |-> Tip,
                           affected |-> stored,
                           todo |-> {t \in ReorgTransfers : lock_height[t] # 0},
                           revalidate |-> revalidate, of |-> {}, held |-> FALSE]
            /\ verdict' = [t \in ReorgTransfers |-> "none"]
            /\ UNCHANGED last_known
       ELSE last_known' = << Tip >> /\ UNCHANGED <<handler, verdict>>
    /\ UNCHANGED <<chain, mined, stored, lock_height>>

-----------------------------------------------------------------------------
\* The mutation that resumes a minting transfer where it was.
ResumesMinting(state, height, from, to) ==
    IF height < from THEN "compromised"
    ELSE IF state \in {"locking", "awaiting_finality"} /\ height <= to THEN "compromised"
    ELSE IF state = "minting" /\ height <= to THEN "completed"
    ELSE "rolled_back"

(* determine_rollback_action and the state it stands for; a completed      *)
(* transfer is no exception.                                               *)
determine_rollback_action(state, height, from, to) ==
    IF height < from THEN "compromised"
    ELSE IF state \in {"locking", "awaiting_finality"} /\ height <= to THEN "compromised"
    ELSE IF state = "minting" /\ height <= to THEN "proof_validated"
    ELSE "rolled_back"

(* One round of rollback_transfers: a storage error is logged and the loop *)
(* goes on.  When it is done the engine is given that list or a new one.   *)
rollback_transfer(t, saved, reread) ==
    /\ handler.doing = "rollback" /\ t \in handler.todo
    /\ stored' = IF saved
                 THEN [stored EXCEPT ![t] =
                         determine_rollback_action(handler.affected[t], lock_height[t],
                                                   handler.old.height, handler.new.height)]
                 ELSE stored
    /\ handler' = IF handler.todo = {t}
                  THEN [handler EXCEPT !.doing = "reconcile",
                          !.affected = IF reread THEN stored' ELSE @,
                          !.todo = {u \in ReorgTransfers : lock_height[u] # 0}]
                  ELSE [handler EXCEPT !.todo = @ \ {t}]
    /\ UNCHANGED <<chain, mined, last_known, lock_height, verdict>>

compute_new_state(state) ==
    LET deep == handler.old.height - handler.new.height >= DeepReorg IN
    CASE state \in {"locking", "awaiting_finality"} -> IF deep THEN "init" ELSE "awaiting_finality"
      [] state \in {"proof_building", "proof_validated"} -> IF deep THEN "locking" ELSE "proof_building"
      [] state = "minting" -> "proof_validated"
      [] state = "completed" -> IF deep THEN "needs_security_review" ELSE "completed"
      [] OTHER -> "needs_review"

(* reconcile records its verdict on t and goes on with the next transfer.  *)
Judge(t, action) ==
    /\ verdict' = [verdict EXCEPT ![t] = action]
    /\ handler' = IF handler.todo = {t} THEN NoEvent
                  ELSE [handler EXCEPT !.doing = "reconcile", !.todo = @ \ {t},
                                       !.of = {}, !.held = FALSE]

Reconciled(t) == Judge(t, compute_new_state(handler.affected[t]))

\* The mutation that reconciles what the comparison of hashes lets through.
TrustsHashes(t) ==
    /\ handler.doing = "reconcile" /\ t \in handler.todo
    /\ \/ lock_height[t] >= handler.old.height /\ Reconciled(t)
       \/ lock_height[t] < handler.old.height /\ Judge(t, "Compromised")
    /\ UNCHANGED <<chain, mined, last_known, stored, lock_height>>

(* reconcile takes t up with verify_lock_on_canonical_chain: a lock at or  *)
(* above the old tip is taken for canonical without a query, the block of  *)
(* any other is compared with one of the event's two hashes; a query that  *)
(* fails counts against the transfer.                                      *)
verify_lock_on_canonical_chain(t) ==
    LET h == lock_height[t]
        expected == IF h = handler.new.height THEN handler.new.id ELSE handler.old.id
        canonical == \/ h >= handler.old.height
                     \/ h \in 1 .. Len(chain) /\ chain[h].id = expected
    IN
    /\ handler.doing = "reconcile" /\ t \in handler.todo
    /\ \/ canonical /\ handler.revalidate
          /\ handler' = [handler EXCEPT !.doing = "block", !.of = {t}, !.held = Locked(t)]
          /\ UNCHANGED verdict
       \/ canonical /\ ~handler.revalidate /\ Reconciled(t)
       \/ h < handler.old.height /\ Judge(t, "Compromised")
    /\ UNCHANGED <<chain, mined, last_known, stored, lock_height>>

(* One query of revalidate_proof_for_transfer: a good answer leads to the  *)
(* next one, a bad answer or an error ends in Compromised.                 *)
Asked(t, query, good, next) ==
    /\ handler.doing = query /\ handler.of = {t}
    /\ \/ good /\ handler' = [handler EXCEPT !.doing = next] /\ UNCHANGED verdict
       \/ Judge(t, "Compromised")
    /\ UNCHANGED <<chain, mined, last_known, stored, lock_height>>

get_block_hash(t) == Asked(t, "block", lock_height[t] <= Len(chain), "commitment")

verify_commitment_in_block(t) == Asked(t, "commitment", Locked(t), "rebuild")

rebuild_inclusion_proof(t) == Asked(t, "rebuild", Locked(t), "proof")

(* The backend may judge the rebuilt proof by itself, without a look at    *)
(* the chain.                                                              *)
verify_proof_bundle(t) ==
    /\ handler.doing = "proof" /\ handler.of = {t}
    /\ Reconciled(t) \/ Judge(t, "Compromised")
    /\ UNCHANGED <<chain, mined, last_known, stored, lock_height>>

(* A report about no transfer ends at once.                                *)
nothing_affected ==
    /\ handler.doing = "rollback" /\ handler.todo = {}
    /\ handler' = NoEvent
    /\ UNCHANGED <<chain, mined, last_known, stored, lock_height, verdict>>

ReorgNext ==
    \/ \E k \in 0 .. MaxHeight - 1, locks \in SUBSET ReorgTransfers : mine(k, locks)
    \/ \E t \in ReorgTransfers :
          \/ advance(t)
          \/ \E saved, reread \in BOOLEAN : rollback_transfer(t, saved, reread)
          \/ verify_lock_on_canonical_chain(t)
          \/ get_block_hash(t) \/ verify_commitment_in_block(t)
          \/ rebuild_inclusion_proof(t) \/ verify_proof_bundle(t)
    \/ \E revalidate \in BOOLEAN : update(revalidate)
    \/ nothing_affected

ReorgSpec == ReorgInit /\ [][ReorgNext]_reorgVars

-----------------------------------------------------------------------------
(* Rolling back only gives up or goes back.  rollback_transfers writes     *)
(* from a list the transfer's own driver has since moved on from; still it *)
(* never takes a transfer forward of where it is, nor one that was given   *)
(* up out of that state.                                                   *)
RollbackNeverForward ==
    [][\A t \in ReorgTransfers :
          handler.doing = "rollback" /\ (handler'.doing # "rollback" \/ handler'.todo # handler.todo)
            => \/ stored'[t] \in {stored[t], "rolled_back", "compromised"}
               \/ /\ stored[t] \notin {"rolled_back", "compromised"}
                  /\ Rank(stored'[t]) < Rank(stored[t])]_reorgVars

(* No reconciliation without a lock.  With revalidate_proofs a transfer is *)
(* reconciled only if its lock was at its height of the canonical chain at *)
(* some moment since the engine took it up, although the chain moves       *)
(* between the five queries and the comparison of hashes lets orphaned     *)
(* locks through.                                                          *)
ReconciledWasLocked ==
    [][\A t \in ReorgTransfers :
          handler.revalidate /\ verdict'[t] \notin {verdict[t], "Compromised"}
            => handler.of = {t} /\ handler.held]_reorgVars

(* "Completed transfers are not affected (finality confirmed)"             *)
(* (rollback.rs:160).                                                      *)
CompletedNotAffected ==
    [][\A t \in ReorgTransfers : stored[t] = "completed" => stored'[t] = "completed"]_reorgVars

=============================================================================
