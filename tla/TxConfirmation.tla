---- MODULE TxConfirmation ----
(***************************************************************************)
(* How the five chain adapters decide that a lock transaction is final,    *)
(* build the proof that depends on it and validate that proof again.       *)
(*                                                                         *)
(* tx_finality and confirm_tx read the chain twice: first the transaction  *)
(* (its depth on Bitcoin, its block on the others), then the tip.  Blocks  *)
(* are mined, and the chain reorganised, between the two reads, between    *)
(* the runtime's gate, build_inclusion_proof and validate_source_proof,    *)
(* and inside these.  Height 0 is "not mined".                             *)
(***************************************************************************)
EXTENDS Naturals

CONSTANTS FinalityDepth,  \* the depth the runtime's gate requires
          AdapterDepth,   \* the adapter's own: its capabilities' finality_depth
          MaxTip,         \* bound: height of the chain
          MaxReorgs       \* bound: reorganisations

\* RuntimePolicy::set_finality_depth raises an override to the adapter's depth.
ASSUME DepthAssumption ==
    /\ FinalityDepth \in Nat /\ AdapterDepth \in Nat \ {0}
    /\ AdapterDepth <= FinalityDepth

VARIABLES network,   \* the adapter in use
          tip,       \* the chain's height
          mined_at,  \* the height of the lock transaction's block
          reverted,  \* the transaction's execution failed
          reorgs,
          query      \* the adapter call in progress, or the last one's answer

confirmationVars == <<network, tip, mined_at, reverted, reorgs, query>>

Networks == {"bitcoin", "ethereum", "solana", "sui", "aptos"}

\* "Aptos finality is deterministic BFT (no probabilistic reorg)"; so is Sui's.
Deterministic == {"sui", "aptos"}

\* op: the call; at: its next read; seen: the first read's value; lock: the
\* height the gate recorded; answer, height: what was answered; steady: since the
\* first read neither the transaction's block nor the height of the tip was
\* undone; gap: the blocks mined between the two reads; orphaned: the block the
\* proof was built from was replaced; depth: the depth recorded in the proof.
NoQuery == [op |-> "none", at |-> "idle", seen |-> 0, lock |-> 0,
            answer |-> "none", height |-> 0, steady |-> TRUE, gap |-> 0,
            orphaned |-> FALSE, depth |-> 0]

saturating_depth(a, b) == IF a < b THEN 0 ELSE a - b

(***************************************************************************)
(* The first read: Bitcoin's RPC counts the block itself, so its depth is  *)
(* one more than the difference of the heights.                            *)
(***************************************************************************)
get_tx_confirmations == IF mined_at = 0 THEN 0 ELSE tip - mined_at + 1

FirstRead == IF network = "bitcoin" THEN get_tx_confirmations ELSE mined_at

(***************************************************************************)
(* What tx_finality reports from the first read and the tip of the second. *)
(***************************************************************************)
NativeDepth(seen, t) ==
    [height |-> saturating_depth(t, saturating_depth(seen, 1)), confirmations |-> seen]

bitcoin_tx_finality(seen, t) ==
    LET block_height == saturating_depth(t, saturating_depth(seen, 1))
    IN  [height |-> block_height, confirmations |-> saturating_depth(t, block_height)]

ethereum_tx_finality(seen, t) ==
    [height |-> seen, confirmations |-> saturating_depth(t, seen)]

solana_tx_finality(seen, t) ==
    [height |-> seen, confirmations |-> saturating_depth(t, seen)]

\* Sui and Aptos have the trait's tx_finality: what confirm_tx confirms has
\* u64::MAX confirmations, which is any depth one may ask for.
default_tx_finality(seen) == [height |-> seen, confirmations |-> FinalityDepth]

Finality(seen, t) ==
    CASE network = "bitcoin"  -> bitcoin_tx_finality(seen, t)
      [] network = "ethereum" -> ethereum_tx_finality(seen, t)
      [] network = "solana"   -> solana_tx_finality(seen, t)
      [] OTHER                -> default_tx_finality(seen)

(***************************************************************************)
(* confirm_tx: a yes or no.  Bitcoin and Ethereum demand the depth; Solana *)
(* accepts a landed slot, looking once more when the first lookup was      *)
(* empty; Sui a checkpoint, which it reads to see that it is certified (an *)
(* error if not); Aptos the version the transaction was executed at.       *)
(***************************************************************************)
ConfirmsUnburied(seen, t) == [height |-> seen, ok |-> TRUE]

bitcoin_confirm_tx(seen, t) ==
    LET f == bitcoin_tx_finality(seen, t)
    IN  [height |-> f.height, ok |-> f.confirmations >= AdapterDepth]

ethereum_confirm_tx(seen, t) ==
    [height |-> seen, ok |-> saturating_depth(t, seen) >= AdapterDepth]

solana_confirm_tx(seen) ==
    LET slot == IF seen # 0 THEN seen ELSE mined_at
    IN  [height |-> slot, ok |-> slot # 0 /\ ~reverted]

sui_confirm_tx(seen) == [height |-> seen, ok |-> seen # 0 /\ ~reverted]

aptos_confirm_tx(seen) == [height |-> seen, ok |-> seen # 0 /\ ~reverted]

Confirmation(seen, t) ==
    CASE network = "bitcoin"  -> bitcoin_confirm_tx(seen, t)
      [] network = "ethereum" -> ethereum_confirm_tx(seen, t)
      [] network = "solana"   -> solana_confirm_tx(seen)
      [] network = "sui"      -> sui_confirm_tx(seen)
      [] network = "aptos"    -> aptos_confirm_tx(seen)

(***************************************************************************)
(* build_inclusion_proof.  The evidence read: Bitcoin asks for the branch  *)
(* in the block at the recorded height, Ethereum for a receipt of that     *)
(* block, Solana and Sui take the slot or checkpoint they find, Aptos the  *)
(* transaction at the recorded version.  Then the tip and the depth, which *)
(* only Bitcoin and Ethereum check.                                        *)
(***************************************************************************)
TrustsLockHeight == query.lock <= tip

bitcoin_evidence == mined_at # 0 /\ mined_at = query.lock

ethereum_evidence == mined_at # 0 /\ ~reverted /\ mined_at = query.lock

solana_evidence == mined_at # 0 /\ ~reverted

sui_evidence == mined_at # 0 /\ ~reverted

aptos_evidence == query.lock # 0 /\ query.lock <= tip /\ ~reverted

Evidence ==
    CASE network = "bitcoin"  -> bitcoin_evidence
      [] network = "ethereum" -> ethereum_evidence
      [] network = "solana"   -> solana_evidence
      [] network = "sui"      -> sui_evidence
      [] network = "aptos"    -> aptos_evidence

Deep(t) ==
    network \in {"bitcoin", "ethereum"} => saturating_depth(t, query.seen) >= AdapterDepth

(***************************************************************************)
(* validate_source_proof, before the mint.  Bitcoin folds the branch up to *)
(* the header now at the proof's height, and measures the depth again;     *)
(* Ethereum goes by the depth recorded in the proof and asks the contract  *)
(* whether the sanad is locked.  The other adapters do not ask the chain.  *)
(***************************************************************************)
bitcoin_first_check == query.seen <= tip /\ ~query.orphaned

bitcoin_second_check == saturating_depth(tip, query.seen) >= AdapterDepth

ethereum_first_check == query.depth >= AdapterDepth

ethereum_second_check == mined_at # 0 /\ ~reverted

----

ConfirmationInit ==
    /\ network \in Networks
    /\ tip = 1
    /\ mined_at = 0
    /\ reverted \in (IF network = "bitcoin" THEN {FALSE} ELSE BOOLEAN)
    /\ reorgs = 0
    /\ query = NoQuery

AnswerQuery(a, h) == query' = [query EXCEPT !.at = "answered", !.answer = a, !.height = h]

\* A call ends at its first read when the transaction is not mined (pending for
\* the gate, an error for confirm_tx, except that Solana's looks again) and when
\* it reverted.
BeginCall(op) ==
    /\ query.at = "idle"
    /\ LET q == [query EXCEPT !.op = op, !.seen = FirstRead, !.steady = TRUE]
           again == op = "confirm_tx" /\ network = "solana"
       IN  query' = IF \/ mined_at = 0 /\ ~again
                       \/ mined_at # 0 /\ reverted
                    THEN [q EXCEPT !.at = "answered", !.answer = "not_final"]
                    ELSE [q EXCEPT !.at = "tip"]
    /\ UNCHANGED <<network, tip, mined_at, reverted, reorgs>>

\* The runtime's gate: lock_finality_status, and lock_result.block_height taken
\* from the answer when the observed depth suffices.
tx_finality ==
    /\ query.op = "tx_finality" /\ query.at = "tip"
    /\ LET f == Finality(query.seen, tip)
       IN  query' = [query EXCEPT !.at = "answered", !.height = f.height,
                                  !.lock = f.height,
                                  !.answer = IF f.confirmations >= FinalityDepth
                                             THEN "final" ELSE "not_final"]
    /\ UNCHANGED <<network, tip, mined_at, reverted, reorgs>>

confirm_tx ==
    /\ query.op = "confirm_tx" /\ query.at = "tip"
    /\ LET f == Confirmation(query.seen, tip)
       IN  AnswerQuery(IF f.ok THEN "final" ELSE "not_final", f.height)
    /\ UNCHANGED <<network, tip, mined_at, reverted, reorgs>>

\* The coordinator builds the proof only after the gate passed.
build_inclusion_proof ==
    /\ query.op = "tx_finality" /\ query.answer = "final"
    /\ query' = LET q == [query EXCEPT !.op = "build",
                          !.seen = IF network \in {"bitcoin", "aptos"}
                                   THEN query.lock ELSE mined_at]
                IN  IF Evidence THEN [q EXCEPT !.at = "tip", !.answer = "none"]
                                ELSE [q EXCEPT !.answer = "no_evidence"]
    /\ UNCHANGED <<network, tip, mined_at, reverted, reorgs>>

build_at_tip ==
    /\ query.op = "build" /\ query.at = "tip"
    /\ query' = [query EXCEPT !.at = "answered", !.height = query.seen,
                              !.answer = IF Deep(tip) THEN "built" ELSE "shallow",
                              !.depth = saturating_depth(tip, query.seen)]
    /\ UNCHANGED <<network, tip, mined_at, reverted, reorgs>>

\* A proof that was built, some time later.
validate_source_proof ==
    /\ query.op = "build" /\ query.answer = "built" /\ network \in {"bitcoin", "ethereum"}
    /\ LET valid == IF network = "bitcoin" THEN bitcoin_first_check ELSE ethereum_first_check
       IN  query' = [query EXCEPT !.op = "validate", !.steady = TRUE,
                                  !.at = IF valid THEN "tip" ELSE "answered",
                                  !.answer = IF valid THEN "none" ELSE "invalid"]
    /\ UNCHANGED <<network, tip, mined_at, reverted, reorgs>>

validate_at_tip ==
    /\ query.op = "validate" /\ query.at = "tip"
    /\ LET valid == IF network = "bitcoin" THEN bitcoin_second_check ELSE ethereum_second_check
       IN  AnswerQuery(IF valid THEN "validated" ELSE "invalid", query.height)
    /\ UNCHANGED <<network, tip, mined_at, reverted, reorgs>>

\* Any read may fail: the call ends with an error.
RpcError ==
    /\ query.at = "tip"
    /\ AnswerQuery("rpc_error", 0)
    /\ UNCHANGED <<network, tip, mined_at, reverted, reorgs>>

\* The caller resumes: the next call starts from nothing.
Resume ==
    /\ query.at = "answered"
    /\ query' = NoQuery
    /\ UNCHANGED <<network, tip, mined_at, reverted, reorgs>>

\* A block is mined, with the transaction if it still waits.
Mine ==
    /\ tip < MaxTip
    /\ tip' = tip + 1
    /\ mined_at' \in (IF mined_at = 0 THEN {0, tip + 1} ELSE {mined_at})
    /\ query' = [query EXCEPT !.gap = IF query.at = "tip" THEN @ + 1 ELSE @]
    /\ UNCHANGED <<network, reverted, reorgs>>

\* The last d blocks are replaced; the transaction may land in a new one.
Reorganise ==
    /\ reorgs < MaxReorgs /\ network \notin Deterministic
    /\ reorgs' = reorgs + 1
    /\ \E d \in 1 .. tip - 1 : \E t \in tip - d .. MaxTip :
         /\ tip' = t
         /\ mined_at' \in (IF mined_at > tip - d THEN {0} \cup (tip - d + 1 .. t) ELSE {mined_at})
         /\ query' = [query EXCEPT
                        !.steady = @ /\ mined_at <= tip - d /\ t >= tip,
                        !.orphaned = @ \/ (query.op \in {"build", "validate"}
                                            /\ query.seen > tip - d),
                        !.gap = IF query.at = "tip" THEN @ + saturating_depth(t, tip) ELSE @]
    /\ UNCHANGED <<network, reverted>>

ConfirmationNext ==
    \/ \E op \in {"tx_finality", "confirm_tx"} : BeginCall(op)
    \/ tx_finality
    \/ confirm_tx
    \/ build_inclusion_proof
    \/ build_at_tip
    \/ validate_source_proof
    \/ validate_at_tip
    \/ RpcError
    \/ Resume
    \/ Mine
    \/ Reorganise

ConfirmationSpec == ConfirmationInit /\ [][ConfirmationNext]_confirmationVars

----

\* A transaction a call found final is on the chain, did not revert and (except
\* where no depth is checked: on Sui and Aptos, and by Solana's confirm_tx) is
\* buried under the blocks required, by the gate's policy or for confirm_tx by the
\* adapter's capabilities, whatever was mined between the call's two reads, as
\* long as no reorganisation came between them.  Bitcoin's
\* tip - (tip - (n - 1)) drops the block that the RPC counts.  The height the
\* gate records with it is never below the lock's true block and exceeds it by at
\* most the blocks mined between the reads.
FinalIsBuried ==
    query.answer = "final" /\ query.steady =>
        /\ mined_at # 0 /\ ~reverted
        /\ \/ network \in Deterministic
           \/ network = "solana" /\ query.op = "confirm_tx"
           \/ query.op = "confirm_tx" /\ tip - mined_at >= AdapterDepth
           \/ tip - mined_at >= FinalityDepth
        /\ query.op = "tx_finality" =>
              query.height >= mined_at /\ query.height - mined_at <= query.gap

\* "the runtime finality gate can never pass while build_inclusion_proof would
\* still reject for insufficient depth" (comment in the Bitcoin tx_finality):
\* without a reorganisation in between, the builder's own depth check never
\* fails after the gate passed.  A height that is off because a block came between
\* the reads never gets into a proof: what build_inclusion_proof vouches for is the
\* block of the transaction.  And a reorganisation between the proof and its
\* validation is noticed: a validated proof's lock is on the chain (on Bitcoin in the
\* block the proof names, under AdapterDepth blocks), if none came during the
\* validation itself.
ProofIsOnChain ==
    /\ query.answer = "shallow" => ~query.steady
    /\ query.answer = "built" /\ query.steady => query.height = mined_at
    /\ query.answer = "validated" /\ query.steady =>
          /\ mined_at # 0 /\ ~reverted
          /\ network = "bitcoin" =>
                query.height = mined_at /\ tip - mined_at >= AdapterDepth
====
