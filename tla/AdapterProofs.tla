--------------------------- MODULE AdapterProofs ----------------------------
(***************************************************************************)
(* What a caller may rely on, each for every value of its constants: the   *)
(* chain adapters' finality gate and inclusion proof (TxConfirmation) and  *)
(* their operations on a sanad with the retries of them (ChainOperations), *)
(* and the state file that csv-cli keeps of what it reported (CliState).   *)
(***************************************************************************)
EXTENDS TxConfirmation, ChainOperations, CliState, TLAPS

-----------------------------------------------------------------------------
(* The finality gate and the proof of inclusion.                           *)

Queries ==
    [op : {"none", "tx_finality", "confirm_tx", "build", "validate"},
     at : {"idle", "tip", "answered"},
     seen : Nat, lock : Nat, height : Nat, gap : Nat, depth : Nat,
     answer : {"none", "final", "not_final", "no_evidence", "built", "shallow",
               "validated", "invalid", "rpc_error"},
     steady : BOOLEAN, orphaned : BOOLEAN]

ConfirmationTypes ==
    /\ network \in Networks
    /\ tip \in Nat /\ tip >= 1
    /\ mined_at \in Nat /\ mined_at <= tip
    /\ reverted \in BOOLEAN /\ (network = "bitcoin" => ~reverted)
    /\ query \in Queries

LockStands == mined_at # 0 /\ ~reverted

(* Between the two reads of a gate or a confirmation whose block stands,   *)
(* the first read is still true but for the blocks mined since.            *)
FirstReadStands ==
    query.at = "tip" /\ query.op \in {"tx_finality", "confirm_tx"} /\ query.steady =>
        \/ /\ LockStands
           /\ IF network = "bitcoin" THEN query.seen + query.gap + mined_at = tip + 1
                                     ELSE query.seen = mined_at
        \/ query.op = "confirm_tx" /\ network = "solana" /\ query.seen = 0

(* The gate's answer: the recorded height is exact but on Bitcoin.         *)
GateStands ==
    /\ query.answer = "final" => query.at = "answered" /\ query.op \in {"tx_finality", "confirm_tx"}
    /\ query.answer = "final" /\ query.op = "tx_finality" /\ query.steady =>
          query.lock = query.height /\ (network # "bitcoin" => query.lock = mined_at)

(* From the evidence on: the proof's block is the transaction's.           *)
ProofStands ==
    /\ query.at = "idle" <=> query.op = "none"
    /\ query.at = "idle" => query.gap = 0
    /\ query.at \in {"idle", "tip"} => query.answer = "none"
    /\ query.answer \in {"built", "shallow"} => query.op = "build" /\ query.at = "answered"
    /\ query.answer = "validated" => query.op = "validate" /\ query.at = "answered"
    /\ query.op = "build" /\ (query.at = "tip" \/ query.answer = "built") /\ query.steady =>
          /\ query.seen = mined_at /\ LockStands
          /\ network \in {"bitcoin", "ethereum"} => tip - mined_at >= FinalityDepth
    /\ network = "bitcoin" /\ ~query.orphaned
         /\ (query.op = "validate" \/ (query.op = "build" /\ (query.at = "tip" \/ query.answer = "built")))
         => query.seen = mined_at /\ mined_at # 0
    /\ query.op = "validate" \/ query.answer = "built" => query.height = query.seen \/ query.answer = "rpc_error"
    /\ network = "bitcoin" /\ query.op = "validate" /\ query.steady
         /\ (query.at = "tip" \/ query.answer = "validated") => ~query.orphaned
    /\ query.op \notin {"build", "validate"} => ~query.orphaned

ConfirmationInv ==
    ConfirmationTypes /\ FirstReadStands /\ GateStands /\ ProofStands
        /\ FinalIsBuried /\ ProofIsOnChain

(* What the invariant says of the fields of a call.                        *)
LEMMA QueryFields ==
    \A q \in Queries :
        /\ q.seen \in Nat /\ q.lock \in Nat /\ q.height \in Nat
        /\ q.gap \in Nat /\ q.depth \in Nat
        /\ q.steady \in BOOLEAN /\ q.orphaned \in BOOLEAN
BY DEF Queries

(* No call is made and the lock is not mined.                              *)
LEMMA ConfirmationInvInit == ConfirmationInit => ConfirmationInv
<1> SUFFICES ASSUME ConfirmationInit PROVE ConfirmationInv
  OBVIOUS
<1>1. query \in Queries
  BY DEF ConfirmationInit, NoQuery, Queries
<1>2. /\ query.op = "none" /\ query.at = "idle" /\ query.answer = "none" /\ query.gap = 0
      /\ query.orphaned = FALSE
  BY DEF ConfirmationInit, NoQuery
<1>3. ConfirmationTypes
  <2>1. reverted \in BOOLEAN /\ (network = "bitcoin" => ~reverted)
    BY Zenon DEF ConfirmationInit
  <2>2. tip = 1 /\ mined_at = 0 /\ network \in Networks
    BY DEF ConfirmationInit
  <2> QED
    BY <1>1, <2>1, <2>2 DEF ConfirmationTypes
<1> QED
  BY <1>2, <1>3 DEF ConfirmationInv, FirstReadStands, GateStands, ProofStands, FinalIsBuried,
                    ProofIsOnChain

(* A call that only goes to another place or answers: nothing of the chain *)
(* moves.                                                                  *)
ChainStays == UNCHANGED <<network, tip, mined_at, reverted>>

(* A call begins; it has read nothing.                                     *)
LEMMA CallBeginKeeps ==
    ASSUME ConfirmationInv, NEW op \in {"tx_finality", "confirm_tx"}, BeginCall(op)
    PROVE  ConfirmationInv'
<1> DEFINE ends == \/ mined_at = 0 /\ ~(op = "confirm_tx" /\ network = "solana")
                   \/ mined_at # 0 /\ reverted
<1>0. query \in Queries /\ query.at = "idle" /\ query.op = "none" /\ query.gap = 0
      /\ query.answer = "none" /\ ~query.orphaned
  BY DEF BeginCall, ConfirmationInv, ConfirmationTypes, ProofStands
<1>1. FirstRead \in Nat
  BY DEF FirstRead, get_tx_confirmations, ConfirmationInv, ConfirmationTypes
<1>2. /\ query' \in Queries
      /\ query'.op = op /\ query'.seen = FirstRead /\ query'.steady = TRUE
      /\ query'.gap = 0 /\ query'.orphaned = query.orphaned
      /\ query'.at = IF ends THEN "answered" ELSE "tip"
      /\ query'.answer = IF ends THEN "not_final" ELSE "none"
  BY Zenon, <1>0, <1>1 DEF BeginCall, Queries
<1>3. ChainStays
  BY DEF BeginCall, ChainStays
<1>4. ConfirmationTypes'
  BY <1>2, <1>3 DEF ConfirmationInv, ConfirmationTypes, ChainStays
<1>5. FirstReadStands'
  BY <1>1, <1>2, <1>3 DEF ConfirmationInv, ConfirmationTypes, FirstReadStands, LockStands, ChainStays,
                     FirstRead, get_tx_confirmations
<1>6. GateStands' /\ ProofStands' /\ FinalIsBuried' /\ ProofIsOnChain'
  BY <1>0, <1>2 DEF GateStands, ProofStands, FinalIsBuried, ProofIsOnChain
<1> QED
  BY <1>4, <1>5, <1>6 DEF ConfirmationInv

(* The gate's first read.                                                  *)
LEMMA TxFinalityKeeps ==
    ASSUME ConfirmationInv, tx_finality
    PROVE  ConfirmationInv'
<1> DEFINE f == Finality(query.seen, tip)
<1>0. query \in Queries /\ query.at = "tip" /\ query.op = "tx_finality" /\ ~query.orphaned
  BY DEF tx_finality, ConfirmationInv, ConfirmationTypes, ProofStands
<1>1. f.height \in Nat /\ f.confirmations \in Nat
  BY <1>0, QueryFields, DepthAssumption
     DEF Finality, bitcoin_tx_finality, ethereum_tx_finality, solana_tx_finality,
         default_tx_finality, saturating_depth, ConfirmationInv, ConfirmationTypes
<1>2. query.steady /\ f.confirmations >= FinalityDepth =>
         /\ LockStands
         /\ network \in Deterministic \/ tip - mined_at >= FinalityDepth
         /\ f.height >= mined_at /\ f.height - mined_at <= query.gap
         /\ network # "bitcoin" => f.height = mined_at
  BY <1>0, QueryFields, DepthAssumption
     DEF Finality, bitcoin_tx_finality, ethereum_tx_finality, solana_tx_finality,
         default_tx_finality, saturating_depth, ConfirmationInv, ConfirmationTypes,
         FirstReadStands, LockStands, Deterministic, Networks
<1>3. /\ query' \in Queries
      /\ query'.op = "tx_finality" /\ query'.at = "answered" /\ query'.steady = query.steady
      /\ query'.height = f.height /\ query'.lock = f.height
      /\ query'.gap = query.gap /\ query'.orphaned = query.orphaned
      /\ query'.answer = IF f.confirmations >= FinalityDepth THEN "final" ELSE "not_final"
  <2> HIDE DEF f
  <2>1. query' = [query EXCEPT !.at = "answered", !.height = f.height, !.lock = f.height,
                               !.answer = IF f.confirmations >= FinalityDepth
                                          THEN "final" ELSE "not_final"]
    BY DEF tx_finality, f
  <2> QED
    BY Zenon, <1>0, <1>1, <2>1 DEF Queries
<1>4. ChainStays
  BY DEF tx_finality, ChainStays
<1> HIDE DEF f
<1>5. ConfirmationTypes'
  BY <1>3, <1>4 DEF ConfirmationInv, ConfirmationTypes, ChainStays
<1>6. FirstReadStands' /\ ProofStands' /\ ProofIsOnChain'
  BY <1>0, <1>3 DEF FirstReadStands, ProofStands, ProofIsOnChain
<1>7. GateStands' /\ FinalIsBuried'
  BY <1>2, <1>3, <1>4 DEF GateStands, FinalIsBuried, LockStands, ChainStays
<1> QED
  BY <1>5, <1>6, <1>7 DEF ConfirmationInv

(* An answer changes what it says and nothing else.                        *)
LEMMA AnswerFields ==
    ASSUME query \in Queries, NEW a \in {"final", "not_final", "validated", "invalid", "rpc_error"},
           NEW h \in Nat, AnswerQuery(a, h)
    PROVE  /\ query' \in Queries
           /\ query'.op = query.op /\ query'.at = "answered" /\ query'.steady = query.steady
           /\ query'.height = h /\ query'.answer = a /\ query'.seen = query.seen
           /\ query'.gap = query.gap /\ query'.orphaned = query.orphaned
BY Zenon DEF AnswerQuery, Queries

(* confirm_tx reads and answers.                                           *)
LEMMA ConfirmTxKeeps ==
    ASSUME ConfirmationInv, confirm_tx
    PROVE  ConfirmationInv'
<1> DEFINE f == Confirmation(query.seen, tip)
<1>0. query \in Queries /\ query.at = "tip" /\ query.op = "confirm_tx" /\ ~query.orphaned
  BY DEF confirm_tx, ConfirmationInv, ConfirmationTypes, ProofStands
<1>1. f.height \in Nat
  BY <1>0, QueryFields, DepthAssumption
     DEF Confirmation, bitcoin_confirm_tx, bitcoin_tx_finality, ethereum_confirm_tx,
         solana_confirm_tx, sui_confirm_tx, aptos_confirm_tx, saturating_depth,
         ConfirmationInv, ConfirmationTypes, Networks
<1>2. query.steady /\ f.ok =>
         /\ LockStands
         /\ network \in Deterministic \/ network = "solana" \/ tip - mined_at >= AdapterDepth
  BY <1>0, QueryFields, DepthAssumption
     DEF Confirmation, bitcoin_confirm_tx, bitcoin_tx_finality, ethereum_confirm_tx,
         solana_confirm_tx, sui_confirm_tx, aptos_confirm_tx, saturating_depth,
         ConfirmationInv, ConfirmationTypes, FirstReadStands, LockStands, Deterministic, Networks
<1>3. AnswerQuery(IF f.ok THEN "final" ELSE "not_final", f.height) /\ ChainStays
  BY DEF confirm_tx, ChainStays
<1> HIDE DEF f
<1>4. /\ query' \in Queries
      /\ query'.op = "confirm_tx" /\ query'.at = "answered" /\ query'.steady = query.steady
      /\ query'.answer = IF f.ok THEN "final" ELSE "not_final"
      /\ query'.orphaned = query.orphaned
  BY <1>0, <1>1, <1>3, AnswerFields
<1>5. ConfirmationTypes'
  BY <1>3, <1>4 DEF ConfirmationInv, ConfirmationTypes, ChainStays
<1>6. FirstReadStands' /\ ProofStands' /\ ProofIsOnChain' /\ GateStands'
  BY <1>0, <1>4 DEF FirstReadStands, ProofStands, ProofIsOnChain, GateStands
<1>7. FinalIsBuried'
  BY <1>2, <1>3, <1>4 DEF FinalIsBuried, LockStands, ChainStays
<1> QED
  BY <1>5, <1>6, <1>7 DEF ConfirmationInv

(* The builder's first read.                                               *)
LEMMA BuildKeeps ==
    ASSUME ConfirmationInv, build_inclusion_proof
    PROVE  ConfirmationInv'
<1> DEFINE block == IF network \in {"bitcoin", "aptos"} THEN query.lock ELSE mined_at
<1>0. query \in Queries /\ query.at = "answered" /\ query.op = "tx_finality" /\ ~query.orphaned
      /\ query.answer = "final"
  BY DEF build_inclusion_proof, ConfirmationInv, ConfirmationTypes, ProofStands, GateStands
<1>1. block \in Nat /\ Evidence \in BOOLEAN
  BY Zenon, <1>0, QueryFields DEF ConfirmationInv, ConfirmationTypes, Evidence, bitcoin_evidence,
     ethereum_evidence, solana_evidence, sui_evidence, aptos_evidence, Networks
<1>2. Evidence /\ query.steady =>
         /\ block = mined_at /\ LockStands
         /\ network \in {"bitcoin", "ethereum"} => tip - mined_at >= FinalityDepth
  BY Zenon, <1>0, QueryFields DEF ConfirmationInv, ConfirmationTypes, Evidence, bitcoin_evidence,
     ethereum_evidence, solana_evidence, sui_evidence, aptos_evidence, Networks, Deterministic,
     GateStands, FinalIsBuried, LockStands
<1>3. network = "bitcoin" /\ Evidence => block = mined_at /\ mined_at # 0
  BY DEF Evidence, bitcoin_evidence
<1>4. ChainStays
  BY DEF build_inclusion_proof, ChainStays
<1>5. /\ query' \in Queries
      /\ query'.op = "build" /\ query'.at = (IF Evidence THEN "tip" ELSE "answered")
      /\ query'.seen = block /\ query'.steady = query.steady
      /\ query'.answer = (IF Evidence THEN "none" ELSE "no_evidence")
      /\ query'.gap = query.gap /\ query'.orphaned = query.orphaned
  <2> HIDE DEF block
  <2>1. query' = LET q == [query EXCEPT !.op = "build", !.seen = block]
                 IN  IF Evidence THEN [q EXCEPT !.at = "tip", !.answer = "none"]
                                 ELSE [q EXCEPT !.answer = "no_evidence"]
    BY DEF build_inclusion_proof, block
  <2> QED
    BY Zenon, <1>0, <1>1, <2>1 DEF Queries
<1> HIDE DEF block
<1>6. ConfirmationTypes'
  BY <1>4, <1>5 DEF ConfirmationInv, ConfirmationTypes, ChainStays
<1>7. FirstReadStands' /\ ProofIsOnChain' /\ GateStands' /\ FinalIsBuried'
  BY Zenon, <1>0, <1>5 DEF FirstReadStands, ProofIsOnChain, GateStands, FinalIsBuried
<1>8. ProofStands'
  BY <1>0, <1>2, <1>3, <1>4, <1>5 DEF ProofStands, LockStands, ChainStays
<1> QED
  BY <1>6, <1>7, <1>8 DEF ConfirmationInv

(* The builder's second read: the lock it read of is as deep as the gate   *)
(* found it, or deeper, unless the chain was reorganised.                  *)
LEMMA BuildAtTipKeeps ==
    ASSUME ConfirmationInv, build_at_tip
    PROVE  ConfirmationInv'
<1>0. query \in Queries /\ query.at = "tip" /\ query.op = "build" /\ tip \in Nat /\ mined_at \in Nat
  BY DEF build_at_tip, ConfirmationInv, ConfirmationTypes
<1>1. saturating_depth(tip, query.seen) \in Nat
  BY <1>0, QueryFields DEF saturating_depth
<1>2. query.steady => Deep(tip)
  BY <1>0, QueryFields, DepthAssumption
     DEF Deep, saturating_depth, ConfirmationInv, ProofStands, LockStands
<1>3. ChainStays
  BY DEF build_at_tip, ChainStays
<1>4. /\ query' \in Queries
      /\ query'.op = "build" /\ query'.at = "answered" /\ query'.height = query.seen
      /\ query'.seen = query.seen /\ query'.steady = query.steady
      /\ query'.answer = (IF Deep(tip) THEN "built" ELSE "shallow")
      /\ query'.gap = query.gap /\ query'.orphaned = query.orphaned
  BY Zenon, <1>0, <1>1, QueryFields DEF build_at_tip, Queries
<1>5. ConfirmationTypes'
  BY <1>3, <1>4 DEF ConfirmationInv, ConfirmationTypes, ChainStays
<1>6. FirstReadStands' /\ GateStands' /\ FinalIsBuried'
  BY <1>0, <1>4 DEF FirstReadStands, GateStands, FinalIsBuried
<1>7. ProofStands'
  BY <1>0, <1>3, <1>4 DEF ConfirmationInv, ProofStands, LockStands, ChainStays
<1>8. ProofIsOnChain'
  BY <1>0, <1>2, <1>3, <1>4 DEF ConfirmationInv, ProofStands, ProofIsOnChain, ChainStays
<1> QED
  BY <1>5, <1>6, <1>7, <1>8 DEF ConfirmationInv

(* The validation's first read.                                            *)
LEMMA ValidateKeeps ==
    ASSUME ConfirmationInv, validate_source_proof
    PROVE  ConfirmationInv'
<1> DEFINE valid == IF network = "bitcoin" THEN bitcoin_first_check ELSE ethereum_first_check
<1>0. query \in Queries /\ query.at = "answered" /\ query.op = "build" /\ query.answer = "built"
  BY DEF validate_source_proof, ConfirmationInv, ConfirmationTypes, ProofStands
<1>1. network = "bitcoin" /\ valid => ~query.orphaned
  BY DEF bitcoin_first_check
<1>2. ChainStays
  BY DEF validate_source_proof, ChainStays
<1> HIDE DEF valid
<1>3. query' = [query EXCEPT !.op = "validate", !.steady = TRUE,
                             !.at = IF valid THEN "tip" ELSE "answered",
                             !.answer = IF valid THEN "none" ELSE "invalid"]
  BY DEF validate_source_proof, valid
<1>4. /\ query' \in Queries
      /\ query'.op = "validate" /\ query'.at = (IF valid THEN "tip" ELSE "answered")
      /\ query'.seen = query.seen /\ query'.height = query.height
      /\ query'.answer = (IF valid THEN "none" ELSE "invalid")
      /\ query'.gap = query.gap /\ query'.orphaned = query.orphaned
  BY Zenon, <1>0, <1>3 DEF Queries
<1>5. ConfirmationTypes'
  BY <1>2, <1>4 DEF ConfirmationInv, ConfirmationTypes, ChainStays
<1>6. FirstReadStands' /\ GateStands' /\ FinalIsBuried' /\ ProofIsOnChain'
  BY Zenon, <1>0, <1>4 DEF FirstReadStands, GateStands, FinalIsBuried, ProofIsOnChain
<1>7. ProofStands'
  BY Zenon, <1>0, <1>1, <1>2, <1>4 DEF ConfirmationInv, ProofStands, LockStands, ChainStays
<1> QED
  BY <1>5, <1>6, <1>7 DEF ConfirmationInv

(* The validation's second read.                                           *)
LEMMA ValidateAtTipKeeps ==
    ASSUME ConfirmationInv, validate_at_tip
    PROVE  ConfirmationInv'
<1> DEFINE valid == IF network = "bitcoin" THEN bitcoin_second_check ELSE ethereum_second_check
<1>0. query \in Queries /\ query.at = "tip" /\ query.op = "validate"
  BY Zenon DEF validate_at_tip, ConfirmationInv, ConfirmationTypes
<1>1. valid /\ query.steady =>
         /\ LockStands
         /\ network = "bitcoin" => query.seen = mined_at /\ tip - mined_at >= AdapterDepth
  BY <1>0, QueryFields, DepthAssumption
     DEF bitcoin_second_check, ethereum_second_check, ConfirmationInv, ConfirmationTypes,
         ProofStands, LockStands, saturating_depth
<1>2. AnswerQuery(IF valid THEN "validated" ELSE "invalid", query.height) /\ ChainStays
  BY DEF validate_at_tip, ChainStays
<1> HIDE DEF valid
<1>3. /\ query' \in Queries
      /\ query'.op = "validate" /\ query'.at = "answered" /\ query'.height = query.height
      /\ query'.seen = query.seen /\ query'.steady = query.steady
      /\ query'.answer = (IF valid THEN "validated" ELSE "invalid")
      /\ query'.gap = query.gap /\ query'.orphaned = query.orphaned
  BY Zenon, <1>0, <1>2, AnswerFields, QueryFields
<1>4. query.height = query.seen \/ query.answer = "rpc_error"
  BY <1>0 DEF ConfirmationInv, ProofStands
<1>5. ConfirmationTypes'
  BY <1>2, <1>3 DEF ConfirmationInv, ConfirmationTypes, ChainStays
<1>6. FirstReadStands' /\ GateStands' /\ FinalIsBuried'
  BY Zenon, <1>0, <1>3 DEF FirstReadStands, GateStands, FinalIsBuried
<1>7. ProofStands'
  BY Zenon, <1>0, <1>2, <1>3 DEF ConfirmationInv, ProofStands, LockStands, ChainStays
<1>8. ProofIsOnChain'
  BY <1>0, <1>1, <1>2, <1>3, <1>4 DEF ConfirmationInv, ProofStands, ProofIsOnChain, LockStands, ChainStays
<1> QED
  BY <1>5, <1>6, <1>7, <1>8 DEF ConfirmationInv

(* An RPC fails, or the caller goes on with what it got.                   *)
LEMMA ErrorOrResumeKeeps ==
    ASSUME ConfirmationInv, RpcError \/ Resume
    PROVE  ConfirmationInv'
<1>0. query \in Queries /\ query.at # "idle"
  BY DEF RpcError, Resume, ConfirmationInv, ConfirmationTypes
<1>1. ChainStays
  BY DEF RpcError, Resume, ChainStays
<1>2. CASE RpcError
  <2>1. /\ query' \in Queries /\ query'.op = query.op /\ query'.at = "answered"
        /\ query'.answer = "rpc_error" /\ query'.seen = query.seen
        /\ query'.steady = query.steady /\ query'.orphaned = query.orphaned
    BY <1>0, <1>2, AnswerFields DEF RpcError
  <2>2. ConfirmationTypes'
    BY Zenon, <1>1, <2>1 DEF ConfirmationInv, ConfirmationTypes, ChainStays
  <2>3. FirstReadStands' /\ GateStands' /\ FinalIsBuried' /\ ProofIsOnChain'
    BY Zenon, <2>1 DEF FirstReadStands, GateStands, FinalIsBuried, ProofIsOnChain
  <2>4. ProofStands'
    BY Zenon, <1>0, <1>1, <2>1 DEF ConfirmationInv, ProofStands, LockStands, ChainStays
  <2> QED
    BY <2>2, <2>3, <2>4 DEF ConfirmationInv
<1>3. CASE Resume
  <2>1. /\ query' \in Queries /\ query'.op = "none" /\ query'.at = "idle"
        /\ query'.answer = "none" /\ query'.gap = 0 /\ query'.orphaned = FALSE
    BY Zenon, <1>3 DEF Resume, NoQuery, Queries
  <2>2. ConfirmationTypes'
    BY <1>1, <2>1 DEF ConfirmationInv, ConfirmationTypes, ChainStays
  <2> QED
    BY Zenon, <2>1, <2>2 DEF ConfirmationInv, FirstReadStands, GateStands, ProofStands, FinalIsBuried,
                      ProofIsOnChain
<1> QED
  BY <1>2, <1>3

(* A step of the chain.  While the call's first read stands, the lock's    *)
(* block stays and the tip only grows, by what the gap counts.             *)
ChainMoves ==
    /\ UNCHANGED <<network, reverted>>
    /\ tip' \in Nat /\ tip' >= 1 /\ mined_at' \in Nat /\ mined_at' <= tip'
    /\ query' \in Queries
    /\ query'.op = query.op /\ query'.at = query.at /\ query'.answer = query.answer
    /\ query'.seen = query.seen /\ query'.lock = query.lock /\ query'.height = query.height
    /\ query.orphaned => query'.orphaned
    /\ query'.orphaned => query.orphaned \/ query.op \in {"build", "validate"}
    /\ query.at = "idle" => query'.gap = query.gap
    /\ query.gap <= query'.gap
    /\ query'.steady => /\ query.steady /\ tip <= tip'
                        /\ mined_at # 0 => mined_at' = mined_at
                        /\ query.at = "tip" => query'.gap = query.gap + (tip' - tip)
                        /\ query.seen = mined_at /\ mined_at # 0 => query'.orphaned = query.orphaned
    /\ query.op \in {"build", "validate"} /\ query.seen = mined_at /\ mined_at # 0 /\ ~query'.orphaned
          => mined_at' = mined_at

(* What is buried stays buried while the tip grows.                        *)
LEMMA DeeperStill ==
    \A t, u, m, n \in Nat : t <= u /\ t - m >= n => u - m >= n
OBVIOUS

(* The chain moves under a call: what the call read stays true of a chain  *)
(* that only grew, and a reorganisation ends the claim.                    *)
LEMMA ChainMovesKeep ==
    ASSUME ConfirmationInv, ChainMoves
    PROVE  ConfirmationInv'
<1>0. query \in Queries /\ tip \in Nat /\ mined_at \in Nat /\ mined_at <= tip
  BY Zenon DEF ConfirmationInv, ConfirmationTypes
<1>1. ConfirmationTypes'
  BY Zenon DEF ConfirmationInv, ConfirmationTypes, ChainMoves
<1>2. FirstReadStands'
  BY <1>0, QueryFields DEF ConfirmationInv, FirstReadStands, LockStands, ChainMoves
<1>3. GateStands'
  BY <1>0 DEF ConfirmationInv, GateStands, FinalIsBuried, ChainMoves
<1>7. /\ query.gap \in Nat /\ query'.gap \in Nat /\ query.height \in Nat /\ FinalityDepth \in Nat
      /\ AdapterDepth \in Nat /\ tip' \in Nat /\ mined_at' \in Nat
  BY Zenon, <1>0, <1>1, QueryFields, DepthAssumption DEF ConfirmationTypes
<1>8. /\ UNCHANGED <<network, reverted>>
      /\ query'.op = query.op /\ query'.at = query.at /\ query'.answer = query.answer
      /\ query'.seen = query.seen /\ query'.height = query.height /\ query.gap <= query'.gap
  BY Zenon DEF ChainMoves
<1>9. query'.steady => query.steady /\ tip <= tip' /\ (mined_at # 0 => mined_at' = mined_at)
  BY DEF ChainMoves
<1>10. FinalIsBuried /\ ProofStands /\ ProofIsOnChain
  BY DEF ConfirmationInv
<1>11. ASSUME tip <= tip', mined_at' = mined_at, NEW n \in Nat, tip - mined_at >= n
       PROVE  tip' - mined_at' >= n
  BY Zenon, <1>0, <1>7, <1>11, DeeperStill
<1>12. ASSUME mined_at' = mined_at, query.height >= mined_at, query.height - mined_at <= query.gap
       PROVE  query.height >= mined_at' /\ query.height - mined_at' <= query'.gap
  BY <1>0, <1>7, <1>8, <1>12
<1>4. FinalIsBuried'
  <2> SUFFICES ASSUME query.answer = "final", query'.steady
      PROVE  /\ mined_at' # 0 /\ ~reverted
             /\ \/ network \in Deterministic
                \/ network = "solana" /\ query.op = "confirm_tx"
                \/ query.op = "confirm_tx" /\ tip' - mined_at' >= AdapterDepth
                \/ tip' - mined_at' >= FinalityDepth
             /\ query.op = "tx_finality" =>
                   query.height >= mined_at' /\ query.height - mined_at' <= query'.gap
    BY Zenon, <1>8 DEF FinalIsBuried
  <2>1. /\ mined_at # 0 /\ ~reverted
        /\ \/ network \in Deterministic
           \/ network = "solana" /\ query.op = "confirm_tx"
           \/ query.op = "confirm_tx" /\ tip - mined_at >= AdapterDepth
           \/ tip - mined_at >= FinalityDepth
        /\ query.op = "tx_finality" =>
              query.height >= mined_at /\ query.height - mined_at <= query.gap
    BY Zenon, <1>9, <1>10 DEF FinalIsBuried
  <2> QED
    BY Zenon, <1>7, <1>9, <1>11, <1>12, <2>1
<1>5. ProofStands'
  <2>1. query.op = "build" /\ (query.at = "tip" \/ query.answer = "built") /\ query'.steady =>
          /\ query.seen = mined_at' /\ LockStands'
          /\ network \in {"bitcoin", "ethereum"} => tip' - mined_at' >= FinalityDepth
    BY Zenon, <1>7, <1>8, <1>9, <1>10, <1>11 DEF ProofStands, LockStands
  <2>2. network = "bitcoin" /\ ~query'.orphaned
          /\ (query.op = "validate" \/ (query.op = "build" /\ (query.at = "tip" \/ query.answer = "built")))
          => query.seen = mined_at' /\ mined_at' # 0
    BY Zenon, <1>10 DEF ProofStands, ChainMoves
  <2>3. network = "bitcoin" /\ query.op = "validate" /\ query'.steady
          /\ (query.at = "tip" \/ query.answer = "validated") => ~query'.orphaned
    BY Zenon, <1>10 DEF ProofStands, ChainMoves
  <2>4. query.op \notin {"build", "validate"} => ~query'.orphaned
    BY Zenon, <1>10 DEF ProofStands, ChainMoves
  <2>5. query.at = "idle" => query'.gap = 0
    BY Zenon, <1>10 DEF ProofStands, ChainMoves
  <2> QED
    BY Zenon, <1>8, <1>10, <2>1, <2>2, <2>3, <2>4, <2>5 DEF ProofStands
<1>6. ProofIsOnChain'
  <2>1. query.answer = "shallow" => ~query'.steady
    BY Zenon, <1>9, <1>10 DEF ProofIsOnChain
  <2>2. query.answer = "built" /\ query'.steady => query.height = mined_at'
    BY <1>9, <1>10 DEF ProofIsOnChain, ProofStands, LockStands
  <2>3. query.answer = "validated" /\ query'.steady =>
          /\ mined_at' # 0 /\ ~reverted
          /\ network = "bitcoin" =>
                query.height = mined_at' /\ tip' - mined_at' >= AdapterDepth
    BY Zenon, <1>7, <1>9, <1>10, <1>11 DEF ProofIsOnChain
  <2> QED
    BY Zenon, <1>8, <2>1, <2>2, <2>3 DEF ProofIsOnChain
<1> QED
  BY Zenon, <1>1, <1>2, <1>3, <1>4, <1>5, <1>6 DEF ConfirmationInv

(* A block is mined.                                                       *)
LEMMA MineMoves ==
    ASSUME ConfirmationInv, Mine
    PROVE  ChainMoves
<1>0. query \in Queries /\ tip \in Nat /\ mined_at \in Nat /\ mined_at <= tip
  BY DEF ConfirmationInv, ConfirmationTypes
<1>1. /\ query' \in Queries
      /\ query'.op = query.op /\ query'.at = query.at /\ query'.answer = query.answer
      /\ query'.seen = query.seen /\ query'.lock = query.lock /\ query'.height = query.height
      /\ query'.orphaned = query.orphaned /\ query'.steady = query.steady
      /\ query'.gap = IF query.at = "tip" THEN query.gap + 1 ELSE query.gap
  BY <1>0 DEF Mine, Queries
<1>2. tip' = tip + 1 /\ mined_at' \in Nat /\ mined_at' <= tip' /\ (mined_at # 0 => mined_at' = mined_at)
  BY <1>0 DEF Mine
<1> QED
  BY <1>0, <1>1, <1>2, QueryFields DEF Mine, ChainMoves

(* A reorganisation takes the lock's block off, or leaves it alone.        *)
LEMMA ReorganiseMoves ==
    ASSUME ConfirmationInv, Reorganise
    PROVE  ChainMoves
<1>0. query \in Queries /\ tip \in Nat /\ tip >= 1 /\ mined_at \in Nat /\ mined_at <= tip
  BY DEF ConfirmationInv, ConfirmationTypes
<1>1. PICK d \in 1 .. tip - 1 : \E t \in tip - d .. MaxTip :
         /\ tip' = t
         /\ mined_at' \in (IF mined_at > tip - d THEN {0} \cup (tip - d + 1 .. t) ELSE {mined_at})
         /\ query' = [query EXCEPT
                        !.steady = @ /\ mined_at <= tip - d /\ t >= tip,
                        !.orphaned = @ \/ (query.op \in {"build", "validate"}
                                            /\ query.seen > tip - d),
                        !.gap = IF query.at = "tip" THEN @ + saturating_depth(t, tip) ELSE @]
  BY Zenon DEF Reorganise
<1>6. PICK t \in tip - d .. MaxTip :
         /\ tip' = t
         /\ mined_at' \in (IF mined_at > tip - d THEN {0} \cup (tip - d + 1 .. t) ELSE {mined_at})
         /\ query' = [query EXCEPT
                        !.steady = @ /\ mined_at <= tip - d /\ t >= tip,
                        !.orphaned = @ \/ (query.op \in {"build", "validate"}
                                            /\ query.seen > tip - d),
                        !.gap = IF query.at = "tip" THEN @ + saturating_depth(t, tip) ELSE @]
  BY Zenon, <1>1
<1>2. t \in Nat /\ t >= 1 /\ tip - d \in Nat /\ tip - d <= t
  BY <1>0, <1>1, <1>6
<1>3. saturating_depth(t, tip) \in Nat /\ (t >= tip => saturating_depth(t, tip) = t - tip)
  BY <1>0, <1>2 DEF saturating_depth
<1> DEFINE stands == query.steady /\ mined_at <= tip - d /\ t >= tip
           lost == query.orphaned \/ (query.op \in {"build", "validate"} /\ query.seen > tip - d)
           mined == IF query.at = "tip" THEN query.gap + saturating_depth(t, tip) ELSE query.gap
<1>7. stands \in BOOLEAN /\ lost \in BOOLEAN /\ mined \in Nat
  BY <1>0, <1>3, QueryFields
<1>8. query' = [query EXCEPT !.steady = stands, !.orphaned = lost, !.gap = mined]
  BY <1>0, <1>6 DEF Queries
<1>4. /\ query' \in Queries
      /\ query'.op = query.op /\ query'.at = query.at /\ query'.answer = query.answer
      /\ query'.seen = query.seen /\ query'.lock = query.lock /\ query'.height = query.height
      /\ query'.steady = stands /\ query'.orphaned = lost /\ query'.gap = mined
  <2> HIDE DEF stands, lost, mined
  <2> QED
    BY Zenon, <1>0, <1>7, <1>8 DEF Queries
<1>5. mined_at' \in Nat /\ mined_at' <= t /\ (mined_at <= tip - d => mined_at' = mined_at)
  BY <1>0, <1>2, <1>6
<1>9. query'.steady => query.steady /\ mined_at <= tip - d /\ tip <= t
  BY Zenon, <1>0, <1>4
<1>10. /\ query.orphaned => query'.orphaned
       /\ query'.orphaned => query.orphaned \/ (query.op \in {"build", "validate"}
                                                  /\ query.seen > tip - d)
       /\ query.op \in {"build", "validate"} /\ query.seen > tip - d => query'.orphaned
  BY Zenon, <1>4
<1>11. query.gap <= mined /\ (query.at = "idle" => mined = query.gap)
       /\ (t >= tip /\ query.at = "tip" => mined = query.gap + (t - tip))
  BY <1>0, <1>3, QueryFields
<1>12. UNCHANGED <<network, reverted>> /\ tip' = t
  BY Zenon, <1>6 DEF Reorganise
<1>13. query.steady \in BOOLEAN /\ query.orphaned \in BOOLEAN /\ query.seen \in Nat
       /\ query'.orphaned \in BOOLEAN
  BY Zenon, <1>0, <1>4, QueryFields
<1> HIDE DEF stands, lost, mined
<1>14. query'.steady => /\ mined_at # 0 => mined_at' = mined_at
                        /\ query.at = "tip" => query'.gap = query.gap + (tip' - tip)
                        /\ query.seen = mined_at /\ mined_at # 0 => query'.orphaned = query.orphaned
  BY <1>0, <1>2, <1>4, <1>5, <1>9, <1>10, <1>11, <1>12, <1>13
<1>15. query.op \in {"build", "validate"} /\ query.seen = mined_at /\ mined_at # 0 /\ ~query'.orphaned
          => mined_at' = mined_at
  BY <1>0, <1>2, <1>5, <1>10
<1> QED
  BY Zenon, <1>2, <1>4, <1>5, <1>9, <1>10, <1>11, <1>12, <1>14, <1>15 DEF ChainMoves

(* Every call and every move of the chain.                                 *)
LEMMA ConfirmationInvNext ==
    ConfirmationInv /\ [ConfirmationNext]_confirmationVars => ConfirmationInv'
<1> SUFFICES ASSUME ConfirmationInv, [ConfirmationNext]_confirmationVars PROVE ConfirmationInv'
  BY Zenon
<1>1. ASSUME UNCHANGED confirmationVars PROVE ConfirmationInv'
  BY <1>1 DEF confirmationVars, ConfirmationInv, ConfirmationTypes, FirstReadStands, GateStands,
              ProofStands, FinalIsBuried, ProofIsOnChain, LockStands
<1> QED
  BY Zenon, <1>1, CallBeginKeeps, TxFinalityKeeps, ConfirmTxKeeps, BuildKeeps, BuildAtTipKeeps, ValidateKeeps,
     ValidateAtTipKeeps, ErrorOrResumeKeeps, MineMoves, ReorganiseMoves, ChainMovesKeep
     DEF ConfirmationNext

(* On every network, for any finality depth and any length of the chain:   *)
(* what tx_finality and confirm_tx found final is on the chain and as deep *)
(* as the code claims, unless a reorganisation came between the two reads. *)
THEOREM GateIsSound == ConfirmationSpec => []FinalIsBuried
BY ConfirmationInvInit, ConfirmationInvNext, PTL DEF ConfirmationSpec, ConfirmationInv

(* The same for the proof: build_inclusion_proof's depth check does not    *)
(* fail after the gate passed, the proof names the block of the            *)
(* transaction, and a validated proof's lock is still on the chain.        *)
THEOREM ProofsAreSound == ConfirmationSpec => []ProofIsOnChain
BY ConfirmationInvInit, ConfirmationInvNext, PTL DEF ConfirmationSpec, ConfirmationInv

-----------------------------------------------------------------------------
(* The operations on a sanad.                                              *)

BroadcastTxs == [status : {"pending", "ok", "failed", "spent"}, input : Inputs]

OperationCalls ==
    [at : {"idle", "send", "state", "seal", "record", "submit", "sign", "event", "in_use", "wait",
           "slot", "answered"},
     tx : Nat, tries : Nat, polls : Nat, input : Inputs, late : BOOLEAN, troubled : BOOLEAN,
     answer : Nat]

OperationTypes ==
    /\ txs \in Seq(BroadcastTxs)
    /\ effect \in 0 .. Len(txs)
    /\ calls \in [Submitters -> OperationCalls]
    /\ \A c \in Submitters : calls[c].tx \in 0 .. Len(txs)

(* The operations that answer without waiting for their transaction.       *)
Unwaited == is("solana", "lock") \/ is("solana", "consume") \/ is("sui", "consume")

(* One transaction has landed at most, the one that took effect.           *)
OneEffect ==
    \A t \in 1 .. Len(txs) : txs[t].status \in {"ok", "spent"} <=> t = effect

\* Only Solana's mint compares inputs, and only there do they differ.
OneInput ==
    ~is("solana", "mint") =>
        /\ \A t \in 1 .. Len(txs) : txs[t].input = "i1"
        /\ \A c \in Submitters : calls[c].input = "i1"

(* Where a call is, and what it then knows.                                *)
CallKnows(c) ==
    /\ calls[c].at = "wait" =>
          calls[c].tx # 0 /\ txs[calls[c].tx].input = calls[c].input
    /\ calls[c].at = "event" => effect # 0
    /\ calls[c].at = "sign" => is("sui", "consume")
    /\ calls[c].at \in {"state", "event"} => is("ethereum", "lock")
    /\ calls[c].at \in {"record", "in_use"} => is("solana", "mint")
    /\ calls[c].at = "slot" => adapter = "solana"
    /\ calls[c].at = "slot" /\ ~Unwaited =>
          calls[c].tx = effect /\ effect # 0 /\ txs[effect].input = calls[c].input
    /\ calls[c].answer # 0 => calls[c].at = "answered"
    /\ calls[c].answer # 0 /\ ~Unwaited =>
          calls[c].answer = effect /\ txs[effect].input = calls[c].input

(* A call that began after the effect and met no trouble has sent nothing. *)
Recovers(c) ==
    calls[c].late =>
        /\ effect # 0
        /\ is("ethereum", "lock") /\ ~calls[c].troubled =>
              /\ calls[c].at \in {"state", "event", "answered"}
              /\ calls[c].tx = 0
              /\ calls[c].at = "answered" =>
                    calls[c].answer = effect \/ txs[effect].status = "spent"
        /\ is("solana", "mint") /\ ~calls[c].troubled =>
              /\ calls[c].at \in {"record", "slot", "answered"}
              /\ calls[c].tx \in {0, effect}
              /\ calls[c].at = "answered" =>
                    calls[c].answer = effect \/ txs[effect].input # calls[c].input

OperationsInv ==
    /\ OperationTypes /\ OneEffect /\ OneInput
    /\ \A c \in Submitters : CallKnows(c) /\ Recovers(c)

(* Nothing is called or broadcast.                                         *)
LEMMA OperationsInvInit == OperationsInit => OperationsInv
BY DEF OperationsInit, OperationsInv, OperationTypes, OneEffect, OneInput, CallKnows, Recovers,
       NoOperation, OperationCalls, Inputs

(* A step of one call, which becomes r and may broadcast its transaction.  *)
CallBecomes(c, r) ==
    /\ calls' = [calls EXCEPT ![c] = r]
    /\ r \in OperationCalls /\ r.tx \in 0 .. Len(txs')
    /\ ~is("solana", "mint") => r.input = "i1"
    /\ txs' = txs \/ Broadcast(c)
    /\ UNCHANGED <<adapter, operation, effect>>

(* The transactions of old stay as they are.                               *)
LEMMA TxsGrow ==
    ASSUME OperationsInv, NEW c \in Submitters, txs' = txs \/ Broadcast(c)
    PROVE  /\ txs' \in Seq(BroadcastTxs) /\ Len(txs') \in Nat /\ Len(txs) \in Nat
           /\ Len(txs) <= Len(txs')
           /\ \A t \in 1 .. Len(txs) : txs'[t] = txs[t]
           /\ \A t \in 1 .. Len(txs') : t \notin 1 .. Len(txs) =>
                 txs'[t].status = "pending" /\ txs'[t].input = calls[c].input
<1>1. txs \in Seq(BroadcastTxs) /\ calls[c].input \in Inputs
  BY Zenon DEF OperationsInv, OperationTypes, OperationCalls
<1>2. CASE txs' = txs
  BY <1>1, <1>2
<1>3. CASE Broadcast(c)
  <2> DEFINE new == [status |-> "pending", input |-> calls[c].input]
  <2>1. new \in BroadcastTxs /\ txs' = Append(txs, new)
    BY Zenon, <1>1, <1>3 DEF Broadcast, BroadcastTxs
  <2>2. new.status = "pending" /\ new.input = calls[c].input
    OBVIOUS
  <2> HIDE DEF new
  <2> QED
    BY <1>1, <2>1, <2>2
<1> QED
  BY Zenon, <1>2, <1>3

(* What took effect, and what a call noted, stay where they are.           *)
LEMMA OldTxsStay ==
    ASSUME OperationsInv, NEW c \in Submitters, txs' = txs \/ Broadcast(c)
    PROVE  /\ effect # 0 => txs'[effect] = txs[effect]
           /\ \A t \in 0 .. Len(txs) : t \in 0 .. Len(txs')
<1>1. effect \in 0 .. Len(txs)
  BY DEF OperationsInv, OperationTypes
<1>2. /\ Len(txs') \in Nat /\ Len(txs) \in Nat /\ Len(txs) <= Len(txs')
      /\ \A t \in 1 .. Len(txs) : txs'[t] = txs[t]
  BY Zenon, TxsGrow
<1>3. effect # 0 => effect \in 1 .. Len(txs)
  BY <1>1, <1>2
<1>4. \A t \in 0 .. Len(txs) : t \in 0 .. Len(txs')
  BY <1>2
<1> QED
  BY Zenon, <1>2, <1>3, <1>4

(* The other calls keep what they know, since no transaction of old        *)
(* changes.                                                                *)
LEMMA OneCallMoves ==
    ASSUME OperationsInv, NEW c \in Submitters, NEW r, CallBecomes(c, r),
           CallKnows(c)', Recovers(c)'
    PROVE  OperationsInv'
<1>0. txs' = txs \/ Broadcast(c)
  BY Zenon DEF CallBecomes
<1>1. \A d \in Submitters : d # c => calls'[d] = calls[d]
  BY Zenon DEF OperationsInv, OperationTypes, CallBecomes
<1>2. calls'[c] = r
  BY Zenon DEF OperationsInv, OperationTypes, CallBecomes
<1>3. OperationTypes'
  <2>1. calls' \in [Submitters -> OperationCalls]
    BY Zenon DEF OperationsInv, OperationTypes, CallBecomes
  <2>2. \A d \in Submitters : calls'[d].tx \in 0 .. Len(txs')
    BY <1>0, <1>1, <1>2, TxsGrow DEF OperationsInv, OperationTypes, CallBecomes
  <2> QED
    BY <1>0, <2>1, <2>2, TxsGrow DEF OperationsInv, OperationTypes, CallBecomes
<1>4. OneEffect'
  BY <1>0, TxsGrow DEF OperationsInv, OperationTypes, OneEffect, CallBecomes
<1>5. OneInput'
  BY <1>0, <1>1, <1>2, TxsGrow DEF OperationsInv, OneInput, CallBecomes, is
<1>6. ASSUME NEW d \in Submitters, d # c PROVE CallKnows(d)' /\ Recovers(d)'
  <2>1. calls'[d] = calls[d] /\ UNCHANGED <<adapter, operation, effect>>
    BY Zenon, <1>1, <1>6 DEF CallBecomes
  <2>2. effect # 0 => txs'[effect] = txs[effect]
    BY <1>0, TxsGrow DEF OperationsInv, OperationTypes
  <2>3. calls[d].tx # 0 => txs'[calls[d].tx] = txs[calls[d].tx]
    BY <1>0, TxsGrow DEF OperationsInv, OperationTypes
  <2>4. CallKnows(d)'
    BY <2>1, <2>2, <2>3 DEF OperationsInv, OperationTypes, OperationCalls, CallKnows, is, Unwaited
  <2>5. Recovers(d)'
    BY <2>1, <2>2 DEF OperationsInv, Recovers, is
  <2> QED
    BY Zenon, <2>4, <2>5
<1> QED
  BY Zenon, <1>3, <1>4, <1>5, <1>6 DEF OperationsInv

(* The entry of an operation.                                              *)
LEMMA BeginKeeps ==
    ASSUME OperationsInv, NEW c \in Submitters, NEW at, Begin(c, at),
           at \in {"send", "state", "seal", "record", "submit", "sign"},
           at = "state" <=> is("ethereum", "lock"),
           at = "record" <=> is("solana", "mint"),
           at = "sign" => is("sui", "consume")
    PROVE  OperationsInv'
<1>1. PICK i \in Inputs : /\ calls' = [calls EXCEPT ![c] = [NoOperation EXCEPT !.at = at, !.input = i,
                                                      !.late = effect # 0]]
                          /\ ~is("solana", "mint") => i = "i1"
  BY Zenon DEF Begin, Inputs
<1> DEFINE r == [NoOperation EXCEPT !.at = at, !.input = i, !.late = effect # 0]
<1>2. /\ r \in OperationCalls /\ r.at = at /\ r.tx = 0 /\ r.input = i /\ r.answer = 0
      /\ r.late = (effect # 0) /\ r.troubled = FALSE
  BY Zenon DEF NoOperation, OperationCalls
<1>3. calls' = [calls EXCEPT ![c] = r] /\ UNCHANGED <<adapter, operation, txs, effect>>
  BY Zenon, <1>1 DEF Begin
<1> HIDE DEF r
<1>4. CallBecomes(c, r)
  <2>1. Len(txs') \in Nat /\ r.tx \in 0 .. Len(txs')
    BY <1>2, <1>3 DEF OperationsInv, OperationTypes
  <2> QED
    BY Zenon, <1>1, <1>2, <1>3, <2>1 DEF CallBecomes
<1>5. calls'[c] = r
  BY Zenon, <1>3 DEF OperationsInv, OperationTypes
<1>6. CallKnows(c)'
  BY Zenon, <1>2, <1>3, <1>5 DEF CallKnows, is, Unwaited
<1>7. Recovers(c)'
  BY Zenon, <1>2, <1>3, <1>5 DEF Recovers, is
<1> QED
  BY Zenon, <1>4, <1>6, <1>7, OneCallMoves

(* A call in progress: it goes to another place, or it answers.            *)
LEMMA MovesKeep ==
    ASSUME OperationsInv, NEW c \in Submitters, NEW r \in OperationCalls,
           calls' = [calls EXCEPT ![c] = r], r.tx \in 0 .. Len(txs'),
           r.input = calls[c].input, r.late = calls[c].late,
           txs' = txs \/ Broadcast(c), UNCHANGED <<adapter, operation, effect>>,
           CallKnows(c)', Recovers(c)'
    PROVE  OperationsInv'
<1>1. ~is("solana", "mint") => r.input = "i1"
  BY Zenon DEF OperationsInv, OneInput
<1>2. CallBecomes(c, r)
  BY <1>1 DEF CallBecomes
<1> QED
  BY Zenon, <1>2, OneCallMoves

(* An error ends a call; without trouble on the way, only for a reason.    *)
LEMMA ErrorKeeps ==
    ASSUME OperationsInv, NEW c \in Submitters, calls[c].at \notin {"idle", "answered"},
           UNCHANGED <<adapter, operation, effect>>, txs' = txs \/ Broadcast(c),
           \/ RpcErr(c)
           \/ /\ Err(c)
              /\ calls[c].late /\ ~calls[c].troubled /\ is("ethereum", "lock") =>
                    txs[effect].status = "spent"
              /\ calls[c].late /\ ~calls[c].troubled /\ is("solana", "mint") =>
                    txs[effect].input # calls[c].input
    PROVE  OperationsInv'
<1>1. calls[c] \in OperationCalls /\ calls[c].tx \in 0 .. Len(txs)
  BY DEF OperationsInv, OperationTypes
<1>2. PICK b \in BOOLEAN :
         /\ calls' = [calls EXCEPT ![c] = [calls[c] EXCEPT !.at = "answered", !.troubled = b]]
         /\ calls[c].troubled => b
         /\ ~b => /\ calls[c].late /\ is("ethereum", "lock") => txs[effect].status = "spent"
                  /\ calls[c].late /\ is("solana", "mint") => txs[effect].input # calls[c].input
  <2>1. CASE RpcErr(c)
    BY ZenonT(30), <1>1, <2>1 DEF RpcErr
  <2>2. CASE Err(c) /\ ~RpcErr(c)
    <3>1. [calls[c] EXCEPT !.at = "answered", !.troubled = calls[c].troubled] =
             [calls[c] EXCEPT !.at = "answered"]
      BY Zenon, <1>1 DEF OperationCalls
    <3>2. calls[c].troubled \in BOOLEAN
      BY <1>1 DEF OperationCalls
    <3> QED
      BY Zenon, <2>2, <3>1, <3>2 DEF Err
  <2> QED
    BY ZenonT(30), <2>1, <2>2
<1> DEFINE r == [calls[c] EXCEPT !.at = "answered", !.troubled = b]
<1>3. /\ r \in OperationCalls /\ r.at = "answered" /\ r.troubled = b /\ r.tx = calls[c].tx
      /\ r.input = calls[c].input /\ r.late = calls[c].late /\ r.answer = calls[c].answer
  BY ZenonT(30), <1>1 DEF OperationCalls
<1>4. calls' = [calls EXCEPT ![c] = r]
  BY Zenon, <1>2
<1> HIDE DEF r
<1>5. calls'[c] = r
  BY Zenon, <1>4 DEF OperationsInv, OperationTypes
<1>6. r.answer = 0 /\ r.tx \in 0 .. Len(txs')
  BY <1>1, <1>3, TxsGrow DEF OperationsInv, CallKnows
<1>7. CallKnows(c)'
  BY ZenonT(30), <1>3, <1>5, <1>6 DEF CallKnows
<1>8. effect # 0 => txs'[effect] = txs[effect]
  BY Zenon, OldTxsStay
<1>9. Recovers(c)'
  BY <1>2, <1>3, <1>5, <1>8 DEF OperationsInv, Recovers, is
<1> QED
  BY ZenonT(30), <1>3, <1>4, <1>6, <1>7, <1>9, MovesKeep

(* An Ok names the effect, except where the adapter does not wait for it.  *)
LEMMA OkKeeps ==
    ASSUME OperationsInv, NEW c \in Submitters, NEW t \in Nat, Ok(c, t),
           calls[c].at \notin {"idle", "answered"},
           UNCHANGED <<adapter, operation, effect>>, txs' = txs \/ Broadcast(c),
           Unwaited \/ (t = effect /\ effect # 0 /\ txs[effect].input = calls[c].input)
    PROVE  OperationsInv'
<1>1. calls[c] \in OperationCalls /\ calls[c].tx \in 0 .. Len(txs)
  BY Zenon DEF OperationsInv, OperationTypes
<1> DEFINE r == [calls[c] EXCEPT !.at = "answered", !.answer = t]
<1>3. /\ r \in OperationCalls /\ r.at = "answered" /\ r.troubled = calls[c].troubled
      /\ r.tx = calls[c].tx /\ r.input = calls[c].input /\ r.late = calls[c].late /\ r.answer = t
  BY Zenon, <1>1 DEF OperationCalls
<1>4. calls' = [calls EXCEPT ![c] = r]
  BY ZenonT(30) DEF Ok
<1> HIDE DEF r
<1>5. calls'[c] = r
  BY <1>4 DEF OperationsInv, OperationTypes
<1>6. r.tx \in 0 .. Len(txs')
  BY <1>1, <1>3, OldTxsStay, Zenon
<1>8. effect # 0 => txs'[effect] = txs[effect]
  BY Zenon, OldTxsStay
<1>7. CallKnows(c)'
  BY Zenon, <1>3, <1>5, <1>8 DEF CallKnows, Unwaited, is
<1>9. Recovers(c)'
  BY ZenonT(30), <1>3, <1>5, <1>8 DEF OperationsInv, Recovers, is, Unwaited
<1> QED
  BY Zenon, <1>3, <1>4, <1>6, <1>7, <1>9, MovesKeep

(* A call that is still in progress, or about to end.                      *)
Onward(c, at, tx, b) ==
    \E r \in OperationCalls :
        /\ calls' = [calls EXCEPT ![c] = r]
        /\ r.at = at /\ r.troubled = b /\ r.tx = tx /\ r.input = calls[c].input
        /\ r.late = calls[c].late /\ r.answer = calls[c].answer

(* A call goes on, with the transaction it has or with another one.        *)
LEMMA GoesOn ==
    ASSUME OperationsInv, NEW c \in Submitters, calls[c].at \notin {"idle", "answered"},
           NEW at \in {"send", "event", "in_use", "wait", "slot"},
           NEW tx \in 0 .. Len(txs'), NEW b \in BOOLEAN, calls[c].troubled => b,
           Onward(c, at, tx, b),
           UNCHANGED <<adapter, operation, effect>>, txs' = txs \/ Broadcast(c),
           at = "event" => effect # 0 /\ is("ethereum", "lock") /\ tx = calls[c].tx,
           at = "in_use" => is("solana", "mint"),
           at = "wait" => tx # 0 /\ txs'[tx].input = calls[c].input,
           at = "slot" => adapter = "solana",
           at = "slot" /\ ~Unwaited =>
               tx = effect /\ effect # 0 /\ txs[effect].input = calls[c].input,
           at \in {"send", "in_use", "wait"} /\ (is("ethereum", "lock") \/ is("solana", "mint")) =>
               ~calls[c].late \/ b
    PROVE  OperationsInv'
<1>1. calls[c] \in OperationCalls
  BY DEF OperationsInv, OperationTypes
<1>3. PICK r \in OperationCalls :
        /\ calls' = [calls EXCEPT ![c] = r]
        /\ r.at = at /\ r.troubled = b /\ r.tx = tx /\ r.input = calls[c].input
        /\ r.late = calls[c].late /\ r.answer = calls[c].answer
  BY Zenon DEF Onward
<1>5. calls'[c] = r
  BY Zenon, <1>3 DEF OperationsInv, OperationTypes
<1>6. r.answer = 0
  BY <1>1, <1>3 DEF OperationsInv, CallKnows
<1>7. effect # 0 => txs'[effect] = txs[effect]
  BY Zenon, OldTxsStay
<1>8. CallKnows(c)'
  BY Zenon, <1>3, <1>5, <1>6, <1>7 DEF CallKnows, Unwaited, is
<1>9. Recovers(c)'
  BY Zenon, <1>3, <1>5, <1>7 DEF OperationsInv, Recovers, is, Unwaited
<1> QED
  BY Zenon, <1>3, <1>8, <1>9, MovesKeep

(* A send or a poll that is tried again.                                   *)
LEMMA TriesAgain ==
    ASSUME OperationsInv, NEW c \in Submitters, calls[c].at \notin {"idle", "answered"},
           UNCHANGED <<adapter, operation, effect, txs>>,
           \/ calls' = [calls EXCEPT ![c].tries = @ + 1]
           \/ calls' = [calls EXCEPT ![c].polls = @ + 1]
    PROVE  OperationsInv'
<1>1. calls[c] \in OperationCalls /\ calls[c].tx \in 0 .. Len(txs)
  BY Zenon DEF OperationsInv, OperationTypes
<1>2. PICK r \in OperationCalls :
         /\ calls' = [calls EXCEPT ![c] = r]
         /\ r.at = calls[c].at /\ r.troubled = calls[c].troubled
         /\ r.tx = calls[c].tx /\ r.input = calls[c].input /\ r.late = calls[c].late
         /\ r.answer = calls[c].answer
  <2>1. CASE calls' = [calls EXCEPT ![c].tries = @ + 1]
    <3> DEFINE r == [calls[c] EXCEPT !.tries = @ + 1]
    <3>1. r \in OperationCalls /\ calls' = [calls EXCEPT ![c] = r]
      BY <1>1, <2>1 DEF OperationCalls
    <3> QED
      BY Zenon, <1>1, <3>1 DEF OperationCalls
  <2>2. CASE calls' = [calls EXCEPT ![c].polls = @ + 1]
    <3> DEFINE r == [calls[c] EXCEPT !.polls = @ + 1]
    <3>1. r \in OperationCalls /\ calls' = [calls EXCEPT ![c] = r]
      BY <1>1, <2>2 DEF OperationCalls
    <3> QED
      BY Zenon, <1>1, <3>1 DEF OperationCalls
  <2> QED
    BY <2>1, <2>2
<1>3. calls'[c] = r
  BY <1>2 DEF OperationsInv, OperationTypes
<1>4. CallKnows(c)'
  BY <1>2, <1>3 DEF OperationsInv, CallKnows, Unwaited, is
<1>5. Recovers(c)'
  BY Zenon, <1>2, <1>3 DEF OperationsInv, Recovers, is
<1> QED
  BY Zenon, <1>1, <1>2, <1>4, <1>5, MovesKeep

(* Goto changes the place of a call.                                       *)
LEMMA GotoIs ==
    ASSUME OperationsInv, NEW c \in Submitters,
           NEW at \in {"send", "event", "in_use", "wait", "slot"}, Goto(c, at)
    PROVE  /\ Onward(c, at, calls[c].tx, calls[c].troubled)
           /\ calls[c].troubled \in BOOLEAN /\ calls[c].tx \in 0 .. Len(txs)
<1>1. calls[c] \in OperationCalls /\ calls[c].tx \in 0 .. Len(txs)
  BY DEF OperationsInv, OperationTypes
<1> DEFINE r == [calls[c] EXCEPT !.at = at]
<1>2. r \in OperationCalls /\ calls' = [calls EXCEPT ![c] = r]
  BY Zenon, <1>1 DEF OperationCalls, Goto
<1>3. /\ r.at = at /\ r.troubled = calls[c].troubled /\ r.tx = calls[c].tx
      /\ r.input = calls[c].input /\ r.late = calls[c].late /\ r.answer = calls[c].answer
      /\ calls[c].troubled \in BOOLEAN
  BY <1>1 DEF OperationCalls
<1> HIDE DEF r
<1> QED
  BY Zenon, <1>1, <1>2, <1>3 DEF Onward

(* A call goes to another place and does nothing else.                     *)
LEMMA GotoKeeps ==
    ASSUME OperationsInv, NEW c \in Submitters, calls[c].at \notin {"idle", "answered"},
           NEW at \in {"send", "event", "in_use", "slot"}, Goto(c, at),
           UNCHANGED <<adapter, operation, txs, effect>>,
           at = "event" => effect # 0 /\ is("ethereum", "lock"),
           at = "in_use" => is("solana", "mint"),
           at = "slot" => adapter = "solana",
           at = "slot" /\ ~Unwaited =>
               calls[c].tx = effect /\ effect # 0 /\ txs[effect].input = calls[c].input,
           at \in {"send", "in_use"} /\ (is("ethereum", "lock") \/ is("solana", "mint")) =>
               ~calls[c].late \/ calls[c].troubled
    PROVE  OperationsInv'
<1>1. /\ Onward(c, at, calls[c].tx, calls[c].troubled)
      /\ calls[c].troubled \in BOOLEAN /\ calls[c].tx \in 0 .. Len(txs)
  BY Zenon, GotoIs
<1>2. /\ at # "wait" /\ txs' = txs /\ calls[c].tx \in 0 .. Len(txs')
  BY Zenon, <1>1
<1>3. at \in {"send", "event", "in_use", "wait", "slot"}
      /\ (at \in {"send", "in_use", "wait"} => at \in {"send", "in_use"})
  BY Zenon
<1> QED
  BY ZenonT(30), <1>1, <1>2, <1>3, GoesOn

(* A call takes note of a transaction.                                     *)
LEMMA TxTaken ==
    ASSUME NEW q \in OperationCalls, NEW at \in {"wait", "slot"}, NEW n \in Nat
    PROVE  [q EXCEPT !.at = at, !.tx = n] \in OperationCalls
<1>1. [q EXCEPT !.at = at] \in OperationCalls
  BY DEF OperationCalls
<1>2. ASSUME NEW p \in OperationCalls PROVE [p EXCEPT !.tx = n] \in OperationCalls
  BY Zenon DEF OperationCalls
<1> QED
  BY <1>1, <1>2, Zenon

(* A transaction of the call's own is broadcast.                           *)
LEMMA AcceptedKeeps ==
    ASSUME OperationsInv, NEW c \in Submitters, calls[c].at \in {"send", "submit"},
           NEW at \in {"wait", "slot"}, TxAccepted(c, at),
           UNCHANGED <<adapter, operation, effect>>,
           at = "slot" => is("solana", "lock")
    PROVE  OperationsInv'
<1>1. calls[c] \in OperationCalls /\ txs \in Seq(BroadcastTxs)
  BY DEF OperationsInv, OperationTypes
<1>2. Broadcast(c) /\ calls' = [calls EXCEPT ![c].at = at, ![c].tx = Len(txs) + 1]
  BY DEF TxAccepted
<1>3. Len(txs') = Len(txs) + 1 /\ Len(txs) \in Nat
  BY <1>1, <1>2 DEF Broadcast
<1>4. txs'[Len(txs) + 1].input = calls[c].input
  BY <1>2, <1>3, TxsGrow
<1> DEFINE r == [calls[c] EXCEPT !.at = at, !.tx = Len(txs) + 1]
<1>5. r \in OperationCalls /\ calls' = [calls EXCEPT ![c] = r]
  <2>1. r \in OperationCalls
    <3>1. Len(txs) + 1 \in Nat
      BY <1>3
    <3> QED
      BY <1>1, <3>1, TxTaken, Zenon
  <2>2. calls \in [Submitters -> OperationCalls]
    BY DEF OperationsInv, OperationTypes
  <2>3. calls' = [calls EXCEPT ![c] = r]
    BY Zenon, <1>2, <2>2
  <2> QED
    BY <2>1, <2>3
<1>51. /\ r.at = at /\ r.troubled = calls[c].troubled /\ r.tx = Len(txs) + 1
       /\ r.input = calls[c].input /\ r.late = calls[c].late /\ r.answer = calls[c].answer
  BY <1>1 DEF OperationCalls
<1> HIDE DEF r
<1>6. Onward(c, at, Len(txs) + 1, calls[c].troubled)
  BY ZenonT(30), <1>5, <1>51 DEF Onward
<1>7. calls[c].troubled \in BOOLEAN /\ Len(txs) + 1 \in 0 .. Len(txs')
  BY <1>1, <1>3 DEF OperationCalls
<1>8. (is("ethereum", "lock") \/ is("solana", "mint")) => ~calls[c].late \/ calls[c].troubled
  BY Zenon DEF OperationsInv, Recovers
<1> QED
  BY <1>2, <1>3, <1>4, <1>6, <1>7, <1>8, GoesOn DEF Unwaited, is

(* The three outcomes of a send.                                           *)
LEMMA SendKeeps ==
    ASSUME OperationsInv, NEW c \in Submitters, calls[c].at \in {"send", "submit"},
           UNCHANGED <<adapter, operation, effect>>,
           TxAccepted(c, "wait") \/ SendAgain(c) \/ SendFails(c)
    PROVE  OperationsInv'
<1>1. CASE TxAccepted(c, "wait")
  BY Zenon, <1>1, AcceptedKeeps
<1>2. CASE SendAgain(c)
  BY Zenon, <1>2, TriesAgain, ErrorKeeps DEF SendAgain
<1>3. CASE SendFails(c)
  BY Zenon, <1>3, ErrorKeeps DEF SendFails
<1> QED
  BY Zenon, <1>1, <1>2, <1>3

(* What a call that waits learns of its transaction.                       *)
LEMMA LandedIsEffect ==
    ASSUME OperationsInv, NEW c \in Submitters, calls[c].at = "wait", Landed(c)
    PROVE  calls[c].tx = effect /\ effect # 0 /\ txs[effect].input = calls[c].input
<1>1. calls[c].tx \in 1 .. Len(txs) /\ txs[calls[c].tx].input = calls[c].input
  BY DEF OperationsInv, OperationTypes, CallKnows
<1> QED
  BY <1>1 DEF OperationsInv, OneEffect, Landed, Status

(* What a call that waits for its transaction does.                        *)
LEMMA WaitKeeps ==
    ASSUME OperationsInv, NEW c \in Submitters, calls[c].at = "wait",
           UNCHANGED <<adapter, operation, txs, effect>>,
           \/ Landed(c) /\ Ok(c, calls[c].tx)
           \/ Err(c) \/ RpcErr(c)
           \/ PollAgain(c)
    PROVE  OperationsInv'
<1>1. CASE Landed(c) /\ Ok(c, calls[c].tx)
  <2>1. calls[c].tx \in Nat
    BY DEF OperationsInv, OperationTypes
  <2> QED
    BY Zenon, <1>1, <2>1, LandedIsEffect, OkKeeps
<1>2. CASE Err(c)
  BY ZenonT(30), <1>2, ErrorKeeps DEF OperationsInv, Recovers
<1>3. CASE RpcErr(c)
  BY Zenon, <1>3, ErrorKeeps
<1>4. CASE PollAgain(c)
  BY Zenon, <1>3, <1>4, TriesAgain DEF PollAgain
<1> QED
  BY Zenon, <1>1, <1>2, <1>3, <1>4

(* The reads of the chain before a send, and the slot after it.            *)
LEMMA ReadsKeep ==
    ASSUME OperationsInv, NEW c \in Submitters,
           \/ sui_sign(c) \/ read_sanad_state_byte(c) \/ find_sanad_locked_event(c)
           \/ resolve_seal(c) \/ get_latest_slot(c)
    PROVE  OperationsInv'
<1>0. UNCHANGED <<adapter, operation, txs, effect>>
  BY Zenon DEF sui_sign, read_sanad_state_byte, find_sanad_locked_event, resolve_seal, get_latest_slot
<1>1. CASE sui_sign(c)
  <2>1. calls[c].at = "sign" /\ Unwaited /\ NoSuchTx \in Nat
    BY <1>1, OperationsAssumption DEF sui_sign, OperationsInv, CallKnows, Unwaited, NoSuchTx
  <2>2. CASE Ok(c, NoSuchTx)
    BY Zenon, <1>0, <2>1, <2>2, OkKeeps
  <2>3. CASE RpcErr(c)
    BY Zenon, <1>0, <2>1, <2>3, ErrorKeeps
  <2> QED
    BY Zenon, <1>1, <2>2, <2>3 DEF sui_sign
<1>2. CASE read_sanad_state_byte(c)
  <2>1. is("ethereum", "lock") /\ calls[c].at = "state" /\ ~is("solana", "mint")
    BY ZenonT(30), <1>2 DEF read_sanad_state_byte, OperationsInv, CallKnows, is
  <2>2. CASE effect = 0 /\ Goto(c, "send")
    <3>1. ~calls[c].late
      BY <2>2 DEF OperationsInv, Recovers
    <3> QED
      BY ZenonT(30), <1>0, <2>1, <2>2, <3>1, GotoKeeps
  <2>3. CASE effect # 0 /\ Goto(c, "event")
    BY ZenonT(30), <1>0, <2>1, <2>3, GotoKeeps
  <2>4. CASE txs[effect].status = "spent" /\ Err(c)
    BY Zenon, <1>0, <2>1, <2>4, ErrorKeeps
  <2>5. CASE RpcErr(c)
    BY Zenon, <1>0, <2>1, <2>5, ErrorKeeps
  <2> QED
    BY Zenon, <1>2, <2>2, <2>3, <2>4, <2>5 DEF read_sanad_state_byte
<1>3. CASE find_sanad_locked_event(c)
  <2>1. /\ is("ethereum", "lock") /\ ~is("solana", "mint") /\ calls[c].at = "event"
        /\ effect # 0 /\ effect \in 1 .. Len(txs) /\ effect \in Nat
    BY <1>3 DEF find_sanad_locked_event, OperationsInv, OperationTypes, CallKnows, is
  <2>2. txs[effect].input = calls[c].input
    BY <2>1 DEF OperationsInv, OneInput
  <2> QED
    BY Zenon, <1>0, <1>3, <2>1, <2>2, OkKeeps, ErrorKeeps DEF find_sanad_locked_event
<1>4. CASE resolve_seal(c)
  <2>1. calls[c].at = "seal"
    BY Zenon, <1>4 DEF resolve_seal
  <2>2. is("ethereum", "lock") \/ is("solana", "mint") => ~calls[c].late \/ calls[c].troubled
    BY Zenon, <2>1 DEF OperationsInv, Recovers
  <2>3. CASE Goto(c, "send")
    BY ZenonT(30), <1>0, <2>1, <2>2, <2>3, GotoKeeps
  <2> QED
    BY ZenonT(30), <1>0, <1>4, <2>1, <2>2, <2>3, ErrorKeeps DEF resolve_seal
<1>5. CASE get_latest_slot(c)
  <2>1. calls[c].at = "slot" /\ calls[c].tx \in Nat
    BY <1>5 DEF get_latest_slot, OperationsInv, OperationTypes
  <2>2. Unwaited \/ (calls[c].tx = effect /\ effect # 0 /\ txs[effect].input = calls[c].input)
    BY Zenon, <2>1 DEF OperationsInv, CallKnows
  <2> QED
    BY ZenonT(30), <1>0, <1>5, <2>1, <2>2, OkKeeps, ErrorKeeps DEF get_latest_slot
<1> QED
  BY Zenon, <1>1, <1>2, <1>3, <1>4, <1>5

(* Solana's mint record: no record sends a call on, a record of the same   *)
(* inputs is the effect.                                                   *)
LEMMA RecordKeeps ==
    ASSUME OperationsInv, NEW c \in Submitters, idempotent_existing_mint(c)
    PROVE  OperationsInv'
<1>0. /\ UNCHANGED <<adapter, operation, txs, effect>> /\ is("solana", "mint")
      /\ ~is("ethereum", "lock") /\ ~Unwaited /\ adapter = "solana"
      /\ calls[c].at \in {"record", "in_use"}
  BY Zenon DEF idempotent_existing_mint, OperationsInv, CallKnows, is, Unwaited
<1>1. calls[c] \in OperationCalls /\ calls[c].troubled \in BOOLEAN
      /\ calls[c].tx \in 0 .. Len(txs) /\ effect \in 0 .. Len(txs)
  BY Zenon DEF OperationsInv, OperationTypes, OperationCalls
<1>2. ASSUME NEW b \in BOOLEAN, b \/ effect = 0,
             calls' = [calls EXCEPT ![c].troubled = @ \/ b,
                                    ![c].at = IF @ = "record" THEN "send" ELSE "answered"]
      PROVE  OperationsInv'
  <2> DEFINE n == calls[c].troubled \/ b
  <2>1. n \in BOOLEAN /\ (calls[c].troubled => n) /\ (~calls[c].late \/ n)
    BY Zenon, <1>0, <1>1, <1>2 DEF OperationsInv, Recovers
  <2>2. CASE calls[c].at = "record"
    <3>1. calls' = [calls EXCEPT ![c] = [calls[c] EXCEPT !.troubled = n, !.at = "send"]]
      BY Zenon, <1>1, <1>2, <2>2 DEF OperationCalls
    <3> HIDE DEF n
    <3> DEFINE r == [calls[c] EXCEPT !.troubled = n, !.at = "send"]
    <3>2. r \in OperationCalls
      BY Zenon, <1>1, <2>1 DEF OperationCalls
    <3>3. /\ r.at = "send" /\ r.troubled = n /\ r.tx = calls[c].tx
          /\ r.input = calls[c].input /\ r.late = calls[c].late /\ r.answer = calls[c].answer
      BY <1>1 DEF OperationCalls
    <3> HIDE DEF r
    <3>4. Onward(c, "send", calls[c].tx, n)
      BY Zenon, <3>1, <3>2, <3>3 DEF Onward, r
    <3> QED
      BY Zenon, <1>0, <1>1, <2>1, <2>2, <3>4, GoesOn
  <2>3. CASE calls[c].at = "in_use"
    <3>1. CASE n
      <4>1. [calls[c] EXCEPT !.troubled = n, !.at = "answered"] =
               [calls[c] EXCEPT !.at = "answered", !.troubled = TRUE]
        BY Zenon, <1>1, <2>1, <3>1 DEF OperationCalls
      <4>2. calls' = [calls EXCEPT ![c] = [calls[c] EXCEPT !.troubled = n, !.at = "answered"]]
        BY Zenon, <1>1, <1>2, <2>3 DEF OperationCalls
      <4>3. RpcErr(c)
        BY Zenon, <4>1, <4>2 DEF RpcErr
      <4> QED
        BY Zenon, <1>0, <4>3, ErrorKeeps
    <3>2. CASE ~n
      <4>1. [calls[c] EXCEPT !.troubled = n, !.at = "answered"] =
               [calls[c] EXCEPT !.at = "answered"]
        BY Zenon, <1>1, <2>1, <3>2 DEF OperationCalls
      <4>2. calls' = [calls EXCEPT ![c] = [calls[c] EXCEPT !.troubled = n, !.at = "answered"]]
        BY Zenon, <1>1, <1>2, <2>3 DEF OperationCalls
      <4>3. Err(c)
        BY Zenon, <4>1, <4>2 DEF Err
      <4> QED
        BY Zenon, <1>0, <2>1, <3>2, <4>3, ErrorKeeps
    <3> QED
      BY Zenon, <3>1, <3>2
  <2> QED
    BY Zenon, <1>0, <2>2, <2>3
<1>3. CASE /\ effect # 0 /\ txs[effect].input = calls[c].input
           /\ calls' = [calls EXCEPT ![c].at = "slot", ![c].tx = effect]
  <2> DEFINE r == [calls[c] EXCEPT !.at = "slot", !.tx = effect]
  <2>1. r \in OperationCalls /\ calls' = [calls EXCEPT ![c] = r]
    <3>1. r \in OperationCalls
      <4>1. effect \in Nat
        BY <1>1
      <4> QED
        BY <1>1, <4>1, TxTaken, Zenon
    <3>2. calls \in [Submitters -> OperationCalls]
      BY DEF OperationsInv, OperationTypes
    <3>3. calls' = [calls EXCEPT ![c] = r]
      BY Zenon, <1>3, <3>2
    <3> QED
      BY <3>1, <3>3
  <2>2. /\ r.at = "slot" /\ r.troubled = calls[c].troubled /\ r.tx = effect
        /\ r.input = calls[c].input /\ r.late = calls[c].late /\ r.answer = calls[c].answer
    BY <1>1 DEF OperationCalls
  <2> HIDE DEF r
  <2>3. Onward(c, "slot", effect, calls[c].troubled)
    BY Zenon, <2>1, <2>2 DEF Onward
  <2> QED
    BY Zenon, <1>0, <1>1, <1>3, <2>3, GoesOn
<1>4. CASE effect # 0 /\ txs[effect].input # calls[c].input /\ Err(c)
  BY Zenon, <1>0, <1>4, ErrorKeeps
<1> QED
  BY Zenon, <1>2, <1>3, <1>4 DEF idempotent_existing_mint

(* Solana's send and its wait.                                             *)
LEMMA SolanaKeeps ==
    ASSUME OperationsInv, NEW c \in Submitters, send_transaction(c) \/ wait_for_confirmation(c)
    PROVE  OperationsInv'
<1>1. ASSUME send_transaction(c) PROVE OperationsInv'
  <2>0. /\ UNCHANGED <<adapter, operation, effect>> /\ adapter = "solana" /\ calls[c].at = "send"
        /\ ~is("ethereum", "lock")
    BY Zenon, <1>1 DEF send_transaction, is
  <2>1. CASE operation = "lock" /\ TxAccepted(c, "slot")
    BY Zenon, <2>0, <2>1, AcceptedKeeps DEF is
  <2>2. CASE TxAccepted(c, "wait") \/ SendFails(c)
    BY Zenon, <2>0, <2>2, SendKeeps
  <2>3. CASE operation = "consume" /\ Broadcast(c) /\ Ok(c, Len(txs) + 1)
    <3>1. Len(txs) + 1 \in Nat
      BY DEF OperationsInv, OperationTypes
    <3> QED
      BY Zenon, <2>0, <2>3, <3>1, OkKeeps DEF Unwaited, is
  <2>4. CASE operation = "mint" /\ Goto(c, "in_use") /\ UNCHANGED txs
    <3>1. is("solana", "mint") /\ (~calls[c].late \/ calls[c].troubled)
      BY Zenon, <2>0, <2>4 DEF OperationsInv, Recovers, is
    <3> QED
      BY ZenonT(30), <2>0, <2>4, <3>1, GotoKeeps
  <2>5. CASE operation # "mint" /\ Err(c) /\ UNCHANGED txs
    BY Zenon, <2>0, <2>5, ErrorKeeps DEF is
  <2> QED
    BY Zenon, <1>1, <2>1, <2>2, <2>3, <2>4, <2>5 DEF send_transaction
<1>2. ASSUME wait_for_confirmation(c) PROVE OperationsInv'
  <2>0. /\ UNCHANGED <<adapter, operation, txs, effect>> /\ adapter = "solana" /\ calls[c].at = "wait"
    BY <1>2 DEF wait_for_confirmation
  <2>1. CASE Landed(c) /\ Goto(c, "slot")
    BY ZenonT(30), <2>0, <2>1, LandedIsEffect, GotoKeeps
  <2> QED
    BY ZenonT(30), <1>2, <2>0, <2>1, WaitKeeps DEF wait_for_confirmation
<1> QED
  BY Zenon, <1>1, <1>2

(* The network executes a transaction, or the locked sanad is consumed.    *)
LEMMA NetworkKeeps ==
    ASSUME OperationsInv, Consume \/ \E t \in DOMAIN txs : Execute(t)
    PROVE  OperationsInv'
<1>0. /\ txs \in Seq(BroadcastTxs) /\ Len(txs) \in Nat /\ effect \in 0 .. Len(txs)
      /\ DOMAIN txs = 1 .. Len(txs) /\ UNCHANGED <<adapter, operation, calls>>
  BY DEF OperationsInv, OperationTypes, Consume, Execute
<1>1. PICK t \in 1 .. Len(txs), status \in {"ok", "failed", "spent"} :
         /\ txs' = [txs EXCEPT ![t].status = status]
         /\ \/ effect = 0 /\ effect' = t /\ status = "ok"
            \/ txs[t].status = "pending" /\ effect' = effect /\ status = "failed"
            \/ effect = t /\ effect' = effect /\ status = "spent"
  BY <1>0 DEF Consume, Execute
<1>2. /\ txs' \in Seq(BroadcastTxs) /\ Len(txs') = Len(txs)
      /\ txs'[t].status = status /\ txs'[t].input = txs[t].input
      /\ \A u \in 1 .. Len(txs) : u # t => txs'[u] = txs[u]
  <2>1. txs[t] \in BroadcastTxs
    BY <1>0
  <2> DEFINE new == [txs[t] EXCEPT !.status = status]
  <2>2. new \in BroadcastTxs /\ new.status = status /\ new.input = txs[t].input
    BY <2>1 DEF BroadcastTxs
  <2>3. txs' = [txs EXCEPT ![t] = new]
    BY Zenon, <1>1
  <2> HIDE DEF new
  <2> QED
    BY <1>0, <2>2, <2>3
<1>3. \A u \in 1 .. Len(txs) : txs'[u].input = txs[u].input
  BY <1>2
<1>4. OperationTypes'
  BY <1>0, <1>1, <1>2 DEF OperationsInv, OperationTypes
<1>5. OneEffect'
  BY <1>0, <1>1, <1>2 DEF OperationsInv, OneEffect
<1>6. OneInput'
  BY Zenon, <1>0, <1>2, <1>3 DEF OperationsInv, OneInput, is
<1>7. effect # 0 => effect' = effect
  BY <1>0, <1>1
<1>8. effect # 0 /\ txs[effect].status = "spent" => txs'[effect].status = "spent"
  BY <1>0, <1>1, <1>2
<1>9. ASSUME NEW c \in Submitters PROVE CallKnows(c)' /\ Recovers(c)'
  <2>1. calls[c].tx \in 0 .. Len(txs)
    BY Zenon DEF OperationsInv, OperationTypes
  <2>2. CallKnows(c)'
    BY <1>0, <1>3, <1>7, <2>1 DEF OperationsInv, CallKnows, Unwaited, is
  <2>3. Recovers(c)'
    BY <1>0, <1>3, <1>7, <1>8 DEF OperationsInv, Recovers, is
  <2> QED
    BY Zenon, <2>2, <2>3
<1> QED
  BY Zenon, <1>4, <1>5, <1>6, <1>9 DEF OperationsInv

(* Every step of every call, and the network's.                            *)
LEMMA OperationsInvNext == OperationsInv /\ [OperationsNext]_operationVars => OperationsInv'
<1> SUFFICES ASSUME OperationsInv, [OperationsNext]_operationVars PROVE OperationsInv'
  OBVIOUS
<1>1. ASSUME NEW c \in Submitters,
             \/ ethereum_lock_sanad(c) \/ ethereum_mint_sanad(c)
             \/ aptos_lock_sanad(c) \/ aptos_mint_sanad(c)
             \/ solana_lock_sanad(c) \/ solana_mint_sanad(c)
             \/ sui_lock_sanad(c) \/ sui_mint_sanad(c)
             \/ ethereum_create_sanad(c) \/ ethereum_consume_sanad(c) \/ ethereum_refund_sanad(c)
             \/ aptos_consume_sanad(c) \/ solana_consume_sanad(c) \/ sui_consume_sanad(c)
      PROVE  OperationsInv'
  BY Zenon, <1>1, BeginKeeps
     DEF ethereum_lock_sanad, ethereum_mint_sanad, aptos_lock_sanad, aptos_mint_sanad,
         solana_lock_sanad, solana_mint_sanad, sui_lock_sanad, sui_mint_sanad,
         ethereum_create_sanad, ethereum_consume_sanad, ethereum_refund_sanad,
         aptos_consume_sanad, solana_consume_sanad, sui_consume_sanad, is
<1>2. ASSUME NEW c \in Submitters,
             \/ build_sign_and_send_transaction(c) \/ submit_entry_function_with_retry(c)
             \/ submit_signed_transaction(c) \/ sui_execute(c)
      PROVE  OperationsInv'
  BY Zenon, <1>2, SendKeeps
     DEF build_sign_and_send_transaction, submit_entry_function_with_retry,
         submit_signed_transaction, sui_execute
<1>3. ASSUME NEW c \in Submitters,
             wait_for_receipt(c) \/ wait_for_transaction(c) \/ sui_effects(c)
      PROVE  OperationsInv'
  <2>1. calls[c].at = "wait" /\ UNCHANGED <<adapter, operation, txs, effect>>
    BY Zenon, <1>3 DEF wait_for_receipt, wait_for_transaction, sui_effects
  <2>2. \/ Landed(c) /\ Ok(c, calls[c].tx)
        \/ Err(c) \/ RpcErr(c)
        \/ PollAgain(c)
    BY <1>3 DEF wait_for_receipt, wait_for_transaction, sui_effects, sui_success
  <2> QED
    BY Zenon, <2>1, <2>2, WaitKeeps
<1>4. ASSUME NEW c \in Submitters, CallAgain(c) PROVE OperationsInv'
  <2>1. /\ NoOperation \in OperationCalls /\ NoOperation.at = "idle" /\ NoOperation.tx = 0
        /\ NoOperation.input = "i1" /\ NoOperation.answer = 0 /\ ~NoOperation.late
    BY Zenon DEF NoOperation, OperationCalls, Inputs
  <2>2. calls'[c] = NoOperation
    BY Zenon, <1>4 DEF CallAgain, OperationsInv, OperationTypes
  <2>3. CallBecomes(c, NoOperation)
    BY <1>4, <2>1 DEF CallAgain, CallBecomes, OperationsInv, OperationTypes
  <2>4. CallKnows(c)' /\ Recovers(c)'
    BY Zenon, <2>1, <2>2 DEF CallKnows, Recovers
  <2> QED
    BY Zenon, <2>3, <2>4, OneCallMoves
<1>5. ASSUME UNCHANGED operationVars PROVE OperationsInv'
  BY ZenonT(30), <1>5 DEF operationVars, OperationsInv, OperationTypes, OneEffect, OneInput, CallKnows,
              Recovers, is, Unwaited
<1> QED
  BY Zenon, <1>1, <1>2, <1>3, <1>4, <1>5, ReadsKeep, RecordKeeps, SolanaKeeps, NetworkKeeps
     DEF OperationsNext

(* For any number of concurrent calls, transactions and polls: an Ok of    *)
(* the Ethereum, Aptos, Solana and Sui adapters names the transaction that *)
(* took effect, with the three exceptions OkMeansDone names.               *)
THEOREM OkNamesTheEffect == OperationsSpec => []OkMeansDone
<1>1. OperationsInv => OkMeansDone
  BY ZenonT(30) DEF OperationsInv, CallKnows, OkMeansDone, Unwaited
<1> QED
  BY <1>1, OperationsInvInit, OperationsInvNext, PTL DEF OperationsSpec

(* The same for a retry: Ethereum's lock_sanad and Solana's mint_sanad,    *)
(* called again after the effect and without RPC trouble, send nothing and *)
(* answer with the original transaction.                                   *)
THEOREM RetriesRecover == OperationsSpec => []RetryRecovers
<1>1. OperationsInv => RetryRecovers
  BY Zenon DEF OperationsInv, OperationTypes, OneEffect, Recovers, RetryRecovers, is
<1> QED
  BY <1>1, OperationsInvInit, OperationsInvNext, PTL DEF OperationsSpec

-----------------------------------------------------------------------------
(* The state file of csv-cli.                                              *)

StateFiles == [torn : BOOLEAN, owned : SUBSET Sanads, transfers : SUBSET Sanads]

CliProcs ==
    [cmd : Commands \cup {"none"}, sanad : Sanads \cup {"none"},
     at : {"idle", "start", "validate", "build", "drive", "save", "write", "exit", "exit_write"},
     mem : StateFiles]

CliTypes ==
    /\ file \in StateFiles
    /\ proc \in [Processes -> CliProcs]
    /\ \A p \in Processes : proc[p].at # "idle" => proc[p].cmd \in Commands /\ proc[p].sanad \in Sanads
    /\ accepts \in [Sanads -> Nat]
    /\ answered \subseteq Sanads

AcceptedSanads == {s \in Sanads : accepts[s] > 0}

(* While p runs, its copy holds everything that was reported, and what it  *)
(* is about to report; it is about to report an accept of a sanad that     *)
(* nobody has accepted.                                                    *)
CopyIsComplete(p) ==
    proc[p].at # "idle" =>
        /\ ~proc[p].mem.torn
        /\ AcceptedSanads \subseteq proc[p].mem.owned
        /\ answered \subseteq proc[p].mem.transfers
        /\ proc[p].at \in {"save", "write"} =>
              /\ proc[p].cmd = "accept" =>
                    proc[p].sanad \in proc[p].mem.owned /\ proc[p].sanad \notin AcceptedSanads
              /\ Drives(p) => proc[p].sanad \in proc[p].mem.transfers

AtRest(p) == proc[p].at = "idle"

SequentialInv ==
    /\ \A p, q \in Processes : AtRest(p) \/ AtRest(q) \/ p = q
    /\ \A p \in Processes : CopyIsComplete(p)
    /\ (\A p \in Processes : AtRest(p)) =>
          ~file.torn /\ AcceptedSanads \subseteq file.owned /\ answered \subseteq file.transfers
    /\ \A s \in Sanads : accepts[s] <= 1

CliInv == CliTypes /\ (alone /\ ~killed => SequentialInv)

(* The state file is empty and nothing was reported.                       *)
LEMMA CliInvInit == CliInit => CliInv
<1> SUFFICES ASSUME CliInit PROVE CliInv
  OBVIOUS
<1>1. Empty \in StateFiles /\ NotRunning \in CliProcs /\ NotRunning.at = "idle" /\ ~Empty.torn
  BY Zenon DEF Empty, NotRunning, StateFiles, CliProcs
<1>2. CliTypes
  BY Zenon, <1>1 DEF CliInit, CliTypes
<1>3. (\A p \in Processes : AtRest(p)) /\ AcceptedSanads = {}
  BY <1>1 DEF CliInit, AtRest, AcceptedSanads
<1> QED
  BY <1>1, <1>2, <1>3 DEF CliInit, CliInv, SequentialInv, CopyIsComplete, AtRest

(* A step of one process, which becomes r.                                 *)
LEMMA ProcMoves ==
    ASSUME CliInv, NEW p \in Processes, NEW r \in CliProcs, proc' = [proc EXCEPT ![p] = r],
           r.at # "idle" => r.cmd \in Commands /\ r.sanad \in Sanads,
           file' \in StateFiles, accepts' \in [Sanads -> Nat], answered' \subseteq Sanads,
           alone' /\ ~killed' =>
              /\ \A q \in Processes : q # p => AtRest(q)
              /\ CopyIsComplete(p)'
              /\ r.at = "idle" =>
                    ~file'.torn /\ AcceptedSanads' \subseteq file'.owned /\ answered' \subseteq file'.transfers
              /\ \A s \in Sanads : accepts'[s] <= 1
    PROVE  CliInv'
<1>1. CliTypes'
  BY Zenon DEF CliInv, CliTypes
<1>2. proc'[p] = r /\ \A q \in Processes : q # p => proc'[q] = proc[q]
  BY Zenon DEF CliInv, CliTypes
<1>3. ASSUME alone', ~killed' PROVE SequentialInv'
  <2>1. \A q \in Processes : q # p => AtRest(q)'
    BY Zenon, <1>2, <1>3 DEF AtRest
  <2>2. \A q \in Processes : CopyIsComplete(q)'
    BY Zenon, <1>3, <2>1 DEF CopyIsComplete, AtRest
  <2>3. (\A q \in Processes : AtRest(q)') =>
           ~file'.torn /\ AcceptedSanads' \subseteq file'.owned /\ answered' \subseteq file'.transfers
    BY Zenon, <1>2, <1>3 DEF AtRest
  <2> QED
    BY Zenon, <1>3, <2>1, <2>2, <2>3 DEF SequentialInv
<1> QED
  BY Zenon, <1>1, <1>3 DEF CliInv

(* What the invariant says of a process that runs.                         *)
LEMMA RunsAlone ==
    ASSUME CliInv, NEW p \in Processes, ~AtRest(p)
    PROVE  /\ proc[p] \in CliProcs /\ file \in StateFiles /\ accepts \in [Sanads -> Nat]
           /\ answered \subseteq Sanads /\ proc[p].cmd \in Commands /\ proc[p].sanad \in Sanads
           /\ alone /\ ~killed =>
                 /\ \A q \in Processes : q # p => AtRest(q)
                 /\ CopyIsComplete(p)
                 /\ \A s \in Sanads : accepts[s] <= 1
BY DEF CliInv, CliTypes, SequentialInv, AtRest

(* A process that goes on with the copy it has.                            *)
LEMMA GoesKeeps ==
    ASSUME CliInv, NEW p \in Processes, ~AtRest(p),
           NEW at \in {"validate", "build", "drive", "write", "exit", "exit_write"},
           Goes(p, at), at = "write" => proc[p].at \in {"save", "write"}, file' \in StateFiles,
           UNCHANGED <<accepts, answered, alone, killed>>
    PROVE  CliInv'
<1>1. proc[p] \in CliProcs
  BY Zenon, RunsAlone
<1> DEFINE r == [proc[p] EXCEPT !.at = at]
<1>2. /\ r \in CliProcs /\ r.at = at /\ r.cmd = proc[p].cmd /\ r.sanad = proc[p].sanad
      /\ r.mem = proc[p].mem
  BY Zenon, <1>1 DEF CliProcs
<1>3. proc' = [proc EXCEPT ![p] = r]
  BY Zenon DEF Goes
<1> HIDE DEF r
<1>4. proc'[p] = r
  BY Zenon, <1>3 DEF CliInv, CliTypes
<1>5. CopyIsComplete(p) => CopyIsComplete(p)'
  BY Zenon, <1>2, <1>4 DEF CopyIsComplete, Drives, AcceptedSanads, AtRest
<1> QED
  BY Zenon, <1>2, <1>3, <1>5, RunsAlone, ProcMoves DEF AcceptedSanads

(* A command begins with a copy of the file.                               *)
LEMMA LoadKeeps ==
    ASSUME CliInv, NEW p \in Processes, NEW c \in Commands, NEW s \in Sanads, load(p, c, s)
    PROVE  CliInv'
<1> DEFINE r == [cmd |-> c, sanad |-> s, at |-> IF c = "other" THEN "exit" ELSE "start", mem |-> file]
<1>1. /\ r \in CliProcs /\ r.at \in {"exit", "start"} /\ r.cmd = c /\ r.sanad = s /\ r.mem = file
  BY Zenon DEF CliInv, CliTypes, CliProcs
<1>2. proc' = [proc EXCEPT ![p] = r]
  BY Zenon DEF load
<1> HIDE DEF r
<1>3. proc'[p] = r
  BY <1>2 DEF CliInv, CliTypes
<1>4. alone' => alone /\ \A q \in Processes : AtRest(q)
  BY Zenon DEF load, AtRest
<1>5. UNCHANGED <<file, accepts, answered, killed>>
  BY Zenon DEF load
<1>6. alone' /\ ~killed' =>
         /\ ~file.torn /\ AcceptedSanads \subseteq file.owned /\ answered \subseteq file.transfers
         /\ \A x \in Sanads : accepts[x] <= 1
  BY Zenon, <1>4, <1>5 DEF CliInv, SequentialInv
<1>7. alone' /\ ~killed' => CopyIsComplete(p)'
  BY Zenon, <1>1, <1>3, <1>5, <1>6 DEF CopyIsComplete, AcceptedSanads, Commands
<1> QED
  BY Zenon, <1>1, <1>2, <1>4, <1>5, <1>6, <1>7, ProcMoves DEF CliInv, CliTypes

(* accept's record, or drive's: the sanad is in the copy, to be written.   *)
LEMMA RecordIsCopied ==
    ASSUME CliInv, NEW p \in Processes, validate_consignment(p) \/ drive(p)
    PROVE  CliInv'
<1>0. ~AtRest(p) /\ UNCHANGED <<file, accepts, answered, alone, killed>>
  BY Zenon DEF validate_consignment, drive, IsAt, AtRest
<1>1. proc[p] \in CliProcs /\ file \in StateFiles
  BY Zenon, <1>0, RunsAlone
<1>2. CASE Goes(p, "exit")
  BY Zenon, <1>0, <1>1, <1>2, GoesKeeps
<1>3. CASE ~Goes(p, "exit")
  <2>0. proc[p].sanad \in Sanads /\ proc[p].cmd \in Commands /\ proc[p].mem \in StateFiles
    BY Zenon, <1>0, <1>1, RunsAlone DEF CliProcs
  <2>1. PICK m \in StateFiles :
           /\ proc' = [proc EXCEPT ![p] = [proc[p] EXCEPT !.at = "save", !.mem = m]]
           /\ m.torn = proc[p].mem.torn
           /\ proc[p].mem.owned \subseteq m.owned /\ proc[p].mem.transfers \subseteq m.transfers
           /\ proc[p].cmd = "accept" => ~Owns(p) /\ proc[p].sanad \in m.owned
           /\ Drives(p) => proc[p].sanad \in m.transfers
    <3>1. CASE validate_consignment(p)
      <4> DEFINE m == [proc[p].mem EXCEPT !.owned = @ \cup {proc[p].sanad}]
      <4>1. /\ proc[p].cmd = "accept" /\ ~Owns(p)
            /\ proc' = [proc EXCEPT ![p].at = "save", ![p].mem.owned = @ \cup {proc[p].sanad}]
        BY Zenon, <1>3, <3>1 DEF validate_consignment, IsAt
      <4>2. /\ m \in StateFiles /\ m.torn = proc[p].mem.torn /\ m.transfers = proc[p].mem.transfers
            /\ m.owned = proc[p].mem.owned \cup {proc[p].sanad}
        BY <2>0 DEF StateFiles
      <4>3. proc' = [proc EXCEPT ![p] = [proc[p] EXCEPT !.at = "save", !.mem = m]]
        BY Zenon, <1>1, <4>1 DEF CliProcs
      <4> QED
        BY Zenon, <4>1, <4>2, <4>3 DEF Drives
    <3>2. CASE drive(p)
      <4> DEFINE m == [proc[p].mem EXCEPT !.transfers = @ \cup {proc[p].sanad}]
      <4>1. /\ proc[p].cmd # "accept"
            /\ proc' = [proc EXCEPT ![p].at = "save", ![p].mem.transfers = @ \cup {proc[p].sanad}]
        BY Zenon, <1>3, <3>2 DEF drive, Drives
      <4>2. /\ m \in StateFiles /\ m.torn = proc[p].mem.torn /\ m.owned = proc[p].mem.owned
            /\ m.transfers = proc[p].mem.transfers \cup {proc[p].sanad}
        BY <2>0 DEF StateFiles
      <4>3. proc' = [proc EXCEPT ![p] = [proc[p] EXCEPT !.at = "save", !.mem = m]]
        BY Zenon, <1>1, <4>1 DEF CliProcs
      <4> QED
        BY Zenon, <4>1, <4>2, <4>3
    <3> QED
      BY Zenon, <3>1, <3>2
  <2> DEFINE r == [proc[p] EXCEPT !.at = "save", !.mem = m]
  <2>2. /\ r \in CliProcs /\ r.at = "save" /\ r.cmd = proc[p].cmd /\ r.sanad = proc[p].sanad
        /\ r.mem = m
    BY Zenon, <1>1 DEF CliProcs
  <2>3. proc' = [proc EXCEPT ![p] = r]
    BY Zenon, <2>1
  <2> HIDE DEF r
  <2>4. proc'[p] = r
    BY Zenon, <2>3 DEF CliInv, CliTypes
  <2>5. CopyIsComplete(p) => CopyIsComplete(p)'
    BY Zenon, <1>0, <2>1, <2>2, <2>4 DEF CopyIsComplete, Drives, AcceptedSanads, AtRest, Owns
  <2> QED
    BY Zenon, <1>0, <1>1, <2>0, <2>2, <2>3, <2>5, RunsAlone, ProcMoves DEF AcceptedSanads
<1> QED
  BY Zenon, <1>2, <1>3

(* The inner save: what the command reports is in the copy it has written. *)
LEMMA SaveKeeps ==
    ASSUME CliInv, NEW p \in Processes, save(p)
    PROVE  CliInv'
<1>0. ~AtRest(p) /\ proc[p].at = "write" /\ UNCHANGED <<alone, killed>>
  BY Zenon DEF save, AtRest
<1>1. proc[p] \in CliProcs /\ proc[p].sanad \in Sanads /\ proc[p].cmd \in Commands
      /\ proc[p].mem \in StateFiles
  BY <1>0, RunsAlone DEF CliProcs
<1>2. file' \in StateFiles
  BY Zenon, <1>1 DEF save, Written, Empty, StateFiles
<1>3. PICK at \in {"exit", "drive"} : Goes(p, at)
  BY DEF save
<1> DEFINE r == [proc[p] EXCEPT !.at = at]
<1>4. /\ r \in CliProcs /\ r.at = at /\ r.cmd = proc[p].cmd /\ r.sanad = proc[p].sanad
      /\ r.mem = proc[p].mem
  BY <1>1 DEF CliProcs
<1>5. proc' = [proc EXCEPT ![p] = r]
  BY Zenon, <1>3 DEF Goes
<1> HIDE DEF r
<1>6. proc'[p] = r
  BY <1>5 DEF CliInv, CliTypes
<1>7. CASE proc[p].cmd = "accept"
  <2>1. accepts' = [accepts EXCEPT ![proc[p].sanad] = @ + 1] /\ answered' = answered
    BY Zenon, <1>7 DEF save, Drives
  <2>2. accepts \in [Sanads -> Nat] /\ answered \subseteq Sanads
    BY Zenon DEF CliInv, CliTypes
  <2>3. accepts' \in [Sanads -> Nat] /\ AcceptedSanads' = AcceptedSanads \cup {proc[p].sanad}
    <3>1. accepts' \in [Sanads -> Nat] /\ accepts'[proc[p].sanad] > 0
      BY <1>1, <2>1, <2>2
    <3>2. \A s \in Sanads : s # proc[p].sanad => accepts'[s] = accepts[s]
      BY Zenon, <2>1, <2>2
    <3> QED
      BY Zenon, <1>1, <3>1, <3>2 DEF AcceptedSanads
  <2>4. CopyIsComplete(p) =>
           /\ CopyIsComplete(p)'
           /\ accepts[proc[p].sanad] = 0
    <3> SUFFICES ASSUME CopyIsComplete(p) PROVE CopyIsComplete(p)' /\ accepts[proc[p].sanad] = 0
      BY Zenon
    <3>1. /\ ~proc[p].mem.torn /\ AcceptedSanads \subseteq proc[p].mem.owned
          /\ answered \subseteq proc[p].mem.transfers
          /\ proc[p].sanad \in proc[p].mem.owned /\ proc[p].sanad \notin AcceptedSanads
      BY Zenon, <1>0, <1>7 DEF CopyIsComplete
    <3>2. CopyIsComplete(p)'
      BY Zenon, <1>4, <1>6, <2>1, <2>3, <3>1 DEF CopyIsComplete
    <3> QED
      BY <1>1, <2>2, <3>1, <3>2 DEF AcceptedSanads
  <2>5. alone /\ ~killed => \A s \in Sanads : accepts'[s] <= 1
    <3> SUFFICES ASSUME alone, ~killed, NEW s \in Sanads PROVE accepts'[s] <= 1
      BY Zenon
    <3>1. accepts[s] <= 1 /\ accepts[proc[p].sanad] = 0 /\ accepts[s] \in Nat
      BY Zenon, <1>0, <2>2, <2>4, RunsAlone
    <3>2. accepts'[s] = IF s = proc[p].sanad THEN 1 ELSE accepts[s]
      BY <1>1, <2>1, <2>2, <3>1
    <3> QED
      BY <3>1, <3>2
  <2> QED
    BY Zenon, <1>0, <1>1, <1>2, <1>4, <1>5, <2>1, <2>2, <2>3, <2>4, <2>5, RunsAlone, ProcMoves
<1>8. CASE proc[p].cmd # "accept"
  <2>1. /\ Drives(p) /\ accepts' = accepts /\ answered' = answered \cup {proc[p].sanad}
    BY Zenon, <1>8 DEF save
  <2>2. CopyIsComplete(p) => CopyIsComplete(p)'
    BY Zenon, <1>0, <1>4, <1>6, <1>8, <2>1 DEF CopyIsComplete, AcceptedSanads
  <2> QED
    BY Zenon, <1>0, <1>1, <1>2, <1>4, <1>5, <2>1, <2>2, RunsAlone, ProcMoves
<1> QED
  BY Zenon, <1>7, <1>8

(* The process ends: main's save, or a kill.                               *)
LEMMA CommandEndKeeps ==
    ASSUME CliInv, NEW p \in Processes, exit(p) \/ Killed(p)
    PROVE  CliInv'
<1>0. /\ ~AtRest(p) /\ proc' = [proc EXCEPT ![p] = NotRunning] /\ UNCHANGED <<accepts, answered, alone>>
  BY Zenon DEF exit, Killed, AtRest
<1>1. proc[p] \in CliProcs /\ proc[p].mem \in StateFiles
  BY Zenon, <1>0, RunsAlone DEF CliProcs
<1>2. file' \in StateFiles
  <2>1. CASE exit(p)
    BY Zenon, <1>1, <2>1 DEF exit, Written, Empty, StateFiles
  <2>2. CASE Killed(p)
    BY Zenon, <1>0, <2>2, RunsAlone DEF Killed
  <2> QED
    BY Zenon, <2>1, <2>2
<1>3. NotRunning \in CliProcs /\ NotRunning.at = "idle"
  BY Zenon DEF NotRunning, CliProcs, Empty, StateFiles
<1>4. proc'[p] = NotRunning
  BY Zenon, <1>0 DEF CliInv, CliTypes
<1>5. CopyIsComplete(p)'
  BY Zenon, <1>3, <1>4 DEF CopyIsComplete
<1>6. alone' /\ ~killed' => alone /\ ~killed /\ file' = proc[p].mem
  <2> SUFFICES ASSUME alone', ~killed' PROVE alone /\ ~killed /\ file' = proc[p].mem
    OBVIOUS
  <2>0. alone' = alone /\ (exit(p) => killed' = killed) /\ (Killed(p) => killed' = TRUE)
    BY Zenon DEF exit, Killed
  <2>a. ~Killed(p)
    BY Zenon, <2>0
  <2>1. exit(p) /\ ~killed /\ alone
    BY <2>0, <2>a
  <2>2. \A q \in Processes \ {p} : proc[q].at = "idle"
    BY Zenon, <1>0, <2>1, RunsAlone DEF AtRest
  <2> QED
    BY Zenon, <2>1, <2>2 DEF exit, Written
<1>7. alone' /\ ~killed' =>
         ~file'.torn /\ AcceptedSanads' \subseteq file'.owned /\ answered' \subseteq file'.transfers
  BY Zenon, <1>0, <1>6, RunsAlone DEF CopyIsComplete, AtRest, AcceptedSanads
<1> QED
  BY Zenon, <1>0, <1>2, <1>3, <1>5, <1>6, <1>7, RunsAlone, ProcMoves

(* Every step of every process.                                            *)
LEMMA CliInvNext == CliInv /\ [CliNext]_cliVars => CliInv'
<1> SUFFICES ASSUME CliInv, [CliNext]_cliVars PROVE CliInv'
  OBVIOUS
<1>0. file \in StateFiles
  BY Zenon DEF CliInv, CliTypes
<1>1. ASSUME NEW p \in Processes, acquire(p) \/ lock_and_mint(p) \/ cmd_resume(p) \/ build_client(p)
      PROVE  CliInv'
  <2>1. /\ ~AtRest(p) /\ UNCHANGED <<file, accepts, answered, alone, killed>>
        /\ \E at \in {"exit", "validate", "build", "drive"} : Goes(p, at)
    BY Zenon, <1>1 DEF acquire, lock_and_mint, cmd_resume, build_client, IsAt, AtRest
  <2> QED
    BY Zenon, <1>0, <2>1, GoesKeeps
<1>2. ASSUME NEW p \in Processes, truncate(p) PROVE CliInv'
  <2>1. /\ ~AtRest(p) /\ UNCHANGED <<accepts, answered, alone, killed>>
        /\ \/ proc[p].at = "save" /\ Goes(p, "write")
           \/ Goes(p, "exit_write")
    BY <1>2 DEF truncate, AtRest
  <2>2. file' \in StateFiles
    BY Zenon, <1>2 DEF truncate, Empty, StateFiles
  <2> QED
    BY Zenon, <2>1, <2>2, GoesKeeps
<1>3. ASSUME UserCleansUp PROVE CliInv'
  <2>1. Empty \in StateFiles /\ Empty.torn = FALSE
    BY Zenon DEF Empty, StateFiles
  <2>2. /\ file' = (IF file.torn THEN Empty ELSE file) /\ UNCHANGED <<proc, accepts, answered, alone, killed>>
        /\ \A p \in Processes : AtRest(p)
    BY Zenon, <1>3 DEF UserCleansUp, AtRest
  <2>3. CliTypes'
    BY Zenon, <1>0, <2>1, <2>2 DEF CliInv, CliTypes
  <2>4. alone /\ ~killed => ~file.torn
    BY Zenon, <2>2 DEF CliInv, SequentialInv
  <2> QED
    BY Zenon, <2>2, <2>3, <2>4 DEF CliInv, SequentialInv, CopyIsComplete, AcceptedSanads, Drives, AtRest
<1>4. ASSUME UNCHANGED cliVars PROVE CliInv'
  BY Zenon, <1>4 DEF cliVars, CliInv, CliTypes, SequentialInv, CopyIsComplete, AcceptedSanads, Drives, AtRest
<1> QED
  BY Zenon, <1>1, <1>2, <1>3, <1>4, LoadKeeps, RecordIsCopied, SaveKeeps, CommandEndKeeps DEF CliNext

(* For any number of processes and sanads: csv-cli's commands, as long as  *)
(* they run one after the other and none is killed, keep in the state file *)
(* everything they reported, and accept a sanad once.                      *)
THEOREM ReportedIsKept == CliSpec => []AnsweredIsOnFile
<1>1. CliInv => AnsweredIsOnFile
  BY DEF CliInv, SequentialInv, AnsweredIsOnFile, AcceptedSanads, AtRest
<1> QED
  BY <1>1, CliInvInit, CliInvNext, PTL DEF CliSpec

=============================================================================
