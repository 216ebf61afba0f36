---- MODULE ChainOperations ----
(***************************************************************************)
(* The operations on a sanad that the Ethereum, Aptos, Solana and Sui      *)
(* adapters offer, called again by a coordinator that does not know        *)
(* whether the first call got through.                                     *)
(*                                                                         *)
(* The contract lets one transaction take effect.  A broadcast transaction *)
(* is executed later or never; every RPC may fail, and a send that fails   *)
(* may have been broadcast.  Ethereum's lock and Solana's mint look for an *)
(* earlier effect before they send, the other operations do not.           *)
(***************************************************************************)
EXTENDS Naturals, Sequences

CONSTANTS Submitters,   \* concurrent calls of the same operation
          MaxTxs,       \* bound: transactions broadcast
          MaxPolls      \* polls of a receipt before a call gives up

ASSUME OperationsAssumption == MaxTxs \in Nat /\ MaxPolls \in Nat

VARIABLES adapter, operation,
          txs,      \* the broadcast transactions: status and attested inputs
          effect,   \* the transaction that took effect, 0 when none has
          calls

operationVars == <<adapter, operation, txs, effect, calls>>

\* max_retries of the Ethereum adapter, MAX_ATTEMPTS of the Aptos adapter.
MaxSends == 3

Inputs == {"i1", "i2"}

\* A hash that names no transaction.
NoSuchTx == MaxTxs + 1

\* late: the effect was there when the call began; troubled: an RPC failed, timed
\* out or showed an old state; answer: the transaction named by Ok, 0 for Err.
NoOperation == [at |-> "idle", tx |-> 0, tries |-> 0, polls |-> 0, input |-> "i1",
           late |-> FALSE, troubled |-> FALSE, answer |-> 0]

is(a, o) == adapter = a /\ operation = o

Goto(c, at) == calls' = [calls EXCEPT ![c].at = at]
Ok(c, t) == calls' = [calls EXCEPT ![c].at = "answered", ![c].answer = t]
Err(c) == calls' = [calls EXCEPT ![c].at = "answered"]
RpcErr(c) == calls' = [calls EXCEPT ![c].at = "answered", ![c].troubled = TRUE]

Broadcast(c) == txs' = Append(txs, [status |-> "pending", input |-> calls[c].input])

OperationsInit ==
    /\ adapter \in {"ethereum", "aptos", "solana", "sui"}
    /\ operation \in {"lock", "mint", "consume", "create", "refund"}
    /\ operation \in {"create", "refund"} => adapter = "ethereum"
    /\ txs = <<>>
    /\ effect = 0
    /\ calls = [c \in Submitters |-> NoOperation]

----
(***************************************************************************)
(* The entry of each operation, up to its first look at the chain.  Only   *)
(* Solana's mint compares the inputs of an earlier effect with its own.    *)
(***************************************************************************)
Begin(c, at) ==
    /\ calls[c].at = "idle"
    /\ \E i \in (IF is("solana", "mint") THEN Inputs ELSE {"i1"}) :
         calls' = [calls EXCEPT ![c] = [NoOperation EXCEPT !.at = at, !.input = i,
                                                      !.late = effect # 0]]
    /\ UNCHANGED <<adapter, operation, txs, effect>>

LocksUnseen(c) == is("ethereum", "lock") /\ Begin(c, "send")

ethereum_lock_sanad(c) == is("ethereum", "lock") /\ Begin(c, "state")
ethereum_mint_sanad(c) == is("ethereum", "mint") /\ Begin(c, "send")
aptos_lock_sanad(c) == is("aptos", "lock") /\ Begin(c, "seal")
aptos_mint_sanad(c) == is("aptos", "mint") /\ Begin(c, "send")
solana_lock_sanad(c) == is("solana", "lock") /\ Begin(c, "send")
solana_mint_sanad(c) == is("solana", "mint") /\ Begin(c, "record")
sui_lock_sanad(c) == is("sui", "lock") /\ Begin(c, "seal")
sui_mint_sanad(c) == is("sui", "mint") /\ Begin(c, "send")
ethereum_create_sanad(c) == is("ethereum", "create") /\ Begin(c, "send")
ethereum_consume_sanad(c) == is("ethereum", "consume") /\ Begin(c, "send")
ethereum_refund_sanad(c) == is("ethereum", "refund") /\ Begin(c, "send")
aptos_consume_sanad(c) == is("aptos", "consume") /\ Begin(c, "submit")
solana_consume_sanad(c) == is("solana", "consume") /\ Begin(c, "send")
sui_consume_sanad(c) == is("sui", "consume") /\ Begin(c, "sign")

\* Sui's consume builds and signs its transaction and answers with the hash of
\* the signed bytes; nothing is submitted.
sui_sign(c) ==
    /\ calls[c].at = "sign"
    /\ Ok(c, NoSuchTx) \/ RpcErr(c)
    /\ UNCHANGED <<adapter, operation, txs, effect>>

\* Ethereum: the contract's state of the sanad; a sanad already consumed or
\* minted away is refused.
read_sanad_state_byte(c) ==
    /\ calls[c].at = "state"
    /\ \/ effect = 0 /\ Goto(c, "send")
       \/ effect # 0 /\ txs[effect].status = "ok" /\ Goto(c, "event")
       \/ effect # 0 /\ txs[effect].status = "spent" /\ Err(c)
       \/ RpcErr(c)
    /\ UNCHANGED <<adapter, operation, txs, effect>>

\* Ethereum: the transaction that emitted SanadLocked; the log query may fail or
\* miss it.
find_sanad_locked_event(c) ==
    /\ calls[c].at = "event"
    /\ Ok(c, effect) \/ RpcErr(c)
    /\ UNCHANGED <<adapter, operation, txs, effect>>

\* Aptos reads the seal's nonce, Sui the seal object; once the effect is there
\* the seal may no longer be found.
resolve_seal(c) ==
    /\ calls[c].at = "seal"
    /\ \/ Goto(c, "send")
       \/ effect # 0 /\ Err(c)
       \/ RpcErr(c)
    /\ UNCHANGED <<adapter, operation, txs, effect>>

\* Solana: the mint record, before sending and again when the program says that
\* it is already in use.  A failed read counts as "no record".
idempotent_existing_mint(c) ==
    /\ calls[c].at \in {"record", "in_use"}
    /\ LET none(t) == calls' = [calls EXCEPT ![c].troubled = @ \/ t,
                         ![c].at = IF @ = "record" THEN "send" ELSE "answered"]
       IN  \/ none(TRUE)
           \/ effect = 0 /\ none(FALSE)
           \/ /\ effect # 0
              /\ IF txs[effect].input = calls[c].input
                 THEN calls' = [calls EXCEPT ![c].at = "slot", ![c].tx = effect]
                 ELSE Err(c)
    /\ UNCHANGED <<adapter, operation, txs, effect>>

----
(***************************************************************************)
(* Sending.  A send that answers an error may have reached the network.    *)
(***************************************************************************)
SendFails(c) ==
    /\ RpcErr(c)
    /\ UNCHANGED txs \/ (Len(txs) < MaxTxs /\ Broadcast(c))

TxAccepted(c, at) ==
    /\ Len(txs) < MaxTxs
    /\ Broadcast(c)
    /\ calls' = [calls EXCEPT ![c].at = at, ![c].tx = Len(txs) + 1]

\* Underpriced on Ethereum, a stale sequence number on Aptos: nothing was
\* broadcast, the call tries again, MaxSends times in all.
SendAgain(c) ==
    /\ UNCHANGED txs
    /\ IF calls[c].tries + 1 < MaxSends
       THEN calls' = [calls EXCEPT ![c].tries = @ + 1]
       ELSE RpcErr(c)

build_sign_and_send_transaction(c) ==
    /\ adapter = "ethereum" /\ calls[c].at = "send"
    /\ TxAccepted(c, "wait") \/ SendAgain(c) \/ SendFails(c)
    /\ UNCHANGED <<adapter, operation, effect>>

submit_entry_function_with_retry(c) ==
    /\ adapter = "aptos" /\ calls[c].at = "send"
    /\ TxAccepted(c, "wait") \/ SendAgain(c) \/ SendFails(c)
    /\ UNCHANGED <<adapter, operation, effect>>

\* Aptos's consume submits once.
submit_signed_transaction(c) ==
    /\ adapter = "aptos" /\ calls[c].at = "submit"
    /\ TxAccepted(c, "wait") \/ SendFails(c)
    /\ UNCHANGED <<adapter, operation, effect>>

\* Solana simulates first, and refuses a duplicate when the node already knows
\* the effect.  The lock and the consume do not wait for their transaction.
send_transaction(c) ==
    /\ adapter = "solana" /\ calls[c].at = "send"
    /\ \/ operation = "lock" /\ TxAccepted(c, "slot")
       \/ operation = "mint" /\ TxAccepted(c, "wait")
       \/ operation = "consume" /\ Len(txs) < MaxTxs /\ Broadcast(c) /\ Ok(c, Len(txs) + 1)
       \/ SendFails(c)
       \/ /\ effect # 0
          /\ IF operation = "mint" THEN Goto(c, "in_use") ELSE Err(c)
          /\ UNCHANGED txs
    /\ UNCHANGED <<adapter, operation, effect>>

\* Sui executes and waits for the effects in one request.
sui_execute(c) ==
    /\ adapter = "sui" /\ calls[c].at = "send"
    /\ TxAccepted(c, "wait") \/ SendFails(c)
    /\ UNCHANGED <<adapter, operation, effect>>

----
(***************************************************************************)
(* Waiting for the outcome.                                                *)
(***************************************************************************)
Status(c) == txs[calls[c].tx].status
Landed(c) == Status(c) \in {"ok", "spent"}

\* One more poll, or the end of the wait.
PollAgain(c) ==
    IF calls[c].polls + 1 < MaxPolls
    THEN calls' = [calls EXCEPT ![c].polls = @ + 1]
    ELSE RpcErr(c)

TakesAnyReceipt(c) ==
    /\ adapter = "ethereum" /\ calls[c].at = "wait"
    /\ \/ Status(c) # "pending" /\ Ok(c, calls[c].tx)
       \/ PollAgain(c)
    /\ UNCHANGED <<adapter, operation, txs, effect>>

\* Ethereum and Aptos keep polling through RPC errors.
wait_for_receipt(c) ==
    /\ adapter = "ethereum" /\ calls[c].at = "wait"
    /\ \/ Landed(c) /\ Ok(c, calls[c].tx)
       \/ Status(c) = "failed" /\ Err(c)
       \/ PollAgain(c)
    /\ UNCHANGED <<adapter, operation, txs, effect>>

wait_for_transaction(c) ==
    /\ adapter = "aptos" /\ calls[c].at = "wait"
    /\ \/ Landed(c) /\ Ok(c, calls[c].tx)
       \/ Status(c) = "failed" /\ Err(c)
       \/ PollAgain(c)
    /\ UNCHANGED <<adapter, operation, txs, effect>>

\* Solana gives up at the first RPC error.
wait_for_confirmation(c) ==
    /\ adapter = "solana" /\ calls[c].at = "wait"
    /\ \/ Landed(c) /\ Goto(c, "slot")
       \/ Status(c) = "failed" /\ Err(c)
       \/ Status(c) = "pending" /\ PollAgain(c)
       \/ RpcErr(c)
    /\ UNCHANGED <<adapter, operation, txs, effect>>

\* Solana reads the slot it reports last; the call fails if that read does.
get_latest_slot(c) ==
    /\ calls[c].at = "slot"
    /\ Ok(c, calls[c].tx) \/ RpcErr(c)
    /\ UNCHANGED <<adapter, operation, txs, effect>>

\* effects.status.success in the node's answer, an option: the read mask asks for
\* the effects, and the node sends them with every transaction it executed.
sui_success(c) == IF Landed(c) THEN {TRUE} ELSE {FALSE}

\* The call fails when the status is there and says so: an answer without one
\* would count as a success.
sui_effects(c) ==
    /\ adapter = "sui" /\ calls[c].at = "wait"
    /\ \/ Status(c) # "pending" /\ FALSE \notin sui_success(c) /\ Ok(c, calls[c].tx)
       \/ Status(c) # "pending" /\ FALSE \in sui_success(c) /\ Err(c)
       \/ RpcErr(c)
    /\ UNCHANGED <<adapter, operation, txs, effect>>

----
\* The network executes a transaction: the contract accepts the first, and any
\* may fail for reasons of its own.
Execute(t) ==
    /\ txs[t].status = "pending"
    /\ \/ /\ effect = 0
          /\ effect' = t
          /\ txs' = [txs EXCEPT ![t].status = "ok"]
       \/ /\ txs' = [txs EXCEPT ![t].status = "failed"]
          /\ UNCHANGED effect
    /\ UNCHANGED <<adapter, operation, calls>>

\* The transfer completes elsewhere: the locked sanad is consumed.
Consume ==
    /\ operation = "lock"
    /\ effect # 0 /\ txs[effect].status = "ok"
    /\ txs' = [txs EXCEPT ![effect].status = "spent"]
    /\ UNCHANGED <<adapter, operation, effect, calls>>

\* The coordinator calls again.
CallAgain(c) ==
    /\ calls[c].at = "answered"
    /\ calls' = [calls EXCEPT ![c] = NoOperation]
    /\ UNCHANGED <<adapter, operation, txs, effect>>

OperationsNext ==
    \/ \E c \in Submitters :
         \/ ethereum_lock_sanad(c) \/ ethereum_mint_sanad(c)
         \/ aptos_lock_sanad(c) \/ aptos_mint_sanad(c)
         \/ solana_lock_sanad(c) \/ solana_mint_sanad(c)
         \/ sui_lock_sanad(c) \/ sui_mint_sanad(c)
         \/ ethereum_create_sanad(c) \/ ethereum_consume_sanad(c) \/ ethereum_refund_sanad(c)
         \/ aptos_consume_sanad(c) \/ solana_consume_sanad(c)
         \/ sui_consume_sanad(c) \/ sui_sign(c)
         \/ read_sanad_state_byte(c) \/ find_sanad_locked_event(c)
         \/ resolve_seal(c) \/ idempotent_existing_mint(c)
         \/ build_sign_and_send_transaction(c) \/ submit_entry_function_with_retry(c)
         \/ submit_signed_transaction(c) \/ send_transaction(c) \/ sui_execute(c)
         \/ wait_for_receipt(c) \/ wait_for_transaction(c)
         \/ wait_for_confirmation(c) \/ get_latest_slot(c) \/ sui_effects(c)
         \/ CallAgain(c)
    \/ \E t \in DOMAIN txs : Execute(t)
    \/ Consume

OperationsSpec == OperationsInit /\ [][OperationsNext]_operationVars

----

\* A call that answers Ok names the transaction that took effect, and on Solana's
\* mint that transaction carries the caller's own inputs.  The exceptions are
\* Solana's lock and consume, which answer after the broadcast, and Sui's consume,
\* which signs a transaction, submits nothing and answers with its local hash.  For
\* Sui's lock and mint it rests on the node sending the status (sui_success).
OkMeansDone ==
    ~(is("solana", "lock") \/ is("solana", "consume") \/ is("sui", "consume")) =>
        \A c \in Submitters : calls[c].answer # 0 =>
            /\ calls[c].answer = effect
            /\ txs[effect].input = calls[c].input

\* "recover the original lock outcome when it already happened, instead of
\* re-submitting" (Ethereum lock_sanad) and Solana's idempotent mint: a call that
\* begins after the effect and meets no RPC trouble broadcasts nothing, and
\* answers Ok with the original transaction unless the sanad has been consumed
\* since or the inputs differ.
RetryRecovers ==
    is("ethereum", "lock") \/ is("solana", "mint") =>
        \A c \in Submitters :
            LET call == calls[c]
            IN  call.late /\ ~call.troubled /\ call.input = txs[effect].input =>
                    /\ call.at = "answered" /\ txs[effect].status = "ok" =>
                           call.answer = effect
                    /\ call.tx \in {0, effect}
====
