---- MODULE SealProtocol ----
(***************************************************************************)
(* The SealProtocol of the five chain adapters: publish, enforce_seal and  *)
(* rollback over the adapter's in-memory registry of used seals.           *)
(*                                                                         *)
(* enforce_seal looks into the registry, drops the lock, asks the chain,   *)
(* and takes the lock again to mark the seal; two calls interleave between *)
(* those steps.  The registry is lost with the process.  The adapters      *)
(* differ in the registry's key, in what the chain is asked, in whether    *)
(* publish marks the seal, and in what rollback clears.                    *)
(***************************************************************************)
EXTENDS Naturals, FiniteSets

CONSTANTS SealRefs,      \* references to seals, as the callers pass them
          ObjectOf,      \* ObjectOf[s]: the output or object s names, its nonce aside
          Enforcers,     \* concurrent calls
          MaxRegistry,   \* max_size of the registry
          MaxGrants      \* bound: answers Ok counted per seal

VARIABLES platform,
          used,     \* the registry's keys (Solana: the seals no longer active)
          spent,    \* the outputs, objects and accounts consumed on the chain
          anchors,  \* the seals whose commitment was published
          task,     \* the call of each enforcer
          grants    \* enforce_seal's Ok answers per seal since it was last cleared

sealVars == <<platform, used, spent, anchors, task, grants>>

Platforms == {"bitcoin", "ethereum", "solana", "sui", "aptos"}

NoTask == [op |-> "none", seal |-> "none", at |-> "idle", stale |-> FALSE, answer |-> "none"]

\* The key is the whole reference, on Bitcoin and Sui with a nonce the chain knows
\* nothing of.  Ethereum's is the contract and the slot, and create_seal always
\* takes slot 0: every seal of the contract has the same key.
seal_key(s) == IF platform = "ethereum" THEN "slot" ELSE s

\* What the chain is asked about: two references may differ in their nonce only.
Object(s) == IF platform \in {"bitcoin", "sui"} THEN ObjectOf[s] ELSE s

is_seal_used(s) == seal_key(s) \in used

is_full == Cardinality(used) >= MaxRegistry

SealAnswer(e, a) == task' = [task EXCEPT ![e].at = "answered", ![e].answer = a]
SealStep(e, at) == task' = [task EXCEPT ![e].at = at]

SealInit ==
    /\ platform \in Platforms
    /\ used = (IF platform = "solana" THEN SealRefs ELSE {})
    /\ spent = {}
    /\ anchors = {}
    /\ task = [e \in Enforcers |-> NoTask]
    /\ grants = [s \in SealRefs |-> 0]

----
(***************************************************************************)
(* mark_seal_used: Err when the seal is marked or the registry is full.    *)
(* Aptos has a max_size and does not look at it; Solana removes the seal   *)
(* from its active list, present or not.                                   *)
(***************************************************************************)
MarksAnyway(s) == [ok |-> TRUE, used |-> used \cup {seal_key(s)}]

bitcoin_mark(s) == ~is_seal_used(s) /\ ~is_full
ethereum_mark(s) == ~is_seal_used(s) /\ ~is_full
solana_mark(s) == TRUE
sui_mark(s) == ~is_seal_used(s) /\ ~is_full
aptos_mark(s) == ~is_seal_used(s)

mark_seal_used(s) ==
    LET ok == CASE platform = "bitcoin"  -> bitcoin_mark(s)
                [] platform = "ethereum" -> ethereum_mark(s)
                [] platform = "solana"   -> solana_mark(s)
                [] platform = "sui"      -> sui_mark(s)
                [] platform = "aptos"    -> aptos_mark(s)
    IN  [ok |-> ok, used |-> IF ok THEN used \cup {seal_key(s)} ELSE used]

(***************************************************************************)
(* What publish asks first: Bitcoin the chain, Ethereum the registry, Sui  *)
(* and Aptos both (Aptos asks the chain as enforce_seal does).             *)
(***************************************************************************)
bitcoin_available(s) == Object(s) \notin spent
ethereum_available(s) == ~is_seal_used(s)
sui_available(s) == ~is_seal_used(s) /\ Object(s) \notin spent
aptos_available(s) == ~is_seal_used(s)

(***************************************************************************)
(* enforce_seal.                                                           *)
(***************************************************************************)
enforce_seal(e, s) ==
    /\ task[e].at = "idle"
    /\ task' = [task EXCEPT ![e] =
                  [op |-> "enforce", seal |-> s, stale |-> Object(s) \in spent,
                   at |-> IF is_seal_used(s) THEN "answered" ELSE "chain",
                   answer |-> IF is_seal_used(s) THEN "replay" ELSE "none"]]
    /\ UNCHANGED <<platform, used, spent, anchors, grants>>

\* What the chain says of the seal.  Aptos compares the nonce with next_nonce,
\* which counts the seals created and not the ones consumed; Sui looks into the
\* registry once more.
bitcoin_enforce(s) == Object(s) \notin spent
ethereum_enforce(s) == Object(s) \notin spent
solana_enforce(s) == Object(s) \notin spent
sui_enforce(s) == sui_available(s)
aptos_enforce(s) == TRUE

unspent_on_chain(s) ==
    CASE platform = "bitcoin"  -> bitcoin_enforce(s)
      [] platform = "ethereum" -> ethereum_enforce(s)
      [] platform = "solana"   -> solana_enforce(s)
      [] platform = "sui"      -> sui_enforce(s)
      [] platform = "aptos"    -> aptos_enforce(s)

enforce_on_chain(e) ==
    /\ task[e].op = "enforce" /\ task[e].at = "chain"
    /\ \/ SealAnswer(e, "network_error")
       \/ IF unspent_on_chain(task[e].seal)
          THEN SealStep(e, "mark") ELSE SealAnswer(e, "replay")
    /\ UNCHANGED <<platform, used, spent, anchors, grants>>

enforce_mark(e) ==
    /\ task[e].op = "enforce" /\ task[e].at = "mark"
    /\ LET s == task[e].seal
           m == mark_seal_used(s)
       IN  /\ grants[s] < MaxGrants
           /\ used' = m.used
           /\ SealAnswer(e, IF m.ok THEN "ok" ELSE "replay")
           /\ grants' = [grants EXCEPT ![s] = IF m.ok THEN @ + 1 ELSE @]
    /\ UNCHANGED <<platform, spent, anchors>>

----
(***************************************************************************)
(* publish.  Every adapter but Solana's first checks that the seal is      *)
(* available.                                                              *)
(***************************************************************************)
SealAvailable(s) ==
    CASE platform = "bitcoin"  -> bitcoin_available(s)
      [] platform = "ethereum" -> ethereum_available(s)
      [] platform = "sui"      -> sui_available(s)
      [] platform = "aptos"    -> aptos_available(s)
      [] OTHER                 -> TRUE

publish(e, s) ==
    /\ task[e].at = "idle"
    /\ task' = [task EXCEPT ![e] =
                  [op |-> "publish", seal |-> s, stale |-> FALSE,
                   at |-> IF SealAvailable(s) THEN "send" ELSE "answered",
                   answer |-> IF SealAvailable(s) THEN "none" ELSE "refused"]]
    /\ UNCHANGED <<platform, used, spent, anchors, grants>>

\* What the transaction meets and does on each chain.  Bitcoin spends the seal's
\* own output; Ethereum and Solana create the seal's entry, which the contract
\* does once; Sui only reads the object again; Aptos records the commitment.
\* Ethereum then goes on to mark the seal.
bitcoin_publish(s) == [refused |-> Object(s) \in spent, spends |-> {Object(s)}, next |-> "answered"]
ethereum_publish(s) == [refused |-> s \in anchors, spends |-> {}, next |-> "mark"]
solana_publish(s) == [refused |-> s \in anchors, spends |-> {}, next |-> "answered"]
sui_publish(s) == [refused |-> Object(s) \in spent, spends |-> {}, next |-> "answered"]
aptos_publish(s) == [refused |-> FALSE, spends |-> {}, next |-> "answered"]

Publication(s) ==
    CASE platform = "bitcoin"  -> bitcoin_publish(s)
      [] platform = "ethereum" -> ethereum_publish(s)
      [] platform = "solana"   -> solana_publish(s)
      [] platform = "sui"      -> sui_publish(s)
      [] platform = "aptos"    -> aptos_publish(s)

\* The transaction fails, or takes effect and is confirmed, or takes effect and
\* its answer is lost.  Solana stores a confirmed seal as active.
publish_send(e) ==
    /\ task[e].op = "publish" /\ task[e].at = "send"
    /\ LET s == task[e].seal
           p == Publication(s)
       IN  \/ /\ SealAnswer(e, "publish_failed")
              /\ UNCHANGED <<used, spent, anchors>>
           \/ /\ ~p.refused
              /\ anchors' = anchors \cup {s}
              /\ spent' = spent \cup p.spends
              /\ \/ SealAnswer(e, "publish_failed") /\ UNCHANGED used
                 \/ /\ IF p.next = "mark" THEN SealStep(e, "mark") ELSE SealAnswer(e, "ok")
                    /\ used' = IF platform = "solana" THEN used \ {s} ELSE used
    /\ UNCHANGED <<platform, grants>>

publish_mark(e) ==
    /\ task[e].op = "publish" /\ task[e].at = "mark"
    /\ LET m == mark_seal_used(task[e].seal)
       IN  /\ used' = m.used
           /\ SealAnswer(e, IF m.ok THEN "ok" ELSE "replay")
    /\ UNCHANGED <<platform, spent, anchors, grants>>

(***************************************************************************)
(* rollback of a published anchor.  Ethereum clears slot 0.  Bitcoin       *)
(* clears the output of the anchor's transaction, Sui the object at        *)
(* version 0, Aptos the transaction's hash as an address: none of them is  *)
(* the key of a marked seal.  Solana clears nothing.                       *)
(***************************************************************************)
bitcoin_rollback(s) == {}
ethereum_rollback(s) == {seal_key(s)}
solana_rollback(s) == {}
sui_rollback(s) == {}
aptos_rollback(s) == {}

ClearedKeys(s) ==
    CASE platform = "bitcoin"  -> bitcoin_rollback(s)
      [] platform = "ethereum" -> ethereum_rollback(s)
      [] platform = "solana"   -> solana_rollback(s)
      [] platform = "sui"      -> sui_rollback(s)
      [] platform = "aptos"    -> aptos_rollback(s)

rollback(s) ==
    /\ s \in anchors
    /\ used' = used \ ClearedKeys(s)
    /\ grants' = [x \in SealRefs |-> IF seal_key(x) \in ClearedKeys(s) THEN 0 ELSE grants[x]]
    /\ UNCHANGED <<platform, spent, anchors, task>>

----
\* The seal is consumed on the chain by a transaction of its own.
Spend(s) ==
    /\ Object(s) \notin spent
    /\ spent' = spent \cup {Object(s)}
    /\ UNCHANGED <<platform, used, anchors, task, grants>>

SealReturn(e) ==
    /\ task[e].at = "answered"
    /\ task' = [task EXCEPT ![e] = NoTask]
    /\ UNCHANGED <<platform, used, spent, anchors, grants>>

\* The process restarts: calls end, the registry is empty again (Solana's active
\* list too, so that every seal counts as used).
ProcessRestarts ==
    /\ used' = (IF platform = "solana" THEN SealRefs ELSE {})
    /\ task' = [e \in Enforcers |-> NoTask]
    /\ grants' = [s \in SealRefs |-> 0]
    /\ UNCHANGED <<platform, spent, anchors>>

SealNext ==
    \/ \E e \in Enforcers :
         \/ \E s \in SealRefs : enforce_seal(e, s) \/ publish(e, s)
         \/ enforce_on_chain(e) \/ enforce_mark(e)
         \/ publish_send(e) \/ publish_mark(e)
         \/ SealReturn(e)
    \/ \E s \in SealRefs : rollback(s) \/ Spend(s)
    \/ ProcessRestarts

SealSpec == SealInit /\ [][SealNext]_sealVars

----

\* "This method ensures that a seal cannot be used more than once" (enforce_seal):
\* between two losses or clearings of the registry a reference is granted once, though
\* the registry's lock is dropped while the chain is asked (Solana, whose last
\* step removes the seal whether or not it is still there, is left out); and "even
\* if local state is corrupted or lost, we still prevent double-spends by querying
\* the blockchain": a seal consumed on the chain before the call began is not
\* granted, whatever rollback or a restart did to the registry (Aptos, which asks
\* the chain for something else, is left out).
EnforcedOnce ==
    /\ platform # "solana" => \A s \in SealRefs : grants[s] <= 1
    /\ platform # "aptos" =>
          \A e \in Enforcers : task[e].stale => task[e].answer # "ok"

\* The same for Solana: "This method ensures that a PDA account cannot be consumed
\* more than once".
EnforcedOnceOnSolana == platform = "solana" => \A s \in SealRefs : grants[s] <= 1

====
