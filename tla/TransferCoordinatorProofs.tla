--------------------- MODULE TransferCoordinatorProofs ---------------------
(***************************************************************************)
(* The safety of materialize-mode transfers, for any number of transfers,  *)
(* sanads and callers, any retry policy and any number of faults.          *)
(*                                                                         *)
(* The inductive invariant says of every call what the step it has reached *)
(* implies: past the finality gate the lock is final, past the mint call   *)
(* the mint was accepted, past confirm_consumed the slot is Consumed, and  *)
(* past consume_if_unconsumed it is at least Pending and, when two calls   *)
(* of one sanad are, Consumed.                                             *)
(***************************************************************************)
EXTENDS TransferCoordinator, TLAPS

(* The steps behind confirm_consumed, behind the mint and behind the gate. *)
Confirmed == {"evidence", "confirm_store", "complete_event", "complete", "r_evidence",
              "r_store", "r_mint_confirmed", "r_complete"}

Minted == Confirmed \cup {"minted", "mint_submitted", "mint_confirmed", "confirm",
                          "r_minted", "r_submitted", "r_confirm"}

Buried == {"final", "proof_enter", "build", "verify", "verified", "proof", "mint_check",
           "mint_enter", "mint", "mint_blocked", "mint_failed", "r_final",
           "r_proof_enter", "r_build", "r_verified", "r_proof", "r_mint_enter", "r_mint"}

(* What the step of a call says of its sanad's slot and of the chains.     *)
CallOK(c, slots, facts) ==
    c.at # "idle" =>
        /\ c.transfer \in Transfers
        /\ c.at \in Buried => "final" \in facts[SanadOf[c.transfer]]
        /\ c.at \in Minted => "minted" \in facts[SanadOf[c.transfer]]
        /\ c.at \in Confirmed => slots[SanadOf[c.transfer]] = "Consumed"
        /\ c.at \in Reserved => slots[SanadOf[c.transfer]] \in {"Pending", "Consumed"}

(* Two calls that hold the same reservation.                               *)
Clash(c, d) ==
    /\ c.at \in Reserved /\ d.at \in Reserved
    /\ SanadOf[c.transfer] = SanadOf[d.transfer]

CallsOK(calls, slots, facts) ==
    /\ \A k \in Tasks : CallOK(calls[k], slots, facts)
    /\ \A j, k \in Tasks :
          j # k /\ Clash(calls[j], calls[k]) => slots[SanadOf[calls[k].transfer]] = "Consumed"

IInv ==
    /\ TypeOK
    /\ CallsOK(task, replay, chain)
    /\ MintedOnlyFinal /\ ConsumedOnlyMinted /\ CompletedOnlyConsumed

Calls == [at : Steps, transfer : Transfers \cup {NoTransfer}, attempt : 0 .. MaxRetries,
          cached : BOOLEAN]

(***************************************************************************)
(* How the calls' invariant survives a step.                               *)
(***************************************************************************)

(* One call moves, and neither slots nor chains change.                    *)
LEMMA OneMoves ==
    ASSUME NEW calls, NEW slots, NEW facts, NEW k \in Tasks, NEW c,
           CallsOK(calls, slots, facts), calls \in [Tasks -> Calls], CallOK(c, slots, facts),
           \/ c.at \notin Reserved
           \/ calls[k].at \in Reserved /\ c.transfer = calls[k].transfer
    PROVE  CallsOK([calls EXCEPT ![k] = c], slots, facts)
BY DEF CallsOK, Clash

(* Chains and slots advance: facts are added, a slot becomes Consumed.     *)
LEMMA WorldAdvances ==
    ASSUME NEW calls, NEW slots, NEW facts, NEW slots2, NEW facts2,
           CallsOK(calls, slots, facts),
           \A s \in Sanads : facts[s] \subseteq facts2[s],
           \A s \in Sanads : slots2[s] = slots[s] \/ slots2[s] = "Consumed"
    PROVE  CallsOK(calls, slots2, facts2)
BY CoordinatorAssumption DEF CallsOK, CallOK, Clash, Reserved

(* Both together, with the call's own obligation on the new world.         *)
LEMMA CallMoves ==
    ASSUME NEW calls \in [Tasks -> Calls], NEW slots, NEW facts, NEW slots2, NEW facts2,
           NEW k \in Tasks, NEW c,
           CallsOK(calls, slots, facts),
           \A s \in Sanads : facts[s] \subseteq facts2[s],
           \A s \in Sanads : slots2[s] = slots[s] \/ slots2[s] = "Consumed",
           CallOK(c, slots2, facts2),
           \/ c.at \notin Reserved
           \/ calls[k].at \in Reserved /\ c.transfer = calls[k].transfer
    PROVE  CallsOK([calls EXCEPT ![k] = c], slots2, facts2)
<1>1. CallsOK(calls, slots2, facts2)
  BY WorldAdvances
<1> QED
  BY Zenon, <1>1, OneMoves

(* A call that ends says nothing.                                          *)
LEMMA IdleOK ==
    ASSUME NEW slots, NEW facts
    PROVE  Idle \in Calls /\ CallOK(Idle, slots, facts) /\ Idle.at \notin Reserved
BY CoordinatorAssumption DEF Idle, Calls, CallOK, Steps, Reserved

(* What a step to must inherit from the step from before it.               *)
Follows(from, to) ==
    /\ from # "idle" /\ to \in Steps \ {"idle"}
    /\ to \in Buried => from \in Buried
    /\ to \in Minted => from \in Minted
    /\ to \in Confirmed => from \in Confirmed
    /\ to \in Reserved => from \in Reserved

(* A call goes on to a step that needs no more than the one before.        *)
LEMMA GoesOn ==
    ASSUME IInv, NEW k \in Tasks, NEW to, Follows(task[k].at, to), Goto(k, to)
    PROVE  /\ task' \in [Tasks -> Calls]
           /\ \A j \in Tasks : Active(j)' => Transfer(j)' \in Transfers
           /\ CallsOK(task', replay, chain)
<1> PICK c : c = [at |-> to, transfer |-> task[k].transfer, attempt |-> 0,
                  cached |-> task[k].cached]
  BY Zenon
<1>1. task \in [Tasks -> Calls] /\ task[k] \in Calls /\ task[k].transfer \in Transfers
  BY DEF IInv, TypeOK, Calls, Follows, Active, Transfer
<1>2. c \in Calls /\ c.at = to /\ c.transfer = task[k].transfer
  BY <1>1, CoordinatorAssumption DEF Calls, Follows
<1>3. task' = [task EXCEPT ![k] = c]
  BY DEF Goto, Call, Transfer
<1>4. CallOK(task[k], replay, chain)
  BY Zenon DEF IInv, CallsOK
<1>5. CallOK(c, replay, chain)
  BY Zenon, <1>1, <1>2, <1>4 DEF CallOK, Follows
<1>6. c.at \notin Reserved \/ (task[k].at \in Reserved /\ c.transfer = task[k].transfer)
  BY <1>2 DEF Follows
<1>7. CallsOK(task', replay, chain)
  BY Zenon, <1>1, <1>3, <1>5, <1>6, OneMoves DEF IInv
<1>8. task' \in [Tasks -> Calls]
  BY Zenon, <1>1, <1>2, <1>3
<1>9. \A j \in Tasks : Active(j)' => Transfer(j)' \in Transfers
  BY <1>1, <1>2, <1>3 DEF IInv, TypeOK, Active, Transfer
<1> QED
  BY <1>7, <1>8, <1>9

(* A call ends.                                                            *)
LEMMA Ends ==
    ASSUME IInv, NEW k \in Tasks, Return(k)
    PROVE  /\ task' \in [Tasks -> Calls]
           /\ \A j \in Tasks : Active(j)' => Transfer(j)' \in Transfers
           /\ CallsOK(task', replay, chain)
<1>1. task \in [Tasks -> Calls] /\ CallsOK(task, replay, chain)
  BY DEF IInv, TypeOK, Calls
<1>2. task' = [task EXCEPT ![k] = Idle]
  BY DEF Return
<1>3. CallsOK(task', replay, chain)
  BY Zenon, <1>1, <1>2, IdleOK, OneMoves
<1>4. task' \in [Tasks -> Calls]
  BY Zenon, <1>1, <1>2, IdleOK
<1>5. \A j \in Tasks : Active(j)' => Transfer(j)' \in Transfers
  BY <1>1, <1>2 DEF IInv, TypeOK, Active, Transfer, Idle
<1> QED
  BY <1>3, <1>4, <1>5

(***************************************************************************)
(* The kinds of step.                                                      *)
(***************************************************************************)

(* A fault that happens is counted, within the bound.                      *)
LEMMA FaultsTyped ==
    ASSUME IInv, UNCHANGED faults \/ Fail
    PROVE  faults' \in 0 .. MaxFaults
BY CoordinatorAssumption DEF IInv, TypeOK, Fail

(* An event that cannot be recorded counts as a fault.                     *)
LEMMA EmitTyped ==
    ASSUME IInv, NEW s, NEW kind, NEW v, Emit(s, kind, v)
    PROVE  faults' \in 0 .. MaxFaults
<1>1. UNCHANGED faults \/ Fail
  BY DEF Emit
<1> QED
  BY <1>1, FaultsTyped

(* Only the call, the breaker and the fault count change.                  *)
LEMMA CallStep ==
    ASSUME IInv, NEW k \in Tasks, NEW to,
           Return(k) \/ (Follows(task[k].at, to) /\ Goto(k, to)),
           UNCHANGED <<replay, registry, journal, chain>>,
           breaker' \in Breakers, faults' \in 0 .. MaxFaults
    PROVE  IInv'
<1>1. /\ task' \in [Tasks -> Calls]
      /\ \A j \in Tasks : Active(j)' => Transfer(j)' \in Transfers
      /\ CallsOK(task', replay, chain)
  BY Zenon, GoesOn, Ends
<1>2. TypeOK'
  BY Zenon, <1>1 DEF IInv, TypeOK, Calls
<1>3. MintedOnlyFinal' /\ ConsumedOnlyMinted' /\ CompletedOnlyConsumed'
  BY DEF IInv, MintedOnlyFinal, ConsumedOnlyMinted, CompletedOnlyConsumed
<1>4. CallsOK(task', replay', chain')
  BY <1>1
<1> QED
  BY <1>2, <1>3, <1>4 DEF IInv

(* A journal entry is recorded; Completed only behind confirm_consumed.    *)
LEMMA RecordStep ==
    ASSUME IInv, NEW k \in Tasks, NEW from, NEW to, Follows(from, to),
           NEW entry \in [phase : Phases, payload : BOOLEAN, context : BOOLEAN],
           entry.phase = "Completed" => from \in Confirmed,
           Record(k, from, entry, to)
    PROVE  IInv'
<1>0. /\ task[k].at = from /\ Goto(k, to)
      /\ journal' = [journal EXCEPT ![Transfer(k)] = entry]
      /\ UNCHANGED <<replay, registry, events, breaker, chain, faults>>
  BY DEF Record
<1>1. /\ task' \in [Tasks -> Calls]
      /\ \A j \in Tasks : Active(j)' => Transfer(j)' \in Transfers
      /\ CallsOK(task', replay, chain)
  BY <1>0, GoesOn
<1>2. TypeOK'
  BY Zenon, <1>0, <1>1 DEF IInv, TypeOK, Calls
<1>3. MintedOnlyFinal' /\ ConsumedOnlyMinted'
  BY Zenon, <1>0 DEF IInv, MintedOnlyFinal, ConsumedOnlyMinted
<1>4. from \in Confirmed => replay[SanadOf[Transfer(k)]] = "Consumed"
  BY Zenon, <1>0 DEF IInv, CallsOK, CallOK, Confirmed, Transfer
<1>5. CompletedOnlyConsumed'
  BY <1>0, <1>4 DEF IInv, TypeOK, CompletedOnlyConsumed
<1>6. CallsOK(task', replay', chain')
  BY <1>0, <1>1
<1> QED
  BY <1>2, <1>3, <1>5, <1>6 DEF IInv

(* A row is stored; with a mint hash only behind the mint.                 *)
LEMMA StoreStep ==
    ASSUME IInv, NEW k \in Tasks, NEW from, NEW to, Follows(from, to),
           NEW minted \in BOOLEAN, minted => from \in Minted,
           store_transfer_entry(k, from, minted, to)
    PROVE  IInv'
<1>0. /\ task[k].at = from /\ Goto(k, to)
      /\ registry' = [registry EXCEPT ![Sanad(k)] = [id |-> Transfer(k), minted |-> minted]]
      /\ UNCHANGED <<replay, journal, events, breaker, chain, faults>>
  BY Zenon DEF store_transfer_entry
<1>1. /\ task' \in [Tasks -> Calls]
      /\ \A j \in Tasks : Active(j)' => Transfer(j)' \in Transfers
      /\ CallsOK(task', replay, chain)
  BY Zenon, <1>0, GoesOn
<1>2. Transfer(k) \in Transfers
  BY <1>0 DEF IInv, TypeOK, Follows, Active
<1>3. [id |-> Transfer(k), minted |-> minted]
          \in [id : Transfers \cup {NoTransfer}, minted : BOOLEAN]
  BY <1>2
<1>4. TypeOK'
  BY ZenonT(30), <1>0, <1>1, <1>3 DEF IInv, TypeOK, Calls
<1>5. from \in Minted => "minted" \in chain[Sanad(k)]
  BY Zenon, <1>0 DEF IInv, CallsOK, CallOK, Minted, Confirmed, Sanad, Transfer
<1>6. ConsumedOnlyMinted'
  BY Zenon, <1>0, <1>5 DEF IInv, TypeOK, ConsumedOnlyMinted
<1>7. MintedOnlyFinal' /\ CompletedOnlyConsumed'
  BY <1>0 DEF IInv, MintedOnlyFinal, CompletedOnlyConsumed
<1>8. CallsOK(task', replay', chain')
  BY <1>0, <1>1
<1> QED
  BY Zenon, <1>4, <1>6, <1>7, <1>8 DEF IInv

(* The slot is promoted behind the mint.                                   *)
LEMMA ConfirmStep ==
    ASSUME IInv, NEW k \in Tasks, NEW from, NEW to,
           from \in Minted \ Confirmed, to \in Confirmed \cap Steps,
           to \in Reserved => from \in Reserved,
           Confirm(k, from, to)
    PROVE  IInv'
<1>0. task[k].at = from /\ UNCHANGED <<registry, journal, events, breaker, chain, faults>>
  BY DEF Confirm
<1> PICK s : s = Sanad(k)
  BY Zenon
<1>1. /\ task[k] \in Calls /\ task \in [Tasks -> Calls] /\ from # "idle"
      /\ Transfer(k) \in Transfers /\ s \in Sanads /\ replay[s] \in States
  BY Zenon, <1>0, CoordinatorAssumption
     DEF IInv, TypeOK, Calls, Active, Transfer, Sanad, Minted, Confirmed
<1>2. "minted" \in chain[s]
  BY Zenon, <1>0, <1>1 DEF IInv, CallsOK, CallOK, Sanad, Transfer
<1>3. CASE replay[s] \in {"Pending", "Consumed"}
  <2>1. replay' = [replay EXCEPT ![s] = "Consumed"] /\ Goto(k, to)
    BY Zenon, <1>3 DEF Confirm, confirm_consumed, Answer
  <2> PICK c : c = [at |-> to, transfer |-> task[k].transfer, attempt |-> 0,
                    cached |-> task[k].cached]
    BY Zenon
  <2>2. c \in Calls /\ c.at = to /\ c.transfer = task[k].transfer
    BY <1>1, CoordinatorAssumption DEF Calls, Transfer
  <2>3. task' = [task EXCEPT ![k] = c]
    BY Zenon, <2>1 DEF Goto, Call, Transfer
  <2>4. \A u \in Sanads : replay'[u] = replay[u] \/ replay'[u] = "Consumed"
    BY Zenon, <2>1 DEF IInv, TypeOK
  <2>5. replay'[s] = "Consumed"
    BY Zenon, <1>1, <2>1 DEF IInv, TypeOK
  <2>6. CallOK(c, replay', chain)
    BY <1>1, <1>2, <2>2, <2>5 DEF CallOK, Sanad, Transfer, Buried, Confirmed
  <2>7. CallsOK([task EXCEPT ![k] = c], replay', chain)
    <3>1. c.at \notin Reserved \/ (task[k].at \in Reserved /\ c.transfer = task[k].transfer)
      BY Zenon, <1>0, <2>2
    <3>2. CallsOK(task, replay, chain)
      BY Zenon DEF IInv
    <3> QED
      BY Zenon, <1>1, <2>4, <2>6, <3>1, <3>2, CallMoves
  <2>8. TypeOK'
    <3>1. replay' \in [Sanads -> States]
      BY Zenon, <1>1, <2>1 DEF IInv, TypeOK, States
    <3>2. task' \in [Tasks -> Calls]
      BY Zenon, <1>1, <2>2, <2>3
    <3>3. \A j \in Tasks : Active(j)' => Transfer(j)' \in Transfers
      BY Zenon, <1>1, <2>2, <2>3 DEF IInv, TypeOK, Active, Transfer
    <3> QED
      BY Zenon, <1>0, <3>1, <3>2, <3>3 DEF IInv, TypeOK, Calls
  <2>9. MintedOnlyFinal' /\ ConsumedOnlyMinted' /\ CompletedOnlyConsumed'
    BY Zenon, <1>0, <1>1, <1>2, <2>1, <2>4, CoordinatorAssumption
       DEF IInv, TypeOK, MintedOnlyFinal, ConsumedOnlyMinted, CompletedOnlyConsumed
  <2> QED
    BY <1>0, <2>3, <2>7, <2>8, <2>9 DEF IInv
<1>4. CASE replay[s] \in {"RolledBack", "None"}
  <2>1. replay' = [replay EXCEPT ![s] = replay[s]] /\ Return(k)
    BY Zenon, <1>4 DEF Confirm, confirm_consumed, Answer
  <2>2. replay' = replay
    BY Zenon, <2>1 DEF IInv, TypeOK
  <2>3. breaker' \in Breakers /\ faults' \in 0 .. MaxFaults
    BY <1>0 DEF IInv, TypeOK
  <2> QED
    BY <1>0, <2>1, <2>2, <2>3, CallStep
<1> QED
  BY Zenon, <1>1, <1>3, <1>4 DEF States

(* The slot is reserved: another call that holds it finds it Consumed.     *)
LEMMA ConsumeStep ==
    ASSUME IInv, NEW k \in Tasks, consume(k)
    PROVE  IInv'
<1> PICK s : s = Sanad(k)
  BY Zenon
<1>0. /\ task[k].at = "consume" /\ UNCHANGED <<registry, journal, breaker, chain>>
      /\ replay' = [replay EXCEPT ![s] = consume_if_unconsumed(replay[s]).state]
      /\ \/ /\ consume_if_unconsumed(replay[s]).res = "Ok" /\ Goto(k, "initialized")
            /\ UNCHANGED <<events, faults>>
         \/ /\ consume_if_unconsumed(replay[s]).res = "AlreadyExists" /\ Return(k)
            /\ Emit(s, "replay_detected", 1)
  BY Zenon DEF consume
<1>1. /\ task[k] \in Calls /\ task \in [Tasks -> Calls]
      /\ Transfer(k) \in Transfers /\ s \in Sanads /\ replay[s] \in States
  BY Zenon, <1>0, CoordinatorAssumption DEF IInv, TypeOK, Calls, Active, Transfer, Sanad
<1>2. CASE replay[s] = "Pending"
  <2>1. consume_if_unconsumed(replay[s]) = Answer("Pending", "AlreadyExists")
    BY Zenon, <1>2 DEF consume_if_unconsumed
  <2>2. replay' = replay /\ Return(k) /\ Emit(s, "replay_detected", 1)
    BY <1>0, <1>1, <1>2, <2>1 DEF Answer, IInv, TypeOK
  <2>3. breaker' \in Breakers /\ faults' \in 0 .. MaxFaults
    BY Zenon, <1>0, <2>2, EmitTyped DEF IInv, TypeOK
  <2> QED
    BY <1>0, <2>2, <2>3, CallStep
<1>3. CASE replay[s] # "Pending"
  <2> PICK new : new = IF replay[s] = "Consumed" THEN "Consumed" ELSE "Pending"
    OBVIOUS
  <2>1. consume_if_unconsumed(replay[s]) = Answer(new, "Ok")
    BY Zenon, <1>1, <1>3 DEF consume_if_unconsumed, States
  <2>2. /\ replay' = [replay EXCEPT ![s] = new] /\ Goto(k, "initialized")
        /\ UNCHANGED faults
    BY <1>0, <2>1 DEF Answer
  <2> PICK c : c = [at |-> "initialized", transfer |-> task[k].transfer, attempt |-> 0,
                    cached |-> task[k].cached]
    BY Zenon
  <2>3. c \in Calls /\ c.at = "initialized" /\ c.transfer = task[k].transfer
    BY <1>1, CoordinatorAssumption DEF Calls, Transfer, Steps
  <2>4. task' = [task EXCEPT ![k] = c]
    BY Zenon, <2>2 DEF Goto, Call, Transfer
  <2>5. replay' \in [Sanads -> States] /\ replay'[s] = new
    BY Zenon, <1>1, <2>2 DEF IInv, TypeOK, States
  <2>6. \A j \in Tasks \ {k} :
            task[j].at \in Reserved /\ SanadOf[task[j].transfer] = s => replay[s] = "Consumed"
    BY <1>3 DEF IInv, CallsOK, CallOK, Reserved
  <2>7. \A u \in Sanads : replay[u] = "Consumed" => replay'[u] = "Consumed"
    BY Zenon, <1>1, <2>2 DEF IInv, TypeOK
  <2>8. \A u \in Sanads : u # s => replay'[u] = replay[u]
    BY Zenon, <1>1, <2>2 DEF IInv, TypeOK
  <2>9. CallOK(c, replay', chain)
    BY Zenon, <1>1, <2>3, <2>5 DEF CallOK, Buried, Minted, Confirmed, Sanad, Transfer
  <2>10. \A j \in Tasks \ {k} : CallOK(task[j], replay', chain)
    BY Zenon, <2>6, <2>7, <2>8, CoordinatorAssumption DEF IInv, CallsOK, CallOK
  <2>11. CallsOK(task', replay', chain')
    <3>1. \A j \in Tasks : CallOK(task'[j], replay', chain')
      BY ZenonT(30), <1>0, <1>1, <2>4, <2>9, <2>10
    <3>2. ASSUME NEW i \in Tasks, NEW j \in Tasks, i # j, Clash(task'[i], task'[j])
          PROVE  replay'[SanadOf[task'[j].transfer]] = "Consumed"
      <4>1. CASE i # k /\ j # k
        <5>1. task'[i] = task[i] /\ task'[j] = task[j]
          BY Zenon, <1>1, <2>4, <4>1
        <5>2. replay[SanadOf[task[j].transfer]] = "Consumed"
          BY Zenon, <3>2, <5>1 DEF IInv, CallsOK
        <5>3. SanadOf[task[j].transfer] \in Sanads
          BY Zenon, <3>2, <5>1, CoordinatorAssumption DEF Clash, IInv, CallsOK, CallOK, Reserved
        <5> QED
          BY Zenon, <2>7, <5>1, <5>2, <5>3
      <4>2. CASE i = k
        <5>1. task'[i] = c /\ task'[j] = task[j] /\ SanadOf[task[j].transfer] = s
          BY Zenon, <1>1, <2>3, <2>4, <3>2, <4>2 DEF Clash, Sanad, Transfer
        <5> QED
          BY Zenon, <1>1, <2>6, <2>7, <3>2, <4>2, <5>1 DEF Clash
      <4>3. CASE j = k
        <5>1. task'[j] = c /\ task'[i] = task[i] /\ SanadOf[task[i].transfer] = s
          BY Zenon, <1>1, <2>3, <2>4, <3>2, <4>3 DEF Clash, Sanad, Transfer
        <5>2. SanadOf[c.transfer] = s
          BY Zenon, <2>3 DEF Sanad, Transfer
        <5> QED
          BY Zenon, <1>1, <2>6, <2>7, <3>2, <4>3, <5>1, <5>2 DEF Clash
      <4> QED
        BY Zenon, <4>1, <4>2, <4>3
    <3> QED
      BY <3>1, <3>2 DEF CallsOK
  <2>12. TypeOK'
    <3>1. task' \in [Tasks -> Calls]
      BY Zenon, <1>1, <2>3, <2>4
    <3>2. \A j \in Tasks : Active(j)' => Transfer(j)' \in Transfers
      BY Zenon, <1>1, <2>3, <2>4 DEF IInv, TypeOK, Active, Transfer
    <3> QED
      BY Zenon, <1>0, <2>2, <2>5, <3>1, <3>2 DEF IInv, TypeOK, Calls
  <2>13. MintedOnlyFinal' /\ ConsumedOnlyMinted' /\ CompletedOnlyConsumed'
    <3>1. \A u \in Sanads : replay'[u] = "Consumed" => replay[u] = "Consumed"
      BY <1>1, <2>2 DEF IInv, TypeOK
    <3> QED
      BY Zenon, <1>0, <2>7, <3>1, CoordinatorAssumption
         DEF IInv, MintedOnlyFinal, ConsumedOnlyMinted, CompletedOnlyConsumed
  <2> QED
    BY <2>11, <2>12, <2>13 DEF IInv
<1> QED
  BY <1>2, <1>3

(* A pending slot is rolled back by the only call that holds it.           *)
LEMMA RollbackStep ==
    ASSUME IInv, NEW k \in Tasks, rollback(k)
    PROVE  IInv'
<1> PICK s : s = Sanad(k)
  OBVIOUS
<1>0. /\ task[k].at = "rollback" /\ Return(k)
      /\ replay' = [replay EXCEPT ![s] = mark_rolled_back(replay[s]).state]
      /\ UNCHANGED <<registry, journal, events, breaker, chain, faults>>
  BY Zenon, SMTT(30) DEF rollback
<1>1. /\ task \in [Tasks -> Calls] /\ Transfer(k) \in Transfers /\ s \in Sanads
      /\ replay[s] \in {"Pending", "Consumed"}
  BY Zenon, <1>0, CoordinatorAssumption
     DEF IInv, TypeOK, Calls, Active, Transfer, Sanad, CallsOK, CallOK, Reserved
<1>2. /\ breaker' \in Breakers /\ faults' \in 0 .. MaxFaults
  BY Zenon, <1>0 DEF IInv, TypeOK
<1>3. CASE replay[s] = "Consumed"
  <2>1. mark_rolled_back(replay[s]).state = replay[s]
    BY Zenon, <1>3 DEF mark_rolled_back, Answer
  <2>2. replay' = replay
    BY Zenon, <1>0, <2>1 DEF IInv, TypeOK
  <2> QED
    BY <1>0, <1>2, <2>2, CallStep
<1>4. CASE replay[s] = "Pending"
  <2>1. mark_rolled_back(replay[s]).state = "RolledBack"
    BY Zenon, <1>4 DEF mark_rolled_back, Answer
  <2>2. replay' = [replay EXCEPT ![s] = "RolledBack"]
    BY Zenon, <1>0, <2>1
  <2>3. replay' \in [Sanads -> States] /\ \A u \in Sanads : u # s => replay'[u] = replay[u]
    BY Zenon, <1>1, <2>2 DEF IInv, TypeOK, States
  <2>4. task' = [task EXCEPT ![k] = Idle]
    BY Zenon, <1>0 DEF Return
  <2>5. \A j \in Tasks \ {k} : task[j].at \in Reserved => SanadOf[task[j].transfer] # s
    BY Zenon, <1>0, <1>4 DEF IInv, CallsOK, Clash, Sanad, Transfer, Reserved
  <2>6. \A j \in Tasks \ {k} : task[j].at \in Confirmed => SanadOf[task[j].transfer] # s
    BY Zenon, <1>4 DEF IInv, CallsOK, CallOK, Confirmed
  <2>7. \A j \in Tasks \ {k} : CallOK(task[j], replay', chain)
    BY Zenon, <2>3, <2>5, <2>6, CoordinatorAssumption DEF IInv, CallsOK, CallOK
  <2>8. CallsOK(task', replay', chain')
    <3>1. \A j \in Tasks : CallOK(task'[j], replay', chain')
      BY ZenonT(30), <1>0, <1>1, <2>4, <2>7, IdleOK
    <3>2. ASSUME NEW i \in Tasks, NEW j \in Tasks, i # j, Clash(task'[i], task'[j])
          PROVE  replay'[SanadOf[task'[j].transfer]] = "Consumed"
      <4>1. i # k /\ j # k
        BY Zenon, <1>1, <2>4, <3>2, IdleOK DEF Clash
      <4>2. task'[i] = task[i] /\ task'[j] = task[j]
        BY Zenon, <1>1, <2>4, <4>1
      <4>3. replay[SanadOf[task[j].transfer]] = "Consumed" /\ task[j].at \in Reserved
        BY Zenon, <3>2, <4>2 DEF IInv, CallsOK, Clash
      <4>4. SanadOf[task[j].transfer] \in Sanads
        BY Zenon, <4>3, CoordinatorAssumption DEF IInv, CallsOK, CallOK, Reserved
      <4> QED
        BY Zenon, <2>3, <2>5, <4>1, <4>2, <4>3, <4>4
    <3> QED
      BY <3>1, <3>2 DEF CallsOK
  <2>9. TypeOK'
    BY Zenon, <1>0, <1>2, <2>3, Ends DEF IInv, TypeOK, Calls
  <2>10. MintedOnlyFinal' /\ ConsumedOnlyMinted' /\ CompletedOnlyConsumed'
    BY Zenon, <1>0, <1>4, <2>2, <2>3, CoordinatorAssumption
       DEF IInv, TypeOK, MintedOnlyFinal, ConsumedOnlyMinted, CompletedOnlyConsumed
  <2> QED
    BY <2>8, <2>9, <2>10 DEF IInv
<1> QED
  BY Zenon, <1>1, <1>3, <1>4

(* The chains gain facts: a call goes on with them, stays or ends.         *)
LEMMA ChainStep ==
    ASSUME IInv, NEW k \in Tasks, NEW c \in Calls,
           task' = [task EXCEPT ![k] = c],
           chain' \in [Sanads -> SUBSET {"locked", "final", "minted"}],
           \A u \in Sanads : chain[u] \subseteq chain'[u],
           MintedOnlyFinal',
           CallOK(c, replay, chain'),
           \/ c.at \notin Reserved
           \/ task[k].at \in Reserved /\ c.transfer = task[k].transfer,
           UNCHANGED <<replay, registry, journal>>,
           breaker' \in Breakers, faults' \in 0 .. MaxFaults
    PROVE  IInv'
<1>1. task \in [Tasks -> Calls]
  BY Zenon DEF IInv, TypeOK, Calls
<1>2. CallsOK(task', replay', chain')
  <2>1. CallsOK(task, replay, chain)
    BY Zenon DEF IInv
  <2>2. CallsOK(task, replay, chain')
    BY <2>1, WorldAdvances
  <2>3. CallsOK([task EXCEPT ![k] = c], replay, chain')
    BY Zenon, <1>1, <2>2, OneMoves
  <2> QED
    BY Zenon, <2>3
<1>3. \A j \in Tasks : Active(j)' => Transfer(j)' \in Transfers
  BY Zenon, <1>1 DEF CallOK, IInv, TypeOK, Active, Transfer
<1>4. TypeOK'
  BY Zenon, <1>1, <1>3 DEF IInv, TypeOK, Calls
<1>5. ConsumedOnlyMinted' /\ CompletedOnlyConsumed'
  BY Zenon DEF IInv, ConsumedOnlyMinted, CompletedOnlyConsumed
<1> QED
  BY Zenon, <1>2, <1>4, <1>5 DEF IInv

(* A fact added to one sanad, or none: a mint only where the lock is final. *)
LEMMA FactAdded ==
    ASSUME IInv, NEW s \in Sanads, NEW fact \in {"locked", "final", "minted"},
           fact = "minted" => "final" \in chain[s],
           UNCHANGED chain \/ chain' = [chain EXCEPT ![s] = @ \cup {fact}]
    PROVE  /\ chain' \in [Sanads -> SUBSET {"locked", "final", "minted"}]
           /\ \A u \in Sanads : chain[u] \subseteq chain'[u]
           /\ MintedOnlyFinal'
<1> PICK new : new = chain[s] \cup {fact}
  BY Zenon
<1>1. /\ chain \in [Sanads -> SUBSET {"locked", "final", "minted"}]
      /\ \A u \in Sanads : "minted" \in chain[u] => "final" \in chain[u]
  BY Zenon DEF IInv, TypeOK, MintedOnlyFinal
<1>2. CASE UNCHANGED chain
  BY Zenon, <1>1, <1>2 DEF MintedOnlyFinal
<1>3. CASE chain' = [chain EXCEPT ![s] = new]
  <2>1. \A u \in Sanads : chain'[u] = IF u = s THEN new ELSE chain[u]
    BY Zenon, <1>1, <1>3
  <2>2. new \in SUBSET {"locked", "final", "minted"}
    BY Zenon, <1>1
  <2>3. chain' \in [Sanads -> SUBSET {"locked", "final", "minted"}]
    BY Zenon, <1>1, <1>3, <2>2
  <2>4. \A u \in Sanads : chain[u] \subseteq chain'[u]
    BY Zenon, <2>1
  <2>5. \A u \in Sanads : "minted" \in chain'[u] => "final" \in chain'[u]
    BY Zenon, <1>1, <2>1
  <2> QED
    BY Zenon, <2>3, <2>4, <2>5 DEF MintedOnlyFinal
<1> QED
  BY <1>2, <1>3

(* What a success or a failure makes of a breaker is a breaker.            *)
LEMMA BreakerTyped ==
    ASSUME NEW b \in Breakers
    PROVE  record_success(b) \in Breakers /\ record_failure(b) \in Breakers
<1>1. /\ b.state \in {"Closed", "Open", "HalfOpen"} /\ b.failures \in 0 .. MaxFailures
      /\ b.successes \in 0 .. SuccessThreshold - 1 /\ b.waited \in BOOLEAN
  BY DEF Breakers
<1>2. record_failure(b) \in Breakers
  <2> PICK n : n = CountFailure(b.failures)
    BY Zenon
  <2>1. n \in 0 .. MaxFailures
    BY <1>1, BreakerAssumption DEF CountFailure
  <2> PICK st : st = IF n >= FailureThreshold THEN "Open" ELSE b.state
    OBVIOUS
  <2>2. record_failure(b) = [b EXCEPT !.failures = n, !.waited = FALSE, !.state = st]
    BY Zenon DEF record_failure, Breakers
  <2>3. st \in {"Closed", "Open", "HalfOpen"}
    BY <1>1
  <2> QED
    BY Zenon, <2>1, <2>2, <2>3 DEF Breakers
<1>3. CASE b.state = "Closed"
  <2>1. record_success(b) = [b EXCEPT !.failures = 0]
    BY Zenon, <1>3 DEF record_success
  <2> QED
    BY <1>2, <2>1, BreakerAssumption DEF Breakers
<1>4. CASE b.state = "Open"
  <2>1. record_success(b) = b
    BY Zenon, <1>4 DEF record_success
  <2> QED
    BY <1>2, <2>1
<1>5. CASE b.state = "HalfOpen"
  <2>1. CASE b.successes + 1 >= SuccessThreshold
    <3>1. record_success(b) = [b EXCEPT !.state = "Closed", !.successes = 0, !.failures = 0]
      BY Zenon, <1>5, <2>1 DEF record_success
    <3>2. 0 \in 0 .. SuccessThreshold - 1 /\ 0 \in 0 .. MaxFailures
      BY BreakerAssumption
    <3>3. record_success(b) \in Breakers
      BY ZenonT(30), <1>1, <3>1, <3>2 DEF Breakers
    <3> QED
      BY <1>2, <3>3
  <2>2. CASE ~(b.successes + 1 >= SuccessThreshold)
    <3> PICK n : n = b.successes + 1
      OBVIOUS
    <3>1. record_success(b) = [b EXCEPT !.successes = n]
      BY Zenon, <1>5, <2>2 DEF record_success, Breakers
    <3>2. n \in 0 .. SuccessThreshold - 1
      BY <1>1, <2>2, BreakerAssumption
    <3> QED
      BY Zenon, <1>2, <3>1, <3>2 DEF Breakers
  <2> QED
    BY Zenon, <2>1, <2>2
<1> QED
  BY Zenon, <1>1, <1>2, <1>3, <1>4, <1>5

(* A chain call of a retry loop.                                           *)
LEMMA AttemptStep ==
    ASSUME IInv, NEW k \in Tasks, NEW from, NEW fact \in {"locked", "minted"}, NEW done, NEW failed,
           fact = "minted" => from \in Buried,
           Follows(from, failed),
           done \in Steps \ {"idle"}, done \notin Buried \cup Confirmed,
           done \in Minted => fact = "minted",
           done \in Reserved => from \in Reserved,
           Attempt(k, from, fact, done, failed)
    PROVE  IInv'
<1> PICK s : s = Sanad(k)
  BY Zenon
<1>0. /\ task[k].at = from /\ UNCHANGED <<replay, registry, journal, events, faults>>
      /\ UNCHANGED chain \/ chain' = [chain EXCEPT ![s] = @ \cup {fact}]
  BY Zenon DEF Attempt
<1>1. /\ task \in [Tasks -> Calls] /\ task[k] \in Calls /\ from # "idle"
      /\ task[k].transfer \in Transfers /\ s \in Sanads /\ s = SanadOf[task[k].transfer]
  BY Zenon, <1>0, CoordinatorAssumption DEF IInv, TypeOK, Calls, Active, Transfer, Sanad, Follows
<1>2. CallOK(task[k], replay, chain)
  BY Zenon, SMTT(30) DEF IInv, CallsOK
<1>3. /\ chain' \in [Sanads -> SUBSET {"locked", "final", "minted"}]
      /\ \A u \in Sanads : chain[u] \subseteq chain'[u]
      /\ MintedOnlyFinal'
  <2>1. fact = "minted" => "final" \in chain[s]
    BY Zenon, <1>0, <1>1, <1>2 DEF CallOK
  <2> QED
    BY Zenon, <1>0, <1>1, <2>1, FactAdded
<1>4. breaker' \in Breakers /\ faults' \in 0 .. MaxFaults
  <2>1. breaker \in Breakers /\ faults \in 0 .. MaxFaults
    BY Zenon DEF IInv, TypeOK
  <2>2. breaker' = record_success(breaker) \/ breaker' = record_failure(breaker)
    BY Zenon DEF Attempt
  <2> QED
    BY Zenon, <1>0, <2>1, <2>2, BreakerTyped
<1>5. \/ chain' = [chain EXCEPT ![s] = @ \cup {fact}] /\ Goto(k, done)
      \/ task[k].attempt < MaxRetries /\ Retry(k)
      \/ Goto(k, failed)
  BY DEF Attempt
<1>6. CASE chain' = [chain EXCEPT ![s] = @ \cup {fact}] /\ Goto(k, done)
  <2> PICK c : c = [at |-> done, transfer |-> task[k].transfer, attempt |-> 0,
                    cached |-> task[k].cached]
    BY ZenonT(30)
  <2>1. c \in Calls /\ c.at = done /\ c.transfer = task[k].transfer
    BY <1>1, CoordinatorAssumption DEF Calls
  <2>2. task' = [task EXCEPT ![k] = c]
    BY Zenon, <1>6 DEF Goto, Call, Transfer
  <2>3. fact \in chain'[s]
    BY Zenon, <1>1, <1>6 DEF IInv, TypeOK
  <2>4. CallOK(c, replay, chain')
    BY Zenon, <1>0, <1>1, <1>2, <2>1, <2>3 DEF CallOK
  <2>5. c.at \notin Reserved \/ (task[k].at \in Reserved /\ c.transfer = task[k].transfer)
    BY Zenon, <1>0, <2>1
  <2> QED
    BY Zenon, <1>0, <1>3, <1>4, <2>1, <2>2, <2>4, <2>5, ChainStep
<1>7. CASE task[k].attempt < MaxRetries /\ Retry(k)
  <2> PICK n : n = task[k].attempt + 1
    OBVIOUS
  <2> PICK c : c = [at |-> from, transfer |-> task[k].transfer, attempt |-> n,
                    cached |-> task[k].cached]
    BY ZenonT(30)
  <2>1. n \in 0 .. MaxRetries
    BY <1>1, <1>7, CoordinatorAssumption DEF Calls
  <2>2. c \in Calls /\ c.at = from /\ c.transfer = task[k].transfer
    BY Zenon, <1>0, <1>1, <2>1 DEF Calls
  <2>3. task' = [task EXCEPT ![k] = c]
    BY Zenon, <1>0, <1>7 DEF Retry, Transfer
  <2>4. CallOK(c, replay, chain')
    BY Zenon, <1>0, <1>1, <1>2, <1>3, <2>2 DEF CallOK
  <2>5. c.at \notin Reserved \/ (task[k].at \in Reserved /\ c.transfer = task[k].transfer)
    BY <1>0, <2>2
  <2> QED
    BY Zenon, <1>0, <1>3, <1>4, <2>2, <2>3, <2>4, <2>5, ChainStep
<1>8. CASE Goto(k, failed)
  <2> PICK c : c = [at |-> failed, transfer |-> task[k].transfer, attempt |-> 0,
                    cached |-> task[k].cached]
    BY Zenon
  <2>1. c \in Calls /\ c.at = failed /\ c.transfer = task[k].transfer
    BY <1>1, CoordinatorAssumption DEF Calls, Follows
  <2>2. task' = [task EXCEPT ![k] = c]
    BY Zenon, <1>8 DEF Goto, Call, Transfer
  <2>3. CallOK(c, replay, chain')
    BY Zenon, <1>0, <1>1, <1>2, <1>3, <2>1 DEF CallOK, Follows
  <2>4. c.at \notin Reserved \/ (task[k].at \in Reserved /\ c.transfer = task[k].transfer)
    BY SMTT(30), <1>0, <2>1 DEF Follows
  <2> QED
    BY Zenon, <1>0, <1>3, <1>4, <2>1, <2>2, <2>3, <2>4, ChainStep
<1> QED
  BY Zenon, <1>5, <1>6, <1>7, <1>8

(* A call moves to a step whose obligation the chains meet as they are.    *)
LEMMA CallChanges ==
    ASSUME IInv, NEW k \in Tasks, NEW t \in Transfers, NEW at \in Steps \ {"idle"},
           NEW cached \in BOOLEAN,
           Call(k, t, at, cached),
           at \in Buried => "final" \in chain[SanadOf[t]],
           at \in Minted => "minted" \in chain[SanadOf[t]],
           at \notin Confirmed,
           at \notin Reserved \/ (task[k].at \in Reserved /\ task[k].transfer = t),
           UNCHANGED <<replay, registry, journal, chain>>,
           breaker' \in Breakers, faults' \in 0 .. MaxFaults
    PROVE  IInv'
<1> PICK c : c = [at |-> at, transfer |-> t, attempt |-> 0, cached |-> cached]
  BY ZenonT(30)
<1>1. c \in Calls /\ c.at = at /\ c.transfer = t
  BY CoordinatorAssumption DEF Calls
<1>2. task' = [task EXCEPT ![k] = c]
  BY Zenon, SMTT(30) DEF Call
<1>3. at \in Reserved => replay[SanadOf[t]] \in {"Pending", "Consumed"}
  BY Zenon, SMTT(30) DEF IInv, CallsOK, CallOK, Reserved
<1>4. CallOK(c, replay, chain')
  BY <1>1, <1>3 DEF CallOK
<1>5. /\ chain' \in [Sanads -> SUBSET {"locked", "final", "minted"}]
      /\ \A u \in Sanads : chain[u] \subseteq chain'[u]
      /\ MintedOnlyFinal'
  BY ZenonT(30) DEF IInv, TypeOK, MintedOnlyFinal
<1>6. c.at \notin Reserved \/ (task[k].at \in Reserved /\ c.transfer = task[k].transfer)
  BY Zenon, <1>1
<1> QED
  BY Zenon, <1>1, <1>2, <1>4, <1>5, <1>6, ChainStep

(* The finality gate: behind it the lock is final.                         *)
LEMMA GateStep ==
    ASSUME IInv, NEW k \in Tasks, NEW to \in Steps \ {"idle"},
           Gate(k, to), task[k].at # "idle",
           to \notin Minted \cup Confirmed,
           to \in Reserved => task[k].at \in Reserved,
           UNCHANGED <<replay, registry, journal, chain>>,
           breaker' \in Breakers, faults' \in 0 .. MaxFaults
    PROVE  IInv'
<1>1. task[k].transfer \in Transfers /\ task[k].cached \in BOOLEAN
  BY Zenon, SMTT(30) DEF IInv, TypeOK, Active, Transfer
<1>2. CASE Return(k)
  BY Zenon, <1>2, CallStep
<1>3. CASE "final" \in chain[Sanad(k)] /\ Goto(k, to)
  <2>1. Call(k, task[k].transfer, to, task[k].cached)
    BY Zenon, <1>3 DEF Goto, Transfer
  <2>2. "final" \in chain[SanadOf[task[k].transfer]]
    BY Zenon, <1>3 DEF Sanad, Transfer
  <2> QED
    BY Zenon, <1>1, <2>1, <2>2, CallChanges
<1> QED
  BY Zenon, <1>2, <1>3 DEF Gate

(* A gate passes or ends the call, and touches nothing else.               *)
LEMMA CheckStep ==
    ASSUME IInv, NEW k \in Tasks, NEW from, NEW to \in Steps \ {"idle"},
           Check(k, from, to), from # "idle",
           to \notin Minted \cup Confirmed \cup Reserved
    PROVE  IInv'
<1>1. /\ task[k].at = from /\ Gate(k, to)
      /\ UNCHANGED <<replay, registry, journal, events, breaker, chain, faults>>
  BY Zenon DEF Check
<1>2. breaker' \in Breakers /\ faults' \in 0 .. MaxFaults
  BY Zenon, <1>1 DEF IInv, TypeOK
<1> QED
  BY Zenon, <1>1, <1>2, GateStep

(***************************************************************************)
(* The steps of the two paths.                                             *)
(***************************************************************************)

(* What Entry and Bare build is a registry row of the given phase.         *)
LEMMA EntryTyped ==
    ASSUME NEW phase \in Phases, NEW payload \in BOOLEAN, NEW context \in BOOLEAN
    PROVE  /\ Entry(phase, payload, context)
                  \in [phase : Phases, payload : BOOLEAN, context : BOOLEAN]
           /\ Bare(phase) \in [phase : Phases, payload : BOOLEAN, context : BOOLEAN]
           /\ Entry(phase, payload, context).phase = phase /\ Bare(phase).phase = phase
BY Zenon DEF Entry, Bare

(* Every journal write of the fresh path.                                  *)
LEMMA FreshRecords ==
    ASSUME IInv, NEW k \in Tasks,
           \/ initialized(k) \/ initialize_complete(k) \/ lock_entered(k) \/ lock_failed(k)
           \/ lock_complete(k) \/ await_entered(k) \/ await_complete(k) \/ proof_entered(k)
           \/ proof_complete(k) \/ proof_validated(k) \/ mint_blocked(k) \/ mint_entered(k)
           \/ mint_failed(k) \/ mint_submitted(k) \/ mint_confirmed(k) \/ completed(k)
    PROVE  IInv'
<1> USE DEF Follows, Steps, Buried, Minted, Confirmed, Reserved
<1>1. CASE initialized(k)
  BY ZenonT(30), <1>1, RecordStep, EntryTyped DEF initialized, Phases
<1>2. CASE initialize_complete(k)
  BY ZenonT(30), <1>2, RecordStep, EntryTyped DEF initialize_complete, Phases
<1>3. CASE lock_entered(k)
  BY ZenonT(30), <1>3, RecordStep, EntryTyped DEF lock_entered, Phases
<1>4. CASE lock_failed(k)
  BY ZenonT(30), <1>4, RecordStep, EntryTyped DEF lock_failed, Phases
<1>5. CASE lock_complete(k)
  BY ZenonT(30), <1>5, RecordStep, EntryTyped DEF lock_complete, Phases
<1>6. CASE await_entered(k)
  BY ZenonT(30), <1>6, RecordStep, EntryTyped DEF await_entered, Phases
<1>7. CASE await_complete(k)
  BY ZenonT(30), <1>7, RecordStep, EntryTyped DEF await_complete, Phases
<1>8. CASE proof_entered(k)
  BY ZenonT(30), <1>8, RecordStep, EntryTyped DEF proof_entered, Phases
<1>9. CASE proof_complete(k)
  BY ZenonT(30), <1>9, RecordStep, EntryTyped DEF proof_complete, Phases
<1>10. CASE proof_validated(k)
  BY ZenonT(30), <1>10, RecordStep, EntryTyped DEF proof_validated, Phases
<1>11. CASE mint_blocked(k)
  BY ZenonT(30), <1>11, RecordStep, EntryTyped DEF mint_blocked, Phases
<1>12. CASE mint_entered(k)
  BY ZenonT(30), <1>12, RecordStep, EntryTyped DEF mint_entered, Phases
<1>13. CASE mint_failed(k)
  BY ZenonT(30), <1>13, RecordStep, EntryTyped DEF mint_failed, Phases
<1>14. CASE mint_submitted(k)
  BY ZenonT(30), <1>14, RecordStep, EntryTyped DEF mint_submitted, Phases
<1>15. CASE mint_confirmed(k)
  BY ZenonT(30), <1>15, RecordStep, EntryTyped DEF mint_confirmed, Phases
<1>16. CASE completed(k)
  BY ZenonT(30), <1>16, RecordStep, EntryTyped DEF completed, Phases
<1> QED
  BY Zenon, <1>1, <1>2, <1>3, <1>4, <1>5, <1>6, <1>7, <1>8, <1>9, <1>10, <1>11, <1>12, <1>13,
     <1>14, <1>15, <1>16

(* Every other step of the fresh path.                                     *)
LEMMA FreshSteps ==
    ASSUME IInv, NEW k \in Tasks, execute_step(k)
    PROVE  IInv'
<1> USE DEF Follows, Steps, Buried, Minted, Confirmed, Reserved
<1>0. /\ breaker \in Breakers /\ faults \in 0 .. MaxFaults
  BY Zenon, SMTT(30) DEF IInv, TypeOK
<1>1. CASE completed_receipt_for(k)
  <2>1. Return(k) \/ Goto(k, "init")
    BY Zenon, <1>1 DEF completed_receipt_for
  <2> QED
    BY Zenon, <1>0, <1>1, <2>1, CallStep DEF completed_receipt_for
<1>2. CASE consume(k)
  BY <1>2, ConsumeStep
<1>3. CASE store_with_lock_hash(k)
  BY ZenonT(30), <1>3, StoreStep DEF store_with_lock_hash
<1>4. CASE capability_gates(k)
  BY Zenon, <1>0, <1>4, CallStep DEF capability_gates
<1>5. CASE lock_check(k)
  <2>1. Return(k) \/ Goto(k, "lock")
    BY Zenon, <1>5 DEF lock_check
  <2>2. faults' \in 0 .. MaxFaults
    BY Zenon, <1>5, EmitTyped DEF lock_check
  <2> QED
    BY Zenon, <1>0, <1>5, <2>1, <2>2, CallStep DEF lock_check
<1>6. CASE lock_sanad(k)
  BY ZenonT(30), <1>6, AttemptStep DEF lock_sanad
<1>7. CASE rollback(k)
  BY <1>7, RollbackStep
<1>8. CASE lock_store(k)
  BY ZenonT(30), <1>8, StoreStep DEF lock_store
<1>9. CASE finality_gate(k)
  <2>1. faults' \in 0 .. MaxFaults
    BY Zenon, <1>9, EmitTyped DEF finality_gate
  <2> QED
    BY Zenon, <1>0, <1>9, <2>1, GateStep DEF finality_gate
<1>10. CASE build_inclusion_proof(k)
  <2>1. faults' \in 0 .. MaxFaults
    BY Zenon, <1>10, EmitTyped DEF build_inclusion_proof
  <2> QED
    BY Zenon, <1>0, <1>10, <2>1, CallStep DEF build_inclusion_proof
<1>11. CASE verify_proof(k)
  <2>1. faults' \in 0 .. MaxFaults
    BY Zenon, <1>0, <1>11, EmitTyped DEF verify_proof
  <2> QED
    BY Zenon, <1>0, <1>11, <2>1, CallStep DEF verify_proof
<1>12. CASE mint_check(k)
  <2>1. Goto(k, "mint_enter") \/ Goto(k, "mint_blocked")
    BY Zenon, <1>12 DEF mint_check
  <2> QED
    BY SMTT(30), <1>0, <1>12, <2>1, CallStep DEF mint_check
<1>13. CASE mint_sanad(k)
  BY <1>13, AttemptStep DEF mint_sanad
<1>14. CASE mint_store(k)
  BY Zenon, <1>14, StoreStep DEF mint_store
<1>15. CASE confirm(k)
  BY Zenon, <1>15, ConfirmStep DEF confirm
<1>16. CASE evidence(k)
  <2>1. faults' \in 0 .. MaxFaults
    BY Zenon, <1>16, EmitTyped DEF evidence, record_settlement_evidence
  <2> QED
    BY Zenon, <1>0, <1>16, <2>1, CallStep DEF evidence
<1>17. CASE confirm_store(k)
  BY ZenonT(30), <1>17, StoreStep DEF confirm_store
<1>18. CASE complete_event(k)
  <2>1. faults' \in 0 .. MaxFaults
    BY Zenon, <1>18, EmitTyped DEF complete_event
  <2> QED
    BY Zenon, <1>0, <1>18, <2>1, CallStep DEF complete_event
<1>19. CASE return(k)
  BY Zenon, <1>0, <1>19, CallStep DEF return
<1> QED
  BY Zenon, <1>1, <1>2, <1>3, <1>4, <1>5, <1>6, <1>7, <1>8, <1>9, <1>10, <1>11, <1>12, <1>13,
     <1>14, <1>15, <1>16, <1>17, <1>18, <1>19, FreshRecords DEF execute_step

(* One mint call of the resume path.                                       *)
LEMMA ResumedMint ==
    ASSUME IInv, NEW k \in Tasks, r_mint_sanad(k)
    PROVE  IInv'
<1> PICK s : s = Sanad(k)
  OBVIOUS
<1>0. /\ task[k].at = "r_mint" /\ UNCHANGED <<replay, registry, journal, events, breaker, faults>>
      /\ \/ /\ chain' = [chain EXCEPT ![s] = @ \cup {"minted"}]
            /\ Goto(k, "r_minted") \/ Return(k)
         \/ UNCHANGED chain /\ Return(k)
  BY DEF r_mint_sanad
<1>1. /\ task[k] \in Calls /\ task[k].transfer \in Transfers
      /\ s \in Sanads /\ s = SanadOf[task[k].transfer]
  BY ZenonT(30), <1>0, CoordinatorAssumption DEF IInv, TypeOK, Calls, Active, Transfer, Sanad
<1>2. "final" \in chain[s]
  BY Zenon, <1>0, <1>1 DEF IInv, CallsOK, CallOK, Buried
<1>3. /\ chain' \in [Sanads -> SUBSET {"locked", "final", "minted"}]
      /\ \A u \in Sanads : chain[u] \subseteq chain'[u]
      /\ MintedOnlyFinal'
  BY Zenon, <1>0, <1>1, <1>2, FactAdded
<1>4. breaker' \in Breakers /\ faults' \in 0 .. MaxFaults
  BY <1>0 DEF IInv, TypeOK
<1>5. CASE Return(k)
  BY Zenon, <1>0, <1>3, <1>4, <1>5, IdleOK, ChainStep DEF Return
<1>6. CASE chain' = [chain EXCEPT ![s] = @ \cup {"minted"}] /\ Goto(k, "r_minted")
  <2> PICK c : c = [at |-> "r_minted", transfer |-> task[k].transfer, attempt |-> 0,
                    cached |-> task[k].cached]
    BY ZenonT(30)
  <2>1. c \in Calls /\ c.at = "r_minted" /\ c.transfer = task[k].transfer
    BY <1>1, CoordinatorAssumption DEF Calls, Steps
  <2>2. task' = [task EXCEPT ![k] = c]
    BY Zenon, <1>6 DEF Goto, Call, Transfer
  <2>3. "minted" \in chain'[s]
    BY Zenon, <1>1, <1>6 DEF IInv, TypeOK
  <2>4. CallOK(c, replay, chain') /\ c.at \notin Reserved
    BY Zenon, <1>1, <2>1, <2>3 DEF CallOK, Buried, Confirmed, Reserved
  <2> QED
    BY Zenon, <1>0, <1>3, <1>4, <2>1, <2>2, <2>4, ChainStep
<1> QED
  BY Zenon, <1>0, <1>5, <1>6

(* The steps of a resumed transfer.                                        *)
LEMMA ResumeSteps ==
    ASSUME IInv, NEW k \in Tasks, resume_step(k)
    PROVE  IInv'
<1> USE DEF Follows, Steps, Buried, Minted, Confirmed, Reserved
<1>0. /\ breaker \in Breakers /\ faults \in 0 .. MaxFaults
  BY DEF IInv, TypeOK
<1>1. CASE r_await_entered(k)
  BY ZenonT(30), <1>1, RecordStep, EntryTyped DEF r_await_entered, Phases
<1>2. CASE r_finality_gate(k)
  BY <1>2, CheckStep DEF r_finality_gate
<1>3. CASE r_await_complete(k)
  BY ZenonT(30), <1>3, RecordStep, EntryTyped DEF r_await_complete, Phases
<1>4. CASE r_proof_entered(k)
  BY ZenonT(30), <1>4, RecordStep, EntryTyped DEF r_proof_entered, Phases
<1>5. CASE r_verify_proof(k)
  BY <1>5, CheckStep DEF r_verify_proof
<1>6. CASE r_proof_complete(k)
  BY ZenonT(30), <1>6, RecordStep, EntryTyped DEF r_proof_complete, Phases
<1>7. CASE r_proof_validated(k)
  BY ZenonT(30), <1>7, RecordStep, EntryTyped DEF r_proof_validated, Phases
<1>8. CASE r_reverify(k)
  BY <1>8, CheckStep DEF r_reverify
<1>9. CASE execute_from_proof(k)
  BY <1>9, CheckStep DEF execute_from_proof
<1>10. CASE r_mint_entered(k)
  BY ZenonT(30), <1>10, RecordStep, EntryTyped DEF r_mint_entered, Phases
<1>11. CASE r_mint_sanad(k)
  BY <1>11, ResumedMint
<1>12. CASE r_mint_store(k)
  BY Zenon, <1>12, StoreStep DEF r_mint_store
<1>13. CASE r_mint_submitted(k)
  BY ZenonT(30), <1>13, RecordStep, EntryTyped DEF r_mint_submitted, Phases
<1>14. CASE execute_from_mint(k)
  <2>1. /\ task[k].at = "r_from_mint"
        /\ UNCHANGED <<replay, registry, journal, events, breaker, chain, faults>>
        /\ Return(k) \/ ("minted" \in chain[Sanad(k)] /\ Goto(k, "r_confirm"))
    BY Zenon, <1>14 DEF execute_from_mint
  <2>2. task[k].transfer \in Transfers /\ task[k].cached \in BOOLEAN
    BY ZenonT(30), <2>1 DEF IInv, TypeOK, Active, Transfer
  <2>3. CASE Return(k)
    BY Zenon, <1>0, <2>1, <2>3, CallStep
  <2>4. CASE "minted" \in chain[Sanad(k)] /\ Goto(k, "r_confirm")
    BY <1>0, <2>1, <2>2, <2>4, CallChanges DEF Goto, Sanad, Transfer
  <2> QED
    BY <2>1, <2>3, <2>4
<1>15. CASE r_confirm(k)
  BY Zenon, <1>15, ConfirmStep DEF r_confirm
<1>16. CASE record_resumed_settlement_evidence(k)
  <2>1. faults' \in 0 .. MaxFaults
    BY Zenon, <1>0, <1>16, EmitTyped DEF record_resumed_settlement_evidence, record_settlement_evidence
  <2> QED
    BY Zenon, <1>0, <1>16, <2>1, CallStep DEF record_resumed_settlement_evidence
<1>17. CASE r_confirm_store(k)
  BY Zenon, <1>17, StoreStep DEF r_confirm_store
<1>18. CASE r_mint_confirmed(k)
  BY ZenonT(30), <1>18, RecordStep, EntryTyped DEF r_mint_confirmed, Phases
<1>19. CASE r_completed(k)
  BY ZenonT(30), <1>19, RecordStep, EntryTyped DEF r_completed, Phases
<1> QED
  BY Zenon, <1>1, <1>2, <1>3, <1>4, <1>5, <1>6, <1>7, <1>8, <1>9, <1>10, <1>11, <1>12, <1>13,
     <1>14, <1>15, <1>16, <1>17, <1>18, <1>19 DEF resume_step

(* A call starts: its first step says nothing of slot or chains.           *)
LEMMA StartSteps ==
    ASSUME IInv, NEW k \in Tasks, NEW t \in Transfers,
           execute_outcome(k, t) \/ resume_transfer_outcome(k, t)
    PROVE  IInv'
<1> PICK first \in {"receipt", "r_await", "r_reverify", "r_from_proof", "r_from_mint"},
         cached \in BOOLEAN : Call(k, t, first, cached)
  <2>1. CASE execute_outcome(k, t)
    BY Zenon, <2>1 DEF execute_outcome
  <2>2. CASE resume_transfer_outcome(k, t)
    <3>1. /\ ResumePoint(t) # "idle"
          /\ Call(k, t, ResumePoint(t), ResumePoint(t) = "receipt")
      BY Zenon, <2>2 DEF resume_transfer_outcome
    <3>2. ResumePoint(t) \in {"idle", "receipt", "r_await", "r_reverify", "r_from_proof",
                              "r_from_mint"}
      BY Zenon DEF ResumePoint
    <3>3. (ResumePoint(t) = "receipt") \in BOOLEAN
      OBVIOUS
    <3> QED
      BY ZenonT(30), <3>1, <3>2, <3>3
  <2> QED
    BY <2>1, <2>2
<1>1. UNCHANGED <<replay, registry, journal, chain, breaker, faults>>
  BY ZenonT(30) DEF execute_outcome, resume_transfer_outcome
<1>2. breaker' \in Breakers /\ faults' \in 0 .. MaxFaults
  BY Zenon, <1>1 DEF IInv, TypeOK
<1>3. first \in Steps \ {"idle"} /\ first \notin Buried \cup Minted \cup Confirmed \cup Reserved
  BY DEF Steps, Buried, Minted, Confirmed, Reserved
<1> QED
  BY Zenon, <1>1, <1>2, <1>3, CallChanges

(* A crash ends every call.                                                *)
LEMMA CrashStep ==
    ASSUME IInv, crash
    PROVE  IInv'
<1>1. /\ task' = [k \in Tasks |-> Idle] /\ breaker' = Fresh
      /\ UNCHANGED <<replay, registry, journal, events, chain>>
  BY ZenonT(30) DEF crash
<1>2. CallsOK(task', replay', chain')
  BY Zenon, <1>1, IdleOK DEF CallsOK, Clash
<1>3. Fresh \in Breakers
  BY BreakerAssumption DEF Fresh, Breakers
<1>4. faults' \in 0 .. MaxFaults
  BY FaultsTyped DEF crash
<1>5. task' \in [Tasks -> Calls] /\ \A j \in Tasks : ~Active(j)'
  BY Zenon, <1>1, IdleOK DEF Active, Idle
<1>6. TypeOK'
  BY Zenon, <1>1, <1>3, <1>4, <1>5 DEF IInv, TypeOK, Calls
<1>7. MintedOnlyFinal' /\ ConsumedOnlyMinted' /\ CompletedOnlyConsumed'
  BY Zenon, <1>1 DEF IInv, MintedOnlyFinal, ConsumedOnlyMinted, CompletedOnlyConsumed
<1> QED
  BY <1>2, <1>6, <1>7 DEF IInv

(* The chain buries a lock.                                                *)
LEMMA FinalizeStep ==
    ASSUME IInv, NEW s \in Sanads, finalize(s)
    PROVE  IInv'
<1>1. /\ chain' = [chain EXCEPT ![s] = @ \cup {"final"}]
      /\ UNCHANGED <<replay, registry, journal, events, breaker, task, faults>>
  BY DEF finalize
<1>2. /\ chain' \in [Sanads -> SUBSET {"locked", "final", "minted"}]
      /\ \A u \in Sanads : chain[u] \subseteq chain'[u]
      /\ MintedOnlyFinal'
  BY ZenonT(30), <1>1, FactAdded
<1>3. CallsOK(task, replay, chain')
  BY Zenon, <1>2, WorldAdvances DEF IInv
<1>4. TypeOK'
  BY Zenon, <1>1, <1>2 DEF IInv, TypeOK, Active, Transfer
<1>5. ConsumedOnlyMinted' /\ CompletedOnlyConsumed'
  BY Zenon, <1>1, <1>2 DEF IInv, ConsumedOnlyMinted, CompletedOnlyConsumed
<1> QED
  BY Zenon, <1>1, <1>2, <1>3, <1>4, <1>5 DEF IInv

(* The breaker's timeout passes, or it is taken to half-open.              *)
LEMMA BreakerStep ==
    ASSUME IInv, elapse \/ attempt_circuit_breaker_recovery
    PROVE  IInv'
<1>1. UNCHANGED <<replay, registry, journal, events, task, chain, faults>>
  BY DEF elapse, attempt_circuit_breaker_recovery
<1>2. breaker' \in Breakers
  <2>1. CASE elapse
    BY Zenon, <2>1 DEF IInv, TypeOK, Breakers, elapse
  <2>2. CASE attempt_circuit_breaker_recovery
    <3>1. 0 \in 0 .. SuccessThreshold - 1
      BY BreakerAssumption
    <3> QED
      BY ZenonT(30), <2>2, <3>1 DEF IInv, TypeOK, Breakers,
         attempt_circuit_breaker_recovery, attempt_recovery
  <2> QED
    BY <2>1, <2>2
<1>3. TypeOK'
  BY Zenon, <1>1, <1>2 DEF IInv, TypeOK, Active, Transfer
<1> QED
  BY Zenon, <1>1, <1>3 DEF IInv, MintedOnlyFinal, ConsumedOnlyMinted, CompletedOnlyConsumed

(* Every step of Next keeps the inductive invariant.                       *)
LEMMA NextPreserves == IInv /\ [Next]_vars => IInv'
<1> SUFFICES ASSUME IInv, [Next]_vars
             PROVE  IInv'
  BY Zenon
<1>1. ASSUME NEW k \in Tasks, NEW t \in Transfers,
             execute_outcome(k, t) \/ resume_transfer_outcome(k, t)
      PROVE  IInv'
  BY Zenon, <1>1, StartSteps
<1>2. ASSUME NEW k \in Tasks, execute_step(k) \/ resume_step(k)
      PROVE  IInv'
  BY Zenon, <1>2, FreshSteps, ResumeSteps
<1>3. ASSUME NEW k \in Tasks, interrupt(k)
      PROVE  IInv'
  <2>1. /\ Return(k) /\ Fail
        /\ UNCHANGED <<replay, registry, journal, events, breaker, chain>>
    BY Zenon, <1>3 DEF interrupt
  <2>2. breaker' \in Breakers /\ faults' \in 0 .. MaxFaults
    BY Zenon, <2>1, FaultsTyped DEF IInv, TypeOK
  <2> QED
    BY Zenon, <2>1, <2>2, CallStep
<1>4. ASSUME NEW k \in Tasks, lose_failed_entry(k)
      PROVE  IInv'
  <2>1. /\ task[k].at \in {"lock_failed", "mint_blocked"} /\ Goto(k, "rollback") /\ Fail
        /\ UNCHANGED <<replay, registry, journal, events, breaker, chain>>
    BY Zenon, <1>4 DEF lose_failed_entry
  <2>2. breaker' \in Breakers /\ faults' \in 0 .. MaxFaults
    BY Zenon, <2>1, FaultsTyped DEF IInv, TypeOK
  <2>3. Follows(task[k].at, "rollback")
    BY Zenon, <2>1 DEF Follows, Steps, Buried, Minted, Confirmed, Reserved
  <2> QED
    BY ZenonT(30), <2>1, <2>2, <2>3, CallStep
<1>5. CASE UNCHANGED vars
  BY Zenon, <1>5 DEF vars, IInv, TypeOK, Active, Transfer, MintedOnlyFinal, ConsumedOnlyMinted,
              CompletedOnlyConsumed
<1> QED
  BY Zenon, <1>1, <1>2, <1>3, <1>4, <1>5, CrashStep, FinalizeStep, BreakerStep DEF Next, Step

(* Nothing is reserved, locked or recorded at first.                       *)
LEMMA InitHolds == Init => IInv
<1> SUFFICES ASSUME Init
             PROVE  IInv
  BY SMTT(30)
<1>1. CallsOK(task, replay, chain)
  BY Zenon, IdleOK DEF Init, CallsOK, Clash
<1>2. Fresh \in Breakers
  BY BreakerAssumption DEF Fresh, Breakers
<1>3. task \in [Tasks -> Calls] /\ \A j \in Tasks : ~Active(j)
  BY Zenon, IdleOK DEF Init, Active, Idle
<1>4. NoRow \in [id : Transfers \cup {NoTransfer}, minted : BOOLEAN]
  BY Zenon DEF NoRow
<1>5. TypeOK
  <2>1. Bare("None") \in [phase : Phases, payload : BOOLEAN, context : BOOLEAN]
    BY Zenon DEF Bare, Entry, Phases
  <2>2. journal \in [Transfers -> [phase : Phases, payload : BOOLEAN, context : BOOLEAN]]
    BY Zenon, <2>1 DEF Init
  <2>3. registry \in [Sanads -> [id : Transfers \cup {NoTransfer}, minted : BOOLEAN]]
    BY Zenon, <1>4 DEF Init
  <2>4. faults \in 0 .. MaxFaults
    BY CoordinatorAssumption DEF Init
  <2>5. /\ replay \in [Sanads -> States]
        /\ chain \in [Sanads -> SUBSET {"locked", "final", "minted"}]
    BY SMTT(30) DEF Init, States
  <2> QED
    BY Zenon, <1>2, <1>3, <2>2, <2>3, <2>4, <2>5 DEF Init, TypeOK, Calls
<1>6. MintedOnlyFinal /\ ConsumedOnlyMinted /\ CompletedOnlyConsumed
  BY ZenonT(30), EntryTyped DEF Init, MintedOnlyFinal, ConsumedOnlyMinted,
     CompletedOnlyConsumed, NoRow, Phases
<1> QED
  BY Zenon, <1>1, <1>5, <1>6 DEF IInv

(* The inductive invariant holds always.                                   *)
LEMMA InvariantHolds == Spec => []IInv
BY InitHolds, NextPreserves, PTL DEF Spec

(* The state of the coordinator and its stores keeps its shape, for every  *)
(* number of transfers, sanads, callers and faults.                        *)
THEOREM WellTyped == Spec => []TypeOK
<1>1. IInv => TypeOK
  BY DEF IInv
<1> QED
  BY <1>1, InvariantHolds, PTL

(* A sanad is minted only behind a final lock, a slot is consumed and a    *)
(* row shows a mint only behind an accepted mint, and a transfer completes *)
(* only with its slot consumed: on the fresh path and on every resume      *)
(* path, with any number of callers, errors and crashes.                   *)
THEOREM MintIsJustified == Spec => []MintJustified
<1>1. IInv => MintJustified
  BY DEF IInv, MintJustified
<1> QED
  BY <1>1, InvariantHolds, PTL

(* Until its slot is consumed a sanad has one execution past               *)
(* consume_if_unconsumed, with any number of callers.                      *)
THEOREM ReservationExcludes == Spec => []OneExecutionPerSlot
<1>1. IInv => OneExecutionPerSlot
  BY DEF IInv, CallsOK, Clash, OneExecutionPerSlot, Sanad, Transfer
<1> QED
  BY <1>1, InvariantHolds, PTL

(***************************************************************************)
(* The breaker.                                                            *)
(***************************************************************************)

Decides(b) == b.state = "Closed" <=> b.failures < FailureThreshold

(* Each operation of the breaker keeps the count and the state in step.    *)
LEMMA BreakerDecides ==
    ASSUME NEW b \in Breakers, Decides(b)
    PROVE  /\ Decides(record_success(b)) /\ Decides(record_failure(b))
           /\ CanRecover(b) => Decides(attempt_recovery(b))
           /\ Decides([b EXCEPT !.waited = TRUE])
<1>1. /\ b.state \in {"Closed", "Open", "HalfOpen"} /\ b.failures \in 0 .. MaxFailures
      /\ b = [state |-> b.state, failures |-> b.failures, successes |-> b.successes,
              waited |-> b.waited]
  BY DEF Breakers
<1>2. Decides(record_failure(b))
  <2> PICK n : n = CountFailure(b.failures)
    BY Zenon
  <2>1. /\ n \in Nat
        /\ b.failures >= FailureThreshold => n >= FailureThreshold
    BY <1>1, BreakerAssumption DEF CountFailure
  <2> PICK st : st = IF n >= FailureThreshold THEN "Open" ELSE b.state
    OBVIOUS
  <2>2. /\ record_failure(b).failures = n
        /\ record_failure(b).state = st
    BY Zenon, <1>1 DEF record_failure, Breakers
  <2>3. st = "Closed" <=> n < FailureThreshold
    BY <1>1, <2>1, BreakerAssumption DEF Decides
  <2> QED
    BY <2>2, <2>3 DEF Decides
<1>3. Decides(record_success(b))
  <2>1. CASE b.state = "Closed"
    <3>1. record_success(b).state = "Closed" /\ record_success(b).failures = 0
      BY <1>1, <2>1 DEF record_success, Breakers
    <3> QED
      BY <3>1, BreakerAssumption DEF Decides
  <2>2. CASE b.state = "Open"
    BY <2>2 DEF record_success
  <2>3. CASE b.state = "HalfOpen" /\ b.successes + 1 >= SuccessThreshold
    <3>1. record_success(b).state = "Closed" /\ record_success(b).failures = 0
      BY Zenon, <1>1, <2>3 DEF record_success, Breakers
    <3> QED
      BY <3>1, BreakerAssumption DEF Decides
  <2>4. CASE b.state = "HalfOpen" /\ ~(b.successes + 1 >= SuccessThreshold)
    <3>1. record_success(b).state = b.state /\ record_success(b).failures = b.failures
      BY Zenon, <1>1, <2>4 DEF record_success, Breakers
    <3> QED
      BY <3>1 DEF Decides
  <2> QED
    BY Zenon, <1>1, <2>1, <2>2, <2>3, <2>4
<1>4. CanRecover(b) => Decides(attempt_recovery(b))
  <2>1. attempt_recovery(b).state = "HalfOpen" /\ attempt_recovery(b).failures = b.failures
    BY <1>1 DEF attempt_recovery, Breakers
  <2> QED
    BY <2>1 DEF CanRecover, Decides
<1>5. Decides([b EXCEPT !.waited = TRUE])
  BY Zenon, <1>1 DEF Decides, Breakers
<1> QED
  BY <1>2, <1>3, <1>4, <1>5

(* A step of a call leaves the breaker alone or reports one outcome to it. *)
LEMMA CallsReport ==
    ASSUME NEW k \in Tasks, execute_step(k) \/ resume_step(k)
    PROVE  breaker' \in {breaker, record_success(breaker), record_failure(breaker)}
<1>1. ASSUME NEW from, NEW entry, NEW to, Record(k, from, entry, to)
      PROVE  breaker' = breaker
  BY Zenon, <1>1 DEF Record
<1>2. ASSUME NEW from, NEW minted, NEW to, store_transfer_entry(k, from, minted, to)
      PROVE  breaker' = breaker
  BY <1>2 DEF store_transfer_entry
<1>3. ASSUME NEW from, NEW to, Confirm(k, from, to) \/ Check(k, from, to)
      PROVE  breaker' = breaker
  BY ZenonT(30), <1>3 DEF Confirm, Check
<1>4. ASSUME NEW from, NEW fact, NEW done, NEW failed, Attempt(k, from, fact, done, failed)
      PROVE  breaker' \in {record_success(breaker), record_failure(breaker)}
  BY Zenon, <1>4 DEF Attempt
<1>5. CASE resume_step(k)
  <2>1. ASSUME \/ r_await_entered(k) \/ r_await_complete(k) \/ r_proof_entered(k)
               \/ r_proof_complete(k) \/ r_proof_validated(k) \/ r_mint_entered(k)
               \/ r_mint_submitted(k) \/ r_mint_confirmed(k) \/ r_completed(k)
        PROVE  breaker' = breaker
    BY <1>1, <2>1, Zenon DEF r_await_entered, r_await_complete, r_proof_entered, r_proof_complete,
       r_proof_validated, r_mint_entered, r_mint_submitted, r_mint_confirmed, r_completed
  <2>2. ASSUME \/ r_finality_gate(k) \/ r_verify_proof(k) \/ r_reverify(k)
               \/ execute_from_proof(k) \/ r_confirm(k)
        PROVE  breaker' = breaker
    BY <1>3, <2>2 DEF r_finality_gate, r_verify_proof, r_reverify, execute_from_proof, r_confirm
  <2>3. ASSUME r_mint_store(k) \/ r_confirm_store(k)
        PROVE  breaker' = breaker
    BY <1>2, <2>3, Zenon DEF r_mint_store, r_confirm_store
  <2>4. ASSUME \/ r_mint_sanad(k) \/ execute_from_mint(k)
               \/ record_resumed_settlement_evidence(k)
        PROVE  breaker' = breaker
    BY ZenonT(30), <2>4 DEF r_mint_sanad, execute_from_mint, record_resumed_settlement_evidence
  <2> QED
    BY Zenon, <1>5, <2>1, <2>2, <2>3, <2>4 DEF resume_step
<1>6. CASE execute_step(k)
  <2>1. ASSUME \/ initialized(k) \/ initialize_complete(k) \/ lock_entered(k) \/ lock_failed(k)
               \/ lock_complete(k) \/ await_entered(k) \/ await_complete(k) \/ proof_entered(k)
               \/ proof_complete(k) \/ proof_validated(k) \/ mint_blocked(k) \/ mint_entered(k)
               \/ mint_failed(k) \/ mint_submitted(k) \/ mint_confirmed(k) \/ completed(k)
        PROVE  breaker' = breaker
    BY <1>1, <2>1, Zenon DEF initialized, initialize_complete, lock_entered, lock_failed,
       lock_complete, await_entered, await_complete, proof_entered, proof_complete,
       proof_validated, mint_blocked, mint_entered, mint_failed, mint_submitted,
       mint_confirmed, completed
  <2>2. ASSUME \/ store_with_lock_hash(k) \/ lock_store(k) \/ mint_store(k) \/ confirm_store(k)
        PROVE  breaker' = breaker
    BY <1>2, <2>2, Zenon DEF store_with_lock_hash, lock_store, mint_store, confirm_store
  <2>3. ASSUME lock_sanad(k) \/ mint_sanad(k)
        PROVE  breaker' \in {record_success(breaker), record_failure(breaker)}
    BY Zenon, <1>4, <2>3 DEF lock_sanad, mint_sanad
  <2>4. ASSUME \/ completed_receipt_for(k) \/ consume(k) \/ capability_gates(k) \/ lock_check(k)
               \/ rollback(k) \/ finality_gate(k) \/ build_inclusion_proof(k) \/ verify_proof(k)
               \/ mint_check(k) \/ evidence(k) \/ complete_event(k) \/ return(k)
        PROVE  breaker' = breaker
    BY Zenon, <2>4 DEF completed_receipt_for, consume, capability_gates, lock_check, rollback,
       finality_gate, build_inclusion_proof, verify_proof, mint_check, evidence,
       complete_event, return
  <2>5. confirm(k) => breaker' = breaker
    BY <1>3 DEF confirm
  <2> QED
    BY Zenon, <1>6, <2>1, <2>2, <2>3, <2>4, <2>5 DEF execute_step
<1> QED
  BY Zenon, <1>5, <1>6

(* Whatever answers other calls bring in between, the breaker is closed    *)
(* exactly while its failure count is below the threshold.                 *)
THEOREM BreakerFollowsCount == Spec => []CountDecides
<1>1. Init => CountDecides
  BY BreakerAssumption DEF Init, Fresh, CountDecides
<1>2. ASSUME TypeOK, CountDecides, [Next]_vars
      PROVE  CountDecides'
  <2>1. breaker \in Breakers /\ Decides(breaker)
    BY Zenon, <1>2 DEF TypeOK, CountDecides, Decides
  <2>2. SUFFICES Decides(breaker')
    BY DEF CountDecides, Decides
  <2>3. ASSUME NEW k \in Tasks, execute_step(k) \/ resume_step(k)
        PROVE  Decides(breaker')
    BY <2>1, <2>3, CallsReport, BreakerDecides, Zenon
  <2>4. ASSUME NEW k \in Tasks, NEW t \in Transfers,
               execute_outcome(k, t) \/ resume_transfer_outcome(k, t)
        PROVE  Decides(breaker')
    BY <2>1, <2>4, Zenon DEF execute_outcome, resume_transfer_outcome
  <2>5. ASSUME NEW k \in Tasks, interrupt(k) \/ lose_failed_entry(k)
        PROVE  Decides(breaker')
    BY Zenon, <2>1, <2>5 DEF interrupt, lose_failed_entry
  <2>6. ASSUME NEW s \in Sanads, finalize(s)
        PROVE  Decides(breaker')
    BY <2>1, <2>6 DEF finalize
  <2>7. CASE elapse \/ attempt_circuit_breaker_recovery
    BY <2>1, <2>7, BreakerDecides, Zenon DEF elapse, attempt_circuit_breaker_recovery
  <2>8. CASE crash
    BY <2>8, BreakerAssumption DEF crash, Fresh, Decides
  <2>9. CASE UNCHANGED vars
    BY <2>1, <2>9 DEF vars
  <2> QED
    BY Zenon, <1>2, <2>3, <2>4, <2>5, <2>6, <2>7, <2>8, <2>9 DEF Next, Step
<1> QED
  BY <1>1, <1>2, WellTyped, PTL DEF Spec
=============================================================================
