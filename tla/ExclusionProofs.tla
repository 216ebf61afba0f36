-------------------------- MODULE ExclusionProofs ---------------------------
(***************************************************************************)
(* Who may act on a sanad, for any number of coordinators, calls and ids,  *)
(* any time to live and any bound on the clock: the holder of its replay   *)
(* entry, of the lease of its coordinator, of its execution lease, and the *)
(* one call that enforces its seal; and the one batch that holds a queued  *)
(* commitment.                                                             *)
(*                                                                         *)
(* ExclusiveHolder holds of the replay database's contract since a call    *)
(* that gives an entry up is still a claim on it (Claim).                  *)
(*                                                                         *)
(* NoSplitBrain rests on two invariants: a guard is either the lease       *)
(* itself or past its expiry (GuardIsLease), and the slot of a proof is    *)
(* taken before its mint (SlotBeforeMint).  LiveOwnersAgree, of the leases *)
(* of transfers, follows from what the table of leases remembers:          *)
(* TableIsLatest and OwnerLapsed.                                          *)
(***************************************************************************)
EXTENDS ReplayDatabase, CoordinatorLease, ExecutionLease, SealProtocol,
        CommitmentBatch, TLAPS

Holder(c, id) == <<c, id>> \in holds

GivingUp(c, id) ==
    call[c].at = "called" /\ call[c].op = "mark_rolled_back" /\ call[c].id = id

(* ExclusiveHolder alone is not inductive: a call to mark_rolled_back that *)
(* is under way takes effect later, so it must be the only claim left on a *)
(* pending entry, and the entry must not have been re-armed meanwhile.     *)
Claim(c, id) == Holder(c, id) \/ GivingUp(c, id)

IInv ==
    /\ TypeOK
    /\ \A c \in Clients, id \in Ids :
          ~(Holder(c, id) /\ GivingUp(c, id) /\ entries[id] = "Pending")
    /\ \A id \in Ids :
          /\ entries[id] = "Pending" =>
               \A c, d \in Clients : Claim(c, id) /\ Claim(d, id) => c = d
          /\ entries[id] \in {"None", "RolledBack"} => \A c \in Clients : ~Claim(c, id)

(* The four operations, as a table of what they do to an entry.            *)
LEMMA ApplyTable ==
    ASSUME NEW op \in Ops, NEW s \in States
    PROVE  /\ Apply(op, s).state \in States
           /\ Apply(op, s).res \in Results
           /\ Apply(op, s).state # s =>
                \/ op \in ArmingOps /\ s \in {"None", "RolledBack"} /\ Apply(op, s) = Answer("Pending", "Ok")
                \/ op = "confirm_consumed" /\ s = "Pending" /\ Apply(op, s) = Answer("Consumed", "Ok")
                \/ op = "mark_rolled_back" /\ s = "Pending" /\ Apply(op, s) = Answer("RolledBack", "Ok")
           /\ op \in ArmingOps /\ Apply(op, s).res = "Ok" => s # "Pending"
<1>1. CASE op = "insert_if_absent"
  BY <1>1 DEF Apply, insert_if_absent, Answer, Ops, ArmingOps, States, Results
<1>2. CASE op = "consume_if_unconsumed"
  BY <1>2 DEF Apply, consume_if_unconsumed, Answer, Ops, ArmingOps, States, Results
<1>3. CASE op = "confirm_consumed"
  BY <1>3 DEF Apply, confirm_consumed, Answer, Ops, ArmingOps, States, Results
<1>4. CASE op = "mark_rolled_back"
  BY <1>4 DEF Apply, mark_rolled_back, Answer, Ops, ArmingOps, States, Results
<1> QED
  BY <1>1, <1>2, <1>3, <1>4 DEF Ops, ArmingOps

(* The same for what the contract allows, failures included.               *)
LEMMA OutcomesTable ==
    ASSUME NEW op \in Ops, NEW s \in States, NEW out \in Outcomes(op, s)
    PROVE  /\ out.state \in States
           /\ out.res \in Results
           /\ out.state # s =>
                \/ op \in ArmingOps /\ s \in {"None", "RolledBack"} /\ out.state = "Pending"
                \/ op = "confirm_consumed" /\ s = "Pending" /\ out.state = "Consumed"
                \/ op = "mark_rolled_back" /\ s = "Pending" /\ out.state = "RolledBack"
           /\ op \in ArmingOps /\ out.res = "Ok" =>
                \/ s \in {"None", "RolledBack"} /\ out.state = "Pending"
                \/ s = "Consumed" /\ out.state = "Consumed"
<1>1. CASE out = Apply(op, s)
  <2>1. op \in ArmingOps /\ Apply(op, s).res = "Ok" =>
            \/ s \in {"None", "RolledBack"} /\ Apply(op, s).state = "Pending"
            \/ s = "Consumed" /\ Apply(op, s).state = "Consumed"
    BY DEF Apply, insert_if_absent, consume_if_unconsumed, Answer, ArmingOps, States
  <2> QED
    BY <1>1, <2>1, ApplyTable DEF Answer
<1>2. CASE out = Answer(Apply(op, s).state, "Storage")
  BY <1>2, ApplyTable DEF Answer, Results
<1>3. CASE out = Answer(s, "Storage") \/ out = Answer(s, "AlreadyExists")
  BY <1>3 DEF Answer, Results
<1> QED
  BY <1>1, <1>2, <1>3 DEF Outcomes

(* No slot is armed at first.                                              *)
LEMMA InitIInv == Init => IInv
BY DEF Init, IInv, TypeOK, Claim, GivingUp, Holder, Idle, Calls, States

(* A caller of mark_rolled_back held the entry, so its claim is not new.   *)
LEMMA InvokeIInv ==
    ASSUME IInv, NEW c \in Clients, NEW op \in Ops, NEW id \in Ids, Invoke(c, op, id)
    PROVE  IInv'
<1>1. TypeOK'
  BY DEF IInv, TypeOK, Invoke, Calling, Calls
<1>2. entries' = entries /\ holds' \subseteq holds
  BY DEF Invoke
<1>3. \A d \in Clients, i \in Ids : GivingUp(d, i)' =>
          \/ d # c /\ GivingUp(d, i)
          \/ d = c /\ i = id /\ Holder(c, id) /\ ~Holder(c, id)'
  BY DEF Invoke, GivingUp, Holder, Calling, IInv, TypeOK
<1>4. \A d \in Clients, i \in Ids : Claim(d, i)' => Claim(d, i)
  BY <1>2, <1>3 DEF Claim, Holder
<1>5. \A d \in Clients, i \in Ids :
          ~(Holder(d, i) /\ GivingUp(d, i) /\ entries[i] = "Pending")'
  BY Zenon, <1>2, <1>3 DEF IInv, Holder
<1> QED
  BY <1>1, <1>2, <1>4, <1>5 DEF IInv

(* The one step that changes entries: a call takes effect.                 *)
LEMMA EffectIInv ==
    ASSUME IInv, NEW c \in Clients, Effect(c)
    PROVE  IInv'
<1>0. PICK op, id, s : op = call[c].op /\ id = call[c].id /\ s = entries[call[c].id]
  OBVIOUS
<1>1. /\ call[c].at = "called" /\ op \in Ops /\ id \in Ids /\ s \in States /\ s = entries[id]
      /\ call[c] \in [at : {"called", "done"}, op : Ops, id : Ids, res : Results \cup {"none"}]
  BY <1>0 DEF Effect, IInv, TypeOK, Calls, Idle
<1>2. PICK out \in Outcomes(op, s) :
          /\ entries' = [entries EXCEPT ![id] = out.state]
          /\ call' = Answered(c, out.res)
          /\ holds' = HoldsAfter(c, op, id, out.res)
  BY Zenon, <1>0 DEF Effect
<1>3. /\ out.state \in States
      /\ out.res \in Results
      /\ out.state # s =>
           \/ op \in ArmingOps /\ s \in {"None", "RolledBack"} /\ out.state = "Pending"
           \/ op = "confirm_consumed" /\ s = "Pending" /\ out.state = "Consumed"
           \/ op = "mark_rolled_back" /\ s = "Pending" /\ out.state = "RolledBack"
      /\ op \in ArmingOps /\ out.res = "Ok" =>
           \/ s \in {"None", "RolledBack"} /\ out.state = "Pending"
           \/ s = "Consumed" /\ out.state = "Consumed"
  BY <1>0, <1>1, OutcomesTable
<1>4. TypeOK'
  <2>1. entries' \in [Ids -> States]
    BY <1>0, <1>1, <1>2, <1>3 DEF IInv, TypeOK
  <2>2. call' \in [Clients -> Calls]
    BY Zenon, <1>0, <1>1, <1>2, <1>3 DEF IInv, TypeOK, Answered, Calls
  <2>3. holds' \subseteq Clients \X Ids
    BY <1>0, <1>1, <1>2 DEF IInv, TypeOK, HoldsAfter
  <2> QED
    BY Zenon, <2>1, <2>2, <2>3 DEF TypeOK
<1>5. /\ \A i \in Ids : i # id => entries'[i] = entries[i]
      /\ entries'[id] = out.state
  BY <1>0, <1>1, <1>2 DEF IInv, TypeOK
<1>6. \A d \in Clients, i \in Ids : Holder(d, i)' =>
          \/ Holder(d, i)
          \/ d = c /\ i = id /\ op \in ArmingOps /\ out.res = "Ok"
  BY <1>2 DEF Holder, HoldsAfter
<1>7. \A d \in Clients, i \in Ids : GivingUp(d, i)' => d # c /\ GivingUp(d, i)
  BY Zenon, <1>0, <1>1, <1>2 DEF GivingUp, Answered, IInv, TypeOK
<1>8. op = "mark_rolled_back" => GivingUp(c, id)
  BY Zenon, <1>0, <1>1 DEF GivingUp
<1>9. /\ s = "Pending" => \A d, e \in Clients : Claim(d, id) /\ Claim(e, id) => d = e
      /\ s = "Pending" => \A d \in Clients : ~(Holder(d, id) /\ GivingUp(d, id))
      /\ s \in {"None", "RolledBack"} => \A d \in Clients : ~Claim(d, id)
  BY Zenon, <1>1 DEF IInv
<1>10. ASSUME NEW i \in Ids, i # id
       PROVE  /\ \A d \in Clients :
                   ~(Holder(d, i)' /\ GivingUp(d, i)' /\ entries'[i] = "Pending")
              /\ entries'[i] = "Pending" =>
                   \A d, e \in Clients : Claim(d, i)' /\ Claim(e, i)' => d = e
              /\ entries'[i] \in {"None", "RolledBack"} => \A d \in Clients : ~Claim(d, i)'
  <2>1. \A d \in Clients : /\ Holder(d, i)' => Holder(d, i)
                           /\ GivingUp(d, i)' => GivingUp(d, i)
                           /\ Claim(d, i)' => Claim(d, i)
    BY <1>6, <1>7, <1>10 DEF Claim
  <2>2. entries'[i] = entries[i]
    BY Zenon, <1>5, <1>10
  <2> QED
    BY <2>1, <2>2 DEF IInv
<1>11. /\ \A d \in Clients :
            ~(Holder(d, id)' /\ GivingUp(d, id)' /\ out.state = "Pending")
       /\ out.state = "Pending" =>
            \A d, e \in Clients : Claim(d, id)' /\ Claim(e, id)' => d = e
       /\ out.state \in {"None", "RolledBack"} => \A d \in Clients : ~Claim(d, id)'
  <2>1. CASE s = "Pending" /\ out.state = "RolledBack"
    <3>1. op = "mark_rolled_back" /\ op \notin ArmingOps
      BY <1>3, <2>1 DEF ArmingOps
    <3>2. \A d \in Clients : Holder(d, id)' => Holder(d, id)
      BY <1>1, <1>6, <3>1
    <3>3. GivingUp(c, id)
      BY <1>8, <3>1
    <3>4. \A d \in Clients : Claim(d, id) => d = c
      BY <1>9, <2>1, <3>3 DEF Claim
    <3>5. ~Holder(c, id)
      BY Zenon, <1>9, <2>1, <3>3
    <3> QED
      BY <1>1, <1>7, <2>1, <3>2, <3>4, <3>5 DEF Claim
  <2>2. CASE s = "Pending" /\ out.state # "RolledBack"
    <3>1. ~(op \in ArmingOps /\ out.res = "Ok")
      BY Zenon, <1>3, <2>2
    <3>2. \A d \in Clients : /\ Holder(d, id)' => Holder(d, id)
                             /\ GivingUp(d, id)' => GivingUp(d, id)
      BY <1>1, <1>6, <1>7, <3>1
    <3>3. out.state # "None"
      BY <1>3, <2>2
    <3> QED
      BY <1>9, <2>2, <3>2, <3>3 DEF Claim
  <2>3. CASE s = "Consumed"
    BY <1>3, <2>3
  <2>4. CASE s \in {"None", "RolledBack"}
    <3>1. \A d \in Clients : ~GivingUp(d, id)'
      BY Zenon, <1>1, <1>7, <1>9, <2>4 DEF Claim
    <3>2. \A d \in Clients : Holder(d, id)' => d = c /\ out.state = "Pending"
      BY Zenon, <1>1, <1>3, <1>6, <1>9, <2>4 DEF Claim
    <3> QED
      BY Zenon, <3>1, <3>2 DEF Claim
  <2> QED
    BY Zenon, <1>1, <2>1, <2>2, <2>3, <2>4 DEF States
<1> QED
  BY <1>4, <1>5, <1>10, <1>11 DEF IInv

(* Forgetting a call leaves entries and holders alone and ends one claim.  *)
LEMMA ForgetIInv ==
    ASSUME IInv, NEW c \in Clients, call' = [call EXCEPT ![c] = Idle],
           UNCHANGED <<entries, holds>>
    PROVE  IInv'
<1>1. TypeOK'
  BY Zenon DEF IInv, TypeOK, Calls
<1>2. \A d \in Clients, i \in Ids : GivingUp(d, i)' => GivingUp(d, i)
  BY DEF GivingUp, Idle, IInv, TypeOK
<1>3. \A d \in Clients, i \in Ids : Holder(d, i)' = Holder(d, i)
  BY DEF Holder
<1> QED
  BY Zenon, <1>1, <1>2, <1>3 DEF IInv, Claim

(* Every call and every answer.                                            *)
LEMMA NextIInv == IInv /\ [Next]_vars => IInv'
<1> SUFFICES ASSUME IInv, [Next]_vars PROVE IInv'
  OBVIOUS
<1>1. ASSUME NEW c \in Clients, Return(c) \/ Crash(c) PROVE IInv'
  BY Zenon, <1>1, ForgetIInv DEF Return, Crash
<1>2. CASE UNCHANGED vars
  BY <1>2 DEF vars, IInv, TypeOK, Claim, GivingUp, Holder
<1> QED
  BY <1>1, <1>2, InvokeIInv, EffectIInv DEF Next

(* While an entry is pending at most one client was told to go ahead.      *)
THEOREM HolderIsExclusive == Spec => [](TypeOK /\ ExclusiveHolder)
<1>1. IInv => TypeOK /\ ExclusiveHolder
  BY Zenon DEF IInv, ExclusiveHolder, Claim, Holder
<1> QED
  BY <1>1, InitIInv, NextIInv, PTL DEF Spec

(* No step takes a Consumed entry back.                                    *)
LEMMA StepAppendOnly ==
    ASSUME TypeOK, [Next]_vars, NEW id \in Ids, entries'[id] # entries[id]
    PROVE  /\ entries[id] # "Consumed"
           /\ entries'[id] # "None"
           /\ entries'[id] \in {"Consumed", "RolledBack"} => entries[id] = "Pending"
<1>1. PICK c \in Clients : Effect(c)
  BY Zenon DEF Next, vars, Invoke, Return, Crash
<1>2. /\ call[c].op \in Ops /\ call[c].id \in Ids
      /\ entries[call[c].id] \in States
  BY <1>1 DEF Effect, TypeOK, Calls, Idle
<1>3. PICK out \in Outcomes(call[c].op, entries[call[c].id]) :
          entries' = [entries EXCEPT ![call[c].id] = out.state]
  BY Zenon, <1>1 DEF Effect
<1>4. id = call[c].id /\ entries'[id] = out.state
  BY <1>2, <1>3 DEF TypeOK
<1> QED
  BY <1>2, <1>3, <1>4, OutcomesTable

(* Entries are never deleted, Consumed is terminal, and only a pending     *)
(* entry is consumed or rolled back.                                       *)
THEOREM AppendOnly == Spec => EntriesAppendOnly
<1>1. TypeOK /\ [Next]_vars => [EntryStep]_vars
  BY StepAppendOnly DEF EntryStep
<1>2. IInv => TypeOK
  BY DEF IInv
<1> QED
  BY <1>1, <1>2, InitIInv, NextIInv, PTL DEF Spec, EntriesAppendOnly

(***************************************************************************)
(* The leases.                                                             *)
(***************************************************************************)

CallStates ==
    [at : Guarded \cup {"idle", "acquire"}, sanad : Proofs \cup {{}}, now : Nat, until : Nat]

SlotTypes == slots \in [Proofs -> States] /\ mints \in [Proofs -> Nat]

CallTypes ==
    /\ clock \in Nat
    /\ lease \in [holder : Coordinators \cup {NoCoordinator}, expires : Nat]
    /\ mint \in [MintCalls -> CallStates]
    /\ \A c \in MintCalls : Running(c) => mint[c].sanad \in Proofs
    /\ \A c \in MintCalls : mint[c].now <= clock

(* Two calls of a coordinator run at once only where that is on record.    *)
OverlapRecorded ==
    \A c, d \in MintCalls :
        c # d /\ CallerOf[c] = CallerOf[d] /\ Running(c) /\ Running(d)
        => CallerOf[c] \in overlapped

GuardIsLease ==
    \A c \in MintCalls :
        mint[c].at \in Guarded /\ CallerOf[c] \notin overlapped =>
            \/ lease.holder = CallerOf[c] /\ lease.expires = mint[c].until
            \/ clock >= mint[c].until

\* The calls that have taken the slot of s and have not submitted its mint.
Minting(s) == {c \in MintCalls : mint[c].at \in {"check_mint", "mint"} /\ mint[c].sanad = s}

SlotBeforeMint ==
    \A s \in Proofs :
        /\ \A c, d \in Minting(s) : c = d
        /\ Minting(s) # {} => slots[s] # "None" /\ mints[s] = 0
        /\ slots[s] = "None" => mints[s] = 0
        /\ mints[s] <= 1

CallInv == CallTypes /\ OverlapRecorded /\ GuardIsLease

SlotInv == SlotTypes /\ SlotBeforeMint

LeaseInv == CallInv /\ SlotInv

-----------------------------------------------------------------------------
(* No call of the replay database empties a slot.                          *)
LEMMA SlotsStay ==
    ASSUME NEW s \in States
    PROVE  /\ insert_if_absent(s).state \in States \ {"None"}
           /\ insert_if_absent(s).res = "Ok" => s = "None"
           /\ consume_if_unconsumed(s).state \in States \ {"None"}
BY DEF States, insert_if_absent, consume_if_unconsumed, Answer

(* At the start no call runs and every slot is free.                       *)
LEMMA InitLease == LeaseInit => LeaseInv
<1> SUFFICES ASSUME LeaseInit PROVE LeaseInv
  BY Zenon
<1>1. \A c \in MintCalls : mint[c] = NoCall /\ ~Running(c) /\ mint[c].at \notin Guarded
  BY Zenon DEF LeaseInit, NoCall, Running, Guarded
<1>2. CallTypes /\ SlotTypes
  BY <1>1 DEF LeaseInit, CallTypes, SlotTypes, CallStates, NoCall, NoLease, States, Guarded
<1>3. OverlapRecorded /\ GuardIsLease
  BY Zenon, <1>1 DEF OverlapRecorded, GuardIsLease
<1>4. SlotBeforeMint
  BY <1>1 DEF LeaseInit, SlotBeforeMint, Minting, Guarded
<1> QED BY <1>2, <1>3, <1>4 DEF LeaseInv, CallInv, SlotInv

(* A call that begins, or one that goes on under the guard it has.         *)
LEMMA CallStepKeeps ==
    ASSUME CallInv, NEW c \in MintCalls, NEW m \in CallStates,
           mint' = [mint EXCEPT ![c] = m],
           UNCHANGED <<clock, lease>>,
           m.at # "idle" => m.sanad \in Proofs, m.now <= clock,
           overlapped \subseteq overlapped',
           m.at # "idle" => Running(c) \/ \A d \in MintCalls :
               d # c /\ Running(d) /\ CallerOf[d] = CallerOf[c] => CallerOf[c] \in overlapped',
           m.at \in Guarded => mint[c].at \in Guarded /\ m.until = mint[c].until
    PROVE  CallInv'
<1>1. /\ mint' \in [MintCalls -> CallStates]
      /\ mint'[c] = m
      /\ \A d \in MintCalls : d # c => mint'[d] = mint[d]
  BY Zenon DEF CallInv, CallTypes
<1>2. \A d \in MintCalls : Running(d)' => mint'[d].sanad \in Proofs
  BY Zenon, <1>1 DEF CallInv, CallTypes, Running
<1>3. \A d \in MintCalls : mint'[d].now <= clock'
  BY Zenon, <1>1 DEF CallInv, CallTypes
<1>4. OverlapRecorded'
  BY Zenon, <1>1 DEF CallInv, OverlapRecorded, Running
<1>5. GuardIsLease'
  BY <1>1 DEF CallInv, GuardIsLease
<1> QED BY Zenon, <1>1, <1>2, <1>3, <1>4, <1>5 DEF CallInv, CallTypes

(* execute_mint records the overlap, if there is one.                      *)
LEMMA BeginKeeps ==
    ASSUME LeaseInv, NEW c \in MintCalls, NEW s \in Proofs, execute_mint(c, s)
    PROVE  LeaseInv'
<1> DEFINE m == [at |-> "acquire", sanad |-> s, now |-> clock, until |-> 0]
<1>1. /\ clock \in Nat /\ ~Running(c) /\ mint' = [mint EXCEPT ![c] = m]
      /\ UNCHANGED <<clock, lease, slots, mints>>
  BY Zenon DEF execute_mint, LeaseInv, CallInv, CallTypes
<1>2. /\ m \in CallStates /\ m.at = "acquire" /\ m.at \notin Guarded
      /\ m.sanad \in Proofs /\ m.now <= clock
  BY <1>1 DEF CallStates, Guarded
<1>3. /\ overlapped \subseteq overlapped'
      /\ \A d \in MintCalls :
            d # c /\ Running(d) /\ CallerOf[d] = CallerOf[c] => CallerOf[c] \in overlapped'
  BY DEF execute_mint
<1> HIDE DEF m
<1>4. CallInv'
  BY Zenon, <1>1, <1>2, <1>3, CallStepKeeps DEF LeaseInv
<1>5. SlotTypes'
  BY Zenon, <1>1 DEF LeaseInv, SlotInv, SlotTypes
<1>6. \A t \in Proofs : Minting(t)' = Minting(t)
  BY Zenon, <1>1, <1>2 DEF Minting, Running, LeaseInv, CallInv, CallTypes
<1>7. SlotBeforeMint'
  BY Zenon, <1>1, <1>6 DEF LeaseInv, SlotInv, SlotBeforeMint
<1> QED BY Zenon, <1>4, <1>5, <1>7 DEF LeaseInv, SlotInv

(* A lease is taken only from its holder's own guard, or past its expiry:  *)
(* the time that was read is not in the future.                            *)
LEMMA AcquireKeeps ==
    ASSUME LeaseInv, NEW c \in MintCalls, acquire_or_renew(c)
    PROVE  LeaseInv'
<1> PICK m : m = mint[c]
  OBVIOUS
<1>1. /\ m \in CallStates /\ m.at = "acquire" /\ Running(c) /\ m.sanad \in Proofs
      /\ m.now \in Nat /\ m.now <= clock /\ clock \in Nat
      /\ UNCHANGED <<clock, slots, mints, overlapped>>
  BY Zenon DEF acquire_or_renew, LeaseInv, CallInv, CallTypes, Running, CallStates
<1>2. PICK n \in CallStates :
         /\ n.at \in {"idle", "check_insert"}
         /\ mint' = [mint EXCEPT ![c] = n]
         /\ n.at # "idle" => n.sanad = m.sanad
         /\ n.now <= clock
         /\ \/ n.at = "idle" /\ UNCHANGED lease
            \/ /\ Available(CallerOf[c], m.now)
               /\ lease' = [holder |-> CallerOf[c], expires |-> n.until]
  <2>1. CASE Available(CallerOf[c], m.now)
    <3> DEFINE n == [m EXCEPT !.at = "check_insert", !.until = m.now + LeaseTtl]
    <3>0. m.now + LeaseTtl \in Nat /\ "check_insert" \in Guarded
      BY <1>1, LeaseAssumption DEF Guarded
    <3>1. /\ n \in CallStates /\ n.at = "check_insert" /\ n.sanad = m.sanad /\ n.now = m.now
          /\ n.until = m.now + LeaseTtl
      BY Zenon, <1>1, <3>0 DEF CallStates
    <3>2. /\ mint' = [mint EXCEPT ![c] = n]
          /\ lease' = [holder |-> CallerOf[c], expires |-> m.now + LeaseTtl]
      BY <2>1 DEF acquire_or_renew
    <3> HIDE DEF n
    <3> QED BY Zenon, <1>1, <2>1, <3>1, <3>2
  <2>2. CASE ~Available(CallerOf[c], m.now)
    <3>1. mint' = [mint EXCEPT ![c] = NoCall] /\ UNCHANGED lease
      BY Zenon, <2>2 DEF acquire_or_renew, MintAt
    <3>2. NoCall \in CallStates /\ NoCall.at = "idle" /\ NoCall.now <= clock
      BY <1>1 DEF NoCall, CallStates
    <3> QED BY Zenon, <3>1, <3>2
  <2> QED BY <2>1, <2>2
<1>3. /\ mint' \in [MintCalls -> CallStates] /\ mint'[c] = n
      /\ \A d \in MintCalls : d # c => mint'[d] = mint[d]
  BY <1>2 DEF LeaseInv, CallInv, CallTypes
<1>4. n.until \in Nat /\ CallerOf[c] \in Coordinators
  BY Zenon, LeaseAssumption DEF CallStates
<1>5. CallTypes'
  BY <1>1, <1>2, <1>3, <1>4 DEF LeaseInv, CallInv, CallTypes, Running
<1>6. OverlapRecorded'
  BY Zenon, <1>1, <1>3 DEF LeaseInv, CallInv, OverlapRecorded, Running
<1>7. GuardIsLease'
  <2> SUFFICES ASSUME NEW d \in MintCalls, mint'[d].at \in Guarded,
                      CallerOf[d] \notin overlapped
               PROVE  \/ lease'.holder = CallerOf[d] /\ lease'.expires = mint'[d].until
                      \/ clock >= mint'[d].until
    BY Zenon, <1>1 DEF GuardIsLease
  <2>1. CASE d = c
    BY <1>2, <1>3, <2>1 DEF Guarded
  <2>2. CASE d # c
    <3>1. /\ mint'[d] = mint[d] /\ Running(d)
          /\ \/ lease.holder = CallerOf[d] /\ lease.expires = mint[d].until
             \/ clock >= mint[d].until
      BY Zenon, <1>3, <2>2 DEF LeaseInv, CallInv, GuardIsLease, Running, Guarded
    <3>2. CallerOf[d] # CallerOf[c]
      BY Zenon, <1>1, <2>2, <3>1 DEF LeaseInv, CallInv, OverlapRecorded
    <3>3. ASSUME Available(CallerOf[c], m.now) PROVE clock >= mint[d].until
      <4>1. CallerOf[d] \in Coordinators /\ mint[d].until \in Nat
        BY Zenon, LeaseAssumption DEF LeaseInv, CallInv, CallTypes, CallStates
      <4> QED BY <1>1, <3>1, <3>2, <3>3, <4>1, LeaseAssumption DEF Available
    <3> QED BY Zenon, <1>2, <3>1, <3>3
  <2> QED BY Zenon, <2>1, <2>2
<1>8. \A t \in Proofs : Minting(t)' = Minting(t)
  BY Zenon, <1>1, <1>2, <1>3 DEF Minting
<1>9. SlotInv'
  BY <1>1, <1>8 DEF LeaseInv, SlotInv, SlotTypes, SlotBeforeMint
<1> QED BY Zenon, <1>5, <1>6, <1>7, <1>9 DEF LeaseInv, CallInv

(* What a call does next under its guard, as a record.                     *)
LEMMA MintAtIs ==
    ASSUME LeaseInv, NEW c \in MintCalls, mint[c].at \in Guarded,
           NEW at \in Guarded \cup {"idle"}, MintAt(c, at), UNCHANGED <<clock, lease, overlapped>>
    PROVE  /\ CallInv'
           /\ mint'[c].at = at
           /\ at # "idle" => mint'[c].sanad = mint[c].sanad
           /\ \A d \in MintCalls : d # c => mint'[d] = mint[d]
<1> PICK m : m = mint[c]
  BY Zenon
<1>1. /\ m \in CallStates /\ m.now <= clock /\ clock \in Nat /\ Running(c) /\ m.sanad \in Proofs
  BY Zenon DEF LeaseInv, CallInv, CallTypes, Running, Guarded
<1>2. PICK n \in CallStates :
         /\ mint' = [mint EXCEPT ![c] = n]
         /\ n.at = at /\ n.now <= clock
         /\ at # "idle" => n.sanad = m.sanad /\ n.until = m.until
  <2>1. CASE at = "idle"
    <3>1. NoCall \in CallStates /\ NoCall.at = "idle" /\ NoCall.now <= clock
      BY <1>1 DEF NoCall, CallStates
    <3> QED BY Zenon, <2>1, <3>1 DEF MintAt
  <2>2. CASE at # "idle"
    <3> DEFINE n == [m EXCEPT !.at = at]
    <3>1. n \in CallStates /\ n.at = at /\ n.now = m.now /\ n.sanad = m.sanad /\ n.until = m.until
      BY <1>1, <2>2 DEF CallStates
    <3>2. mint' = [mint EXCEPT ![c] = n]
      BY <2>2 DEF MintAt
    <3> HIDE DEF n
    <3> QED BY Zenon, <1>1, <3>1, <3>2
  <2> QED BY <2>1, <2>2
<1>3. CallInv'
  <2>1. n.at # "idle" => n.sanad \in Proofs
    BY Zenon, <1>1, <1>2
  <2>2. n.at \in Guarded => mint[c].at \in Guarded /\ n.until = mint[c].until
    BY Zenon, <1>2 DEF Guarded
  <2> QED BY Zenon, <1>1, <1>2, <2>1, <2>2, CallStepKeeps DEF LeaseInv
<1> QED BY Zenon, <1>2, <1>3 DEF LeaseInv, CallInv, CallTypes

(* The steps that leave slots and mints alone and take no slot.            *)
LEMMA AssertKeeps ==
    ASSUME LeaseInv, NEW c \in MintCalls, assert_valid(c)
    PROVE  LeaseInv'
<1>1. PICK at \in Guarded \cup {"idle"} :
         /\ MintAt(c, at)
         /\ at \in {"check_mint", "mint"} => mint[c].at = "check_mint"
  <2>1. {"idle", "insert", "mint"} \subseteq Guarded \cup {"idle"}
    BY Zenon DEF Guarded
  <2>2. \/ MintAt(c, "idle") \/ MintAt(c, "insert")
        \/ mint[c].at = "check_mint" /\ MintAt(c, "mint")
    BY Zenon DEF assert_valid
  <2> QED BY <2>1, <2>2
<1>2. mint[c].at \in Guarded /\ UNCHANGED <<clock, lease, slots, mints, overlapped>>
  BY Zenon DEF assert_valid, Guarded
<1>3. /\ CallInv' /\ mint'[c].at = at
      /\ at # "idle" => mint'[c].sanad = mint[c].sanad
      /\ \A d \in MintCalls : d # c => mint'[d] = mint[d]
  BY Zenon, <1>1, <1>2, MintAtIs
<1>4. \A t \in Proofs : Minting(t)' \subseteq Minting(t)
  BY Zenon, <1>1, <1>3 DEF Minting
<1>5. SlotInv'
  BY Zenon, <1>2, <1>4 DEF LeaseInv, SlotInv, SlotTypes, SlotBeforeMint
<1> QED BY Zenon, <1>3, <1>5 DEF LeaseInv

(* Only the call that finds the slot free goes on to mint.                 *)
LEMMA ReserveKeeps ==
    ASSUME LeaseInv, NEW c \in MintCalls, reserve(c)
    PROVE  LeaseInv'
<1> PICK s : s = mint[c].sanad
  BY Zenon
<1>1. /\ mint[c].at = "insert" /\ mint[c].at \in Guarded /\ s \in Proofs
      /\ UNCHANGED <<clock, lease, mints, overlapped>>
      /\ slots[s] \in States
  BY Zenon DEF reserve, Guarded, LeaseInv, CallInv, CallTypes, Running, SlotInv, SlotTypes
<1>2. PICK at \in {"check_mint", "idle"} :
         MintAt(c, at) /\ (at = "check_mint" => slots[s] = "None")
  BY Zenon, <1>1, SlotsStay DEF reserve
<1>3. /\ CallInv' /\ mint'[c].at = at
      /\ at # "idle" => mint'[c].sanad = s
      /\ \A d \in MintCalls : d # c => mint'[d] = mint[d]
  BY Zenon, <1>1, <1>2, MintAtIs DEF Guarded
<1>4. PICK x \in States \ {"None"} : slots' = [slots EXCEPT ![s] = x]
  BY Zenon, <1>1, SlotsStay DEF reserve
<1>5. /\ SlotTypes' /\ slots'[s] = x
      /\ \A t \in Proofs : t # s => slots'[t] = slots[t]
  BY Zenon, <1>1, <1>4 DEF LeaseInv, SlotInv, SlotTypes
<1>6. ASSUME NEW t \in Proofs, t # s \/ at = "idle" PROVE Minting(t)' \subseteq Minting(t)
  BY Zenon, <1>3, <1>6 DEF Minting
<1>7. Minting(s)' \subseteq Minting(s) \cup {c}
  BY Zenon, <1>3 DEF Minting
<1>8. ASSUME slots[s] = "None" PROVE Minting(s) = {} /\ mints[s] = 0
  BY Zenon, <1>1, <1>8 DEF LeaseInv, SlotInv, SlotBeforeMint
<1>9. SlotBeforeMint'
  <2> SUFFICES ASSUME NEW t \in Proofs
               PROVE  /\ \A b, d \in Minting(t)' : b = d
                      /\ Minting(t)' # {} => slots'[t] # "None" /\ mints'[t] = 0
                      /\ slots'[t] = "None" => mints'[t] = 0
                      /\ mints'[t] <= 1
    BY Zenon DEF SlotBeforeMint
  <2>1. CASE t = s /\ at = "check_mint"
    BY <1>1, <1>2, <1>5, <1>7, <1>8, <2>1
  <2>2. CASE t # s \/ at = "idle"
    <3>1. Minting(t)' \subseteq Minting(t)
      BY Zenon, <1>6, <2>2
    <3>2. slots'[t] = "None" => slots[t] = "None"
      BY Zenon, <1>4, <1>5
    <3>3. slots[t] # "None" => slots'[t] # "None"
      BY Zenon, <1>4, <1>5
    <3> QED BY Zenon, <1>1, <3>1, <3>2, <3>3 DEF LeaseInv, SlotInv, SlotBeforeMint
  <2> QED BY Zenon, <1>2, <2>1, <2>2
<1> QED BY Zenon, <1>3, <1>5, <1>9 DEF LeaseInv, SlotInv

(* The one call that holds the slot submits the mint and never another.    *)
LEMMA SubmitKeeps ==
    ASSUME LeaseInv, NEW c \in MintCalls, submit_mint(c)
    PROVE  LeaseInv'
<1> PICK s : s = mint[c].sanad
  OBVIOUS
<1>1. /\ mint[c].at = "mint" /\ mint[c].at \in Guarded /\ s \in Proofs
      /\ UNCHANGED <<clock, lease, slots, overlapped>>
      /\ mints' = [mints EXCEPT ![s] = @ + 1]
  BY Zenon DEF submit_mint, Guarded, LeaseInv, CallInv, CallTypes, Running
<1>2. PICK at \in {"confirm", "idle"} : MintAt(c, at)
  BY Zenon DEF submit_mint
<1>3. /\ CallInv' /\ mint'[c].at = at
      /\ \A d \in MintCalls : d # c => mint'[d] = mint[d]
  BY Zenon, <1>1, <1>2, MintAtIs DEF Guarded
<1>4. c \in Minting(s)
  BY Zenon, <1>1 DEF Minting
<1>5. slots[s] # "None" /\ mints[s] = 0 /\ Minting(s) = {c}
  BY <1>1, <1>4 DEF LeaseInv, SlotInv, SlotBeforeMint
<1>6. /\ mints' \in [Proofs -> Nat] /\ mints'[s] = 1
      /\ \A t \in Proofs : t # s => mints'[t] = mints[t]
  BY <1>1, <1>5 DEF LeaseInv, SlotInv, SlotTypes
<1>7. \A t \in Proofs : Minting(t)' \subseteq Minting(t) \ {c}
  BY Zenon, <1>3 DEF Minting
<1>8. SlotBeforeMint'
  <2> SUFFICES ASSUME NEW t \in Proofs
               PROVE  /\ \A b, d \in Minting(t)' : b = d
                      /\ Minting(t)' # {} => slots'[t] # "None" /\ mints'[t] = 0
                      /\ slots'[t] = "None" => mints'[t] = 0
                      /\ mints'[t] <= 1
    BY Zenon DEF SlotBeforeMint
  <2>1. CASE t = s
    BY <1>1, <1>5, <1>6, <1>7, <2>1
  <2>2. CASE t # s
    BY <1>1, <1>6, <1>7, <2>2 DEF LeaseInv, SlotInv, SlotBeforeMint
  <2> QED BY Zenon, <2>1, <2>2
<1> QED BY Zenon, <1>1, <1>3, <1>6, <1>8 DEF LeaseInv, SlotInv, SlotTypes

(* confirm_mint calls consume_if_unconsumed again and ends the call.       *)
LEMMA ConfirmKeeps ==
    ASSUME LeaseInv, NEW c \in MintCalls, confirm_mint(c)
    PROVE  LeaseInv'
<1> PICK s : s = mint[c].sanad
  OBVIOUS
<1>1. /\ mint[c].at = "confirm" /\ mint[c].at \in Guarded /\ s \in Proofs /\ MintAt(c, "idle")
      /\ UNCHANGED <<clock, lease, mints, overlapped>>
      /\ slots[s] \in States
  BY Zenon DEF confirm_mint, Guarded, LeaseInv, CallInv, CallTypes, Running, SlotInv, SlotTypes
<1>2. /\ CallInv' /\ mint'[c].at = "idle"
      /\ \A d \in MintCalls : d # c => mint'[d] = mint[d]
  BY <1>1, MintAtIs
<1>3. PICK x \in States \ {"None"} : slots' = [slots EXCEPT ![s] = x]
  BY Zenon, <1>1, SlotsStay DEF confirm_mint
<1>4. /\ SlotTypes' /\ slots'[s] = x
      /\ \A t \in Proofs : t # s => slots'[t] = slots[t]
  BY Zenon, <1>1, <1>3 DEF LeaseInv, SlotInv, SlotTypes
<1>5. \A t \in Proofs : Minting(t)' \subseteq Minting(t)
  BY Zenon, <1>2 DEF Minting
<1>6. \A t \in Proofs : slots'[t] = "None" => slots[t] = "None"
  BY Zenon, <1>3, <1>4
<1>7. SlotBeforeMint'
  BY <1>1, <1>4, <1>5, <1>6 DEF LeaseInv, SlotInv, SlotBeforeMint
<1> QED BY Zenon, <1>2, <1>4, <1>7 DEF LeaseInv, SlotInv

(* A coordinator gives the lease up only when it runs no call, a process   *)
(* that stops leaves it, and time only makes guards expire.                *)
LEMMA EnvironmentKeeps ==
    ASSUME LeaseInv,
           tick \/ \E co \in Coordinators : release(co) \/ coordinator_stops(co)
    PROVE  LeaseInv'
<1>1. CASE tick
  <2>1. clock' = clock + 1 /\ clock \in Nat /\ UNCHANGED <<lease, mint, slots, mints, overlapped>>
    BY Zenon, <1>1 DEF tick, LeaseInv, CallInv, CallTypes
  <2>2. \A c \in MintCalls : mint[c].now \in Nat /\ mint[c].until \in Nat
    BY Zenon DEF LeaseInv, CallInv, CallTypes, CallStates
  <2>3. CallTypes' /\ GuardIsLease'
    BY <2>1, <2>2 DEF LeaseInv, CallInv, CallTypes, GuardIsLease, Running
  <2>4. OverlapRecorded' /\ SlotInv'
    BY <2>1 DEF LeaseInv, CallInv, OverlapRecorded, Running, SlotInv, SlotTypes, SlotBeforeMint, Minting
  <2> QED BY Zenon, <2>3, <2>4 DEF LeaseInv, CallInv
<1>2. ASSUME NEW co \in Coordinators, release(co) PROVE LeaseInv'
  <2>1. /\ lease.holder = co /\ lease' = NoLease
        /\ UNCHANGED <<clock, mint, slots, mints>>
        /\ \A x \in overlapped : x \in overlapped'
        /\ \A c \in MintCalls : mint[c].at \in Guarded /\ CallerOf[c] = co
              => CallerOf[c] \in overlapped'
    BY Zenon, <1>2 DEF release
  <2>2. CallTypes'
    BY Zenon, <2>1 DEF LeaseInv, CallInv, CallTypes, Running, NoLease
  <2>3. GuardIsLease'
    BY Zenon, <2>1 DEF LeaseInv, CallInv, GuardIsLease
  <2>4. OverlapRecorded' /\ SlotInv'
    BY <2>1 DEF LeaseInv, CallInv, OverlapRecorded, Running, SlotInv, SlotTypes, SlotBeforeMint, Minting
  <2> QED BY Zenon, <2>2, <2>3, <2>4 DEF LeaseInv, CallInv
<1>3. ASSUME NEW co \in Coordinators, coordinator_stops(co) PROVE LeaseInv'
  <2>1. /\ mint' = [c \in MintCalls |-> IF CallerOf[c] = co THEN NoCall ELSE mint[c]]
        /\ UNCHANGED <<clock, lease, slots, mints, overlapped>>
    BY Zenon, <1>3 DEF coordinator_stops
  <2>2. NoCall \in CallStates /\ NoCall.at = "idle" /\ NoCall.now = 0
    BY Zenon DEF NoCall, CallStates
  <2>3. \A c \in MintCalls : mint'[c] = NoCall \/ mint'[c] = mint[c]
    BY Zenon, <2>1
  <2>4. CallTypes'
    BY <2>1, <2>2, <2>3 DEF LeaseInv, CallInv, CallTypes, Running
  <2>5. GuardIsLease' /\ OverlapRecorded'
    BY Zenon, <2>1, <2>2, <2>3 DEF LeaseInv, CallInv, GuardIsLease, OverlapRecorded, Running, Guarded
  <2>6. \A t \in Proofs : Minting(t)' \subseteq Minting(t)
    BY Zenon, <2>2, <2>3 DEF Minting
  <2>7. SlotInv'
    BY Zenon, <2>1, <2>6 DEF LeaseInv, SlotInv, SlotTypes, SlotBeforeMint
  <2> QED BY Zenon, <2>4, <2>5, <2>7 DEF LeaseInv, CallInv
<1> QED BY Zenon, <1>1, <1>2, <1>3

(* Every step of a coordinator, and every tick of the clock.               *)
LEMMA LeaseNextKeeps == LeaseInv /\ [LeaseNext]_leaseVars => LeaseInv'
<1> SUFFICES ASSUME LeaseInv, [LeaseNext]_leaseVars PROVE LeaseInv'
  OBVIOUS
<1>1. ASSUME NEW c \in MintCalls, NEW s \in Proofs, execute_mint(c, s) PROVE LeaseInv'
  BY Zenon, <1>1, BeginKeeps
<1>2. ASSUME NEW c \in MintCalls,
             acquire_or_renew(c) \/ assert_valid(c) \/ reserve(c) \/ submit_mint(c) \/ confirm_mint(c)
      PROVE  LeaseInv'
  BY Zenon, <1>2, AcquireKeeps, AssertKeeps, ReserveKeeps, SubmitKeeps, ConfirmKeeps
<1>3. CASE tick \/ \E co \in Coordinators : release(co) \/ coordinator_stops(co)
  BY Zenon, <1>3, EnvironmentKeeps
<1>4. CASE UNCHANGED leaseVars
  BY <1>4 DEF leaseVars, LeaseInv, CallInv, CallTypes, GuardIsLease, OverlapRecorded, Running,
              SlotInv, SlotTypes, SlotBeforeMint, Minting
<1> QED BY Zenon, <1>1, <1>2, <1>3, <1>4 DEF LeaseNext

(* Two guards that are both valid would be one lease with two holders.     *)
LEMMA InvExcludes == LeaseInv => NoSplitBrain
<1> SUFFICES ASSUME LeaseInv PROVE NoSplitBrain
  BY Zenon
<1>1. GuardsExclude
  BY Zenon DEF LeaseInv, CallInv, GuardIsLease, GuardsExclude
<1>2. SubmittedOnce
  BY DEF LeaseInv, SlotInv, SlotBeforeMint, SubmittedOnce
<1> QED BY <1>1, <1>2 DEF NoSplitBrain

(* For any number of coordinators, calls and proofs and any time to live:  *)
(* two coordinators that run one call at a time never both hold a guard    *)
(* assert_valid accepts, and a proof is minted once at most, also past an  *)
(* expired or shortened lease and after a restart.                         *)
THEOREM LeasesExclude == LeaseSpec => []NoSplitBrain
<1>1. LeaseInit => LeaseInv
  BY InitLease
<1>2. LeaseInv /\ [LeaseNext]_leaseVars => LeaseInv'
  BY LeaseNextKeeps
<1>3. LeaseInv => NoSplitBrain
  BY Zenon, InvExcludes
<1> QED BY <1>1, <1>2, <1>3, PTL DEF LeaseSpec
-----------------------------------------------------------------------------
LeaseValues == [owner : Runtimes, epoch : Nat, expires : Nat]

ExecutionTypes ==
    /\ time \in Nat
    /\ accepted \in [LeasedSanads -> SUBSET LeaseValues]
    /\ active \in [LeasedSanads -> SUBSET LeaseValues]

(* The table has one lease for a sanad that was executed under any, and    *)
(* none of those is of a later epoch or another owner's of the same epoch. *)
TableIsLatest ==
    \A s \in LeasedSanads :
        /\ active[s] \subseteq accepted[s]
        /\ accepted[s] # {} => active[s] # {}
        /\ \A c \in active[s], k \in accepted[s] :
              k.epoch <= c.epoch /\ (k.epoch = c.epoch => k.owner = c.owner)

(* The owner of a lease that another runtime superseded let one lapse.     *)
OwnerLapsed ==
    \A s \in LeasedSanads : \A k, l \in accepted[s] :
        k.epoch < l.epoch /\ k.owner # l.owner =>
            \E j \in accepted[s] :
                j.owner = k.owner /\ j.epoch >= k.epoch /\ j.expires <= time

ExecutionInv == ExecutionTypes /\ TableIsLatest /\ OwnerLapsed

(* What an accepted lease does to the lease table and the history.         *)
LEMMA AcceptKeeps ==
    ASSUME ExecutionInv, NEW s \in LeasedSanads, NEW l \in Leases,
           accept_execution_lease(s, l)
    PROVE  ExecutionInv'
<1>1. l \in LeaseValues
  BY ExecutionLeaseAssumption DEF Leases, LeaseValues, ExecutionInv, ExecutionTypes
<1>2. PICK table \in SUBSET LeaseValues :
        /\ active' = [active EXCEPT ![s] = table]
        /\ table = IF \E c \in active[s] : c.epoch = l.epoch THEN active[s] ELSE {l}
  BY Zenon, <1>1 DEF accept_execution_lease, Store, ExecutionInv, ExecutionTypes
<1>3. /\ accepted' = [accepted EXCEPT ![s] = accepted[s] \cup {l}]
      /\ time' = time
  BY Zenon DEF accept_execution_lease
<1>4. ExecutionTypes'
  BY Zenon, <1>1, <1>2, <1>3 DEF ExecutionInv, ExecutionTypes
<1>5. \A t \in LeasedSanads : t # s => active'[t] = active[t] /\ accepted'[t] = accepted[t]
  BY Zenon, <1>2, <1>3 DEF ExecutionInv, ExecutionTypes
<1>6. active'[s] = table /\ accepted'[s] = accepted[s] \cup {l}
  BY Zenon, <1>2, <1>3 DEF ExecutionInv, ExecutionTypes
<1>7. \A c \in active[s] :
        \/ l.epoch = c.epoch /\ l.owner = c.owner
        \/ l.epoch > c.epoch /\ (time < c.expires => l.owner = c.owner)
  BY Zenon DEF accept_execution_lease, Accepted, is_active
<1>8. /\ time \in Nat /\ l.epoch \in Nat
      /\ \A c \in accepted[s] : c.epoch \in Nat /\ c.expires \in Nat
      /\ \A c \in active[s] : c \in accepted[s]
  BY <1>1 DEF ExecutionInv, ExecutionTypes, TableIsLatest, LeaseValues
<1>9. /\ accepted[s] # {} => active[s] # {}
      /\ \A c \in active[s], k \in accepted[s] :
            k.epoch <= c.epoch /\ (k.epoch = c.epoch => k.owner = c.owner)
  BY Zenon DEF ExecutionInv, TableIsLatest
<1>10. TableIsLatest'
  <2> SUFFICES ASSUME NEW t \in LeasedSanads
               PROVE  /\ active'[t] \subseteq accepted'[t]
                      /\ accepted'[t] # {} => active'[t] # {}
                      /\ \A c \in active'[t], k \in accepted'[t] :
                            k.epoch <= c.epoch /\ (k.epoch = c.epoch => k.owner = c.owner)
    BY Zenon DEF TableIsLatest
  <2>1. CASE t # s
    BY <2>1, <1>5 DEF ExecutionInv, TableIsLatest
  <2>2. CASE t = s
    BY <2>2, <1>2, <1>6, <1>7, <1>8, <1>9
  <2> QED
    BY Zenon, <2>1, <2>2
<1>11. OwnerLapsed'
  <2> SUFFICES ASSUME NEW t \in LeasedSanads, NEW k \in accepted'[t], NEW m \in accepted'[t],
                      k.epoch < m.epoch, k.owner # m.owner
               PROVE  \E j \in accepted'[t] :
                        j.owner = k.owner /\ j.epoch >= k.epoch /\ j.expires <= time
    BY Zenon, <1>3 DEF OwnerLapsed
  <2>1. CASE t # s
    BY Zenon, <2>1, <1>5 DEF ExecutionInv, OwnerLapsed
  <2>2. CASE t = s /\ k \in accepted[s] /\ m \in accepted[s]
    BY Zenon, <2>2, <1>6 DEF ExecutionInv, OwnerLapsed
  <2>3. CASE t = s /\ k = l /\ m \in accepted[s]
    <3>1. PICK c \in active[s] : TRUE
      BY Zenon, <2>3, <1>9
    <3> QED
      BY <3>1, <2>3, <1>7, <1>8, <1>9
  <2>4. CASE t = s /\ k \in accepted[s] /\ m = l
    <3>1. PICK c \in active[s] : TRUE
      BY Zenon, <2>4, <1>9
    <3>2. c \in accepted[s] /\ c \in accepted'[t]
      BY Zenon, <3>1, <2>4, <1>6, <1>8
    <3>3. CASE k.owner # c.owner
      <4>1. k.epoch < c.epoch
        BY <3>1, <3>3, <2>4, <1>8, <1>9
      <4>2. PICK j \in accepted[s] : j.owner = k.owner /\ j.epoch >= k.epoch /\ j.expires <= time
        BY Zenon, <4>1, <3>2, <3>3, <2>4 DEF ExecutionInv, OwnerLapsed
      <4> QED
        BY Zenon, <4>2, <2>4, <1>6
    <3>4. CASE k.owner = c.owner
      <4>1. c.expires <= time /\ c.epoch >= k.epoch
        BY <3>1, <3>2, <3>4, <2>4, <1>7, <1>8, <1>9
      <4> QED
        BY Zenon, <4>1, <3>2, <3>4
    <3> QED
      BY Zenon, <3>3, <3>4
  <2>5. CASE t = s /\ k = l /\ m = l
    BY Zenon, <2>5, <1>8
  <2> QED
    BY Zenon, <2>1, <2>2, <2>3, <2>4, <2>5, <1>6
<1> QED
  BY Zenon, <1>4, <1>10, <1>11 DEF ExecutionInv

(* A restart forgets the table, and time only passes.                      *)
LEMMA ExecutionNextKeeps == ExecutionInv /\ [ExecutionNext]_executionVars => ExecutionInv'
<1> SUFFICES ASSUME ExecutionInv, [ExecutionNext]_executionVars
             PROVE  ExecutionInv'
  OBVIOUS
<1>1. ASSUME NEW s \in LeasedSanads, NEW l \in Leases, accept_execution_lease(s, l)
      PROVE  ExecutionInv'
  BY Zenon, <1>1, AcceptKeeps
<1>2. CASE coordinator_restarts
  BY Zenon, <1>2 DEF coordinator_restarts, ExecutionInv, ExecutionTypes, TableIsLatest, OwnerLapsed
<1>3. CASE time_passes
  <2>1. /\ time \in Nat /\ time' = time + 1
        /\ active' = active /\ accepted' = accepted
    BY Zenon, <1>3 DEF time_passes, ExecutionInv, ExecutionTypes
  <2>2. ExecutionTypes' /\ TableIsLatest'
    BY <2>1 DEF ExecutionInv, ExecutionTypes, TableIsLatest
  <2>3. \A s \in LeasedSanads : \A j \in accepted[s] : j.expires \in Nat
    BY DEF ExecutionInv, ExecutionTypes, LeaseValues
  <2>4. \A s \in LeasedSanads : \A j \in accepted[s] : j.expires <= time => j.expires <= time'
    BY <2>1, <2>3
  <2>5. OwnerLapsed'
    BY Zenon, <2>1, <2>4 DEF ExecutionInv, OwnerLapsed
  <2> QED
    BY Zenon, <2>2, <2>5 DEF ExecutionInv
<1>4. CASE UNCHANGED executionVars
  BY <1>4 DEF executionVars, ExecutionInv, ExecutionTypes, TableIsLatest, OwnerLapsed
<1> QED
  BY Zenon, <1>1, <1>2, <1>3, <1>4 DEF ExecutionNext

(* For any number of runtimes and sanads, any duration and any bound on    *)
(* epochs and time: a runtime that loses a transfer to another while its   *)
(* own lease is valid has itself brought one that expired earlier.         *)
THEOREM OwnersAgree == ExecutionSpec => []LiveOwnersAgree
<1>1. ExecutionInit => ExecutionInv
  BY DEF ExecutionInit, ExecutionInv, ExecutionTypes, TableIsLatest, OwnerLapsed
<1>2. ExecutionInv => LiveOwnersAgree
  <2> SUFFICES ASSUME ExecutionInv, NEW s \in LeasedSanads,
                      NEW k \in accepted[s], NEW l \in accepted[s],
                      time < k.expires, k.owner # l.owner, k.epoch < l.epoch
               PROVE  \E j \in accepted[s] :
                        j.owner = k.owner /\ j.epoch >= k.epoch /\ j.expires < k.expires
    BY Zenon DEF LiveOwnersAgree, is_active
  <2>1. PICK j \in accepted[s] : j.owner = k.owner /\ j.epoch >= k.epoch /\ j.expires <= time
    BY Zenon DEF ExecutionInv, OwnerLapsed
  <2>2. j.expires \in Nat /\ k.expires \in Nat /\ time \in Nat
    BY DEF ExecutionInv, ExecutionTypes, LeaseValues
  <2> QED
    BY <2>1, <2>2
<1> QED
  BY <1>1, <1>2, ExecutionNextKeeps, PTL DEF ExecutionSpec

-----------------------------------------------------------------------------
(* The seal registry.                                                      *)

SealTasks ==
    [op : {"none", "enforce", "publish"}, seal : SealRefs \cup {"none"},
     at : {"idle", "chain", "mark", "send", "answered"}, stale : BOOLEAN,
     answer : {"none", "ok", "replay", "network_error", "refused", "publish_failed"}]

(* What a call's position says of it: a call that goes on has a seal, and  *)
(* one whose seal was spent before it began is an enforce_seal that has    *)
(* not passed the chain's answer, unless the chain is asked for something  *)
(* else.                                                                   *)
SealTaskOK(e) ==
    /\ task[e].at \in {"chain", "mark", "send"} => task[e].seal \in SealRefs
    /\ task[e].stale =>
          /\ task[e].op = "enforce" /\ Object(task[e].seal) \in spent
          /\ platform # "aptos" => task[e].at # "mark" /\ task[e].answer # "ok"

SealInv ==
    /\ platform \in Platforms
    /\ task \in [Enforcers -> SealTasks]
    /\ grants \in [SealRefs -> Nat]
    /\ \A e \in Enforcers : SealTaskOK(e)
    /\ platform # "solana" =>
          \A s \in SealRefs : grants[s] <= 1 /\ (grants[s] = 1 => is_seal_used(s))

(* The registry of every adapter but Solana's marks a seal once.           *)
LEMMA MarksOnce ==
    ASSUME platform \in Platforms, NEW s \in SealRefs
    PROVE  /\ mark_seal_used(s).ok => seal_key(s) \in mark_seal_used(s).used
           /\ mark_seal_used(s).ok /\ platform # "solana" => ~is_seal_used(s)
           /\ used \subseteq mark_seal_used(s).used
BY Zenon DEF mark_seal_used, bitcoin_mark, ethereum_mark, solana_mark, sui_mark, aptos_mark, Platforms

(* The chain's answer stops a call whose seal it knows to be spent.        *)
LEMMA SpentIsSeen ==
    ASSUME platform \in Platforms \ {"aptos"}, NEW s \in SealRefs, unspent_on_chain(s)
    PROVE  Object(s) \notin spent
BY Zenon DEF unspent_on_chain, bitcoin_enforce, ethereum_enforce, solana_enforce, sui_enforce,
       sui_available, Platforms

(* Nothing is registered and no call is made.                              *)
LEMMA SealInvInit == SealInit => SealInv
BY DEF SealInit, SealInv, SealTaskOK, SealTasks, NoTask

(* A step of one call, which becomes r.                                    *)
LEMMA TaskMoves ==
    ASSUME SealInv, NEW e \in Enforcers, NEW r \in SealTasks,
           task' = [task EXCEPT ![e] = r], UNCHANGED platform, spent \subseteq spent',
           r.at \in {"chain", "mark", "send"} => r.seal \in SealRefs,
           r.stale => /\ r.op = "enforce" /\ Object(r.seal) \in spent
                      /\ platform # "aptos" => r.at # "mark" /\ r.answer # "ok"
    PROVE  task' \in [Enforcers -> SealTasks] /\ \A f \in Enforcers : SealTaskOK(f)'
<1>1. task' \in [Enforcers -> SealTasks]
  BY Zenon DEF SealInv
<1>2. ASSUME NEW f \in Enforcers PROVE SealTaskOK(f)'
  <2>1. CASE f = e
    BY Zenon, <2>1 DEF SealInv, SealTaskOK, Object
  <2>2. CASE f # e
    <3>1. task'[f] = task[f] /\ SealTaskOK(f)
      BY Zenon, <2>2 DEF SealInv
    <3> QED
      BY Zenon, <3>1 DEF SealTaskOK, Object
  <2> QED
    BY Zenon, <2>1, <2>2
<1> QED
  BY Zenon, <1>1, <1>2

(* A call that goes on, or answers.                                        *)
LEMMA TaskGoesOn ==
    ASSUME SealInv, NEW e \in Enforcers, UNCHANGED platform, spent \subseteq spent',
           \/ SealStep(e, "mark") /\ task[e].seal \in SealRefs
           \/ \E a \in {"ok", "replay", "network_error", "publish_failed"} : SealAnswer(e, a),
           task[e].stale /\ platform # "aptos" => task'[e].at # "mark" /\ task'[e].answer # "ok"
    PROVE  task' \in [Enforcers -> SealTasks] /\ \A f \in Enforcers : SealTaskOK(f)'
<1>1. task[e] \in SealTasks /\ SealTaskOK(e) /\ DOMAIN task = Enforcers
  BY DEF SealInv
<1>2. CASE SealStep(e, "mark") /\ task[e].seal \in SealRefs
  <2> DEFINE r == [task[e] EXCEPT !.at = "mark"]
  <2>1. /\ r \in SealTasks /\ r.at = "mark" /\ r.answer = task[e].answer
        /\ r.seal = task[e].seal /\ r.stale = task[e].stale /\ r.op = task[e].op
    BY <1>1 DEF SealTasks
  <2>2. task' = [task EXCEPT ![e] = r]
    BY Zenon, <1>2 DEF SealStep
  <2> HIDE DEF r
  <2>3. task'[e] = r
    BY <1>1, <2>2
  <2> QED
    BY Zenon, <1>1, <1>2, <2>1, <2>2, <2>3, TaskMoves DEF SealTaskOK
<1>3. CASE \E a \in {"ok", "replay", "network_error", "publish_failed"} : SealAnswer(e, a)
  <2>0. PICK a \in {"ok", "replay", "network_error", "publish_failed"} : SealAnswer(e, a)
    BY <1>3
  <2> DEFINE r == [task[e] EXCEPT !.at = "answered", !.answer = a]
  <2>1. /\ r \in SealTasks /\ r.at = "answered" /\ r.answer = a
        /\ r.seal = task[e].seal /\ r.stale = task[e].stale /\ r.op = task[e].op
    BY Zenon, <1>1 DEF SealTasks
  <2>2. task' = [task EXCEPT ![e] = r]
    BY Zenon, <2>0 DEF SealAnswer
  <2> HIDE DEF r
  <2>3. task'[e] = r
    BY Zenon, <1>1, <2>2
  <2> QED
    BY Zenon, <1>1, <2>1, <2>2, <2>3, TaskMoves DEF SealTaskOK
<1> QED
  BY Zenon, <1>2, <1>3

(* Every step of every call, the clearings and losses of the registry, and *)
(* the chain.                                                              *)
LEMMA SealInvNext == SealInv /\ [SealNext]_sealVars => SealInv'
<1> SUFFICES ASSUME SealInv, [SealNext]_sealVars PROVE SealInv'
  OBVIOUS
<1> USE DEF SealInv
<1>1. ASSUME NEW e \in Enforcers, NEW s \in SealRefs, enforce_seal(e, s) PROVE SealInv'
  <2> DEFINE r == [op |-> "enforce", seal |-> s, stale |-> Object(s) \in spent,
                   at |-> IF is_seal_used(s) THEN "answered" ELSE "chain",
                   answer |-> IF is_seal_used(s) THEN "replay" ELSE "none"]
  <2>1. r \in SealTasks
    BY DEF SealTasks
  <2>2. task' \in [Enforcers -> SealTasks] /\ \A f \in Enforcers : SealTaskOK(f)'
    BY Zenon, <1>1, <2>1, TaskMoves DEF enforce_seal
  <2> QED
    BY Zenon, <1>1, <2>2 DEF enforce_seal, is_seal_used, seal_key
<1>2. ASSUME NEW e \in Enforcers, NEW s \in SealRefs, publish(e, s) PROVE SealInv'
  <2> DEFINE r == [op |-> "publish", seal |-> s, stale |-> FALSE,
                   at |-> IF SealAvailable(s) THEN "send" ELSE "answered",
                   answer |-> IF SealAvailable(s) THEN "none" ELSE "refused"]
  <2>1. r \in SealTasks
    BY DEF SealTasks
  <2>2. task' \in [Enforcers -> SealTasks] /\ \A f \in Enforcers : SealTaskOK(f)'
    BY Zenon, <1>2, <2>1, TaskMoves DEF publish
  <2> QED
    BY Zenon, <1>2, <2>2 DEF publish, is_seal_used, seal_key
<1>3. ASSUME NEW e \in Enforcers, enforce_on_chain(e) PROVE SealInv'
  <2>1. task[e].seal \in SealRefs /\ task[e] \in SealTasks /\ DOMAIN task = Enforcers
    BY Zenon, <1>3 DEF enforce_on_chain, SealTaskOK
  <2>2. \/ SealStep(e, "mark") /\ unspent_on_chain(task[e].seal)
        \/ SealAnswer(e, "network_error") \/ SealAnswer(e, "replay")
    BY Zenon, <1>3 DEF enforce_on_chain
  <2>3. task[e].stale /\ platform # "aptos" => task'[e].at # "mark" /\ task'[e].answer # "ok"
    BY <2>1, <2>2, SpentIsSeen DEF SealTaskOK, SealAnswer, SealStep, SealTasks
  <2>4. task' \in [Enforcers -> SealTasks] /\ \A f \in Enforcers : SealTaskOK(f)'
    BY Zenon, <1>3, <2>1, <2>2, <2>3, TaskGoesOn DEF enforce_on_chain
  <2> QED
    BY Zenon, <1>3, <2>4 DEF enforce_on_chain, is_seal_used, seal_key
<1>4. ASSUME NEW e \in Enforcers, enforce_mark(e) PROVE SealInv'
  <2> DEFINE s == task[e].seal
  <2>1. s \in SealRefs
    BY Zenon, <1>4 DEF enforce_mark, SealTaskOK
  <2>2. task' \in [Enforcers -> SealTasks] /\ \A f \in Enforcers : SealTaskOK(f)'
    <3>1. task[e].stale /\ platform # "aptos" => FALSE
      BY Zenon, <1>4 DEF enforce_mark, SealTaskOK
    <3>2. SealAnswer(e, "ok") \/ SealAnswer(e, "replay")
      BY Zenon, <1>4 DEF enforce_mark
    <3> QED
      BY Zenon, <1>4, <3>1, <3>2, TaskGoesOn DEF enforce_mark
  <2>3. ASSUME NEW x \in SealRefs, platform # "solana"
        PROVE  grants'[x] <= 1 /\ (grants'[x] = 1 => is_seal_used(x)')
    BY <1>4, <2>1, <2>3, MarksOnce DEF enforce_mark, is_seal_used, seal_key
  <2>4. grants' \in [SealRefs -> Nat]
    BY <1>4, <2>1 DEF enforce_mark
  <2> QED
    BY Zenon, <1>4, <2>2, <2>3, <2>4 DEF enforce_mark
<1>5. ASSUME NEW e \in Enforcers, publish_send(e) PROVE SealInv'
  <2>1. task' \in [Enforcers -> SealTasks] /\ \A f \in Enforcers : SealTaskOK(f)'
    <3>1. ~task[e].stale /\ task[e].seal \in SealRefs
      BY Zenon, <1>5 DEF publish_send, SealTaskOK
    <3>2. SealStep(e, "mark") \/ SealAnswer(e, "ok") \/ SealAnswer(e, "publish_failed")
      BY Zenon, <1>5 DEF publish_send
    <3>3. UNCHANGED platform /\ spent \subseteq spent'
      BY Zenon, <1>5 DEF publish_send
    <3> QED
      BY Zenon, <3>1, <3>2, <3>3, TaskGoesOn
  <2>2. platform # "solana" => used' = used
    BY Zenon, <1>5 DEF publish_send
  <2> QED
    BY Zenon, <1>5, <2>1, <2>2 DEF publish_send, is_seal_used, seal_key
<1>6. ASSUME NEW e \in Enforcers, publish_mark(e) PROVE SealInv'
  <2>1. task[e].seal \in SealRefs
    BY Zenon, <1>6 DEF publish_mark, SealTaskOK
  <2>2. task' \in [Enforcers -> SealTasks] /\ \A f \in Enforcers : SealTaskOK(f)'
    <3>1. ~task[e].stale
      BY Zenon, <1>6 DEF publish_mark, SealTaskOK
    <3>2. SealAnswer(e, "ok") \/ SealAnswer(e, "replay")
      BY Zenon, <1>6 DEF publish_mark
    <3> QED
      BY Zenon, <1>6, <3>1, <3>2, TaskGoesOn DEF publish_mark
  <2> QED
    BY Zenon, <1>6, <2>1, <2>2, MarksOnce DEF publish_mark, is_seal_used, seal_key
<1>7. ASSUME NEW e \in Enforcers, SealReturn(e) PROVE SealInv'
  <2>1. NoTask \in SealTasks /\ ~NoTask.stale /\ NoTask.at = "idle"
    BY DEF NoTask, SealTasks
  <2>2. task' \in [Enforcers -> SealTasks] /\ \A f \in Enforcers : SealTaskOK(f)'
    BY Zenon, <1>7, <2>1, TaskMoves DEF SealReturn
  <2> QED
    BY Zenon, <1>7, <2>2 DEF SealReturn, is_seal_used, seal_key
<1>8. ASSUME NEW s \in SealRefs, rollback(s) PROVE SealInv'
  BY <1>8 DEF rollback, SealTaskOK, Object, is_seal_used, seal_key
<1>9. ASSUME NEW s \in SealRefs, Spend(s) PROVE SealInv'
  BY Zenon, <1>9 DEF Spend, SealTaskOK, Object, is_seal_used, seal_key
<1>10. ASSUME ProcessRestarts PROVE SealInv'
  BY <1>10 DEF ProcessRestarts, SealTaskOK, Object, SealTasks, NoTask
<1>11. ASSUME UNCHANGED sealVars PROVE SealInv'
  BY <1>11 DEF sealVars, SealTaskOK, Object, is_seal_used, seal_key
<1> QED
  BY Zenon, <1>1, <1>2, <1>3, <1>4, <1>5, <1>6, <1>7, <1>8, <1>9, <1>10, <1>11 DEF SealNext

(* For any number of seals and concurrent calls and any size of the        *)
(* registry: enforce_seal grants a seal once between two losses of the     *)
(* registry (not on Solana), and never a seal that the chain had consumed  *)
(* before the call began (not on Aptos).                                   *)
THEOREM SealsAreEnforcedOnce == SealSpec => []EnforcedOnce
<1>1. SealInv => EnforcedOnce
  BY DEF SealInv, SealTaskOK, EnforcedOnce
<1> QED
  BY <1>1, SealInvInit, SealInvNext, PTL DEF SealSpec

-----------------------------------------------------------------------------
(* The commitments of a batch.                                             *)

NoRepeat(s) == \A i, j \in DOMAIN s : s[i] = s[j] => i = j

Held(f) == Members(finalizer[f].batch)

(* The inductive invariant of the batcher: a request that waits is in the  *)
(* queue or in one batch, and nothing else is; ...                         *)
Shaped ==
    /\ pending \in Seq(Requests) /\ NoRepeat(pending)
    /\ finalizer \in [Finalizers -> [at : {"idle", "built", "proved"}, batch : Seq(Requests)]]
    /\ \A f \in Finalizers :
        Len(finalizer[f].batch) <= batch_size /\ NoRepeat(finalizer[f].batch)

Apart ==
    /\ waiting \subseteq queued
    /\ \A r : r \in waiting <=> r \in Members(pending) \/ \E f \in Finalizers : r \in Held(f)
    /\ \A f \in Finalizers : \A r \in Held(f) :
        r \notin Members(pending) /\ \A g \in Finalizers : r \in Held(g) => g = f

(* ... what is proved has its root published, and every proof handed out   *)
(* shows its request.                                                      *)
Proved ==
    /\ \A f \in Finalizers :
        finalizer[f].at = "proved" => TreeRoot(Commitments(finalizer[f].batch)) \in roots
    /\ unproved = FALSE
    /\ \A r \in DOMAIN receipts :
        /\ receipts[r].root \in roots
        /\ \A s \in Requests :
            TreeVerify(receipts[r].branch, Commitment[s], receipts[r].root)
                <=> Commitment[s] = Commitment[r]

(* A request put at the end of a queue that does not hold it.              *)
LEMMA AppendedOnce ==
    ASSUME NEW s \in Seq(Requests), NoRepeat(s), NEW r \in Requests, r \notin Members(s)
    PROVE  /\ Append(s, r) \in Seq(Requests) /\ NoRepeat(Append(s, r))
           /\ Members(Append(s, r)) = Members(s) \cup {r}
<1> DEFINE t == Append(s, r)
<1>1. /\ t \in Seq(Requests) /\ DOMAIN t = 1 .. Len(s) + 1 /\ DOMAIN s = 1 .. Len(s)
      /\ Len(s) \in Nat /\ t[Len(s) + 1] = r
      /\ \A i \in 1 .. Len(s) : t[i] = s[i] /\ s[i] \in Members(s)
  BY DEF Members
<1> HIDE DEF t
<1>2. NoRepeat(t)
  <2> SUFFICES ASSUME NEW i \in DOMAIN t, NEW j \in DOMAIN t, t[i] = t[j] PROVE i = j
    BY Zenon DEF NoRepeat
  <2>1. CASE i \in 1 .. Len(s) /\ j \in 1 .. Len(s)
    BY Zenon, <1>1, <2>1 DEF NoRepeat
  <2>2. CASE i = Len(s) + 1 /\ j = Len(s) + 1
    BY Zenon, <2>2
  <2>3. CASE (i = Len(s) + 1) # (j = Len(s) + 1)
    BY <1>1, <2>3
  <2> QED
    BY <1>1, <2>1, <2>2, <2>3
<1>3. Members(t) = Members(s) \cup {r}
  <2>1. ASSUME NEW x \in Members(t) PROVE x \in Members(s) \cup {r}
    <3>1. PICK i \in DOMAIN t : x = t[i]
      BY Zenon DEF Members
    <3> QED
      BY <1>1, <3>1
  <2>2. ASSUME NEW x \in Members(s) PROVE x \in Members(t)
    <3>1. PICK i \in DOMAIN s : x = s[i]
      BY Zenon DEF Members
    <3> QED
      BY <1>1, <3>1 DEF Members
  <2>3. r \in Members(t)
    BY <1>1 DEF Members
  <2> QED
    BY Zenon, <2>1, <2>2, <2>3
<1> QED
  BY Zenon, <1>1, <1>2, <1>3 DEF t

(* A queue without repeats cut in two: each request is in one part.        *)
LEMMA CutInTwo ==
    ASSUME NEW s \in Seq(Requests), NoRepeat(s), NEW n \in 0 .. Len(s)
    PROVE  LET a == SubSeq(s, 1, n)
               b == SubSeq(s, n + 1, Len(s))
           IN  /\ a \in Seq(Requests) /\ NoRepeat(a) /\ Len(a) = n
               /\ b \in Seq(Requests) /\ NoRepeat(b)
               /\ Members(a) \cap Members(b) = {}
               /\ Members(a) \cup Members(b) = Members(s)
<1> DEFINE a == SubSeq(s, 1, n)
           b == SubSeq(s, n + 1, Len(s))
<1>1. /\ a \in Seq(Requests) /\ Len(a) = n /\ DOMAIN a = 1 .. n
      /\ \A i \in 1 .. n : a[i] = s[i]
  OBVIOUS
<1>2. /\ b \in Seq(Requests) /\ DOMAIN b = 1 .. Len(s) - n
      /\ \A i \in 1 .. Len(s) - n : b[i] = s[n + i]
  OBVIOUS
<1> HIDE DEF a, b
<1>3. \A i, j \in 1 .. Len(s) : s[i] = s[j] => i = j
  BY DEF NoRepeat
<1>4. n \in Nat /\ Len(s) \in Nat /\ n <= Len(s) /\ DOMAIN s = 1 .. Len(s)
  OBVIOUS
<1>5. NoRepeat(a)
  BY <1>1, <1>3, <1>4 DEF NoRepeat
<1>6. NoRepeat(b)
  <2> SUFFICES ASSUME NEW i \in DOMAIN b, NEW j \in DOMAIN b, b[i] = b[j] PROVE i = j
    BY Zenon DEF NoRepeat
  <2>1. i \in 1 .. Len(s) - n /\ j \in 1 .. Len(s) - n /\ s[n + i] = s[n + j]
    BY Zenon, <1>2
  <2>2. n + i \in 1 .. Len(s) /\ n + j \in 1 .. Len(s)
    BY <1>4, <2>1
  <2>3. n + i = n + j
    BY Zenon, <1>3, <2>1, <2>2
  <2> QED
    BY <1>4, <2>1, <2>3
<1>7. Members(a) \cap Members(b) = {}
  <2> SUFFICES ASSUME NEW x \in Members(a), x \in Members(b) PROVE FALSE
    BY Zenon
  <2>1. PICK i \in 1 .. n : x = s[i]
    BY Zenon, <1>1 DEF Members
  <2>2. PICK j \in 1 .. Len(s) - n : x = s[n + j]
    BY Zenon, <1>2 DEF Members
  <2>3. i \in 1 .. Len(s) /\ n + j \in 1 .. Len(s) /\ i # n + j
    BY <1>4
  <2> QED
    BY Zenon, <1>3, <2>1, <2>2, <2>3
<1>8. Members(a) \cup Members(b) = Members(s)
  <2>1. ASSUME NEW x \in Members(a) PROVE x \in Members(s)
    BY <1>1, <1>4 DEF Members
  <2>2. ASSUME NEW x \in Members(b) PROVE x \in Members(s)
    <3>1. PICK j \in 1 .. Len(s) - n : x = s[n + j]
      BY Zenon, <1>2 DEF Members
    <3>2. n + j \in DOMAIN s
      BY <1>4
    <3> QED
      BY Zenon, <3>1, <3>2 DEF Members
  <2>3. ASSUME NEW x \in Members(s) PROVE x \in Members(a) \cup Members(b)
    <3>1. PICK i \in 1 .. Len(s) : x = s[i]
      BY Zenon, <1>4 DEF Members
    <3>2. CASE i <= n
      BY <1>1, <1>4, <3>1, <3>2 DEF Members
    <3>3. CASE n < i
      <4>1. i - n \in 1 .. Len(s) - n /\ n + (i - n) = i
        BY <1>4, <3>3
      <4>2. x = b[i - n] /\ i - n \in DOMAIN b
        BY Zenon, <1>2, <3>1, <4>1
      <4> QED
        BY Zenon, <4>2 DEF Members
    <3> QED
      BY <1>4, <3>2, <3>3
  <2> QED
    BY Zenon, <2>1, <2>2, <2>3
<1> QED
  BY Zenon, <1>1, <1>2, <1>5, <1>6, <1>7, <1>8 DEF a, b

(* What the tree promises of the proofs of a batch.                        *)
LEMMA ProofsOfABatch ==
    ASSUME NEW batch \in Seq(Requests), Len(batch) <= batch_size, NEW i \in DOMAIN batch,
           NEW s \in Requests
    PROVE  TreeVerify(ProofAt(batch, i).branch, Commitment[s], ProofAt(batch, i).root)
             <=> Commitment[s] = Commitment[batch[i]]
<1> DEFINE leaves == Commitments(batch)
<1>1. /\ Len(batch) \in 1 .. batch_size /\ DOMAIN batch = 1 .. Len(batch)
      /\ i \in 1 .. Len(batch)
  BY BatchAssumption
<1>2. leaves = [k \in 1 .. Len(batch) |-> Commitment[batch[k]]]
  BY Zenon, <1>1 DEF Commitments
<1>3. leaves \in [1 .. Len(batch) -> {Commitment[r] : r \in Requests}]
  BY <1>1, <1>2
<1>4. leaves[i] = Commitment[batch[i]]
  BY Zenon, <1>1, <1>2
<1>5. TreeVerify(TreeBranch(leaves, i - 1), Commitment[s], TreeRoot(leaves))
        <=> Commitment[s] = leaves[i]
  <2> HIDE DEF leaves
  <2> QED
    BY Zenon, <1>1, <1>3, CommitMuxAssumption
<1> QED
  BY Zenon, <1>4, <1>5 DEF ProofAt

(* A finalizer lets go of its batch: an error, or the answer.              *)
LEMMA LettingGo ==
    ASSUME Shaped, Apart, NEW f \in Finalizers,
           finalizer' = [finalizer EXCEPT ![f] = IdleFinalizer],
           waiting' = waiting \ Held(f), pending' = pending, queued' = queued
    PROVE  Shaped' /\ Apart'
<1>1. /\ finalizer'[f] = IdleFinalizer /\ IdleFinalizer.batch = <<>>
      /\ \A g \in Finalizers : g # f => finalizer'[g] = finalizer[g]
  BY Zenon DEF Shaped, IdleFinalizer
<1>2. Members(<<>>) = {} /\ NoRepeat(<<>>) /\ Len(<<>>) <= batch_size /\ <<>> \in Seq(Requests)
  BY BatchAssumption DEF Members, NoRepeat
<1>3. Shaped'
  <2>1. finalizer' \in [Finalizers -> [at : {"idle", "built", "proved"}, batch : Seq(Requests)]]
    BY Zenon, <1>2 DEF Shaped, IdleFinalizer
  <2>2. \A g \in Finalizers : Len(finalizer'[g].batch) <= batch_size /\ NoRepeat(finalizer'[g].batch)
    BY Zenon, <1>1, <1>2 DEF Shaped
  <2> QED
    BY Zenon, <2>1, <2>2 DEF Shaped, NoRepeat
<1>4. \A r : \A g \in Finalizers : r \in Held(g)' <=> r \in Held(g) /\ g # f
  BY Zenon, <1>1, <1>2 DEF Held
<1>5. Members(pending)' = Members(pending)
  BY Zenon DEF Members
<1> QED
  BY Zenon, <1>3, <1>4, <1>5 DEF Apart

(* Every step keeps the requests in their places.                          *)
LEMMA PlacedStep == Shaped /\ Apart /\ [BatchNext]_batchVars => Shaped' /\ Apart'
<1> SUFFICES ASSUME Shaped, Apart, [BatchNext]_batchVars PROVE Shaped' /\ Apart'
  BY Zenon
<1>1. ASSUME NEW r \in Requests, queue_commitment(r) PROVE Shaped' /\ Apart'
  <2>1. /\ pending' = Append(pending, r) /\ finalizer' = finalizer
        /\ queued' = queued \cup {r} /\ waiting' = waiting \cup {r} /\ r \notin queued
    BY Zenon, <1>1 DEF queue_commitment
  <2>2. r \notin Members(pending) /\ \A f \in Finalizers : r \notin Held(f)
    BY Zenon, <2>1 DEF Apart
  <2>3. /\ pending' \in Seq(Requests) /\ NoRepeat(pending)'
        /\ Members(pending)' = Members(pending) \cup {r}
    BY <2>1, <2>2, AppendedOnce DEF Shaped, NoRepeat, Members
  <2>4. \A x : \A f \in Finalizers : x \in Held(f)' <=> x \in Held(f)
    BY Zenon, <2>1 DEF Held
  <2>5. Shaped'
    BY Zenon, <2>1, <2>3 DEF Shaped, NoRepeat
  <2>6. \A x : x \in Members(pending)' <=> x \in Members(pending) \/ x = r
    BY Zenon, <2>3
  <2>7. \A x : x \in waiting' <=> x \in waiting \/ x = r
    BY Zenon, <2>1
  <2>8. waiting' \subseteq queued'
    BY Zenon, <2>1 DEF Apart
  <2>9. \A x : x \in waiting' <=> x \in Members(pending)' \/ \E f \in Finalizers : x \in Held(f)'
    BY Zenon, <2>4, <2>6, <2>7 DEF Apart
  <2>10. ASSUME NEW f \in Finalizers, NEW x \in Held(f)'
         PROVE  x \notin Members(pending)' /\ \A g \in Finalizers : x \in Held(g)' => g = f
    <3>1. x \in Held(f) /\ x # r
      BY Zenon, <2>2, <2>4
    <3> QED
      BY Zenon, <2>4, <2>6, <3>1 DEF Apart
  <2> QED
    BY Zenon, <2>5, <2>8, <2>9, <2>10 DEF Apart
<1>2. ASSUME NEW f \in Finalizers, build_mpc_tree(f) PROVE Shaped' /\ Apart'
  <2> DEFINE n == IF batch_size < Len(pending) THEN batch_size ELSE Len(pending)
             a == SubSeq(pending, 1, n)
             b == SubSeq(pending, n + 1, Len(pending))
  <2>1. /\ finalizer' = [finalizer EXCEPT ![f] = [at |-> "built", batch |-> a]]
        /\ pending' = b /\ queued' = queued /\ waiting' = waiting /\ finalizer[f] = IdleFinalizer
    BY Zenon, <1>2 DEF build_mpc_tree
  <2>2. n \in 0 .. Len(pending) /\ n <= batch_size
    BY BatchAssumption DEF Shaped
  <2> HIDE DEF n
  <2>3. /\ a \in Seq(Requests) /\ NoRepeat(a) /\ Len(a) = n
        /\ b \in Seq(Requests) /\ NoRepeat(b)
        /\ Members(a) \cap Members(b) = {}
        /\ Members(a) \cup Members(b) = Members(pending)
    BY Zenon, <2>2, CutInTwo DEF Shaped
  <2> HIDE DEF a, b
  <2>4. /\ finalizer'[f].batch = a /\ finalizer[f].batch = <<>>
        /\ \A g \in Finalizers : g # f => finalizer'[g] = finalizer[g]
    BY <2>1 DEF Shaped, IdleFinalizer
  <2>5. Shaped'
    <3>1. finalizer' \in [Finalizers -> [at : {"idle", "built", "proved"}, batch : Seq(Requests)]]
      BY Zenon, <2>1, <2>3 DEF Shaped
    <3>2. \A g \in Finalizers : Len(finalizer'[g].batch) <= batch_size /\ NoRepeat(finalizer'[g].batch)
      BY Zenon, <2>2, <2>3, <2>4 DEF Shaped
    <3> QED
      BY Zenon, <2>1, <2>3, <3>1, <3>2 DEF Shaped, NoRepeat
  <2>6. \A r : /\ r \in Held(f)' <=> r \in Members(a)
               /\ r \notin Held(f)
               /\ \A g \in Finalizers : g # f => (r \in Held(g)' <=> r \in Held(g))
    <3>1. Members(<<>>) = {}
      BY DEF Members
    <3> QED
      BY Zenon, <2>4, <3>1 DEF Held
  <2>7. \A r : /\ r \in Members(pending)' <=> r \in Members(b)
               /\ r \in Members(pending) <=> r \in Members(a) \/ r \in Members(b)
               /\ ~(r \in Members(a) /\ r \in Members(b))
    BY Zenon, <2>1, <2>3 DEF Members
  <2> QED
    BY Zenon, <2>1, <2>5, <2>6, <2>7 DEF Apart
<1>3. ASSUME NEW f \in Finalizers, Fails(f) PROVE Shaped' /\ Apart'
  BY Zenon, <1>3, LettingGo DEF Fails, Held
<1>4. ASSUME UNCHANGED <<pending, queued, waiting>>,
             finalizer' \in [Finalizers -> [at : {"idle", "built", "proved"}, batch : Seq(Requests)]],
             \A g \in Finalizers : finalizer'[g].batch = finalizer[g].batch
      PROVE  Shaped' /\ Apart'
  <2>1. Shaped'
    BY Zenon, <1>4 DEF Shaped, NoRepeat
  <2>2. pending' = pending /\ queued' = queued /\ waiting' = waiting
    BY Zenon, <1>4
  <2>3. \A x : x \in Members(pending)' <=> x \in Members(pending)
    BY Zenon, <2>2 DEF Members
  <2>4. \A x : \A g \in Finalizers : x \in Held(g)' <=> x \in Held(g)
    BY Zenon, <1>4 DEF Held
  <2> QED
    BY Zenon, <2>1, <2>2, <2>3, <2>4 DEF Apart
<1>5. ASSUME NEW f \in Finalizers, get_latest_block_height(f) PROVE Shaped' /\ Apart'
  BY Zenon, <1>3, <1>5, LettingGo DEF get_latest_block_height, Held
<1>6. ASSUME clear PROVE Shaped' /\ Apart'
  <2>1. /\ pending' = <<>> /\ waiting' = waiting \ Members(pending)
        /\ finalizer' = finalizer /\ queued' = queued
    BY Zenon, <1>6 DEF clear
  <2>2. pending' \in Seq(Requests) /\ NoRepeat(pending)' /\ Members(pending)' = {}
    BY <2>1 DEF NoRepeat, Members
  <2>3. \A x : \A g \in Finalizers : x \in Held(g)' <=> x \in Held(g)
    BY Zenon, <2>1 DEF Held
  <2>4. Shaped'
    BY Zenon, <2>1, <2>2 DEF Shaped, NoRepeat
  <2> QED
    BY Zenon, <2>1, <2>2, <2>3, <2>4 DEF Apart
<1>7. ASSUME NEW f \in Finalizers, broadcast_mpc_transaction(f) PROVE Shaped' /\ Apart'
  <2>1. CASE Fails(f)
    BY Zenon, <1>3, <2>1
  <2>2. CASE ~Fails(f)
    <3>1. /\ finalizer' = [finalizer EXCEPT ![f].at = "proved"]
          /\ UNCHANGED <<pending, queued, waiting>>
      BY Zenon, <1>7, <2>2 DEF broadcast_mpc_transaction
    <3> QED
      BY Zenon, <1>4, <3>1 DEF Shaped
  <2> QED
    BY Zenon, <2>1, <2>2
<1>8. CASE UNCHANGED batchVars
  BY Zenon, <1>4, <1>8 DEF batchVars, Shaped
<1> QED
  BY Zenon, <1>1, <1>2, <1>3, <1>5, <1>6, <1>7, <1>8 DEF BatchNext, publication_fails

(* Every step keeps the promise of the proofs handed out.                  *)
LEMMA ProvedStep == Shaped /\ Proved /\ [BatchNext]_batchVars => Proved'
<1> SUFFICES ASSUME Shaped, Proved, [BatchNext]_batchVars PROVE Proved'
  BY Zenon
<1>1. ASSUME roots \subseteq roots', unproved' = unproved, receipts' = receipts,
             \A f \in Finalizers : finalizer'[f] = finalizer[f] \/ finalizer'[f].at # "proved"
      PROVE  Proved'
  <2>1. \A f \in Finalizers :
          finalizer'[f].at = "proved" => TreeRoot(Commitments(finalizer'[f].batch)) \in roots'
    BY Zenon, <1>1 DEF Proved
  <2> QED
    BY Zenon, <1>1, <2>1 DEF Proved, Commitments
<1>2. ASSUME NEW f \in Finalizers, finalizer' = [finalizer EXCEPT ![f] = IdleFinalizer]
      PROVE  \A g \in Finalizers : finalizer'[g] = finalizer[g] \/ finalizer'[g].at # "proved"
  BY Zenon, <1>2 DEF Shaped, IdleFinalizer
<1>3. ASSUME NEW f \in Finalizers, build_mpc_tree(f) PROVE Proved'
  <2>1. \A g \in Finalizers : finalizer'[g] = finalizer[g] \/ finalizer'[g].at # "proved"
    BY Zenon, <1>3 DEF build_mpc_tree, Shaped
  <2> QED
    BY Zenon, <1>1, <1>3, <2>1 DEF build_mpc_tree
<1>4. ASSUME NEW f \in Finalizers, publication_fails(f) PROVE Proved'
  <2>1. roots \subseteq roots'
    BY Zenon, <1>4 DEF publication_fails
  <2> QED
    BY Zenon, <1>1, <1>2, <1>4, <2>1 DEF publication_fails, Fails
<1>5. ASSUME NEW f \in Finalizers, broadcast_mpc_transaction(f) PROVE Proved'
  <2> DEFINE batch == finalizer[f].batch
  <2>1. batch \in Seq(Requests) /\ Len(batch) <= batch_size
    BY Zenon DEF Shaped
  <2>2. generate_proofs(batch)
    <3> SUFFICES ASSUME NEW i \in DOMAIN batch
                 PROVE  TreeVerify(ProofAt(batch, i).branch, Commitment[batch[i]],
                                   ProofAt(batch, i).root)
      BY Zenon DEF generate_proofs
    <3> HIDE DEF batch
    <3>1. batch[i] \in Requests
      BY <2>1
    <3> QED
      BY Zenon, <2>1, <3>1, ProofsOfABatch
  <2>3. /\ roots' = roots \cup {TreeRoot(Commitments(batch))}
        /\ finalizer' = [finalizer EXCEPT ![f].at = "proved"]
        /\ unproved' = unproved /\ receipts' = receipts
    BY Zenon, <1>5, <2>2 DEF broadcast_mpc_transaction
  <2>4. ASSUME NEW g \in Finalizers, finalizer'[g].at = "proved"
        PROVE  TreeRoot(Commitments(finalizer'[g].batch)) \in roots'
    <3>1. CASE g = f
      <4>1. finalizer'[g].batch = batch
        BY Zenon, <2>3, <3>1 DEF Shaped
      <4> QED
        BY <2>3, <4>1
    <3>2. CASE g # f
      <4>1. finalizer'[g] = finalizer[g]
        BY Zenon, <2>3, <3>2 DEF Shaped
      <4> QED
        BY <2>3, <2>4, <4>1 DEF Proved
    <3> QED
      BY Zenon, <3>1, <3>2
  <2> QED
    BY Zenon, <2>3, <2>4 DEF Proved, Commitments
<1>6. ASSUME NEW f \in Finalizers, get_latest_block_height(f) PROVE Proved'
  <2> DEFINE batch == finalizer[f].batch
             place(r) == CHOOSE i \in DOMAIN batch : batch[i] = r
  <2>1. CASE Fails(f)
    BY Zenon, <1>1, <1>2, <1>6, <2>1 DEF get_latest_block_height, Fails
  <2>2. CASE ~Fails(f)
    <3>1. /\ receipts' = [r \in DOMAIN receipts \cup Members(batch) |->
                            IF r \in Members(batch) THEN ProofAt(batch, place(r)) ELSE receipts[r]]
          /\ finalizer' = [finalizer EXCEPT ![f] = IdleFinalizer]
          /\ roots' = roots /\ unproved' = unproved /\ finalizer[f].at = "proved"
      BY Zenon, <1>6, <2>2 DEF get_latest_block_height
    <3>2. \A g \in Finalizers : finalizer'[g] = finalizer[g] \/ finalizer'[g].at # "proved"
      BY Zenon, <1>2, <3>1
    <3>3. \A g \in Finalizers :
            finalizer'[g].at = "proved" => TreeRoot(Commitments(finalizer'[g].batch)) \in roots'
      BY <3>1, <3>2 DEF Proved
    <3>4. ASSUME NEW r \in DOMAIN receipts'
          PROVE  /\ receipts'[r].root \in roots'
                 /\ \A s \in Requests :
                     TreeVerify(receipts'[r].branch, Commitment[s], receipts'[r].root)
                         <=> Commitment[s] = Commitment[r]
      <4>1. CASE r \in Members(batch)
        <5>1. place(r) \in DOMAIN batch /\ batch[place(r)] = r
          BY Zenon, <4>1 DEF Members
        <5>2. receipts'[r] = ProofAt(batch, place(r))
          BY Zenon, <3>1, <4>1
        <5>3. batch \in Seq(Requests) /\ Len(batch) <= batch_size
          BY Zenon DEF Shaped
        <5>4. ProofAt(batch, place(r)).root = TreeRoot(Commitments(batch))
          BY Zenon DEF ProofAt
        <5>5. TreeRoot(Commitments(batch)) \in roots
          BY Zenon, <3>1 DEF Proved
        <5> HIDE DEF batch, place
        <5>6. \A s \in Requests :
                TreeVerify(ProofAt(batch, place(r)).branch, Commitment[s],
                           ProofAt(batch, place(r)).root) <=> Commitment[s] = Commitment[batch[place(r)]]
          BY Zenon, <5>1, <5>3, ProofsOfABatch
        <5> QED
          BY Zenon, <3>1, <5>1, <5>2, <5>4, <5>5, <5>6
      <4>2. CASE r \notin Members(batch)
        <5>1. r \in DOMAIN receipts /\ receipts'[r] = receipts[r]
          BY Zenon, <3>1, <4>2
        <5>2. /\ receipts[r].root \in roots
              /\ \A s \in Requests :
                  TreeVerify(receipts[r].branch, Commitment[s], receipts[r].root)
                      <=> Commitment[s] = Commitment[r]
          BY Zenon, <5>1 DEF Proved
        <5>3. roots' = roots
          BY Zenon, <3>1
        <5> QED
          BY Zenon, <5>1, <5>2, <5>3
      <4> QED
        BY Zenon, <4>1, <4>2
    <3> QED
      BY Zenon, <3>1, <3>3, <3>4 DEF Proved, Commitments
  <2> QED
    BY Zenon, <2>1, <2>2
<1>7. CASE \E r \in Requests : queue_commitment(r)
  BY Zenon, <1>1, <1>7 DEF queue_commitment
<1>8. CASE clear
  BY Zenon, <1>1, <1>8 DEF clear
<1>9. CASE UNCHANGED batchVars
  BY Zenon, <1>1, <1>9 DEF batchVars
<1> QED
  BY Zenon, <1>3, <1>4, <1>5, <1>6, <1>7, <1>8, <1>9 DEF BatchNext

(* The invariant gives the property: the one place of a request.           *)
LEMMA OnePlace == Shaped /\ Apart /\ Proved => BatchedOnceAndProved
<1> SUFFICES ASSUME Shaped, Apart, Proved PROVE BatchedOnceAndProved
  BY Zenon
<1>1. ASSUME NEW r \in Requests, r \notin waiting PROVE Places(r) = {}
  <2>1. \A i \in DOMAIN pending : pending[i] # r
    BY Zenon, <1>1 DEF Apart, Members
  <2>2. \A f \in Finalizers : \A i \in DOMAIN finalizer[f].batch : finalizer[f].batch[i] # r
    BY <1>1 DEF Apart, Held, Members
  <2> QED
    BY Zenon, <2>1, <2>2 DEF Places
<1>2. ASSUME NEW r \in Requests, r \in waiting PROVE \E p \in Places(r) : Places(r) = {p}
  <2>1. CASE r \in Members(pending)
    <3>1. PICK i \in DOMAIN pending : pending[i] = r
      BY Zenon, <2>1 DEF Members
    <3>2. \A j \in DOMAIN pending : pending[j] = r => j = i
      BY Zenon, <3>1 DEF Shaped, NoRepeat
    <3>3. \A f \in Finalizers : \A j \in DOMAIN finalizer[f].batch : finalizer[f].batch[j] # r
      BY Zenon, <2>1 DEF Apart, Held, Members
    <3>4. <<"queue", i>> \in Places(r)
      BY Zenon, <3>1 DEF Places
    <3>5. ASSUME NEW p \in Places(r) PROVE p = <<"queue", i>>
      BY Zenon, <3>2, <3>3 DEF Places
    <3> QED
      BY Zenon, <3>4, <3>5
  <2>2. CASE r \notin Members(pending)
    <3>1. PICK f \in Finalizers : r \in Held(f)
      BY Zenon, <1>2, <2>2 DEF Apart
    <3>2. PICK i \in DOMAIN finalizer[f].batch : finalizer[f].batch[i] = r
      BY Zenon, <3>1 DEF Held, Members
    <3>3. \A j \in DOMAIN pending : pending[j] # r
      BY Zenon, <2>2 DEF Members
    <3>4. \A j \in DOMAIN finalizer[f].batch : finalizer[f].batch[j] = r => j = i
      BY Zenon, <3>2 DEF Shaped, NoRepeat
    <3>5. \A g \in Finalizers : r \in Held(g) => g = f
      BY Zenon, <3>1 DEF Apart
    <3>6. \A g \in Finalizers : \A j \in DOMAIN finalizer[g].batch :
            finalizer[g].batch[j] = r => g = f
      BY Zenon, <3>5 DEF Held, Members
    <3>7. <<f, i>> \in Places(r)
      BY <3>2 DEF Places
    <3>8. ASSUME NEW p \in Places(r) PROVE p = <<f, i>>
      BY Zenon, <3>3, <3>4, <3>6 DEF Places
    <3> QED
      BY Zenon, <3>7, <3>8
  <2> QED
    BY Zenon, <2>1, <2>2
<1> QED
  BY Zenon, <1>1, <1>2 DEF BatchedOnceAndProved, Proved

(* A commitment queued with the batcher is in the queue or with one        *)
(* finalizer, once, until its request is answered, whoever calls           *)
(* finalize_batch at the same time and whatever the node refuses; and the  *)
(* proof that is the answer shows that commitment, and no other, under a   *)
(* published root, if the tree is as CommitMuxAssumption says.             *)
THEOREM RequestsAreBatchedOnce == BatchSpec => []BatchedOnceAndProved
<1>1. BatchInit => Shaped /\ Apart /\ Proved
  <2> SUFFICES ASSUME BatchInit PROVE Shaped /\ Apart /\ Proved
    BY Zenon
  <2>1. Members(<<>>) = {} /\ NoRepeat(<<>>) /\ Len(<<>>) <= batch_size /\ <<>> \in Seq(Requests)
    BY BatchAssumption DEF Members, NoRepeat
  <2>2. \A f \in Finalizers : finalizer[f].at = "idle" /\ finalizer[f].batch = <<>> /\ Held(f) = {}
    BY Zenon, <2>1 DEF BatchInit, IdleFinalizer, Held
  <2>3. finalizer \in [Finalizers -> [at : {"idle", "built", "proved"}, batch : Seq(Requests)]]
    BY Zenon, <2>1 DEF BatchInit, IdleFinalizer
  <2>4. Shaped
    BY Zenon, <2>1, <2>2, <2>3 DEF BatchInit, Shaped
  <2>6. Apart
    BY Zenon, <2>1, <2>2 DEF BatchInit, Apart
  <2>5. Proved
    BY <2>2 DEF BatchInit, Proved
  <2> QED
    BY Zenon, <2>4, <2>5, <2>6
<1> QED
  BY <1>1, PlacedStep, ProvedStep, OnePlace, PTL DEF BatchSpec
=============================================================================
