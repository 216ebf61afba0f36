---------------------------- MODULE ReplayProofs ----------------------------
(***************************************************************************)
(* Three parts that concurrent coordinators share or that follow a chain,  *)
(* each for every value of its constants. RedbReplayDb implements the      *)
(* ReplayDatabase contract: its two-transaction consume_if_unconsumed      *)
(* takes effect in its second transaction, or in its read when that        *)
(* answers. PostgresReplayDb does so but for the re-arming of a rolled-    *)
(* back entry. The handling of a reorganisation takes no transfer forward  *)
(* and reconciles none whose lock it did not see, and Solana's             *)
(* synchronisation passes over no slot.                                    *)
(***************************************************************************)
EXTENDS ReplayRedb, ReplayPostgres, ReorgRecovery, SlotSync, TLAPS

-----------------------------------------------------------------------------
(* RedbReplayDb.                                                           *)

RedbCalls ==
    {DB!Idle} \cup [at : {"called", "rearm", "insert", "done"}, op : DB!Ops, id : Ids,
                    res : DB!Results \cup {"none"}]

(* What the refinement needs: the tables agree, only consume_if_unconsumed *)
(* is ever between two transactions, and an entry it saw is still there.   *)
IInv ==
    /\ replay \in [Ids -> DB!States]
    /\ call \in [Clients -> RedbCalls]
    /\ ConflictKeysAreEntries
    /\ \A c \in Clients :
          call[c].at \in {"rearm", "insert"} => call[c].op = "consume_if_unconsumed"

(* A client in a call has an operation, an id and an entry to look at.     *)
LEMMA StepTypes ==
    ASSUME IInv, NEW c \in Clients, call[c].at # "idle"
    PROVE  /\ call[c] \in [at : {"called", "rearm", "insert", "done"}, op : DB!Ops,
                           id : Ids, res : DB!Results \cup {"none"}]
           /\ replay[call[c].id] \in DB!States
BY DEF IInv, RedbCalls, DB!Idle

(* An operation answers with a state and a result.                         *)
LEMMA ApplyType ==
    ASSUME NEW op \in {"confirm_consumed", "mark_rolled_back"}, NEW s \in DB!States
    PROVE  /\ DB!Apply(op, s).state \in DB!States
           /\ DB!Apply(op, s).res \in DB!Results
           /\ (DB!Apply(op, s).state = "None") <=> (s = "None")
BY DEF DB!Apply, DB!confirm_consumed, DB!mark_rolled_back, DB!Answer, DB!States, DB!Results

(* The tables are empty and nobody calls.                                  *)
LEMMA InitIInv == RedbInit => IInv
BY DEF RedbInit, IInv, RedbCalls, ConflictKeysAreEntries, DB!Idle, DB!States

(* An answer moves one call to done and changes no other.                  *)
LEMMA AnswerCall ==
    ASSUME IInv, NEW c \in Clients, call[c].at # "idle", NEW res \in DB!Results, Respond(c, res)
    PROVE  /\ call' \in [Clients -> RedbCalls]
           /\ call'[c].at = "done"
           /\ \A d \in Clients \ {c} : call'[d] = call[d]
BY ZenonT(30), StepTypes DEF IInv, Respond, RedbCalls

(* A client that goes on to its write transaction keeps its call.          *)
LEMMA MoveCall ==
    ASSUME IInv, NEW c \in Clients, call[c].at # "idle", NEW step \in {"rearm", "insert"},
           At(c, step)
    PROVE  /\ call' \in [Clients -> RedbCalls]
           /\ call'[c].at = step /\ call'[c].op = call[c].op /\ call'[c].id = call[c].id
           /\ \A d \in Clients \ {c} : call'[d] = call[d]
BY StepTypes DEF IInv, At, RedbCalls

(* The read of consume_if_unconsumed changes no table.                     *)
LEMMA ReadIInv ==
    ASSUME IInv, NEW c \in Clients, read_state(c)
    PROVE  IInv'
<1>1. call[c].at = "called" /\ call[c].op = "consume_if_unconsumed"
      /\ UNCHANGED <<replay, conflict>>
  BY DEF read_state
<1>2. CASE Respond(c, "Ok") \/ Respond(c, "AlreadyExists")
  BY <1>1, <1>2, AnswerCall DEF IInv, ConflictKeysAreEntries, DB!Results
<1>3. CASE At(c, "rearm") /\ replay[call[c].id] = "RolledBack"
  BY <1>1, <1>3, MoveCall, StepTypes DEF IInv, ConflictKeysAreEntries
<1>4. CASE At(c, "insert")
  BY <1>1, <1>4, MoveCall, StepTypes DEF IInv, ConflictKeysAreEntries
<1> QED
  BY <1>2, <1>3, <1>4 DEF read_state

(* The re-arm checks and writes in one write transaction.                  *)
LEMMA RearmIInv ==
    ASSUME IInv, NEW c \in Clients, rearm(c)
    PROVE  IInv'
<1>1. call[c].at = "rearm" /\ conflict' = conflict
      /\ (Respond(c, "Ok") \/ Respond(c, "AlreadyExists"))
  BY DEF rearm
<1>2. /\ call' \in [Clients -> RedbCalls]
      /\ call'[c].at = "done"
      /\ \A d \in Clients \ {c} : call'[d] = call[d]
  BY Zenon, <1>1, AnswerCall DEF DB!Results
<1>3. /\ replay' \in [Ids -> DB!States]
      /\ \A i \in Ids : (replay'[i] = "None") <=> (replay[i] = "None")
  BY <1>1, StepTypes DEF rearm, IInv, DB!States
<1>4. \A d \in Clients : call[d].at \in {"rearm", "insert"} => call[d].id \in Ids
  BY StepTypes
<1> QED
  BY Zenon, <1>1, <1>2, <1>3, <1>4 DEF IInv, ConflictKeysAreEntries

(* insert_if_absent and consume_if_unconsumed insert in one transaction.   *)
LEMMA InsertIInv ==
    ASSUME IInv, NEW c \in Clients, cas_insert(c)
    PROVE  IInv'
<1>1. call[c].at # "idle" /\ (Respond(c, "Ok") \/ Respond(c, "AlreadyExists"))
  BY DEF cas_insert
<1>2. /\ call' \in [Clients -> RedbCalls]
      /\ call'[c].at = "done"
      /\ \A d \in Clients \ {c} : call'[d] = call[d]
  BY Zenon, <1>1, AnswerCall DEF DB!Results
<1>3. /\ replay' \in [Ids -> DB!States]
      /\ conflict' = {i \in Ids : replay'[i] # "None"}
      /\ \A i \in Ids : replay[i] # "None" => replay'[i] # "None"
  BY <1>1, StepTypes DEF cas_insert, IInv, ConflictKeysAreEntries, DB!States
<1>4. \A d \in Clients : call[d].at \in {"rearm", "insert"} => call[d].id \in Ids
  BY StepTypes
<1> QED
  BY Zenon, <1>2, <1>3, <1>4 DEF IInv, ConflictKeysAreEntries

(* confirm_consumed and mark_rolled_back write one entry, never None.      *)
LEMMA TransitionIInv ==
    ASSUME IInv, NEW c \in Clients, transition(c)
    PROVE  IInv'
<1>0. PICK out : /\ out = DB!Apply(call[c].op, replay[call[c].id])
                 /\ replay' = [replay EXCEPT ![call[c].id] = out.state]
                 /\ Respond(c, out.res)
  BY Zenon DEF transition
<1>1. /\ call[c].at = "called" /\ conflict' = conflict
      /\ call[c].op \in {"confirm_consumed", "mark_rolled_back"}
  BY Zenon DEF transition
<1>2. /\ out.state \in DB!States /\ out.res \in DB!Results
      /\ (out.state = "None") <=> (replay[call[c].id] = "None")
  BY Zenon, <1>0, <1>1, StepTypes, ApplyType
<1>3. /\ call' \in [Clients -> RedbCalls]
      /\ call'[c].at = "done"
      /\ \A d \in Clients \ {c} : call'[d] = call[d]
  BY Zenon, <1>0, <1>1, <1>2, AnswerCall
<1>4. /\ replay' \in [Ids -> DB!States]
      /\ \A i \in Ids : (replay'[i] = "None") <=> (replay[i] = "None")
  BY Zenon, <1>0, <1>1, <1>2, StepTypes DEF IInv
<1>5. \A d \in Clients : call[d].at \in {"rearm", "insert"} => call[d].id \in Ids
  BY StepTypes
<1> QED
  BY Zenon, <1>1, <1>3, <1>4, <1>5 DEF IInv, ConflictKeysAreEntries

(* Calls, storage errors, returns and crashes leave the tables.            *)
LEMMA OtherIInv ==
    ASSUME IInv, NEW c \in Clients,
           \/ \E op \in DB!Ops, id \in Ids : Invoke(c, op, id)
           \/ StorageError(c) \/ Return(c) \/ ClientCrash(c)
    PROVE  IInv'
<1>1. ASSUME NEW op \in DB!Ops, NEW id \in Ids, Invoke(c, op, id)
      PROVE  IInv'
  BY Zenon, <1>1 DEF Invoke, IInv, RedbCalls, ConflictKeysAreEntries, DB!Calling
<1>2. CASE StorageError(c)
  BY <1>2, AnswerCall DEF StorageError, IInv, ConflictKeysAreEntries, DB!Results
<1>3. CASE Return(c) \/ ClientCrash(c)
  BY <1>3 DEF Return, ClientCrash, IInv, RedbCalls, ConflictKeysAreEntries, DB!Idle
<1> QED
  BY Zenon, <1>1, <1>2, <1>3

(* Every step keeps the two tables in agreement.                           *)
LEMMA NextIInv == IInv /\ [RedbNext]_redbVars => IInv'
<1> SUFFICES ASSUME IInv, [RedbNext]_redbVars PROVE IInv'
  OBVIOUS
<1>1. CASE UNCHANGED redbVars
  BY <1>1 DEF redbVars, IInv, ConflictKeysAreEntries
<1> QED
  BY <1>1, ReadIInv, RearmIInv, InsertIInv, TransitionIInv, OtherIInv DEF RedbNext

(* The conflict key that contains reads says exactly which entries exist.  *)
THEOREM TablesAgree == RedbSpec => []ConflictKeysAreEntries
<1>1. IInv => ConflictKeysAreEntries
  BY DEF IInv
<1> QED
  BY <1>1, InitIInv, NextIInv, PTL DEF RedbSpec

-----------------------------------------------------------------------------
(* An answer given from any of the unfinished steps is, through the        *)
(* mapping, the answer to a call that was still waiting for its effect.    *)
LEMMA AbstractAnswer ==
    ASSUME IInv, NEW c \in Clients, call[c].at \in {"called", "rearm", "insert"},
           NEW res \in DB!Results, Respond(c, res)
    PROVE  /\ AbstractCall[c].at = "called"
           /\ AbstractCall[c].op = call[c].op
           /\ AbstractCall[c].id = call[c].id
           /\ AbstractCall' = DB!Answered(c, res)
           /\ holds' = DB!HoldsAfter(c, call[c].op, call[c].id, res)
<1>1. call[c] \in [at : {"called", "rearm", "insert", "done"}, op : DB!Ops,
                   id : Ids, res : DB!Results \cup {"none"}]
  BY StepTypes
<1>2. /\ AbstractCall[c].at = "called"
      /\ AbstractCall[c].op = call[c].op
      /\ AbstractCall[c].id = call[c].id
  BY <1>1 DEF AbstractCall
<1>3. /\ call' = [call EXCEPT ![c].at = "done", ![c].res = res]
      /\ holds' = DB!HoldsAfter(c, call[c].op, call[c].id, res)
  BY DEF Respond
<1>4. AbstractCall' = DB!Answered(c, res)
  <2>1. DB!Answered(c, res) =
           [d \in Clients |-> IF d = c THEN [[AbstractCall[c] EXCEPT !.at = "done"] EXCEPT !.res = res]
                                       ELSE AbstractCall[d]]
    BY Zenon DEF DB!Answered, AbstractCall
  <2>2. ASSUME NEW d \in Clients PROVE AbstractCall'[d] = DB!Answered(c, res)[d]
    <3>1. CASE d = c
      <4>1. call'[c] = [at |-> "done", op |-> call[c].op, id |-> call[c].id, res |-> res]
        BY Zenon, <1>1, <1>3 DEF IInv
      <4>2. AbstractCall'[c] = call'[c]
        BY <4>1 DEF AbstractCall
      <4>3. AbstractCall[c] = [at |-> "called", op |-> call[c].op, id |-> call[c].id,
                               res |-> call[c].res]
        BY <1>1 DEF AbstractCall
      <4>4. PICK r : r = [AbstractCall[c] EXCEPT !.at = "done"]
        BY Zenon
      <4>5. r = [at |-> "done", op |-> call[c].op, id |-> call[c].id, res |-> call[c].res]
        BY <4>3, <4>4
      <4>6. [r EXCEPT !.res = res] =
               [at |-> "done", op |-> call[c].op, id |-> call[c].id, res |-> res]
        BY <4>5
      <4>7. DB!Answered(c, res)[c] = [r EXCEPT !.res = res]
        BY Zenon, <2>1, <4>4
      <4> QED
        BY Zenon, <3>1, <4>1, <4>2, <4>6, <4>7
    <3>2. CASE d # c
      BY Zenon, <1>3, <2>1, <3>2 DEF IInv, AbstractCall
    <3> QED
      BY Zenon, <3>1, <3>2
  <2> QED
    BY Zenon, <2>1, <2>2 DEF AbstractCall
<1> QED
  BY Zenon, <1>2, <1>3, <1>4

(* So a step that answers from what the contract allows is its Effect.     *)
LEMMA AnswerIsEffect ==
    ASSUME IInv, NEW c \in Clients, call[c].at \in {"called", "rearm", "insert"},
           NEW out \in DB!Outcomes(call[c].op, replay[call[c].id]), out.res \in DB!Results,
           Respond(c, out.res), replay' = [replay EXCEPT ![call[c].id] = out.state]
    PROVE  DB!Next
<1>1. DB!Effect(c)
  BY Zenon, AbstractAnswer DEF DB!Effect
<1> QED
  BY <1>1 DEF DB!Next

(* A call that ends without an effect on the entry writes it back as is.   *)
LEMMA Rewritten ==
    ASSUME IInv, NEW c \in Clients, call[c].at # "idle", UNCHANGED replay
    PROVE  replay' = [replay EXCEPT ![call[c].id] = replay[call[c].id]]
BY Zenon, StepTypes DEF IInv

(* Reading decides nothing: a stutter of the contract, or its answer.      *)
LEMMA ReadRefines ==
    ASSUME IInv, NEW c \in Clients, read_state(c)
    PROVE  [DB!Next]_(DB!vars)
<1> DEFINE s == replay[call[c].id]
<1>1. call[c].at = "called" /\ call[c].op = "consume_if_unconsumed" /\ replay' = replay
  BY Zenon DEF read_state
<1>2. replay' = [replay EXCEPT ![call[c].id] = s]
  BY Zenon, <1>1, Rewritten
<1>3. CASE s = "Consumed" /\ Respond(c, "Ok")
  <2>1. DB!Answer(s, "Ok") \in DB!Outcomes(call[c].op, s)
    BY Zenon, <1>1, <1>3 DEF DB!Outcomes, DB!Apply, DB!consume_if_unconsumed
  <2> QED
    BY Zenon, <1>1, <1>2, <1>3, <2>1, AnswerIsEffect DEF DB!Answer, DB!Results
<1>4. CASE s = "Pending" /\ Respond(c, "AlreadyExists")
  <2>1. DB!Answer(s, "AlreadyExists") \in DB!Outcomes(call[c].op, s)
    BY Zenon, <1>1, <1>4 DEF DB!Outcomes
  <2> QED
    BY Zenon, <1>1, <1>2, <1>4, <2>1, AnswerIsEffect DEF DB!Answer, DB!Results
<1>5. CASE (At(c, "rearm") \/ At(c, "insert")) /\ UNCHANGED holds
  <2>1. AbstractCall' = AbstractCall
    <3>1. ASSUME NEW d \in Clients PROVE AbstractCall'[d] = AbstractCall[d]
      BY <1>1, <1>5, StepTypes DEF At, AbstractCall, IInv
    <3> QED
      BY Zenon, <3>1 DEF AbstractCall
  <2> QED
    BY Zenon, <1>1, <1>5, <2>1 DEF DB!vars
<1> QED
  BY Zenon, <1>3, <1>4, <1>5 DEF read_state

(* The re-arm's transaction is the contract's step.                        *)
LEMMA RearmRefines ==
    ASSUME IInv, NEW c \in Clients, rearm(c)
    PROVE  DB!Next
<1> DEFINE s == replay[call[c].id]
<1>1. call[c].at = "rearm" /\ call[c].op = "consume_if_unconsumed"
  BY DEF rearm, IInv
<1>2. CASE s = "RolledBack"
  <2>1. DB!Answer("Pending", "Ok") \in DB!Outcomes(call[c].op, s)
    BY Zenon, <1>1, <1>2 DEF DB!Outcomes, DB!Apply, DB!consume_if_unconsumed
  <2>2. Respond(c, "Ok") /\ replay' = [replay EXCEPT ![call[c].id] = "Pending"]
    BY <1>2 DEF rearm
  <2> QED
    BY Zenon, <1>1, <2>1, <2>2, AnswerIsEffect DEF DB!Answer, DB!Results
<1>3. CASE s \in {"Consumed", "Pending"}
  <2>1. DB!Answer(s, "AlreadyExists") \in DB!Outcomes(call[c].op, s)
    BY Zenon, <1>1, <1>3 DEF DB!Outcomes
  <2>2. Respond(c, "AlreadyExists") /\ replay' = [replay EXCEPT ![call[c].id] = s]
    BY Zenon, <1>1, <1>3, Rewritten DEF rearm
  <2> QED
    BY Zenon, <1>1, <2>1, <2>2, AnswerIsEffect DEF DB!Answer, DB!Results
<1> QED
  BY Zenon, <1>2, <1>3 DEF rearm

(* So is the insertion's.                                                  *)
LEMMA InsertRefines ==
    ASSUME IInv, NEW c \in Clients, cas_insert(c)
    PROVE  DB!Next
<1> DEFINE s == replay[call[c].id]
<1>1. /\ call[c].at \in {"called", "insert"}
      /\ call[c].op \in {"insert_if_absent", "consume_if_unconsumed"}
      /\ call[c].id \in Ids
  BY StepTypes DEF cas_insert, IInv
<1>2. CASE call[c].id \notin conflict
  <2>1. s = "None"
    BY Zenon, <1>1, <1>2 DEF IInv, ConflictKeysAreEntries
  <2>2. DB!Answer("Pending", "Ok") \in DB!Outcomes(call[c].op, s)
    BY Zenon, <1>1, <2>1 DEF DB!Outcomes, DB!Apply, DB!consume_if_unconsumed, DB!insert_if_absent
  <2>3. Respond(c, "Ok") /\ replay' = [replay EXCEPT ![call[c].id] = "Pending"]
    BY <1>2 DEF cas_insert
  <2> QED
    BY Zenon, <1>1, <2>2, <2>3, AnswerIsEffect DEF DB!Answer, DB!Results
<1>3. CASE call[c].id \in conflict
  <2>1. s # "None"
    BY Zenon, <1>1, <1>3 DEF IInv, ConflictKeysAreEntries
  <2>2. DB!Answer(s, "AlreadyExists") \in DB!Outcomes(call[c].op, s)
    BY Zenon, <1>1, <2>1 DEF DB!Outcomes, DB!Apply, DB!insert_if_absent
  <2>3. Respond(c, "AlreadyExists") /\ replay' = [replay EXCEPT ![call[c].id] = s]
    BY Zenon, <1>1, <1>3, Rewritten DEF cas_insert
  <2> QED
    BY Zenon, <1>1, <2>2, <2>3, AnswerIsEffect DEF DB!Answer, DB!Results
<1> QED
  BY Zenon, <1>2, <1>3

(* So is the transition's.                                                 *)
LEMMA TransitionRefines ==
    ASSUME IInv, NEW c \in Clients, transition(c)
    PROVE  DB!Next
<1> DEFINE out == DB!Apply(call[c].op, replay[call[c].id])
<1>1. /\ call[c].at = "called" /\ call[c].op \in {"confirm_consumed", "mark_rolled_back"}
      /\ replay' = [replay EXCEPT ![call[c].id] = out.state]
      /\ Respond(c, out.res)
  BY Zenon DEF transition
<1>2. out \in DB!Outcomes(call[c].op, replay[call[c].id])
  BY Zenon DEF DB!Outcomes
<1>3. out.res \in DB!Results
  BY Zenon, <1>1, StepTypes, ApplyType
<1> HIDE DEF out
<1> QED
  BY Zenon, <1>1, <1>2, <1>3, AnswerIsEffect

(* Calls, storage errors, returns and crashes are the contract's.          *)
LEMMA OtherRefines ==
    ASSUME IInv, NEW c \in Clients,
           \/ \E op \in DB!Ops, id \in Ids : Invoke(c, op, id)
           \/ StorageError(c) \/ Return(c) \/ ClientCrash(c)
    PROVE  DB!Next
<1>0. ASSUME NEW x, call' = [call EXCEPT ![c] = x], x.at \notin {"rearm", "insert"}
      PROVE  AbstractCall' = [AbstractCall EXCEPT ![c] = x]
  BY Zenon, <1>0 DEF AbstractCall, IInv
<1>1. ASSUME NEW op \in DB!Ops, NEW id \in Ids, Invoke(c, op, id)
      PROVE  DB!Next
  <2>1. AbstractCall[c].at = "idle"
    BY <1>1 DEF Invoke, AbstractCall
  <2>2. AbstractCall' = [AbstractCall EXCEPT ![c] = DB!Calling(op, id)]
    BY Zenon, <1>0, <1>1 DEF Invoke, DB!Calling
  <2>3. DB!Invoke(c, op, id)
    BY Zenon, <1>1, <2>1, <2>2 DEF Invoke, DB!Invoke
  <2> QED
    BY Zenon, <2>3 DEF DB!Next
<1>2. CASE StorageError(c)
  <2>1. DB!Answer(replay[call[c].id], "Storage") \in DB!Outcomes(call[c].op, replay[call[c].id])
    BY Zenon DEF DB!Outcomes
  <2>2. replay' = [replay EXCEPT ![call[c].id] = replay[call[c].id]]
    BY Zenon, <1>2, Rewritten DEF StorageError
  <2> QED
    BY Zenon, <1>2, <2>1, <2>2, AnswerIsEffect DEF StorageError, DB!Answer, DB!Results
<1>3. CASE Return(c) \/ ClientCrash(c)
  <2>1. AbstractCall' = [AbstractCall EXCEPT ![c] = DB!Idle]
    BY Zenon, <1>0, <1>3 DEF Return, ClientCrash, DB!Idle
  <2>2. AbstractCall[c].at # "idle"
    BY Zenon, <1>3, StepTypes DEF Return, ClientCrash, AbstractCall
  <2>3. DB!Crash(c)
    BY Zenon, <1>3, <2>1, <2>2 DEF Return, ClientCrash, DB!Crash
  <2> QED
    BY <2>3 DEF DB!Next
<1> QED
  BY Zenon, <1>1, <1>2, <1>3

(* Every step of the redb database is one of the contract, or none.        *)
LEMMA NextRefines == IInv /\ [RedbNext]_redbVars => [DB!Next]_(DB!vars)
<1> SUFFICES ASSUME IInv, [RedbNext]_redbVars PROVE [DB!Next]_(DB!vars)
  OBVIOUS
<1>1. CASE UNCHANGED redbVars
  BY <1>1 DEF redbVars, DB!vars, AbstractCall
<1> QED
  BY Zenon, <1>1, ReadRefines, RearmRefines, InsertRefines, TransitionRefines, OtherRefines DEF RedbNext

(* The empty tables are the contract's initial state.                      *)
LEMMA InitRefines == RedbInit => DB!Init
BY DEF RedbInit, DB!Init, AbstractCall, DB!Idle

(* Every behaviour of RedbReplayDb is one the trait's contract allows.     *)
THEOREM RedbImplementsContract == RedbSpec => ImplementsContract
BY InitIInv, NextIInv, InitRefines, NextRefines, PTL DEF RedbSpec, ImplementsContract, DB!Spec

-----------------------------------------------------------------------------
(* PostgresReplayDb.                                                       *)

Sessions ==
    {PG!Idle} \cup [at : {"called", "rearm", "insert", "check", "done"}, op : PG!Ops, id : PgIds,
                    res : PG!Results \cup {"none"}]

(* Which call is between its two statements.                               *)
PostgresInv ==
    /\ rows \in [PgIds -> PG!States]
    /\ session \in [PgClients -> Sessions]
    /\ \A c \in PgClients :
          /\ session[c].at \in {"rearm", "insert"} => session[c].op = "consume_if_unconsumed"
          /\ session[c].at = "check" => session[c].op \in {"confirm_consumed", "mark_rolled_back"}

(* A coordinator in a call has an operation, an id and a row to look at.   *)
LEMMA SessionTypes ==
    ASSUME PostgresInv, NEW c \in PgClients, session[c].at # "idle"
    PROVE  /\ session[c] \in [at : {"called", "rearm", "insert", "check", "done"}, op : PG!Ops,
                              id : PgIds, res : PG!Results \cup {"none"}]
           /\ session[c].op \in PG!Ops /\ session[c].id \in PgIds
           /\ rows[session[c].id] \in PG!States
BY DEF PostgresInv, Sessions, PG!Idle

(* An operation answers with a state and a result.                         *)
LEMMA PgApplyType ==
    ASSUME NEW op \in PG!Ops, NEW s \in PG!States
    PROVE  /\ PG!Apply(op, s).state \in PG!States
           /\ PG!Apply(op, s).state # s =>
                 /\ s # "Consumed" /\ PG!Apply(op, s).state # "None"
                 /\ PG!Apply(op, s).state \in {"Consumed", "RolledBack"} => s = "Pending"
<1>1. CASE op = "insert_if_absent"
  BY Zenon, <1>1 DEF PG!Apply, PG!insert_if_absent, PG!Answer, PG!States
<1>2. CASE op = "consume_if_unconsumed"
  BY <1>2 DEF PG!Apply, PG!consume_if_unconsumed, PG!Answer, PG!States
<1>3. CASE op = "confirm_consumed"
  BY Zenon, <1>3 DEF PG!Apply, PG!confirm_consumed, PG!Answer, PG!States
<1>4. CASE op = "mark_rolled_back"
  BY Zenon, <1>4 DEF PG!Apply, PG!mark_rolled_back, PG!Answer, PG!States
<1> QED
  BY Zenon, <1>1, <1>2, <1>3, <1>4 DEF PG!Ops, PG!ArmingOps

(* No row is there and nobody calls.                                       *)
LEMMA PostgresInvInit == PostgresInit => PostgresInv
BY DEF PostgresInit, PostgresInv, Sessions, PG!Idle, PG!States

(* A step that moves one session and leaves or writes the row of its id.   *)
LEMMA SessionMoves ==
    ASSUME PostgresInv, NEW c \in PgClients, NEW r \in Sessions, session' = [session EXCEPT ![c] = r],
           rows' \in [PgIds -> PG!States],
           r.at \in {"rearm", "insert"} => r.op = "consume_if_unconsumed",
           r.at = "check" => r.op \in {"confirm_consumed", "mark_rolled_back"}
    PROVE  PostgresInv'
BY DEF PostgresInv

(* The record of a call that is answered.                                  *)
LEMMA RecordAnswered ==
    ASSUME NEW q, NEW res, q = [at |-> q.at, op |-> q.op, id |-> q.id, res |-> q.res]
    PROVE  [q EXCEPT !.at = "done", !.res = res] = [at |-> "done", op |-> q.op, id |-> q.id, res |-> res]
<1>1. ASSUME NEW a, a = [q EXCEPT !.at = "done"]
      PROVE  a = [at |-> "done", op |-> q.op, id |-> q.id, res |-> q.res]
  BY <1>1
<1>2. ASSUME NEW a, a = [at |-> "done", op |-> q.op, id |-> q.id, res |-> q.res]
      PROVE  [a EXCEPT !.res = res] = [at |-> "done", op |-> q.op, id |-> q.id, res |-> res]
  BY <1>2
<1> QED
  BY <1>1, <1>2, Zenon

(* A call answers.                                                         *)
LEMMA AnswerKeeps ==
    ASSUME PostgresInv, NEW c \in PgClients, session[c].at # "idle", NEW res \in PG!Results,
           SessionAnswer(c, res), rows' \in [PgIds -> PG!States]
    PROVE  PostgresInv'
<1> DEFINE r == [at |-> "done", op |-> session[c].op, id |-> session[c].id, res |-> res]
<1>1. r \in Sessions
  BY SessionTypes DEF Sessions
<1>2. session' = [session EXCEPT ![c] = r]
  <2>1. session \in [PgClients -> Sessions]
    BY DEF PostgresInv
  <2>2. [session[c] EXCEPT !.at = "done", !.res = res] = r
    <3>1. session[c] = [at |-> session[c].at, op |-> session[c].op, id |-> session[c].id,
                        res |-> session[c].res]
      BY SessionTypes
    <3>2. ASSUME NEW q, q = session[c] PROVE [q EXCEPT !.at = "done", !.res = res]
             = [at |-> "done", op |-> q.op, id |-> q.id, res |-> res]
      BY <3>1, <3>2, RecordAnswered, Zenon
    <3> QED
      BY <3>2, Zenon
  <2> QED
    BY Zenon, <2>1, <2>2 DEF SessionAnswer
<1>3. r.at = "done"
  OBVIOUS
<1> HIDE DEF r
<1> QED
  BY Zenon, <1>1, <1>2, <1>3, SessionMoves

(* A call goes on to its second statement.                                 *)
LEMMA StepKeeps ==
    ASSUME PostgresInv, NEW c \in PgClients, session[c].at = "called",
           NEW step \in {"rearm", "insert", "check"}, SessionAt(c, step), rows' = rows,
           step \in {"rearm", "insert"} => session[c].op = "consume_if_unconsumed",
           step = "check" => session[c].op \in {"confirm_consumed", "mark_rolled_back"}
    PROVE  PostgresInv'
<1> DEFINE r == [at |-> step, op |-> session[c].op, id |-> session[c].id, res |-> session[c].res]
<1>1. r \in Sessions
  BY SessionTypes DEF Sessions
<1>2. session' = [session EXCEPT ![c] = r]
  <2>1. session \in [PgClients -> Sessions]
    BY DEF PostgresInv
  <2>2. [session[c] EXCEPT !.at = step] = r
    BY SessionTypes
  <2> QED
    BY ZenonT(30), <2>1, <2>2 DEF SessionAt
<1>3. r.at = step /\ r.op = session[c].op /\ rows' \in [PgIds -> PG!States]
  BY Zenon DEF PostgresInv
<1> HIDE DEF r
<1> QED
  BY Zenon, <1>1, <1>2, <1>3, SessionMoves

(* What the steps of a call do to the rows.                                *)
LEMMA PostgresInvNext == PostgresInv /\ [PostgresNext]_postgresVars => PostgresInv'
<1> SUFFICES ASSUME PostgresInv, [PostgresNext]_postgresVars PROVE PostgresInv'
  OBVIOUS
<1>1. ASSUME NEW c \in PgClients, NEW op \in PG!Ops, NEW id \in PgIds, Query(c, op, id)
      PROVE  PostgresInv'
  <2>1. PG!Calling(op, id) \in Sessions /\ PG!Calling(op, id).at = "called"
    BY Zenon DEF PG!Calling, Sessions
  <2> QED
    BY Zenon, <1>1, <2>1, SessionMoves DEF Query, PostgresInv
<1>2. ASSUME NEW c \in PgClients, select_state(c) PROVE PostgresInv'
  <2>1. rows' = rows /\ rows' \in [PgIds -> PG!States] /\ session[c].at = "called"
        /\ session[c].op = "consume_if_unconsumed"
    BY Zenon, <1>2 DEF select_state, PostgresInv
  <2>2. \/ SessionAnswer(c, "Ok") \/ SessionAnswer(c, "AlreadyExists")
        \/ SessionAt(c, "rearm") \/ SessionAt(c, "insert")
    BY Zenon, <1>2 DEF select_state
  <2> QED
    BY Zenon, <2>1, <2>2, AnswerKeeps, StepKeeps DEF PG!Results
<1>3. ASSUME NEW c \in PgClients, update_rolled_back(c) PROVE PostgresInv'
  <2>1. rows' \in [PgIds -> PG!States]
    BY Zenon, <1>3 DEF update_rolled_back, PostgresInv, PG!States
  <2> QED
    BY Zenon, <1>3, <2>1, AnswerKeeps DEF update_rolled_back, PG!Results
<1>4. ASSUME NEW c \in PgClients, insert_row(c) PROVE PostgresInv'
  <2>1. rows' \in [PgIds -> PG!States]
    BY Zenon, <1>4 DEF insert_row, PostgresInv, PG!States
  <2> QED
    BY Zenon, <1>4, <2>1, AnswerKeeps DEF insert_row, PG!Results
<1>5. ASSUME NEW c \in PgClients, update_pending(c) PROVE PostgresInv'
  <2>1. rows' \in [PgIds -> PG!States]
    BY Zenon, <1>5 DEF update_pending, PostgresInv, PG!States, Target
  <2>2. session[c].at = "called" /\ session[c].op \in {"confirm_consumed", "mark_rolled_back"}
        /\ (SessionAnswer(c, "Ok") \/ (SessionAt(c, "check") /\ rows' = rows))
    BY Zenon, <1>5 DEF update_pending
  <2> QED
    BY Zenon, <2>1, <2>2, AnswerKeeps, StepKeeps DEF PG!Results
<1>6. ASSUME NEW c \in PgClients, select_current(c) PROVE PostgresInv'
  <2>1. rows' \in [PgIds -> PG!States] /\ session[c].at # "idle"
    BY Zenon, <1>6 DEF select_current, PostgresInv
  <2>2. SessionAnswer(c, "Ok") \/ SessionAnswer(c, "Storage") \/ SessionAnswer(c, "NotFound")
    BY Zenon, <1>6 DEF select_current
  <2> QED
    BY Zenon, <2>1, <2>2, AnswerKeeps DEF PG!Results
<1>7. ASSUME NEW c \in PgClients, ConnectionError(c) PROVE PostgresInv'
  <2>1. session[c].at # "idle" /\ SessionAnswer(c, "Storage")
    BY Zenon, <1>7 DEF ConnectionError
  <2>2. PG!Apply(session[c].op, rows[session[c].id]).state \in PG!States
    BY Zenon, <2>1, SessionTypes, PgApplyType
  <2>3. rows' \in [PgIds -> PG!States]
    BY Zenon, <1>7, <2>2 DEF ConnectionError, PostgresInv
  <2> QED
    BY Zenon, <2>1, <2>3, AnswerKeeps DEF PG!Results
<1>8. ASSUME NEW c \in PgClients, SessionReturn(c) \/ SessionCrash(c) PROVE PostgresInv'
  BY <1>8, SessionMoves DEF SessionReturn, SessionCrash, PostgresInv, Sessions, PG!Idle
<1>9. ASSUME UNCHANGED postgresVars PROVE PostgresInv'
  BY Zenon, <1>9 DEF postgresVars, PostgresInv
<1> QED
  BY Zenon, <1>1, <1>2, <1>3, <1>4, <1>5, <1>6, <1>7, <1>8, <1>9 DEF PostgresNext

-----------------------------------------------------------------------------
(* An answer given at any statement is, through the mapping, the answer to *)
(* a call that was still waiting for its effect.                           *)
LEMMA AbstractSessionAnswer ==
    ASSUME PostgresInv, NEW c \in PgClients,
           session[c].at \in {"called", "rearm", "insert", "check"},
           NEW res \in PG!Results, SessionAnswer(c, res)
    PROVE  /\ AbstractSession[c].at = "called"
           /\ AbstractSession[c].op = session[c].op
           /\ AbstractSession[c].id = session[c].id
           /\ AbstractSession' = PG!Answered(c, res)
           /\ pg_holds' = PG!HoldsAfter(c, session[c].op, session[c].id, res)
<1>1. session[c] \in [at : {"called", "rearm", "insert", "check", "done"}, op : PG!Ops,
                      id : PgIds, res : PG!Results \cup {"none"}]
  BY Zenon, SessionTypes
<1>2. /\ AbstractSession[c].at = "called"
      /\ AbstractSession[c].op = session[c].op
      /\ AbstractSession[c].id = session[c].id
  BY Zenon, <1>1 DEF AbstractSession
<1>3. /\ session' = [session EXCEPT ![c].at = "done", ![c].res = res]
      /\ pg_holds' = PG!HoldsAfter(c, session[c].op, session[c].id, res)
  BY Zenon DEF SessionAnswer
<1>4. AbstractSession' = PG!Answered(c, res)
  <2>1. PG!Answered(c, res) =
           [d \in PgClients |->
               IF d = c THEN [[AbstractSession[c] EXCEPT !.at = "done"] EXCEPT !.res = res]
                        ELSE AbstractSession[d]]
    BY Zenon DEF PG!Answered, AbstractSession
  <2>2. session'[c] = [at |-> "done", op |-> session[c].op, id |-> session[c].id, res |-> res]
    BY Zenon, <1>1, <1>3 DEF PostgresInv
  <2>3. AbstractSession'[c] = session'[c]
    BY <2>2 DEF AbstractSession
  <2>4. AbstractSession[c] = [at |-> "called", op |-> session[c].op, id |-> session[c].id,
                              res |-> session[c].res]
    BY <1>1 DEF AbstractSession
  <2>5. PICK r : r = [AbstractSession[c] EXCEPT !.at = "done"]
    BY Zenon
  <2>6. r = [at |-> "done", op |-> session[c].op, id |-> session[c].id, res |-> session[c].res]
    BY <2>4, <2>5
  <2>7. [r EXCEPT !.res = res] =
           [at |-> "done", op |-> session[c].op, id |-> session[c].id, res |-> res]
    BY <2>6
  <2>8. ASSUME NEW d \in PgClients PROVE AbstractSession'[d] = PG!Answered(c, res)[d]
    <3>1. CASE d = c
      BY Zenon, <2>1, <2>2, <2>3, <2>5, <2>7, <3>1
    <3>2. CASE d # c
      BY Zenon, <1>3, <2>1, <3>2 DEF PostgresInv, AbstractSession
    <3> QED
      BY Zenon, <3>1, <3>2
  <2> QED
    BY Zenon, <2>1, <2>8 DEF AbstractSession
<1> QED
  BY Zenon, <1>2, <1>3, <1>4

(* An answer together with its write is a call of the contract that takes  *)
(* effect.                                                                 *)
LEMMA PgAnswerIsEffect ==
    ASSUME PostgresInv, NEW c \in PgClients,
           session[c].at \in {"called", "rearm", "insert", "check"},
           NEW out \in PG!Outcomes(session[c].op, rows[session[c].id]), out.res \in PG!Results,
           SessionAnswer(c, out.res), rows' = [rows EXCEPT ![session[c].id] = out.state]
    PROVE  PG!Next
<1>1. PG!Effect(c)
  BY Zenon, AbstractSessionAnswer DEF PG!Effect
<1> QED
  BY <1>1 DEF PG!Next

(* A row that is written what it holds stays as it is.                     *)
LEMMA RowRewritten ==
    ASSUME PostgresInv, NEW c \in PgClients, session[c].at # "idle", UNCHANGED rows
    PROVE  rows' = [rows EXCEPT ![session[c].id] = rows[session[c].id]]
BY SessionTypes DEF PostgresInv

(* An answer that leaves the row and that the contract allows.             *)
LEMMA ReadIsEffect ==
    ASSUME PostgresInv, NEW c \in PgClients,
           session[c].at \in {"called", "rearm", "insert", "check"}, NEW res \in PG!Results,
           PG!Answer(rows[session[c].id], res) \in PG!Outcomes(session[c].op, rows[session[c].id]),
           SessionAnswer(c, res), UNCHANGED rows
    PROVE  PG!Next
<1>1. rows' = [rows EXCEPT ![session[c].id] = rows[session[c].id]]
  BY RowRewritten
<1>2. PICK out : out = PG!Answer(rows[session[c].id], res)
  BY Zenon
<1>3. out.res = res /\ out.state = rows[session[c].id]
  BY Zenon, <1>2 DEF PG!Answer
<1> QED
  BY Zenon, <1>1, <1>2, <1>3, PgAnswerIsEffect

(* Between its two statements a call has not happened yet.                 *)
LEMMA MoveIsStutter ==
    ASSUME PostgresInv, NEW c \in PgClients, session[c].at = "called",
           NEW step \in {"rearm", "insert", "check"}, SessionAt(c, step)
    PROVE  AbstractSession' = AbstractSession
<1>1. ASSUME NEW d \in PgClients PROVE AbstractSession'[d] = AbstractSession[d]
  BY SessionTypes DEF SessionAt, AbstractSession, PostgresInv
<1> QED
  BY Zenon, <1>1 DEF AbstractSession

PostgresStep ==
    [UNCHANGED postgresVars \/ LostRearm \/ PG!Next]_<<rows, AbstractSession, pg_holds>>

(* The SELECT of consume_if_unconsumed answers as the contract does, or is *)
(* not seen by it.                                                         *)
LEMMA SelectRefines ==
    ASSUME PostgresInv, NEW c \in PgClients, select_state(c) PROVE PostgresStep
<1> DEFINE s == rows[session[c].id]
<1>1. session[c].at = "called" /\ session[c].op = "consume_if_unconsumed" /\ rows' = rows
  BY Zenon DEF select_state
<1>2. CASE s = "Consumed" /\ SessionAnswer(c, "Ok")
  <2>1. PG!Answer(s, "Ok") \in PG!Outcomes(session[c].op, s)
    BY <1>1, <1>2 DEF PG!Outcomes, PG!Apply, PG!consume_if_unconsumed
  <2> QED
    BY Zenon, <1>1, <1>2, <2>1, ReadIsEffect DEF PG!Results, PostgresStep
<1>3. CASE s = "Pending" /\ SessionAnswer(c, "AlreadyExists")
  <2>1. PG!Answer(s, "AlreadyExists") \in PG!Outcomes(session[c].op, s)
    BY <1>1, <1>3 DEF PG!Outcomes
  <2> QED
    BY Zenon, <1>1, <1>3, <2>1, ReadIsEffect DEF PG!Results, PostgresStep
<1>4. CASE (SessionAt(c, "rearm") \/ SessionAt(c, "insert")) /\ UNCHANGED pg_holds
  BY Zenon, <1>1, <1>4, MoveIsStutter DEF PostgresStep
<1> QED
  BY Zenon, <1>2, <1>3, <1>4 DEF select_state

(* The re-arming UPDATE takes effect if the row is still rolled back.      *)
LEMMA RearmRefinesPg ==
    ASSUME PostgresInv, NEW c \in PgClients, update_rolled_back(c) PROVE PostgresStep
<1> DEFINE s == rows[session[c].id]
<1>1. session[c].at = "rearm" /\ session[c].op = "consume_if_unconsumed" /\ SessionAnswer(c, "Ok")
  BY DEF update_rolled_back, PostgresInv
<1>2. CASE s = "RolledBack"
  <2>1. PG!Answer("Pending", "Ok") \in PG!Outcomes(session[c].op, s)
    BY Zenon, <1>1, <1>2 DEF PG!Outcomes, PG!Apply, PG!consume_if_unconsumed
  <2>2. rows' = [rows EXCEPT ![session[c].id] = "Pending"]
    BY Zenon, <1>1, <1>2, SessionTypes DEF update_rolled_back, PostgresInv
  <2>3. PG!Next
    BY Zenon, <1>1, <2>1, <2>2, PgAnswerIsEffect DEF PG!Answer, PG!Results
  <2> QED
    BY Zenon, <2>3 DEF PostgresStep
<1>3. CASE s # "RolledBack"
  BY Zenon, <1>1, <1>3 DEF LostRearm, PostgresStep
<1> QED
  BY Zenon, <1>2, <1>3

(* INSERT ... ON CONFLICT DO NOTHING takes effect at once.                 *)
LEMMA InsertRefinesPg ==
    ASSUME PostgresInv, NEW c \in PgClients, insert_row(c) PROVE PostgresStep
<1> DEFINE s == rows[session[c].id]
<1>1. /\ session[c].at \in {"called", "insert"}
      /\ session[c].op \in {"insert_if_absent", "consume_if_unconsumed"}
  BY Zenon DEF insert_row, PostgresInv
<1>2. CASE s = "None" /\ rows' = [rows EXCEPT ![session[c].id] = "Pending"] /\ SessionAnswer(c, "Ok")
  <2>1. PG!Answer("Pending", "Ok") \in PG!Outcomes(session[c].op, s)
    BY Zenon, <1>1, <1>2 DEF PG!Outcomes, PG!Apply, PG!consume_if_unconsumed, PG!insert_if_absent
  <2>2. PG!Next
    BY Zenon, <1>1, <1>2, <2>1, PgAnswerIsEffect DEF PG!Answer, PG!Results
  <2> QED
    BY <2>2 DEF PostgresStep
<1>3. CASE s # "None" /\ SessionAnswer(c, "AlreadyExists") /\ rows' = rows
  <2>1. PG!Answer(s, "AlreadyExists") \in PG!Outcomes(session[c].op, s)
    BY Zenon, <1>1, <1>3 DEF PG!Outcomes, PG!Apply, PG!insert_if_absent
  <2> QED
    BY Zenon, <1>1, <1>3, <2>1, ReadIsEffect DEF PG!Results, PostgresStep
<1> QED
  BY Zenon, <1>2, <1>3 DEF insert_row

(* The UPDATE of a pending row takes effect at once; one that matches no   *)
(* row is not seen by the contract.                                        *)
LEMMA UpdateRefines ==
    ASSUME PostgresInv, NEW c \in PgClients, update_pending(c) PROVE PostgresStep
<1> DEFINE s == rows[session[c].id]
<1>1. session[c].at = "called" /\ session[c].op \in {"confirm_consumed", "mark_rolled_back"}
  BY Zenon DEF update_pending
<1>2. CASE /\ s = "Pending" /\ rows' = [rows EXCEPT ![session[c].id] = Target(session[c].op)]
           /\ SessionAnswer(c, "Ok")
  <2>1. PG!Answer(Target(session[c].op), "Ok") \in PG!Outcomes(session[c].op, s)
    BY Zenon, <1>1, <1>2 DEF PG!Outcomes, PG!Apply, PG!confirm_consumed, PG!mark_rolled_back, Target
  <2>2. PG!Next
    BY Zenon, <1>1, <1>2, <2>1, PgAnswerIsEffect DEF PG!Answer, PG!Results
  <2> QED
    BY <2>2 DEF PostgresStep
<1>3. CASE SessionAt(c, "check") /\ UNCHANGED <<rows, pg_holds>>
  BY Zenon, <1>1, <1>3, MoveIsStutter DEF PostgresStep
<1> QED
  BY Zenon, <1>2, <1>3 DEF update_pending

(* The second SELECT answers with the state as it is then.                 *)
LEMMA CurrentRefines ==
    ASSUME PostgresInv, NEW c \in PgClients, select_current(c) PROVE PostgresStep
<1> DEFINE s == rows[session[c].id]
<1>1. /\ session[c].at = "check" /\ session[c].op \in {"confirm_consumed", "mark_rolled_back"}
      /\ rows' = rows
  BY Zenon DEF select_current, PostgresInv
<1>2. ASSUME NEW res \in PG!Results, SessionAnswer(c, res),
             PG!Answer(s, res) \in PG!Outcomes(session[c].op, s)
      PROVE  PostgresStep
  BY Zenon, <1>1, <1>2, ReadIsEffect DEF PostgresStep
<1>3. CASE s = Target(session[c].op) /\ SessionAnswer(c, "Ok")
  <2>1. PG!Answer(s, "Ok") \in PG!Outcomes(session[c].op, s)
    BY Zenon, <1>1, <1>3 DEF PG!Outcomes, PG!Apply, PG!confirm_consumed, PG!mark_rolled_back, Target
  <2> QED
    BY Zenon, <1>2, <1>3, <2>1 DEF PG!Results
<1>4. CASE SessionAnswer(c, "Storage")
  <2>1. PG!Answer(s, "Storage") \in PG!Outcomes(session[c].op, s)
    BY Zenon DEF PG!Outcomes
  <2> QED
    BY Zenon, <1>2, <1>4, <2>1 DEF PG!Results
<1>5. CASE s = "None" /\ SessionAnswer(c, "NotFound")
  <2>1. PG!Answer(s, "NotFound") \in PG!Outcomes(session[c].op, s)
    BY Zenon, <1>1, <1>5 DEF PG!Outcomes, PG!Apply, PG!confirm_consumed, PG!mark_rolled_back
  <2> QED
    BY Zenon, <1>2, <1>5, <2>1 DEF PG!Results
<1> QED
  BY Zenon, <1>3, <1>4, <1>5 DEF select_current

(* A connection that fails answers Storage, with or without the effect.    *)
LEMMA ErrorRefines ==
    ASSUME PostgresInv, NEW c \in PgClients, ConnectionError(c) PROVE PostgresStep
<1> DEFINE s == rows[session[c].id]
           t == PG!Apply(session[c].op, s).state
<1>1. session[c].at \in {"called", "rearm", "insert", "check"} /\ SessionAnswer(c, "Storage")
  BY Zenon DEF ConnectionError
<1>2. CASE UNCHANGED rows
  <2>1. PG!Answer(s, "Storage") \in PG!Outcomes(session[c].op, s)
    BY DEF PG!Outcomes
  <2> QED
    BY Zenon, <1>1, <1>2, <2>1, ReadIsEffect DEF PG!Results, PostgresStep
<1>3. CASE rows' = [rows EXCEPT ![session[c].id] = t]
  <2>1. PG!Answer(t, "Storage") \in PG!Outcomes(session[c].op, s)
    BY DEF PG!Outcomes
  <2>2. PICK out : out = PG!Answer(t, "Storage")
    BY Zenon
  <2>3. out.res = "Storage" /\ out.state = t
    BY Zenon, <2>2 DEF PG!Answer
  <2>4. PG!Next
    BY Zenon, <1>1, <1>3, <2>1, <2>2, <2>3, PgAnswerIsEffect DEF PG!Results
  <2> QED
    BY <2>4 DEF PostgresStep
<1> QED
  BY Zenon, <1>2, <1>3 DEF ConnectionError

(* A call begins, returns or is forgotten.                                 *)
LEMMA OtherRefinesPg ==
    ASSUME PostgresInv, NEW c \in PgClients,
           \/ \E op \in PG!Ops, id \in PgIds : Query(c, op, id)
           \/ SessionReturn(c) \/ SessionCrash(c)
    PROVE  PostgresStep
<1>0. ASSUME NEW x, session' = [session EXCEPT ![c] = x], x.at \notin {"rearm", "insert", "check"}
      PROVE  AbstractSession' = [AbstractSession EXCEPT ![c] = x]
  BY Zenon, <1>0 DEF AbstractSession, PostgresInv
<1>1. ASSUME NEW op \in PG!Ops, NEW id \in PgIds, Query(c, op, id)
      PROVE  PG!Next
  <2>1. AbstractSession[c].at = "idle"
    BY Zenon, <1>1 DEF Query, AbstractSession
  <2>2. AbstractSession' = [AbstractSession EXCEPT ![c] = PG!Calling(op, id)]
    BY Zenon, <1>0, <1>1 DEF Query, PG!Calling
  <2>3. PG!Invoke(c, op, id)
    BY Zenon, <1>1, <2>1, <2>2 DEF Query, PG!Invoke
  <2> QED
    BY Zenon, <2>3 DEF PG!Next
<1>2. ASSUME SessionReturn(c) \/ SessionCrash(c) PROVE PG!Next
  <2>1. AbstractSession' = [AbstractSession EXCEPT ![c] = PG!Idle]
    BY Zenon, <1>0, <1>2 DEF SessionReturn, SessionCrash, PG!Idle
  <2>2. AbstractSession[c].at # "idle"
    BY Zenon, <1>2, SessionTypes DEF SessionReturn, SessionCrash, AbstractSession
  <2>3. PG!Crash(c)
    BY Zenon, <1>2, <2>1, <2>2 DEF SessionReturn, SessionCrash, PG!Crash
  <2> QED
    BY Zenon, <2>3 DEF PG!Next
<1> QED
  BY Zenon, <1>1, <1>2 DEF PostgresStep

(* Every step but a lost re-arm.                                           *)
LEMMA NextRefinesPg == PostgresInv /\ [PostgresNext]_postgresVars => PostgresStep
<1> SUFFICES ASSUME PostgresInv, [PostgresNext]_postgresVars PROVE PostgresStep
  OBVIOUS
<1>1. CASE UNCHANGED postgresVars
  BY <1>1 DEF PostgresStep
<1> QED
  BY Zenon, <1>1, SelectRefines, RearmRefinesPg, InsertRefinesPg, UpdateRefines, CurrentRefines,
     ErrorRefines, OtherRefinesPg DEF PostgresNext

(* For any number of coordinators and ids: every step of PostgresReplayDb  *)
(* is a step of the contract or invisible to it, but for the re-arming     *)
(* UPDATE that matched no row and answered Ok.                             *)
THEOREM OnlyRearmRaces == PostgresSpec => OtherStepsImplementContract
BY PostgresInvInit, PostgresInvNext, NextRefinesPg, PTL
   DEF PostgresSpec, OtherStepsImplementContract, PostgresStep

-----------------------------------------------------------------------------
RowsStep ==
    \A id \in PgIds : rows'[id] # rows[id] =>
        /\ rows[id] # "Consumed" /\ rows'[id] # "None"
        /\ rows'[id] \in {"Consumed", "RolledBack"} => rows[id] = "Pending"

(* Every statement guards the row it writes, the lost re-arm too.          *)
LEMMA StepsKeepRows == PostgresInv /\ [PostgresNext]_postgresVars => RowsStep
<1> SUFFICES ASSUME PostgresInv, [PostgresNext]_postgresVars PROVE RowsStep
  OBVIOUS
<1>1. ASSUME NEW id \in PgIds, NEW v, rows' = [rows EXCEPT ![id] = v],
             v # rows[id] => /\ rows[id] # "Consumed" /\ v # "None"
                             /\ v \in {"Consumed", "RolledBack"} => rows[id] = "Pending"
      PROVE  RowsStep
  BY Zenon, <1>1 DEF RowsStep, PostgresInv
<1>2. CASE rows' = rows
  BY Zenon, <1>2 DEF RowsStep
<1>3. ASSUME NEW c \in PgClients, update_rolled_back(c) PROVE RowsStep
  BY Zenon, <1>3, SessionTypes DEF update_rolled_back, RowsStep, PostgresInv
<1>4. ASSUME NEW c \in PgClients, insert_row(c) PROVE RowsStep
  BY Zenon, <1>2, <1>4, SessionTypes DEF insert_row, RowsStep, PostgresInv
<1>5. ASSUME NEW c \in PgClients, update_pending(c) PROVE RowsStep
  BY Zenon, <1>2, <1>5, SessionTypes DEF update_pending, RowsStep, PostgresInv, Target
<1>6. ASSUME NEW c \in PgClients, ConnectionError(c) PROVE RowsStep
  <2>1. session[c].id \in PgIds /\ session[c].op \in PG!Ops /\ rows[session[c].id] \in PG!States
    BY Zenon, <1>6, SessionTypes DEF ConnectionError
  <2> DEFINE s == rows[session[c].id]
             v == PG!Apply(session[c].op, s).state
  <2>2. v # s => /\ s # "Consumed" /\ v # "None"
                 /\ v \in {"Consumed", "RolledBack"} => s = "Pending"
    BY Zenon, <2>1, PgApplyType
  <2>3. rows' = rows \/ rows' = [rows EXCEPT ![session[c].id] = v]
    BY Zenon, <1>6 DEF ConnectionError
  <2> HIDE DEF v
  <2> QED
    BY Zenon, <1>1, <1>2, <2>1, <2>2, <2>3
<1> QED
  BY ZenonT(30), <1>2, <1>3, <1>4, <1>5, <1>6
     DEF PostgresNext, Query, select_state, select_current, SessionReturn, SessionCrash, postgresVars

(* And in spite of that race, for any number of coordinators and ids, no   *)
(* statement takes a row out of Consumed, deletes one, or consumes one     *)
(* that was not pending.                                                   *)
THEOREM PostgresAppendOnly == PostgresSpec => EntriesAppendOnly
<1>1. PostgresInv /\ [PostgresNext]_postgresVars => [PG!EntryStep]_(PG!vars)
  BY Zenon, StepsKeepRows DEF RowsStep, PG!EntryStep
<1> QED
  BY <1>1, PostgresInvInit, PostgresInvNext, PTL
     DEF PostgresSpec, EntriesAppendOnly, PG!EntriesAppendOnly

-----------------------------------------------------------------------------
(* The recovery from a reorganisation.                                     *)

ReorgStates == {"init", "locking", "awaiting_finality", "proof_building", "proof_validated",
                "minting", "completed", "rolled_back", "compromised"}

ReorgTips == [height : Nat, id : Nat]

ReorgBlocks == [id : Nat, locks : SUBSET ReorgTransfers]

ReorgHandlers ==
    [doing : {"nothing", "rollback", "reconcile", "block", "commitment", "rebuild", "proof"},
     old : ReorgTips, new : ReorgTips,
     affected : {<<>>} \cup [ReorgTransfers -> ReorgStates], todo : SUBSET ReorgTransfers,
     revalidate : BOOLEAN, of : SUBSET ReorgTransfers, held : BOOLEAN]

ReorgTypes ==
    /\ chain \in Seq(ReorgBlocks) /\ Len(chain) > 0
    /\ mined \in Nat
    /\ last_known \in Seq(ReorgTips)
    /\ stored \in [ReorgTransfers -> ReorgStates]
    /\ handler \in ReorgHandlers
    /\ DOMAIN verdict = ReorgTransfers

(* The list the handler writes from is old, but a transfer that was        *)
(* minting on it has only moved on.                                        *)
ListHolds ==
    handler.doing = "rollback" =>
        \A t \in handler.todo :
           handler.affected[t] = "minting" => stored[t] \in {"minting", "completed"}

(* What the engine has learnt of the transfer in hand: past the query for  *)
(* its commitment, its lock was seen.                                      *)
EngineKnows ==
    /\ handler.doing = "nothing" => ~handler.revalidate
    /\ \A t \in handler.of : Locked(t) => handler.held
    /\ handler.doing \in {"rebuild", "proof"} => handler.held

ReorgInv == ReorgTypes /\ ListHolds /\ EngineKnows

(* The states of a transfer in their order.                                *)
LEMMA Ranks ==
    /\ Rank("locking") = 2 /\ Rank("awaiting_finality") = 3 /\ Rank("proof_building") = 4
    /\ Rank("proof_validated") = 5 /\ Rank("minting") = 6 /\ Rank("completed") = 7
    /\ \A i \in 1 .. 7 : Pipeline[i] \in ReorgStates
    /\ Pipeline[7] = "completed"
<1>1. Len(Pipeline) = 7 /\ Pipeline[1] = "init" /\ Pipeline[2] = "locking"
      /\ Pipeline[3] = "awaiting_finality" /\ Pipeline[4] = "proof_building"
      /\ Pipeline[5] = "proof_validated" /\ Pipeline[6] = "minting" /\ Pipeline[7] = "completed"
  BY Zenon DEF Pipeline
<1>2. \A i \in 1 .. 7 : i = 1 \/ i = 2 \/ i = 3 \/ i = 4 \/ i = 5 \/ i = 6 \/ i = 7
  OBVIOUS
<1> QED
  BY <1>1, <1>2 DEF Rank, ReorgStates

(* The handler at rest.                                                    *)
LEMMA NoEventTyped ==
    /\ NoEvent \in ReorgHandlers /\ NoEvent.doing = "nothing"
    /\ NoEvent.of = {} /\ NoEvent.revalidate = FALSE
BY Zenon DEF NoEvent, ReorgHandlers, ReorgTips

(* No transfer is locked and no reorganisation was seen.                   *)
LEMMA ReorgInvInit == ReorgInit => ReorgInv
<1> SUFFICES ASSUME ReorgInit PROVE ReorgInv
  BY Zenon
<1>1. chain \in Seq(ReorgBlocks) /\ Len(chain) > 0
  BY DEF ReorgInit, ReorgBlocks
<1>2. ReorgTypes
  BY <1>1, NoEventTyped DEF ReorgInit, ReorgTypes, ReorgStates
<1> QED
  BY Zenon, <1>2, NoEventTyped DEF ReorgInit, ReorgInv, ListHolds, EngineKnows

(* A step of the chain or of a transfer's driver: of the handler's record  *)
(* only the history moves.                                                 *)
LEMMA OthersMove ==
    ASSUME ReorgInv, UNCHANGED <<last_known, verdict>>,
           NEW held \in BOOLEAN, handler' = [handler EXCEPT !.held = held],
           handler.held => held, \A t \in handler.of : Locked(t)' => held,
           chain' \in Seq(ReorgBlocks), Len(chain') > 0, mined' \in Nat,
           stored' \in [ReorgTransfers -> ReorgStates],
           \A t \in ReorgTransfers :
              stored[t] \in {"minting", "completed"} => stored'[t] \in {"minting", "completed"}
    PROVE  ReorgInv'
<1>1. /\ handler \in ReorgHandlers /\ handler.todo \subseteq ReorgTransfers
  BY Zenon DEF ReorgInv, ReorgTypes, ReorgHandlers
<1>2. /\ handler' \in ReorgHandlers /\ handler'.held = held /\ handler'.doing = handler.doing
      /\ handler'.todo = handler.todo /\ handler'.affected = handler.affected
      /\ handler'.of = handler.of /\ handler'.revalidate = handler.revalidate
  BY Zenon, <1>1 DEF ReorgHandlers
<1>3. ReorgTypes'
  BY Zenon, <1>2 DEF ReorgInv, ReorgTypes
<1>4. ListHolds'
  BY Zenon, <1>1, <1>2 DEF ReorgInv, ListHolds
<1>5. EngineKnows'
  BY Zenon, <1>2 DEF ReorgInv, EngineKnows
<1> QED
  BY Zenon, <1>3, <1>4, <1>5 DEF ReorgInv

(* The chain grows, or drops its last blocks and grows.                    *)
LEMMA MineKeeps ==
    ASSUME ReorgInv, NEW k \in 0 .. MaxHeight - 1, NEW locks \in SUBSET ReorgTransfers, mine(k, locks)
    PROVE  ReorgInv'
<1> DEFINE kept == SubSeq(chain, 1, Len(chain) - k)
           block == [id |-> mined + 1, locks |-> locks]
<1>1. chain \in Seq(ReorgBlocks) /\ Len(chain) \in Nat /\ mined \in Nat
      /\ stored \in [ReorgTransfers -> ReorgStates]
  BY DEF ReorgInv, ReorgTypes
<1>2. k \in Nat /\ k < Len(chain)
  BY ReorgAssumption DEF mine
<1>3. Len(chain) - k \in 1 .. Len(chain)
  BY <1>1, <1>2
<1>4. kept \in Seq(ReorgBlocks)
  BY <1>1, <1>3
<1>5. chain' = Append(kept, block) /\ mined' = mined + 1
  BY Zenon DEF mine
<1>6. block \in ReorgBlocks
  BY <1>1 DEF ReorgBlocks
<1> HIDE DEF kept, block
<1>7. chain' \in Seq(ReorgBlocks) /\ Len(chain') > 0 /\ mined' \in Nat
  BY <1>1, <1>4, <1>5, <1>6
<1>8. stored' \in [ReorgTransfers -> ReorgStates]
  BY Zenon, <1>1 DEF mine, ReorgStates
<1>9. \A t \in ReorgTransfers : stored[t] \in {"minting", "completed"} => stored'[t] = stored[t]
  BY Zenon DEF mine
<1> DEFINE held == handler.held \/ \E t \in handler.of : Locked(t)'
<1>10. /\ UNCHANGED <<last_known, verdict>> /\ held \in BOOLEAN
       /\ handler' = [handler EXCEPT !.held = held]
  BY Zenon DEF mine, ReorgInv, ReorgTypes
<1>11. (handler.held => held) /\ \A t \in handler.of : Locked(t)' => held
  BY Zenon
<1> HIDE DEF held
<1> QED
  BY Zenon, <1>7, <1>8, <1>9, <1>10, <1>11, OthersMove

(* A transfer's driver takes it one state on; it never takes one out of    *)
(* minting but to completed.                                               *)
LEMMA AdvanceKeeps ==
    ASSUME ReorgInv, NEW t \in ReorgTransfers, advance(t)
    PROVE  ReorgInv'
<1>1. stored \in [ReorgTransfers -> ReorgStates] /\ stored' = [stored EXCEPT ![t] = Pipeline[Rank(@) + 1]]
  BY Zenon DEF ReorgInv, ReorgTypes, advance
<1>2. Rank(stored[t]) \in 2 .. 6 /\ (stored[t] = "minting" => Rank(stored[t]) = 6)
      /\ stored[t] # "completed"
  BY Ranks DEF advance
<1>3. Pipeline[Rank(stored[t]) + 1] \in ReorgStates
  BY <1>2, Ranks
<1>4. stored[t] = "minting" => Pipeline[Rank(stored[t]) + 1] = "completed"
  BY <1>2, Ranks
<1>5. stored' \in [ReorgTransfers -> ReorgStates]
  BY Zenon, <1>1, <1>3
<1>6. \A u \in ReorgTransfers :
         stored[u] \in {"minting", "completed"} => stored'[u] \in {"minting", "completed"}
  BY Zenon, <1>1, <1>2, <1>4
<1>7. /\ handler.held \in BOOLEAN /\ handler' = [handler EXCEPT !.held = handler.held]
      /\ \A u \in handler.of : Locked(u)' => handler.held
      /\ chain' \in Seq(ReorgBlocks) /\ Len(chain') > 0 /\ mined' \in Nat
      /\ UNCHANGED <<last_known, verdict>>
  BY Zenon DEF advance, ReorgInv, ReorgTypes, ReorgHandlers, EngineKnows, Locked
<1> QED
  BY Zenon, <1>5, <1>6, <1>7, OthersMove

(* One transfer of the list is rolled back, and leaves the list.           *)
LEMMA RollbackKeeps ==
    ASSUME ReorgInv, NEW t \in ReorgTransfers, NEW saved \in BOOLEAN, NEW reread \in BOOLEAN,
           rollback_transfer(t, saved, reread)
    PROVE  ReorgInv'
<1>0. handler \in ReorgHandlers /\ handler.doing = "rollback" /\ stored \in [ReorgTransfers -> ReorgStates]
  BY Zenon DEF ReorgInv, ReorgTypes, rollback_transfer
<1>1. stored' \in [ReorgTransfers -> ReorgStates]
  BY Zenon, <1>0 DEF rollback_transfer, determine_rollback_action, ReorgStates
<1>2. \A u \in ReorgTransfers : u # t => stored'[u] = stored[u]
  BY Zenon, <1>0 DEF rollback_transfer
<1>3. CASE handler.todo = {t}
  <2>1. PICK list \in {<<>>} \cup [ReorgTransfers -> ReorgStates], rest \in SUBSET ReorgTransfers :
           handler' = [handler EXCEPT !.doing = "reconcile", !.affected = list, !.todo = rest]
    <3>1. handler.affected \in {<<>>} \cup [ReorgTransfers -> ReorgStates]
      BY Zenon, <1>0 DEF ReorgHandlers
    <3> QED
      BY Zenon, <1>1, <1>3, <3>1 DEF rollback_transfer
  <2>2. handler' \in ReorgHandlers /\ handler'.doing = "reconcile"
        /\ handler'.of = handler.of /\ handler'.held = handler.held
    BY Zenon, <1>0, <2>1 DEF ReorgHandlers
  <2> QED
    BY Zenon, <1>1, <2>2
       DEF ReorgInv, ReorgTypes, ListHolds, EngineKnows, Locked, rollback_transfer
<1>4. CASE handler.todo # {t}
  <2>1. handler' = [handler EXCEPT !.todo = @ \ {t}]
    BY Zenon, <1>4 DEF rollback_transfer
  <2>2. /\ handler' \in ReorgHandlers /\ handler'.affected = handler.affected
        /\ handler'.todo = handler.todo \ {t} /\ handler.todo \subseteq ReorgTransfers
        /\ handler'.doing = handler.doing
        /\ handler'.of = handler.of /\ handler'.held = handler.held
    BY Zenon, <1>0, <2>1 DEF ReorgHandlers
  <2>3. ListHolds'
    BY Zenon, <1>0, <1>2, <2>2 DEF ReorgInv, ListHolds
  <2> QED
    BY Zenon, <1>0, <1>1, <2>2, <2>3
       DEF ReorgInv, ReorgTypes, EngineKnows, Locked, rollback_transfer
<1> QED
  BY Zenon, <1>3, <1>4

(* A verdict, and the handler goes on or is at rest.                       *)
LEMMA JudgeKeeps ==
    ASSUME ReorgInv, NEW t \in ReorgTransfers, NEW action, Judge(t, action),
           UNCHANGED <<chain, mined, last_known, stored, lock_height>>
    PROVE  ReorgInv'
<1>0. handler \in ReorgHandlers
  BY Zenon DEF ReorgInv, ReorgTypes
<1>1. /\ handler' \in ReorgHandlers /\ handler'.doing \in {"nothing", "reconcile"}
      /\ handler'.of = {} /\ (handler'.doing = "nothing" => ~handler'.revalidate)
  <2>1. \/ handler' = NoEvent
        \/ handler' = [handler EXCEPT !.doing = "reconcile", !.todo = @ \ {t},
                                      !.of = {}, !.held = FALSE]
    BY Zenon DEF Judge
  <2>2. CASE handler' = NoEvent
    BY Zenon, <2>2, NoEventTyped
  <2>3. CASE handler' = [handler EXCEPT !.doing = "reconcile", !.todo = @ \ {t},
                                        !.of = {}, !.held = FALSE]
    <3>1. handler' \in ReorgHandlers /\ handler'.doing = "reconcile" /\ handler'.of = {}
      BY Zenon, <1>0, <2>3 DEF ReorgHandlers
    <3> QED
      BY <3>1
  <2> QED
    BY Zenon, <2>1, <2>2, <2>3
<1>2. DOMAIN verdict' = ReorgTransfers
  BY Zenon DEF Judge, ReorgInv, ReorgTypes
<1>3. ReorgTypes'
  BY Zenon, <1>1, <1>2 DEF ReorgInv, ReorgTypes
<1>4. ListHolds' /\ EngineKnows'
  BY Zenon, <1>1 DEF ListHolds, EngineKnows
<1> QED
  BY Zenon, <1>3, <1>4 DEF ReorgInv

(* The engine takes a transfer up.                                         *)
LEMMA TakenUpKeeps ==
    ASSUME ReorgInv, NEW t \in ReorgTransfers, verify_lock_on_canonical_chain(t)
    PROVE  ReorgInv'
<1>0. handler \in ReorgHandlers /\ UNCHANGED <<chain, mined, last_known, stored, lock_height>>
  BY Zenon DEF ReorgInv, ReorgTypes, verify_lock_on_canonical_chain
<1>1. CASE /\ handler' = [handler EXCEPT !.doing = "block", !.of = {t}, !.held = Locked(t)]
           /\ UNCHANGED verdict
  <2>1. Locked(t) \in BOOLEAN /\ Locked(t)' = Locked(t)
    BY Zenon, <1>0 DEF Locked
  <2>2. handler' \in ReorgHandlers /\ handler'.doing = "block" /\ handler'.of = {t}
        /\ handler'.held = Locked(t)
    BY Zenon, <1>0, <1>1, <2>1 DEF ReorgHandlers
  <2>3. ReorgTypes'
    BY Zenon, <1>0, <1>1, <2>2 DEF ReorgInv, ReorgTypes
  <2>4. ListHolds' /\ EngineKnows'
    BY Zenon, <2>1, <2>2 DEF ListHolds, EngineKnows
  <2> QED
    BY Zenon, <2>3, <2>4 DEF ReorgInv
<1>2. CASE Reconciled(t) \/ Judge(t, "Compromised")
  BY Zenon, <1>0, <1>2, JudgeKeeps DEF Reconciled
<1> QED
  BY Zenon, <1>1, <1>2 DEF verify_lock_on_canonical_chain

(* A query to the chain; past the one for the commitment the lock was      *)
(* there.                                                                  *)
LEMMA AskedKeeps ==
    ASSUME ReorgInv, NEW t \in ReorgTransfers,
           get_block_hash(t) \/ verify_commitment_in_block(t) \/ rebuild_inclusion_proof(t)
    PROVE  ReorgInv'
<1>1. PICK next \in {"commitment", "rebuild", "proof"} :
        /\ handler.of = {t}
        /\ UNCHANGED <<chain, mined, last_known, stored, lock_height>>
        /\ \/ /\ next # "commitment" => Locked(t)
              /\ handler' = [handler EXCEPT !.doing = next] /\ UNCHANGED verdict
           \/ Judge(t, "Compromised")
  BY Zenon DEF get_block_hash, verify_commitment_in_block, rebuild_inclusion_proof, Asked
<1>2. CASE Judge(t, "Compromised")
  BY Zenon, <1>1, <1>2, JudgeKeeps
<1>3. CASE /\ next # "commitment" => Locked(t)
           /\ handler' = [handler EXCEPT !.doing = next] /\ UNCHANGED verdict
  <2>0. handler \in ReorgHandlers
    BY Zenon DEF ReorgInv, ReorgTypes
  <2>1. handler' \in ReorgHandlers /\ handler'.doing = next
        /\ handler'.of = handler.of /\ handler'.held = handler.held
    BY Zenon, <1>3, <2>0 DEF ReorgHandlers
  <2>2. ReorgTypes'
    BY Zenon, <1>1, <1>3, <2>1 DEF ReorgInv, ReorgTypes
  <2>3. ListHolds'
    BY <2>1 DEF ListHolds
  <2>4. EngineKnows'
    <3>1. Locked(t) => handler.held
      BY Zenon, <1>1 DEF ReorgInv, EngineKnows
    <3>2. \A u \in handler'.of : Locked(u)' => handler'.held
      BY Zenon, <1>1, <2>1 DEF ReorgInv, EngineKnows, Locked
    <3>3. handler'.doing \in {"rebuild", "proof"} => handler'.held
      BY <1>3, <2>1, <3>1
    <3>4. handler'.doing # "nothing"
      BY <2>1
    <3> QED
      BY Zenon, <3>2, <3>3, <3>4 DEF EngineKnows
  <2> QED
    BY Zenon, <2>2, <2>3, <2>4 DEF ReorgInv
<1> QED
  BY Zenon, <1>1, <1>2, <1>3

(* The monitor compares the tip with the last one; the list is read then.  *)
LEMMA UpdateKeeps ==
    ASSUME ReorgInv, NEW revalidate \in BOOLEAN, update(revalidate)
    PROVE  ReorgInv'
<1>0. /\ chain \in Seq(ReorgBlocks) /\ Len(chain) \in Nat /\ Len(chain) > 0
      /\ last_known \in Seq(ReorgTips) /\ stored \in [ReorgTransfers -> ReorgStates]
      /\ handler.doing = "nothing" /\ UNCHANGED <<chain, mined, stored, lock_height>>
      /\ DOMAIN verdict' = ReorgTransfers
  BY DEF ReorgInv, ReorgTypes, update
<1>1. Tip \in ReorgTips
  <2>1. chain[Len(chain)] \in ReorgBlocks
    BY <1>0
  <2> QED
    BY Zenon, <1>0, <2>1 DEF Tip, ReorgTips, ReorgBlocks
<1>2. CASE last_known # <<>> /\ IsReorg(last_known[1], Tip)
  <2> DEFINE todo == {t \in ReorgTransfers : lock_height[t] # 0}
  <2>1. /\ handler' = [doing |-> "rollback", old |-> last_known[1], new |-> Tip,
                       affected |-> stored, todo |-> todo,
                       revalidate |-> revalidate, of |-> {}, held |-> FALSE]
        /\ last_known' = last_known
    BY Zenon, <1>2 DEF update
  <2>2. last_known[1] \in ReorgTips
    BY <1>0, <1>2
  <2>3. todo \in SUBSET ReorgTransfers
    BY Zenon
  <2> HIDE DEF todo
  <2>4. /\ handler' \in ReorgHandlers /\ handler'.affected = stored
        /\ handler'.doing = "rollback" /\ handler'.of = {}
    BY Zenon, <1>0, <1>1, <2>1, <2>2, <2>3 DEF ReorgHandlers
  <2>5. ReorgTypes'
    BY Zenon, <1>0, <2>1, <2>4 DEF ReorgInv, ReorgTypes
  <2>6. ListHolds' /\ EngineKnows'
    BY Zenon, <1>0, <2>4 DEF ListHolds, EngineKnows
  <2> QED
    BY Zenon, <2>5, <2>6 DEF ReorgInv
<1>3. CASE ~(last_known # <<>> /\ IsReorg(last_known[1], Tip))
  <2>1. last_known' = <<Tip>> /\ handler' = handler
    BY Zenon, <1>3 DEF update
  <2>2. last_known' \in Seq(ReorgTips)
    BY <1>1, <2>1
  <2> QED
    BY Zenon, <1>0, <2>1, <2>2 DEF ReorgInv, ReorgTypes, ListHolds, EngineKnows, Locked
<1> QED
  BY Zenon, <1>2, <1>3

(* Every step of the chain, the drivers, the handler and the engine.       *)
LEMMA ReorgInvNext == ReorgInv /\ [ReorgNext]_reorgVars => ReorgInv'
<1> SUFFICES ASSUME ReorgInv, [ReorgNext]_reorgVars PROVE ReorgInv'
  OBVIOUS
<1>1. ASSUME nothing_affected PROVE ReorgInv'
  BY Zenon, <1>1, NoEventTyped
     DEF nothing_affected, ReorgInv, ReorgTypes, ListHolds, EngineKnows
<1>2. ASSUME UNCHANGED reorgVars PROVE ReorgInv'
  BY Zenon, <1>2 DEF reorgVars, ReorgInv, ReorgTypes, ListHolds, EngineKnows, Locked
<1>3. ASSUME NEW t \in ReorgTransfers, verify_proof_bundle(t) PROVE ReorgInv'
  BY Zenon, <1>3, JudgeKeeps DEF verify_proof_bundle, Reconciled
<1> QED
  BY Zenon, <1>1, <1>2, <1>3, MineKeeps, AdvanceKeeps, RollbackKeeps, TakenUpKeeps, AskedKeeps,
     UpdateKeeps DEF ReorgNext

BackwardStep ==
    \A t \in ReorgTransfers :
        handler.doing = "rollback" /\ (handler'.doing # "rollback" \/ handler'.todo # handler.todo)
            => \/ stored'[t] \in {stored[t], "rolled_back", "compromised"}
               \/ /\ stored[t] \notin {"rolled_back", "compromised"}
                  /\ Rank(stored'[t]) < Rank(stored[t])

(* Only rollback_transfer writes a state while the handler rolls back.     *)
LEMMA RollbackSteps == ReorgInv /\ [ReorgNext]_reorgVars => [BackwardStep]_reorgVars
<1> SUFFICES ASSUME ReorgInv, ReorgNext PROVE BackwardStep
  BY Zenon
<1>1. ASSUME NEW k, NEW locks, mine(k, locks) PROVE BackwardStep
  <2>1. handler'.doing = handler.doing /\ handler'.todo = handler.todo
    BY Zenon, <1>1 DEF mine, ReorgInv, ReorgTypes, ReorgHandlers
  <2> QED
    BY Zenon, <2>1 DEF BackwardStep
<1>2. ASSUME NEW t \in ReorgTransfers, advance(t) PROVE BackwardStep
  BY Zenon, <1>2 DEF advance, BackwardStep
<1>3. ASSUME NEW t \in ReorgTransfers, NEW saved \in BOOLEAN, NEW reread \in BOOLEAN,
             rollback_transfer(t, saved, reread)
      PROVE  BackwardStep
  <2>0. stored \in [ReorgTransfers -> ReorgStates]
    BY Zenon DEF ReorgInv, ReorgTypes
  <2>1. \A u \in ReorgTransfers : u # t => stored'[u] = stored[u]
    BY Zenon, <1>3, <2>0 DEF rollback_transfer
  <2>2. stored'[t] # stored[t] =>
           \/ stored'[t] \in {"rolled_back", "compromised"}
           \/ stored'[t] = "proof_validated" /\ handler.affected[t] = "minting"
    BY Zenon, <1>3, <2>0 DEF rollback_transfer, determine_rollback_action
  <2>3. handler.affected[t] = "minting" => stored[t] \in {"minting", "completed"}
    BY Zenon, <1>3 DEF rollback_transfer, ReorgInv, ListHolds
  <2>4. \/ stored'[t] \in {stored[t], "rolled_back", "compromised"}
        \/ /\ stored[t] \notin {"rolled_back", "compromised"}
           /\ Rank(stored'[t]) < Rank(stored[t])
    BY <2>2, <2>3, Ranks
  <2> QED
    BY Zenon, <2>1, <2>4 DEF BackwardStep
<1>4. ASSUME stored' = stored PROVE BackwardStep
  BY Zenon, <1>4 DEF BackwardStep
<1> QED
  BY Zenon, <1>1, <1>2, <1>3, <1>4
     DEF ReorgNext, verify_lock_on_canonical_chain, get_block_hash, verify_commitment_in_block,
         rebuild_inclusion_proof, Asked, verify_proof_bundle, update, nothing_affected

(* For any number of transfers and any reorganisations: the list that      *)
(* rollback_transfers writes from may be old, but no transfer is taken     *)
(* forward of where its driver has it, nor one that was given up out of    *)
(* that state.                                                             *)
THEOREM RollbackIsConservative == ReorgSpec => RollbackNeverForward
BY ReorgInvInit, ReorgInvNext, RollbackSteps, PTL DEF ReorgSpec, RollbackNeverForward, BackwardStep

ReconciledStep ==
    \A t \in ReorgTransfers :
        handler.revalidate /\ verdict'[t] \notin {verdict[t], "Compromised"}
            => handler.of = {t} /\ handler.held

(* The steps that leave a verdict.                                         *)
LEMMA VerdictSteps == ReorgInv /\ [ReorgNext]_reorgVars => [ReconciledStep]_reorgVars
<1> SUFFICES ASSUME ReorgInv, ReorgNext PROVE ReconciledStep
  BY Zenon
<1>0. DOMAIN verdict = ReorgTransfers
  BY Zenon DEF ReorgInv, ReorgTypes
<1>1. ASSUME NEW t \in ReorgTransfers, Judge(t, "Compromised") PROVE ReconciledStep
  <2>1. verdict' = [verdict EXCEPT ![t] = "Compromised"]
    BY Zenon, <1>1 DEF Judge
  <2>2. \A u \in ReorgTransfers : verdict'[u] \in {verdict[u], "Compromised"}
    BY <1>0, <2>1
  <2> QED
    BY Zenon, <2>2 DEF ReconciledStep
<1>2. ASSUME verdict' = verdict \/ ~handler.revalidate PROVE ReconciledStep
  BY Zenon, <1>2 DEF ReconciledStep
<1>3. ASSUME NEW t \in ReorgTransfers, verify_proof_bundle(t) PROVE ReconciledStep
  <2>1. handler.of = {t} /\ handler.held
    BY <1>3 DEF verify_proof_bundle, ReorgInv, EngineKnows
  <2>2. \A u \in ReorgTransfers : u # t => verdict'[u] = verdict[u]
    BY Zenon, <1>0, <1>3 DEF verify_proof_bundle, Reconciled, Judge
  <2> QED
    BY Zenon, <2>1, <2>2 DEF ReconciledStep
<1>4. ASSUME NEW t \in ReorgTransfers, verify_lock_on_canonical_chain(t) PROVE ReconciledStep
  BY Zenon, <1>1, <1>2, <1>4 DEF verify_lock_on_canonical_chain
<1>5. ASSUME NEW t \in ReorgTransfers,
             get_block_hash(t) \/ verify_commitment_in_block(t) \/ rebuild_inclusion_proof(t)
      PROVE  ReconciledStep
  BY Zenon, <1>1, <1>2, <1>5
     DEF get_block_hash, verify_commitment_in_block, rebuild_inclusion_proof, Asked
<1>6. ASSUME NEW revalidate \in BOOLEAN, update(revalidate) PROVE ReconciledStep
  <2>1. ~handler.revalidate
    BY Zenon, <1>6 DEF update, ReorgInv, EngineKnows
  <2> QED
    BY Zenon, <1>2, <2>1
<1> QED
  BY Zenon, <1>2, <1>3, <1>4, <1>5, <1>6
     DEF ReorgNext, mine, advance, rollback_transfer, nothing_affected

(* For any number of transfers and any reorganisations, and whatever the   *)
(* chain does between the five queries: with revalidate_proofs a transfer  *)
(* is reconciled only if its lock was at its height of the canonical chain *)
(* since the engine took it up.                                            *)
THEOREM ReconciliationSawTheLock == ReorgSpec => ReconciledWasLocked
BY ReorgInvInit, ReorgInvNext, VerdictSteps, PTL DEF ReorgSpec, ReconciledWasLocked, ReconciledStep

-----------------------------------------------------------------------------
(* Solana's slot synchronisation.                                          *)

WorkerStates == [at : {"none", "top", "tip", "block", "done"}, slot : Nat, target : Nat]

SyncTypes ==
    /\ head \in Nat
    /\ sync \in [synced : Nat, confirmed : Nat]
    /\ worker \in [Loops \cup SyncCallers -> WorkerStates]
    /\ observations \in Seq(Nat)

SlotsRead == Buffered \cup removed

ReadUpTo(n) == \A slot \in Active : slot <= n => slot \in SlotsRead

(* A worker has read every slot before its own, and its own once done.     *)
WorkerReads(w) ==
    /\ worker[w].at \in {"tip", "block"} =>
          worker[w].slot >= 1 /\ ReadUpTo(worker[w].slot - 1)
    /\ worker[w].at = "done" =>
          /\ ReadUpTo(worker[w].slot) /\ worker[w].slot <= head
          /\ worker[w].target <= worker[w].slot

SyncInv ==
    /\ SyncTypes
    /\ sync.synced <= head /\ ReadUpTo(sync.synced)
    /\ sync.confirmed > 0 => sync.confirmed + ConfirmedAfter <= head
    /\ \A w \in Loops \cup SyncCallers : WorkerReads(w)

(* Pushing to the buffer, even a full one, forgets no slot.                *)
LEMMA BufferKeeps ==
    ASSUME observations \in Seq(Nat), NEW slot \in Nat, buffer_observations(slot)
    PROVE  /\ observations' \in Seq(Nat)
           /\ SlotsRead \subseteq SlotsRead'
           /\ slot \in Active => slot \in SlotsRead'
<1>1. CASE slot \notin Active
  BY Zenon, <1>1 DEF buffer_observations, SlotsRead, Buffered
<1>2. CASE slot \in Active /\ Len(observations) = MaxBuffered
  <2>1. observations # <<>> /\ Len(observations) \in Nat \ {0}
    BY Zenon, <1>2, SlotSyncAssumption
  <2> DEFINE rest == Tail(observations)
  <2>2. /\ rest \in Seq(Nat) /\ Len(rest) = Len(observations) - 1
        /\ \A i \in 1 .. Len(rest) : rest[i] = observations[i + 1]
    BY <2>1
  <2>3. /\ observations' = Append(rest, slot)
        /\ removed' = removed \cup {observations[1]}
    BY <1>2, <2>1 DEF buffer_observations
  <2> HIDE DEF rest
  <2>4. /\ observations' \in Seq(Nat)
        /\ Len(observations') = Len(observations)
        /\ \A i \in 1 .. Len(rest) : observations'[i] = rest[i]
        /\ observations'[Len(observations)] = slot
    BY <2>1, <2>2, <2>3
  <2>5. slot \in Buffered'
    BY <2>1, <2>4 DEF Buffered
  <2>6. ASSUME NEW i \in 1 .. Len(observations), i # 1
        PROVE  observations[i] \in Buffered'
    <3>1. i - 1 \in 1 .. Len(rest) /\ i - 1 \in DOMAIN observations'
      BY <2>1, <2>2, <2>4, <2>6
    <3>2. observations'[i - 1] = observations[i]
      BY <2>2, <2>4, <3>1
    <3> QED
      BY Zenon, <3>1, <3>2 DEF Buffered
  <2>7. ASSUME NEW x \in Buffered PROVE x \in Buffered' \/ x \in removed'
    <3>1. PICK i \in DOMAIN observations : x = observations[i]
      BY Zenon, <2>7 DEF Buffered
    <3>2. i \in 1 .. Len(observations)
      OBVIOUS
    <3> QED
      BY Zenon, <2>3, <2>6, <3>1, <3>2
  <2> QED
    BY Zenon, <2>3, <2>4, <2>5, <2>7 DEF SlotsRead
<1>3. CASE slot \in Active /\ Len(observations) # MaxBuffered
  <2>1. observations' = Append(observations, slot) /\ removed' = removed
    BY Zenon, <1>3 DEF buffer_observations
  <2>2. /\ observations' \in Seq(Nat) /\ Len(observations') = Len(observations) + 1
        /\ \A i \in 1 .. Len(observations) : observations'[i] = observations[i]
        /\ observations'[Len(observations) + 1] = slot
    BY <2>1
  <2>3. Len(observations) + 1 \in DOMAIN observations'
    BY <2>2
  <2>4. slot \in Buffered'
    BY Zenon, <2>2, <2>3 DEF Buffered
  <2>5. ASSUME NEW i \in 1 .. Len(observations)
        PROVE  observations[i] \in Buffered'
    <3>1. i \in DOMAIN observations' /\ observations'[i] = observations[i]
      BY <2>2
    <3> QED
      BY <3>1 DEF Buffered
  <2>6. \A x \in Buffered : x \in Buffered'
    BY <2>5 DEF Buffered
  <2> QED
    BY Zenon, <2>1, <2>2, <2>4, <2>6 DEF SlotsRead
<1> QED
  BY Zenon, <1>1, <1>2, <1>3

(* What was read stays read.                                               *)
LEMMA ReadStays ==
    ASSUME NEW n, SlotsRead \subseteq SlotsRead', ReadUpTo(n)
    PROVE  \A slot \in Active : slot <= n => slot \in SlotsRead'
BY Zenon DEF ReadUpTo

(* A step in which one worker at most moves, and nothing read is lost.     *)
LEMMA OneWorkerMoves ==
    ASSUME SyncInv, NEW w \in Loops \cup SyncCallers, NEW v \in WorkerStates,
           worker' = [worker EXCEPT ![w] = v],
           head' = head, sync' \in [synced : Nat, confirmed : Nat],
           observations' \in Seq(Nat), SlotsRead \subseteq SlotsRead',
           WorkerReads(w)',
           sync'.synced <= head /\ ReadUpTo(sync'.synced),
           sync'.confirmed > 0 => sync'.confirmed + ConfirmedAfter <= head
    PROVE  SyncInv'
<1>1. SyncTypes'
  BY Zenon DEF SyncInv, SyncTypes
<1>2. ASSUME NEW u \in Loops \cup SyncCallers, u # w
      PROVE  WorkerReads(u)'
  <2>1. worker'[u] = worker[u]
    BY Zenon, <1>2 DEF SyncInv, SyncTypes
  <2> QED
    BY Zenon, <1>2, <2>1 DEF SyncInv, WorkerReads, ReadUpTo
<1>3. ReadUpTo(sync.synced)'
  BY DEF ReadUpTo
<1> QED
  BY Zenon, <1>1, <1>2, <1>3 DEF SyncInv

(* Steps that leave head, sync and the buffer to themselves.               *)
LEMMA WorkerStepKeeps ==
    ASSUME SyncInv, NEW w \in Loops \cup SyncCallers,
           \/ w \in Loops /\ (loop_ends(w) \/ sync_slot(w) \/ sync_tip(w))
           \/ process_slot_fails(w)
           \/ \E target \in 1 .. MaxSlot : sync_to_slot(w, target)
    PROVE  SyncInv'
<1>1. /\ UNCHANGED <<head, sync, observations, removed>>
      /\ SlotsRead' = SlotsRead
  BY DEF loop_ends, sync_slot, sync_tip, process_slot_fails, sync_to_slot, SlotsRead, Buffered
<1>2. sync.synced \in Nat /\ ReadUpTo(sync.synced)
      /\ NoWork \in WorkerStates /\ TopOfLoop \in WorkerStates
      /\ NoWork.at = "none" /\ TopOfLoop.at = "top"
  BY Zenon DEF SyncInv, SyncTypes, NoWork, TopOfLoop, WorkerStates
<1>3. worker[w] \in WorkerStates
  BY Zenon DEF SyncInv, SyncTypes
<1>4. PICK v \in WorkerStates :
        /\ worker' = [worker EXCEPT ![w] = v]
        /\ v.at # "done"
        /\ v.at \in {"tip", "block"} => v.slot >= 1 /\ ReadUpTo(v.slot - 1)
  <2>1. CASE loop_ends(w)
    BY Zenon, <2>1, <1>2 DEF loop_ends
  <2>2. CASE sync_slot(w)
    <3> DEFINE v == [at |-> "tip", slot |-> sync.synced + 1, target |-> 0]
    <3>1. v \in WorkerStates /\ v.slot - 1 = sync.synced /\ v.slot >= 1
      BY <1>2 DEF WorkerStates
    <3>2. worker' = [worker EXCEPT ![w] = v]
      BY Zenon, <2>2 DEF sync_slot
    <3> QED
      BY ZenonT(30), <1>2, <3>1, <3>2
  <2>3. CASE sync_tip(w)
    <3>1. CASE worker' = [worker EXCEPT ![w] = TopOfLoop]
      BY Zenon, <3>1, <1>2
    <3>2. CASE worker' = [worker EXCEPT ![w].at = "block"]
      <4> DEFINE v == [worker[w] EXCEPT !.at = "block"]
      <4>1. v \in WorkerStates /\ v.slot = worker[w].slot /\ v.at = "block"
        BY Zenon, <1>3 DEF WorkerStates
      <4>2. worker' = [worker EXCEPT ![w] = v]
        BY Zenon, <3>2 DEF SyncInv, SyncTypes
      <4>3. v.slot >= 1 /\ ReadUpTo(v.slot - 1)
        BY Zenon, <4>1, <2>3 DEF sync_tip, SyncInv, WorkerReads
      <4> QED
        BY Zenon, <4>1, <4>2, <4>3
    <3> QED
      BY Zenon, <3>1, <3>2, <2>3 DEF sync_tip
  <2>4. CASE process_slot_fails(w)
    BY Zenon, <2>4, <1>2 DEF process_slot_fails
  <2>5. ASSUME NEW target \in 1 .. MaxSlot, sync_to_slot(w, target)
        PROVE  \E v \in WorkerStates :
                 /\ worker' = [worker EXCEPT ![w] = v]
                 /\ v.at # "done"
                 /\ v.at \in {"tip", "block"} => v.slot >= 1 /\ ReadUpTo(v.slot - 1)
    <3> DEFINE v == [at |-> "block", slot |-> sync.synced + 1, target |-> target]
    <3>1. target \in Nat
      BY SlotSyncAssumption
    <3>2. v \in WorkerStates /\ v.slot - 1 = sync.synced /\ v.slot >= 1
      BY <1>2, <3>1 DEF WorkerStates
    <3>3. worker' = [worker EXCEPT ![w] = v]
      BY Zenon, <2>5 DEF sync_to_slot
    <3> QED
      BY Zenon, <1>2, <3>2, <3>3
  <2> QED
    BY Zenon, <2>1, <2>2, <2>3, <2>4, <2>5
<1>5. worker'[w] = v
  BY Zenon, <1>4 DEF SyncInv, SyncTypes
<1>6. WorkerReads(w)'
  BY Zenon, <1>1, <1>4, <1>5 DEF WorkerReads, ReadUpTo
<1> QED
  BY Zenon, <1>1, <1>4, <1>6, OneWorkerMoves DEF SyncInv, SyncTypes

(* A block was read: one slot more.                                        *)
LEMMA ProcessKeeps ==
    ASSUME SyncInv, NEW w \in Loops \cup SyncCallers, process_slot(w)
    PROVE  SyncInv'
<1> PICK slot : slot = worker[w].slot
  BY Zenon
<1>1. worker[w] \in WorkerStates /\ slot \in Nat /\ worker[w].target \in Nat /\ head \in Nat
  BY Zenon DEF SyncInv, SyncTypes, WorkerStates
<1>2. /\ worker[w].at = "block" /\ slot <= head
      /\ buffer_observations(slot)
      /\ head' = head /\ sync' = sync
  BY Zenon DEF process_slot
<1>3. /\ observations' \in Seq(Nat) /\ SlotsRead \subseteq SlotsRead'
      /\ slot \in Active => slot \in SlotsRead'
  BY Zenon, <1>1, <1>2, BufferKeeps DEF SyncInv, SyncTypes
<1>4. slot >= 1 /\ ReadUpTo(slot - 1)
  BY Zenon, <1>2 DEF SyncInv, WorkerReads
<1>5. \A s \in Active : s \in Nat
  BY SlotSyncAssumption
<1>6. \A s \in Active : s <= slot => s \in SlotsRead'
  BY <1>1, <1>3, <1>4, <1>5 DEF ReadUpTo
<1> DEFINE v == IF slot < worker[w].target THEN [worker[w] EXCEPT !.slot = slot + 1]
                ELSE [worker[w] EXCEPT !.at = "done"]
<1>7. worker' = [worker EXCEPT ![w] = v]
  BY Zenon DEF process_slot, SyncInv, SyncTypes
<1>8. v \in WorkerStates
  BY <1>1 DEF WorkerStates
<1>9. worker'[w] = v
  BY Zenon, <1>7 DEF SyncInv, SyncTypes
<1>10. CASE slot < worker[w].target
  <2>1. v.at = "block" /\ v.slot = slot + 1 /\ v.slot >= 1 /\ v.slot - 1 = slot
    BY <1>1, <1>2, <1>10 DEF WorkerStates
  <2>2. WorkerReads(w)'
    BY Zenon, <2>1, <1>6, <1>9 DEF WorkerReads, ReadUpTo
  <2> QED
    BY ZenonT(30), <2>2, <1>2, <1>3, <1>7, <1>8, OneWorkerMoves DEF SyncInv, SyncTypes
<1>11. CASE ~(slot < worker[w].target)
  <2>1. v.at = "done" /\ v.slot = slot /\ v.target <= slot
    BY <1>1, <1>11 DEF WorkerStates
  <2>2. WorkerReads(w)'
    BY Zenon, <2>1, <1>2, <1>6, <1>9 DEF WorkerReads, ReadUpTo
  <2> QED
    BY ZenonT(30), <2>2, <1>2, <1>3, <1>7, <1>8, OneWorkerMoves DEF SyncInv, SyncTypes
<1> QED
  BY Zenon, <1>10, <1>11

(* A worker writes what it has read into the state.                        *)
LEMMA SyncedKeeps ==
    ASSUME SyncInv, NEW w \in Loops \cup SyncCallers, slot_synced(w) \/ target_synced(w)
    PROVE  SyncInv'
<1>1. /\ worker[w] \in WorkerStates /\ worker[w].slot \in Nat /\ worker[w].target \in Nat
      /\ head \in Nat /\ sync \in [synced : Nat, confirmed : Nat] /\ ConfirmedAfter \in Nat
  BY Zenon, SlotSyncAssumption DEF SyncInv, SyncTypes, WorkerStates
<1>2. worker[w].at = "done"
  BY Zenon DEF slot_synced, target_synced
<1>3. /\ ReadUpTo(worker[w].slot) /\ worker[w].slot <= head
      /\ worker[w].target <= worker[w].slot
  BY Zenon, <1>2 DEF SyncInv, WorkerReads
<1>4. \A s \in Active : s \in Nat
  BY SlotSyncAssumption
<1>5. ReadUpTo(worker[w].target) /\ worker[w].target <= head
  BY <1>1, <1>3, <1>4 DEF ReadUpTo
<1>6. UNCHANGED <<head, observations, removed>> /\ SlotsRead' = SlotsRead
  BY DEF slot_synced, target_synced, SlotsRead, Buffered
<1>7. /\ NoWork \in WorkerStates /\ TopOfLoop \in WorkerStates
      /\ NoWork.at = "none" /\ TopOfLoop.at = "top"
  BY DEF NoWork, TopOfLoop, WorkerStates
<1>8. PICK v \in {NoWork, TopOfLoop} : worker' = [worker EXCEPT ![w] = v]
  BY Zenon DEF slot_synced, target_synced
<1>9. worker'[w] = v
  BY Zenon, <1>8 DEF SyncInv, SyncTypes
<1>10. WorkerReads(w)'
  BY Zenon, <1>7, <1>8, <1>9 DEF WorkerReads
<1>11. CASE slot_synced(w)
  <2> DEFINE slot == worker[w].slot
             c == IF slot >= ConfirmedAfter THEN slot - ConfirmedAfter ELSE sync.confirmed
  <2>1. sync' = [synced |-> slot, confirmed |-> c]
    BY Zenon, <1>11 DEF slot_synced
  <2>2. c \in Nat
    BY <1>1
  <2>3. c > 0 => c + ConfirmedAfter <= head
    BY <1>1, <1>3 DEF SyncInv
  <2>4. sync' \in [synced : Nat, confirmed : Nat] /\ sync'.synced = slot /\ sync'.confirmed = c
    BY Zenon, <2>1, <2>2, <1>1
  <2> HIDE DEF c
  <2> QED
    BY ZenonT(30), <2>3, <2>4, <1>3, <1>6, <1>7, <1>8, <1>10, OneWorkerMoves DEF SyncInv, SyncTypes
<1>12. CASE target_synced(w)
  <2>1. sync' = [sync EXCEPT !.synced = worker[w].target]
    BY Zenon, <1>12 DEF target_synced
  <2>2. /\ sync' \in [synced : Nat, confirmed : Nat]
        /\ sync'.synced = worker[w].target /\ sync'.confirmed = sync.confirmed
    BY Zenon, <2>1, <1>1
  <2> QED
    BY ZenonT(30), <2>2, <1>5, <1>6, <1>7, <1>8, <1>10, OneWorkerMoves DEF SyncInv, SyncTypes
<1> QED
  BY Zenon, <1>11, <1>12

(* The chain, the consumer, and the calls that start and stop the loop.    *)
LEMMA OtherStepKeeps ==
    ASSUME SyncInv,
           \/ NextSlot \/ drain_observations \/ start \/ initialize_state \/ stop
           \/ UNCHANGED syncVars
    PROVE  SyncInv'
<1>1. CASE NextSlot
  <2>1. head' = head + 1 /\ head \in Nat /\ UNCHANGED <<sync, worker, observations, removed>>
    BY Zenon, <1>1 DEF NextSlot, SyncInv, SyncTypes
  <2>2. SlotsRead' = SlotsRead
    BY Zenon, <2>1 DEF SlotsRead, Buffered
  <2>3. ASSUME NEW w \in Loops \cup SyncCallers
        PROVE  WorkerReads(w)'
    <3>1. worker[w].slot \in Nat /\ WorkerReads(w)
      BY Zenon DEF SyncInv, SyncTypes, WorkerStates
    <3> QED
      BY <2>1, <2>2, <3>1 DEF WorkerReads, ReadUpTo
  <2>4. SyncTypes' /\ ReadUpTo(sync.synced)'
    BY <2>1, <2>2 DEF SyncInv, SyncTypes, ReadUpTo
  <2>5. sync.synced \in Nat /\ sync.confirmed \in Nat /\ ConfirmedAfter \in Nat
    BY Zenon, SlotSyncAssumption DEF SyncInv, SyncTypes
  <2> QED
    BY <2>1, <2>3, <2>4, <2>5 DEF SyncInv
<1>2. CASE drain_observations
  <2>1. /\ observations' = <<>> /\ removed' = removed \cup Buffered
        /\ UNCHANGED <<head, sync, worker>>
    BY Zenon, <1>2 DEF drain_observations
  <2>2. SlotsRead \subseteq SlotsRead'
    BY Zenon, <2>1 DEF SlotsRead
  <2>3. \A n : ReadUpTo(n) => \A s \in Active : s <= n => s \in SlotsRead'
    BY Zenon, <2>2, ReadStays
  <2>4. \A w \in Loops \cup SyncCallers : WorkerReads(w)'
    BY Zenon, <2>1, <2>2 DEF SyncInv, WorkerReads, ReadUpTo
  <2>5. SyncTypes' /\ ReadUpTo(sync.synced)'
    BY <2>1, <2>2 DEF SyncInv, SyncTypes, ReadUpTo
  <2> QED
    BY Zenon, <2>1, <2>4, <2>5 DEF SyncInv
<1>3. CASE \/ start \/ stop \/ UNCHANGED syncVars
           \/ initialize_state /\ worker' = worker
  <2>1. UNCHANGED <<head, sync, worker, observations, removed>>
    BY Zenon, <1>3 DEF start, stop, initialize_state, syncVars
  <2> QED
    BY Zenon, <2>1 DEF SyncInv, SyncTypes, WorkerReads, ReadUpTo, SlotsRead, Buffered
<1>4. CASE initialize_state /\ worker' # worker
  <2>1. /\ UNCHANGED <<head, sync, observations, removed>>
        /\ \E w \in Loops : worker' = [worker EXCEPT ![w] = TopOfLoop]
    BY Zenon, <1>4 DEF initialize_state
  <2>2. PICK w \in Loops : worker' = [worker EXCEPT ![w] = TopOfLoop]
    BY Zenon, <2>1
  <2>3. TopOfLoop \in WorkerStates /\ TopOfLoop.at = "top" /\ SlotsRead' = SlotsRead
    BY Zenon, <2>1 DEF TopOfLoop, NoWork, WorkerStates, SlotsRead, Buffered
  <2>4. worker'[w] = TopOfLoop
    BY Zenon, <2>2 DEF SyncInv, SyncTypes
  <2>5. WorkerReads(w)'
    BY Zenon, <2>3, <2>4 DEF WorkerReads
  <2> QED
    BY ZenonT(30), <2>1, <2>2, <2>3, <2>5, OneWorkerMoves DEF SyncInv, SyncTypes
<1> QED
  BY Zenon, <1>1, <1>2, <1>3, <1>4

(* For any number of loops and callers, any set of active slots and any    *)
(* size of the buffer: no slot below the synced one was passed over, and   *)
(* what is given as confirmed is as old as it must be.                     *)
THEOREM SyncMissesNothing == SlotSyncSpec => []SyncedSlotsWereRead
<1>1. SlotSyncInit => SyncInv
  <2> SUFFICES ASSUME SlotSyncInit PROVE SyncInv
    OBVIOUS
  <2>1. NoWork \in WorkerStates /\ NoWork.at = "none"
    BY Zenon DEF NoWork, WorkerStates
  <2>2. SyncTypes
    BY <2>1 DEF SlotSyncInit, SyncTypes
  <2>3. \A w \in Loops \cup SyncCallers : WorkerReads(w)
    BY Zenon, <2>1 DEF SlotSyncInit, WorkerReads
  <2>4. sync.synced = 0 /\ sync.confirmed = 0 /\ head = 0
    BY Zenon DEF SlotSyncInit
  <2>5. ReadUpTo(0)
    BY SlotSyncAssumption DEF ReadUpTo
  <2> QED
    BY <2>2, <2>3, <2>4, <2>5 DEF SyncInv
<1>2. SyncInv /\ [SlotSyncNext]_syncVars => SyncInv'
  BY Zenon, WorkerStepKeeps, ProcessKeeps, SyncedKeeps, OtherStepKeeps DEF SlotSyncNext
<1>3. SyncInv => SyncedSlotsWereRead
  BY SlotSyncAssumption DEF SyncInv, SyncTypes, SyncedSlotsWereRead, ReadUpTo, SlotsRead
<1> QED
  BY <1>1, <1>2, <1>3, PTL DEF SlotSyncSpec
=============================================================================
