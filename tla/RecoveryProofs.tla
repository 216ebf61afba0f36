--------------------------- MODULE RecoveryProofs ---------------------------
(***************************************************************************)
(* What resuming and settling transfers rely on, for any number of         *)
(* transfers, sanads, callers, clerks and faults.                          *)
(*                                                                         *)
(* Resuming: a call that has not stored its row yet is alone on its        *)
(* transfer and its entry is blank (DriveOK, Shared), and an entry has the *)
(* payload, or the row the mint hash, that going on from it needs          *)
(* (EntryOK).  Settling: evidence is recorded of minted sanads only, and   *)
(* the step of a clerk says whom the escrow paid (ClerkOK).                *)
(***************************************************************************)
EXTENDS TransferCoordinatorProofs, Settlement

(***************************************************************************)
(* What resuming relies on, when every execute comes with a new id.        *)
(***************************************************************************)

(* The steps before the lock is journalled, and before the row is stored.  *)
Opening == {"receipt", "init", "consume", "initialized", "gates", "lock_enter"}

Unstored == Opening \cup {"lock_check", "lock", "lock_failed", "locked", "lock_store"}

Early == {"None", "Initialized"}

Entries == [phase : Phases, payload : BOOLEAN, context : BOOLEAN]

Blank(e) == ~e.payload /\ ~e.context /\ e.phase \in {"None", "Initialized", "LockConfirmed"}

(* What the step of a call says of the row of its sanad and of the entry   *)
(* of its transfer.                                                        *)
DriveOK(c, row, e) ==
    c.at # "idle" =>
        /\ ~c.cached /\ c.at # "store"
        /\ c.at \in Unstored => row.id # c.transfer /\ Blank(e)
        /\ c.at \notin Opening => e.phase \notin Early
        /\ c.at = "mint_submitted" /\ row.id = c.transfer => row.minted
        /\ OneTask /\ c.at # "return" => e.phase # "Completed"

(* Two calls on one transfer: neither opens it, and they may be two.       *)
Shared(c, d) == c.at # "idle" /\ d.at # "idle" /\ c.transfer = d.transfer

(* What the journal's latest entry has when resuming from it needs it.     *)
EntryOK(t, row, e) ==
    /\ e.phase \in Early => Blank(e)
    /\ e.phase = "ProofValidated" => e.payload
    /\ row.id = t => e.phase \notin Early /\ (e.phase = "MintSubmitted" => e.payload \/ row.minted)

ResumeInv ==
    /\ \A k \in Tasks : DriveOK(task[k], registry[Sanad(k)], journal[Transfer(k)])
    /\ \A j, k \in Tasks :
          j # k /\ Shared(task[j], task[k]) => ~OneTask /\ task[k].at \notin Unstored
    /\ \A t \in Transfers : EntryOK(t, registry[SanadOf[t]], journal[t])

Rows == [id : Transfers \cup {NoTransfer}, minted : BOOLEAN]

(* Call k of transfer t becomes d, t's entry e and its sanad's row row.    *)
Drives(k, t, d, e, row) ==
    /\ task[k].at # "idle" /\ t = Transfer(k) /\ e \in Entries /\ row \in Rows
    /\ task' = [task EXCEPT ![k] = d]
    /\ journal' = [journal EXCEPT ![t] = e]
    /\ registry' = [registry EXCEPT ![SanadOf[t]] = row]
    /\ row = registry[SanadOf[t]] \/ row.id = t
    /\ d.at # "idle" => d.transfer = t /\ DriveOK(d, row, e)
    /\ d.at \in Unstored => task[k].at \in Unstored
    /\ task[k].at \notin Unstored =>
          e.phase \notin Early /\ (row = registry[SanadOf[t]] \/ row.minted)
    /\ EntryOK(t, row, e)

(* Such a step keeps the invariant, of the other calls too.                *)
LEMMA DriveMoves ==
    ASSUME IInv, ResumeInv, NEW k \in Tasks, NEW t \in Transfers, NEW d, NEW e, NEW row,
           Drives(k, t, d, e, row)
    PROVE  ResumeInv'
<1> USE DEF Transfer, Sanad, Drives
<1>0. PICK s \in Sanads : s = SanadOf[t]
  BY Zenon, CoordinatorAssumption
<1>1. /\ task \in [Tasks -> Calls] /\ journal \in [Transfers -> Entries]
      /\ registry \in [Sanads -> Rows]
  BY Zenon DEF IInv, TypeOK, Calls, Entries, Rows
<1>2. /\ task'[k] = d /\ \A j \in Tasks : j # k => task'[j] = task[j]
      /\ journal'[t] = e /\ \A u \in Transfers : u # t => journal'[u] = journal[u]
      /\ registry'[s] = row /\ \A r \in Sanads : r # s => registry'[r] = registry[r]
  BY Zenon, <1>0, <1>1
<1>3. \A u \in Transfers : SanadOf[u] \in Sanads
  BY Zenon, CoordinatorAssumption
<1>4. ASSUME NEW j \in Tasks
      PROVE  DriveOK(task'[j], registry'[SanadOf[task'[j].transfer]], journal'[task'[j].transfer])
  <2>1. CASE j = k
    BY <1>0, <1>2, <2>1 DEF DriveOK
  <2>2. CASE j # k /\ task[j].at # "idle"
    <3>1. /\ task'[j] = task[j] /\ task[j].transfer \in Transfers
          /\ DriveOK(task[j], registry[SanadOf[task[j].transfer]], journal[task[j].transfer])
      BY Zenon, <1>2, <2>2 DEF ResumeInv, IInv, TypeOK, Active
    <3>2. CASE task[j].transfer = t
      <4>1. ~OneTask /\ task[j].at \notin Unstored /\ task[k].at \notin Unstored
        BY Zenon, <2>2, <3>2 DEF ResumeInv, Shared
      <4>2. e.phase \notin Early /\ (row = registry[s] \/ row.minted)
        BY Zenon, <1>0, <4>1
      <4> QED
        BY <1>0, <1>2, <3>1, <3>2, <4>1, <4>2 DEF DriveOK
    <3>3. CASE task[j].transfer # t
      <4>1. journal'[task[j].transfer] = journal[task[j].transfer]
        BY Zenon, <1>2, <3>1, <3>3
      <4>2. \/ registry'[SanadOf[task[j].transfer]] = registry[SanadOf[task[j].transfer]]
            \/ registry'[SanadOf[task[j].transfer]].id = t
        BY SMTT(30), <1>0, <1>2, <1>3, <3>1
      <4> QED
        BY Zenon, <3>1, <3>3, <4>1, <4>2 DEF DriveOK
    <3> QED
      BY Zenon, <3>2, <3>3
  <2>3. CASE j # k /\ task[j].at = "idle"
    BY Zenon, <1>2, <2>3 DEF DriveOK
  <2> QED
    BY Zenon, <2>1, <2>2, <2>3
<1>5. ASSUME NEW i \in Tasks, NEW j \in Tasks, i # j, Shared(task'[i], task'[j])
      PROVE  ~OneTask /\ task'[j].at \notin Unstored
  <2>1. Shared(task[i], task[j])
    BY <1>2, <1>5 DEF Shared
  <2>2. /\ ~OneTask /\ task[j].at \notin Unstored
    BY Zenon, <1>5, <2>1 DEF ResumeInv
  <2> QED
    BY Zenon, <1>2, <2>2
<1>6. ASSUME NEW u \in Transfers
      PROVE  EntryOK(u, registry'[SanadOf[u]], journal'[u])
  <2>1. CASE u = t
    BY Zenon, <1>0, <1>2, <2>1
  <2>2. CASE u # t
    <3>1. /\ journal'[u] = journal[u] /\ EntryOK(u, registry[SanadOf[u]], journal[u])
          /\ registry'[SanadOf[u]] = registry[SanadOf[u]] \/ registry'[SanadOf[u]].id = t
      BY Zenon, <1>0, <1>2, <1>3, <2>2 DEF ResumeInv
    <3> QED
      BY Zenon, <2>2, <3>1 DEF EntryOK
  <2> QED
    BY Zenon, <2>1, <2>2
<1> QED
  BY Zenon, <1>4, <1>5, <1>6 DEF ResumeInv

(* What a call that is under way says of the state.                        *)
LEMMA UnderWay ==
    ASSUME IInv, ResumeInv, NEW k \in Tasks, task[k].at # "idle"
    PROVE  /\ Transfer(k) \in Transfers /\ Sanad(k) \in Sanads /\ Sanad(k) = SanadOf[Transfer(k)]
           /\ DriveOK(task[k], registry[Sanad(k)], journal[Transfer(k)])
           /\ EntryOK(Transfer(k), registry[Sanad(k)], journal[Transfer(k)])
           /\ journal[Transfer(k)] \in Entries
           /\ registry[Sanad(k)] \in Rows
           /\ journal = [journal EXCEPT ![Transfer(k)] = journal[Transfer(k)]]
           /\ registry = [registry EXCEPT ![Sanad(k)] = registry[Sanad(k)]]
<1>1. Transfer(k) \in Transfers
  BY Zenon DEF IInv, TypeOK, Active
<1>2. Sanad(k) \in Sanads /\ Sanad(k) = SanadOf[Transfer(k)]
  BY Zenon, <1>1, CoordinatorAssumption DEF Sanad
<1>3. /\ journal \in [Transfers -> Entries]
      /\ registry \in [Sanads -> Rows]
  BY Zenon DEF IInv, TypeOK, Entries, Rows
<1>4. /\ DriveOK(task[k], registry[Sanad(k)], journal[Transfer(k)])
      /\ EntryOK(Transfer(k), registry[Sanad(k)], journal[Transfer(k)])
  BY <1>1, <1>2 DEF ResumeInv
<1> QED
  BY Zenon, <1>1, <1>2, <1>3, <1>4

(* A step of a call that writes neither its entry nor its row.             *)
LEMMA QuietMoves ==
    ASSUME IInv, ResumeInv, NEW k \in Tasks, NEW d, task[k].at # "idle",
           task' = [task EXCEPT ![k] = d], UNCHANGED <<journal, registry>>,
           d.at # "idle" => /\ d.transfer = Transfer(k)
                            /\ DriveOK(d, registry[Sanad(k)], journal[Transfer(k)]),
           d.at \in Unstored => task[k].at \in Unstored
    PROVE  ResumeInv'
<1> PICK t, s, e, row : /\ t = Transfer(k) /\ s = Sanad(k)
                        /\ e = journal[Transfer(k)] /\ row = registry[Sanad(k)]
  BY Zenon
<1>1. /\ t \in Transfers /\ s \in Sanads /\ s = SanadOf[t] /\ e \in Entries
      /\ row \in Rows
      /\ DriveOK(task[k], row, e) /\ EntryOK(t, row, e) /\ row = registry[s]
      /\ journal' = [journal EXCEPT ![t] = e] /\ registry' = [registry EXCEPT ![s] = row]
  BY Zenon, UnderWay
<1>2. task[k].at \notin Unstored => e.phase \notin Early
  BY <1>1 DEF DriveOK, Unstored
<1>3. d.at # "idle" => d.transfer = t /\ DriveOK(d, row, e)
  BY Zenon
<1>4. Drives(k, t, d, e, row)
  BY ZenonT(30), <1>1, <1>2, <1>3 DEF Drives
<1> QED
  BY Zenon, <1>1, <1>4, DriveMoves

(* A call ends.                                                            *)
LEMMA EndDrives ==
    ASSUME IInv, ResumeInv, NEW k \in Tasks, task[k].at # "idle", Return(k),
           UNCHANGED <<journal, registry>>
    PROVE  ResumeInv'
<1>1. task' = [task EXCEPT ![k] = Idle] /\ Idle.at = "idle"
  BY DEF Return, Idle
<1>2. Idle.at \notin Unstored
  BY <1>1 DEF Unstored, Opening
<1> QED
  BY ZenonT(30), <1>1, <1>2, QuietMoves

(* What a step that writes nothing must inherit.                           *)
GoesOK(from, to) ==
    /\ from \notin {"idle", "return"} /\ to \notin {"idle", "store", "mint_submitted"}
    /\ to \in Unstored => from \in Unstored
    /\ to \notin Opening => from \notin Opening

(* A call goes on, or tries again, without a write.                        *)
LEMMA GoDrives ==
    ASSUME IInv, ResumeInv, NEW k \in Tasks, NEW to, GoesOK(task[k].at, to), NEW n,
           task' = [task EXCEPT ![k] = [at |-> to, transfer |-> Transfer(k), attempt |-> n,
                                        cached |-> task[k].cached]],
           UNCHANGED <<journal, registry>>
    PROVE  ResumeInv'
<1> PICK d : d = [at |-> to, transfer |-> Transfer(k), attempt |-> n, cached |-> task[k].cached]
  BY Zenon
<1>1. /\ d.at = to /\ d.transfer = Transfer(k) /\ d.cached = task[k].cached
      /\ task' = [task EXCEPT ![k] = d] /\ task[k].at # "idle"
  BY Zenon DEF GoesOK
<1>2. DriveOK(task[k], registry[Sanad(k)], journal[Transfer(k)])
  BY Zenon, <1>1, UnderWay
<1>3. DriveOK(d, registry[Sanad(k)], journal[Transfer(k)])
  BY Zenon, <1>1, <1>2 DEF DriveOK, GoesOK, Transfer
<1>4. d.at \in Unstored => task[k].at \in Unstored
  BY <1>1 DEF GoesOK
<1> QED
  BY ZenonT(30), <1>1, <1>3, <1>4, QuietMoves

(* What a step that records an entry must make of it.                      *)
RecordsOK(from, e, to) ==
    /\ from # "idle" /\ to \notin {"idle", "store", "mint_submitted"} /\ e \in Entries
    /\ to \in Unstored => from \in Unstored /\ Blank(e)
    /\ to \notin Opening \/ from \notin Unstored => e.phase \notin Early
    /\ e.phase \in Early => Blank(e)
    /\ e.phase = "ProofValidated" => e.payload
    /\ e.phase = "MintSubmitted" => e.payload \/ from = "mint_submitted"
    /\ to # "return" => e.phase # "Completed"

(* A call records the entry of its transfer and goes on.                   *)
LEMMA RecordDrives ==
    ASSUME IInv, ResumeInv, NEW k \in Tasks, NEW from, NEW e, NEW to, Record(k, from, e, to),
           RecordsOK(from, e, to)
    PROVE  ResumeInv'
<1> PICK d : d = [at |-> to, transfer |-> Transfer(k), attempt |-> 0, cached |-> task[k].cached]
  BY Zenon
<1>1. /\ d.at = to /\ d.transfer = Transfer(k) /\ d.cached = task[k].cached
      /\ task' = [task EXCEPT ![k] = d] /\ task[k].at # "idle" /\ task[k].at = from
      /\ journal' = [journal EXCEPT ![Transfer(k)] = e] /\ UNCHANGED registry
  BY Zenon DEF RecordsOK, Record, Goto, Call
<1>2. DriveOK(task[k], registry[Sanad(k)], journal[Transfer(k)])
  BY Zenon, <1>1, UnderWay
<1>3. DriveOK(d, registry[Sanad(k)], e)
  BY Zenon, <1>1, <1>2 DEF DriveOK, RecordsOK, Transfer
<1>4. task[k].at \notin Unstored => e.phase \notin Early
  BY Zenon, <1>1 DEF RecordsOK
<1>5. d.at \in Unstored => task[k].at \in Unstored
  BY Zenon, <1>1 DEF RecordsOK
<1>6. EntryOK(Transfer(k), registry[Sanad(k)], e)
  BY Zenon, <1>1, <1>2, <1>4 DEF DriveOK, EntryOK, RecordsOK, Transfer
<1>7. e \in Entries
  BY DEF RecordsOK
<1>8. Drives(k, Transfer(k), d, e, registry[Sanad(k)])
  BY ZenonT(30), <1>1, <1>3, <1>4, <1>5, <1>6, <1>7, UnderWay DEF Drives
<1> QED
  BY Zenon, <1>1, <1>8, UnderWay, DriveMoves

(* A row is stored without a mint hash at first, with one later.           *)
StoresOK(from, minted, to) ==
    /\ minted \in BOOLEAN
    /\ from \notin {"idle", "return"} \cup Opening /\ to \notin {"idle", "store"} \cup Unstored
    /\ to = "mint_submitted" => minted
    /\ minted => from \notin Unstored
    /\ ~minted => from = "lock_store"

(* A call stores its sanad's row and goes on.                              *)
LEMMA StoreDrives ==
    ASSUME IInv, ResumeInv, NEW k \in Tasks, NEW from, NEW minted, NEW to,
           store_transfer_entry(k, from, minted, to), StoresOK(from, minted, to)
    PROVE  ResumeInv'
<1> USE DEF StoresOK
<1> PICK d, row : /\ d = [at |-> to, transfer |-> Transfer(k), attempt |-> 0,
                          cached |-> task[k].cached]
                  /\ row = [id |-> Transfer(k), minted |-> minted]
  BY Zenon
<1>1. /\ d.at = to /\ d.transfer = Transfer(k) /\ d.cached = task[k].cached
      /\ row.id = Transfer(k) /\ row.minted = minted
      /\ task' = [task EXCEPT ![k] = d] /\ task[k].at # "idle" /\ task[k].at = from
      /\ registry' = [registry EXCEPT ![Sanad(k)] = row] /\ UNCHANGED journal
  BY Zenon DEF store_transfer_entry, Goto, Call
<1>2. /\ DriveOK(task[k], registry[Sanad(k)], journal[Transfer(k)])
      /\ row \in Rows
      /\ journal[Transfer(k)] \in Entries
  BY Zenon, <1>1, UnderWay DEF Rows
<1>3. journal[Transfer(k)].phase \notin Early
  BY Zenon, <1>1, <1>2 DEF DriveOK
<1>4. DriveOK(d, row, journal[Transfer(k)])
  BY Zenon, <1>1, <1>2, <1>3 DEF DriveOK
<1>5. task[k].at \notin Unstored => row.minted
  BY Zenon, <1>1 DEF Unstored
<1>6. ~minted => Blank(journal[Transfer(k)])
  BY Zenon, <1>1, <1>2 DEF DriveOK, Unstored
<1>7. EntryOK(Transfer(k), row, journal[Transfer(k)])
  <2>1. CASE minted
    <3>1. journal[Transfer(k)].phase = "ProofValidated" => journal[Transfer(k)].payload
      BY Zenon, <1>1, UnderWay DEF EntryOK
    <3> QED
      BY Zenon, <1>1, <1>3, <2>1, <3>1 DEF EntryOK
  <2>2. CASE ~minted
    BY Zenon, <1>1, <1>3, <1>6, <2>2 DEF EntryOK, Blank
  <2> QED
    BY Zenon, <2>1, <2>2
<1>8. d.at \in Unstored => task[k].at \in Unstored
  BY <1>1
<1>9. Drives(k, Transfer(k), d, journal[Transfer(k)], row)
  BY ZenonT(30), <1>1, <1>2, <1>3, <1>4, <1>5, <1>7, <1>8, UnderWay DEF Drives
<1> QED
  BY Zenon, <1>1, <1>9, UnderWay, DriveMoves

(* Every step of execute_outcome.                                          *)
LEMMA FreshDrives ==
    ASSUME IInv, ResumeInv, NEW k \in Tasks, execute_step(k)
    PROVE  ResumeInv'
<1> USE DEF Opening, Unstored
<1>1. /\ RecordsOK("init", Bare("Initialized"), "consume")
      /\ RecordsOK("initialized", Bare("Initialized"), "gates")
      /\ RecordsOK("lock_enter", Bare("LockConfirmed"), "lock_check")
      /\ RecordsOK("lock_failed", Bare("LockConfirmed"), "rollback")
      /\ RecordsOK("locked", Bare("LockConfirmed"), "lock_store")
      /\ RecordsOK("await", Bare("AwaitingFinality"), "finality")
      /\ RecordsOK("final", Bare("AwaitingFinality"), "proof_enter")
      /\ RecordsOK("proof_enter", Bare("ProofBuilding"), "build")
      /\ RecordsOK("verified", Bare("ProofBuilding"), "proof")
      /\ RecordsOK("proof", Entry("ProofValidated", TRUE, FALSE), "mint_check")
  BY Zenon DEF RecordsOK, Bare, Entry, Entries, Blank, Early, Phases
<1>2. /\ RecordsOK("mint_blocked", Bare("MintConfirmed"), "rollback")
      /\ RecordsOK("mint_enter", Bare("MintConfirmed"), "mint")
      /\ RecordsOK("mint_failed", Bare("MintConfirmed"), "return")
      /\ RecordsOK("mint_submitted", Bare("MintSubmitted"), "mint_confirmed")
      /\ RecordsOK("mint_confirmed", Bare("MintConfirmed"), "confirm")
      /\ RecordsOK("complete", Bare("Completed"), "return")
  BY DEF RecordsOK, Bare, Entry, Entries, Blank, Early, Phases
<1>3. CASE initialize_complete(k)
  <2>1. task[k].at = "initialized" /\ task[k].at # "idle"
    BY Zenon, <1>3 DEF initialize_complete, Record
  <2>2. ~task[k].cached
    BY Zenon, <2>1, UnderWay DEF DriveOK
  <2>3. Record(k, "initialized", Bare("Initialized"), "gates")
    BY Zenon, <1>3, <2>2 DEF initialize_complete
  <2> QED
    BY <2>3, <1>1, RecordDrives, Zenon
<1>4. CASE \/ initialized(k) \/ lock_entered(k) \/ lock_failed(k) \/ lock_complete(k)
           \/ await_entered(k) \/ await_complete(k) \/ proof_entered(k) \/ proof_complete(k)
           \/ proof_validated(k)
  BY <1>1, <1>4, RecordDrives, Zenon DEF initialized, lock_entered, lock_failed, lock_complete,
     await_entered, await_complete, proof_entered, proof_complete, proof_validated
<1>5. CASE \/ mint_blocked(k) \/ mint_entered(k) \/ mint_failed(k) \/ mint_submitted(k)
           \/ mint_confirmed(k) \/ completed(k)
  BY <1>2, <1>5, RecordDrives, Zenon DEF mint_blocked, mint_entered, mint_failed, mint_submitted,
     mint_confirmed, completed
<1>6. CASE store_with_lock_hash(k)
  <2>1. task[k].at = "store"
    BY <1>6 DEF store_with_lock_hash, store_transfer_entry
  <2> QED
    BY Zenon, <2>1, UnderWay DEF DriveOK
<1>7. CASE lock_store(k) \/ mint_store(k) \/ confirm_store(k)
  <2>1. /\ StoresOK("lock_store", FALSE, "await") /\ StoresOK("minted", TRUE, "mint_submitted")
        /\ StoresOK("confirm_store", TRUE, "complete_event")
    BY DEF StoresOK
  <2> QED
    BY <1>7, <2>1, StoreDrives, Zenon DEF lock_store, mint_store, confirm_store
<1>8. ASSUME NEW to, task[k].at # "idle", UNCHANGED <<journal, registry>>,
             Return(k) \/ (GoesOK(task[k].at, to) /\ (Goto(k, to) \/ (to = task[k].at /\ Retry(k))))
      PROVE  ResumeInv'
  <2>1. CASE Return(k)
    BY Zenon, <1>8, <2>1, EndDrives
  <2>2. CASE GoesOK(task[k].at, to) /\ Goto(k, to)
    BY Zenon, <1>8, <2>2, GoDrives DEF Goto, Call
  <2>3. CASE GoesOK(task[k].at, to) /\ to = task[k].at /\ Retry(k)
    BY Zenon, <1>8, <2>3, GoDrives DEF Retry
  <2> QED
    BY Zenon, <1>8, <2>1, <2>2, <2>3
<1>9. ASSUME NEW from, NEW fact, NEW done, NEW failed, Attempt(k, from, fact, done, failed),
             GoesOK(from, from) /\ GoesOK(from, done) /\ GoesOK(from, failed)
      PROVE  ResumeInv'
  <2>1. /\ task[k].at = from /\ UNCHANGED <<journal, registry>>
        /\ Goto(k, done) \/ Retry(k) \/ Goto(k, failed)
    BY Zenon, <1>9 DEF Attempt
  <2>2. from # "idle"
    BY Zenon, <1>9 DEF GoesOK
  <2> QED
    BY Zenon, <1>8, <1>9, <2>1, <2>2
<1>10. CASE lock_sanad(k) \/ mint_sanad(k)
  <2>1. /\ GoesOK("lock", "lock") /\ GoesOK("lock", "locked") /\ GoesOK("lock", "lock_failed")
        /\ GoesOK("mint", "mint") /\ GoesOK("mint", "minted") /\ GoesOK("mint", "mint_failed")
    BY Zenon DEF GoesOK
  <2> QED
    BY Zenon, <1>9, <1>10, <2>1 DEF lock_sanad, mint_sanad
<1>11. ASSUME \/ completed_receipt_for(k) \/ consume(k) \/ capability_gates(k) \/ lock_check(k)
              \/ rollback(k) \/ finality_gate(k) \/ build_inclusion_proof(k) \/ verify_proof(k)
              \/ mint_check(k) \/ evidence(k) \/ complete_event(k) \/ return(k) \/ confirm(k)
       PROVE  ResumeInv'
  <2>1. /\ UNCHANGED <<journal, registry>>
        /\ \/ Return(k) /\ task[k].at \in {"receipt", "consume", "gates", "lock_check", "rollback",
                                           "finality", "verify", "return", "confirm"}
           \/ \E move \in {<<"receipt", "init">>, <<"consume", "initialized">>,
                           <<"gates", "lock_enter">>, <<"lock_check", "lock">>,
                           <<"finality", "final">>, <<"build", "verify">>,
                           <<"verify", "verified">>, <<"mint_check", "mint_enter">>,
                           <<"mint_check", "mint_blocked">>, <<"confirm", "evidence">>,
                           <<"evidence", "confirm_store">>, <<"complete_event", "complete">>} :
                 task[k].at = move[1] /\ Goto(k, move[2])
    BY <1>11 DEF completed_receipt_for, consume, capability_gates, lock_check, rollback,
       finality_gate, build_inclusion_proof, verify_proof, mint_check, evidence,
       complete_event, return, confirm, Confirm, Gate
  <2>2. CASE Return(k)
    <3>1. task[k].at # "idle" \/ ~Return(k)
      BY <2>1, <2>2
    <3> QED
      BY Zenon, <1>8, <2>1, <2>2, <3>1
  <2>3. ASSUME NEW from, NEW to, task[k].at = from, Goto(k, to), GoesOK(from, to)
        PROVE  ResumeInv'
    BY Zenon, <1>8, <2>1, <2>3 DEF GoesOK
  <2> QED
    BY SMTT(30), <2>1, <2>2, <2>3 DEF GoesOK
<1> QED
  BY <1>3, <1>4, <1>5, <1>6, <1>7, <1>10, <1>11, Zenon DEF execute_step

(* Every step of a resumed transfer.                                       *)
LEMMA ResumeDrives ==
    ASSUME IInv, ResumeInv, NEW k \in Tasks, resume_step(k)
    PROVE  ResumeInv'
<1> USE DEF Opening, Unstored
<1>1. /\ RecordsOK("r_await", Entry("AwaitingFinality", FALSE, TRUE), "r_finality")
      /\ RecordsOK("r_final", Bare("AwaitingFinality"), "r_proof_enter")
      /\ RecordsOK("r_proof_enter", Bare("ProofBuilding"), "r_build")
      /\ RecordsOK("r_verified", Entry("ProofBuilding", TRUE, FALSE), "r_proof")
      /\ RecordsOK("r_proof", Entry("ProofValidated", TRUE, FALSE), "r_from_proof")
      /\ RecordsOK("r_mint_enter", Entry("MintSubmitted", TRUE, FALSE), "r_mint")
      /\ RecordsOK("r_submitted", Entry("MintSubmitted", TRUE, FALSE), "r_from_mint")
      /\ RecordsOK("r_mint_confirmed", Bare("MintConfirmed"), "r_complete")
      /\ RecordsOK("r_complete", Bare("Completed"), "return")
  BY DEF RecordsOK, Bare, Entry, Entries, Blank, Early, Phases
<1>2. CASE \/ r_await_entered(k) \/ r_await_complete(k) \/ r_proof_entered(k)
           \/ r_proof_complete(k) \/ r_proof_validated(k) \/ r_mint_entered(k)
           \/ r_mint_submitted(k) \/ r_mint_confirmed(k) \/ r_completed(k)
  BY <1>1, <1>2, RecordDrives, Zenon DEF r_await_entered, r_await_complete, r_proof_entered,
     r_proof_complete, r_proof_validated, r_mint_entered, r_mint_submitted, r_mint_confirmed,
     r_completed
<1>3. CASE r_mint_store(k) \/ r_confirm_store(k)
  <2>1. StoresOK("r_minted", TRUE, "r_submitted") /\ StoresOK("r_store", TRUE, "r_mint_confirmed")
    BY Zenon DEF StoresOK
  <2> QED
    BY <1>3, <2>1, StoreDrives, Zenon DEF r_mint_store, r_confirm_store
<1>4. ASSUME \/ r_finality_gate(k) \/ r_verify_proof(k) \/ r_reverify(k) \/ execute_from_proof(k)
             \/ r_mint_sanad(k) \/ execute_from_mint(k) \/ r_confirm(k)
             \/ record_resumed_settlement_evidence(k)
      PROVE  ResumeInv'
  <2>1. /\ UNCHANGED <<journal, registry>>
        /\ \/ Return(k) /\ task[k].at \in {"r_finality", "r_build", "r_reverify", "r_from_proof",
                                           "r_mint", "r_from_mint", "r_confirm"}
           \/ \E move \in {<<"r_finality", "r_final">>, <<"r_build", "r_verified">>,
                           <<"r_reverify", "r_from_proof">>, <<"r_from_proof", "r_mint_enter">>,
                           <<"r_mint", "r_minted">>, <<"r_from_mint", "r_confirm">>,
                           <<"r_confirm", "r_evidence">>, <<"r_evidence", "r_store">>} :
                 task[k].at = move[1] /\ Goto(k, move[2])
    BY Zenon, <1>4 DEF r_finality_gate, r_verify_proof, r_reverify, execute_from_proof, r_mint_sanad,
       execute_from_mint, r_confirm, record_resumed_settlement_evidence, Check, Confirm, Gate
  <2>2. CASE Return(k)
    <3>1. task[k].at # "idle" \/ ~Return(k)
      BY <2>1, <2>2
    <3> QED
      BY Zenon, <2>1, <2>2, <3>1, EndDrives
  <2>3. ASSUME NEW from, NEW to, task[k].at = from, Goto(k, to), GoesOK(from, to)
        PROVE  ResumeInv'
    BY Zenon, <2>1, <2>3, GoDrives DEF Goto, Call
  <2> QED
    BY SMTT(30), <2>1, <2>2, <2>3 DEF GoesOK
<1> QED
  BY <1>2, <1>3, <1>4, Zenon DEF resume_step

(* A transfer that can be resumed is past its opening.                     *)
LEMMA ResumableIsStored ==
    ASSUME IInv, ResumeInv, NEW t \in Transfers, ResumePoint(t) # "idle"
    PROVE  /\ journal[t].phase \notin Early \cup {"Completed"} /\ ResumePoint(t) \in Steps
           /\ ResumePoint(t) \notin Unstored \cup {"store", "mint_submitted", "return"}
           /\ \A j \in Tasks : task[j].at # "idle" /\ task[j].transfer = t => task[j].at \notin Unstored
<1>1. /\ journal[t] \in Entries /\ EntryOK(t, registry[SanadOf[t]], journal[t])
  BY Zenon, SMTT(30) DEF IInv, TypeOK, Entries, ResumeInv
<1>2. /\ journal[t].phase \notin Early \cup {"Completed"}
      /\ ResumePoint(t) \in {"r_await", "r_reverify", "r_from_proof", "r_from_mint"}
      /\ Cached(t) \/ journal[t].context \/ journal[t].payload
  BY Zenon, <1>1 DEF ResumePoint, EntryOK, Early, Cached, Entries, Phases
<1>3. ASSUME NEW j \in Tasks, task[j].at # "idle", task[j].transfer = t, task[j].at \in Unstored
      PROVE  FALSE
  <2>1. registry[SanadOf[t]].id # t /\ Blank(journal[t])
    BY Zenon, <1>3 DEF ResumeInv, DriveOK, Sanad, Transfer
  <2> QED
    BY Zenon, <1>2, <2>1 DEF Cached, Blank
<1> QED
  BY Zenon, <1>2, <1>3 DEF Unstored, Opening, Steps

(* A call starts: a new transfer is nobody's, a resumed one is stored.     *)
LEMMA StartDrives ==
    ASSUME FreshIds, IInv, ResumeInv, NEW k \in Tasks, NEW t \in Transfers,
           execute_outcome(k, t) \/ resume_transfer_outcome(k, t)
    PROVE  ResumeInv'
<1> USE DEF Transfer, Sanad
<1>1. PICK d : /\ d \in [at : Steps, transfer : {t}, attempt : {0}, cached : BOOLEAN]
               /\ task' = [task EXCEPT ![k] = d] /\ UNCHANGED <<journal, registry>>
               /\ \/ /\ d.at = "receipt" /\ ~d.cached /\ journal[t].phase = "None"
                     /\ \A j \in Tasks : task[j].transfer # t
                  \/ d.at = ResumePoint(t) /\ ResumePoint(t) # "idle" /\ ~d.cached
               /\ OneTask => \A j \in Tasks : task[j].at # "idle" => task[j].transfer # t
  <2>1. CASE execute_outcome(k, t)
    BY Zenon, <2>1 DEF execute_outcome, Call, Free, Active, Steps
  <2>2. CASE resume_transfer_outcome(k, t)
    <3>1. ResumePoint(t) \in Steps /\ ResumePoint(t) # "idle" /\ ResumePoint(t) # "receipt"
      BY Zenon, <2>2, ResumableIsStored DEF resume_transfer_outcome, Unstored, Opening
    <3> PICK d : d = [at |-> ResumePoint(t), transfer |-> t, attempt |-> 0, cached |-> FALSE]
      BY Zenon
    <3>2. task' = [task EXCEPT ![k] = d] /\ UNCHANGED <<journal, registry>>
      BY ZenonT(30), <2>2, <3>1 DEF resume_transfer_outcome, Call
    <3>3. OneTask => \A j \in Tasks : task[j].at # "idle" => task[j].transfer # t
      BY Zenon, <2>2 DEF resume_transfer_outcome, Free, Active
    <3>4. d \in [at : Steps, transfer : {t}, attempt : {0}, cached : BOOLEAN]
          /\ d.at = ResumePoint(t) /\ ~d.cached
      BY Zenon, <3>1
    <3> QED
      BY <3>1, <3>2, <3>3, <3>4, Zenon
  <2> QED
    BY Zenon, <2>1, <2>2
<1>2. /\ task'[k] = d /\ \A j \in Tasks : j # k => task'[j] = task[j]
      /\ d.transfer = t
  BY Zenon, <1>1 DEF IInv, TypeOK
<1>3. /\ DriveOK(d, registry[SanadOf[t]], journal[t])
      /\ \A j \in Tasks : task[j].at # "idle" /\ task[j].transfer = t =>
            ~OneTask /\ task[j].at \notin Unstored /\ d.at \notin Unstored
  <2>1. CASE d.at = ResumePoint(t) /\ ResumePoint(t) # "idle" /\ ~d.cached
    BY Zenon, <1>1, <2>1, ResumableIsStored DEF DriveOK, Unstored, Opening
  <2>2. CASE d.at = "receipt" /\ ~d.cached /\ journal[t].phase = "None"
             /\ \A j \in Tasks : task[j].transfer # t
    <3>1. EntryOK(t, registry[SanadOf[t]], journal[t])
      BY Zenon DEF ResumeInv
    <3>2. registry[SanadOf[t]].id # t /\ Blank(journal[t])
      BY Zenon, <2>2, <3>1 DEF EntryOK, Early
    <3> QED
      BY Zenon, <1>1, <2>2, <3>2 DEF DriveOK, Blank, Unstored, Opening
  <2> QED
    BY Zenon, <1>1, <2>1, <2>2
<1>4. \A j \in Tasks : DriveOK(task'[j], registry'[SanadOf[task'[j].transfer]], journal'[task'[j].transfer])
  BY Zenon, <1>1, <1>2, <1>3 DEF ResumeInv
<1>5. ASSUME NEW i \in Tasks, NEW j \in Tasks, i # j, Shared(task'[i], task'[j])
      PROVE  ~OneTask /\ task'[j].at \notin Unstored
  BY Zenon, <1>2, <1>3, <1>5 DEF ResumeInv, Shared
<1> QED
  BY Zenon, <1>1, <1>4, <1>5 DEF ResumeInv

(* Every step of Next keeps the invariant.                                 *)
LEMMA NextDrives ==
    ASSUME FreshIds, IInv, ResumeInv, [Next]_vars
    PROVE  ResumeInv'
<1>1. ASSUME NEW k \in Tasks, interrupt(k)
      PROVE  ResumeInv'
  <2>1. task[k].at # "idle" /\ Return(k) /\ UNCHANGED <<journal, registry>>
    BY <1>1, Zenon DEF interrupt, Active
  <2> QED
    BY <2>1, EndDrives, Zenon
<1>2. ASSUME NEW k \in Tasks, lose_failed_entry(k)
      PROVE  ResumeInv'
  <2>1. /\ task[k].at \in {"lock_failed", "mint_blocked"} /\ Goto(k, "rollback")
        /\ UNCHANGED <<journal, registry>>
    BY Zenon, <1>2 DEF lose_failed_entry
  <2>2. GoesOK(task[k].at, "rollback")
    BY Zenon, <2>1 DEF GoesOK, Unstored, Opening
  <2> QED
    BY <2>1, <2>2, GoDrives, Zenon DEF Goto, Call
<1>3. CASE crash
  BY Zenon, <1>3 DEF crash, ResumeInv, DriveOK, Shared, Idle, Sanad, Transfer
<1>4. ASSUME UNCHANGED <<task, journal, registry>>
      PROVE  ResumeInv'
  BY <1>4 DEF ResumeInv, Sanad, Transfer
<1>5. ASSUME \/ \E s \in Sanads : finalize(s)
             \/ elapse \/ attempt_circuit_breaker_recovery \/ UNCHANGED vars
      PROVE  ResumeInv'
  BY <1>4, <1>5, Zenon DEF finalize, elapse, attempt_circuit_breaker_recovery, vars
<1> QED
  BY <1>1, <1>2, <1>3, <1>5, StartDrives, FreshDrives, ResumeDrives, Zenon DEF Next, Step

(* Nothing is called, journalled or stored at first.                       *)
LEMMA InitDrives == Init => ResumeInv
BY CoordinatorAssumption
DEF Init, ResumeInv, DriveOK, Shared, EntryOK, Blank, Bare, Entry, NoRow, Early, Idle, Sanad,
    Transfer

(* Both invariants, when every execute comes with a new id.                *)
LEMMA ResumeInvHolds == ASSUME FreshIds PROVE Spec => [](IInv /\ ResumeInv)
<1>1. Init => IInv /\ ResumeInv
  BY Zenon, InitHolds, InitDrives
<1>2. IInv /\ ResumeInv /\ [Next]_vars => (IInv /\ ResumeInv)'
  BY Zenon, NextPreserves, NextDrives
<1> QED
  BY <1>1, <1>2, PTL DEF Spec

(* With a new id for every execute, no resumed call ever sends a lock,     *)
(* however many callers resume and execute at the same time.               *)
THEOREM ResumingNeverLocks == ASSUME FreshIds PROVE Spec => []ResumeNeverLocks
<1>1. ResumeInv => ResumeNeverLocks
  BY DEF ResumeInv, ResumeNeverLocks, DriveOK
<1> QED
  BY <1>1, ResumeInvHolds, PTL

(* With a new id for every execute, a pending slot whose row names a       *)
(* transfer can be driven on by resuming that transfer.                    *)
THEOREM PendingIsResumable == ASSUME FreshIds PROVE Spec => []PendingResumable
<1>1. IInv /\ ResumeInv => PendingResumable
  <2> SUFFICES ASSUME IInv, ResumeInv, NEW t \in Transfers, replay[SanadOf[t]] = "Pending",
                      Cached(t), journal[t].phase # "MintConfirmed"
               PROVE  ResumePoint(t) # "idle"
    BY Zenon DEF PendingResumable
  <2>1. /\ journal[t] \in Entries /\ EntryOK(t, registry[SanadOf[t]], journal[t])
        /\ journal[t].phase # "Completed"
    BY DEF IInv, TypeOK, Entries, ResumeInv, CompletedOnlyConsumed
  <2> QED
    BY Zenon, <2>1 DEF ResumePoint, EntryOK, Early, Cached, Entries, Phases
<1> QED
  BY <1>1, ResumeInvHolds, PTL

(* The steps that write the journal.                                       *)
JournalSteps ==
    {"init", "initialized", "lock_enter", "lock_failed", "locked", "await", "final", "proof_enter",
     "verified", "proof", "mint_blocked", "mint_enter", "mint_failed", "mint_submitted",
     "mint_confirmed", "complete", "r_await", "r_final", "r_proof_enter", "r_verified", "r_proof",
     "r_mint_enter", "r_submitted", "r_mint_confirmed", "r_complete"}

(* With a new id for every execute and calls on one sanad that exclude     *)
(* each other, nothing takes the journal of a transfer back from Completed. *)
THEOREM CompletedIsTerminal == ASSUME FreshIds, OneTask PROVE Spec => CompletedIsFinal
<1>1. ASSUME IInv, ResumeInv, [Next]_vars, NEW t \in Transfers, journal[t].phase = "Completed"
      PROVE  journal'[t].phase = "Completed"
  <2>1. ASSUME NEW k \in Tasks, NEW from, NEW e, NEW to, Record(k, from, e, to),
               from \in JournalSteps
        PROVE  journal'[t] = journal[t]
    <3>1. task[k].at = from /\ journal' = [journal EXCEPT ![Transfer(k)] = e]
      BY Zenon, <2>1 DEF Record
    <3>2. Transfer(k) # t
      BY Zenon, <1>1, <2>1, <3>1 DEF ResumeInv, DriveOK, JournalSteps
    <3> QED
      BY Zenon, <1>1, <3>1, <3>2 DEF IInv, TypeOK
  <2>2. ASSUME NEW k \in Tasks, execute_step(k)
        PROVE  journal'[t] = journal[t]
    <3>1. ASSUME \/ initialized(k) \/ initialize_complete(k) \/ lock_entered(k) \/ lock_failed(k)
                 \/ lock_complete(k) \/ await_entered(k) \/ await_complete(k) \/ proof_entered(k)
                 \/ proof_complete(k) \/ proof_validated(k) \/ mint_blocked(k) \/ mint_entered(k)
                 \/ mint_failed(k) \/ mint_submitted(k) \/ mint_confirmed(k) \/ completed(k)
          PROVE  journal'[t] = journal[t]
      BY ZenonT(30), <2>1, <3>1 DEF JournalSteps, initialized, initialize_complete, lock_entered, lock_failed,
         lock_complete, await_entered, await_complete, proof_entered, proof_complete,
         proof_validated, mint_blocked, mint_entered, mint_failed, mint_submitted,
         mint_confirmed, completed
    <3>2. ASSUME \/ store_with_lock_hash(k) \/ lock_store(k) \/ mint_store(k) \/ confirm_store(k)
                 \/ lock_sanad(k) \/ mint_sanad(k) \/ confirm(k)
          PROVE  journal'[t] = journal[t]
      BY <3>2, Zenon DEF store_with_lock_hash, lock_store, mint_store, confirm_store, lock_sanad,
         mint_sanad, confirm, store_transfer_entry, Attempt, Confirm
    <3>3. ASSUME \/ completed_receipt_for(k) \/ consume(k) \/ capability_gates(k) \/ lock_check(k)
                 \/ rollback(k) \/ finality_gate(k) \/ build_inclusion_proof(k)
                 \/ verify_proof(k) \/ mint_check(k) \/ evidence(k) \/ complete_event(k) \/ return(k)
          PROVE  journal'[t] = journal[t]
      BY <3>3, Zenon DEF completed_receipt_for, consume, capability_gates, lock_check, rollback,
         finality_gate, build_inclusion_proof, verify_proof, mint_check, evidence,
         complete_event, return
    <3> QED
      BY <2>2, <3>1, <3>2, <3>3, Zenon DEF execute_step
  <2>3. ASSUME NEW k \in Tasks, resume_step(k)
        PROVE  journal'[t] = journal[t]
    <3>1. ASSUME \/ r_await_entered(k) \/ r_await_complete(k) \/ r_proof_entered(k)
                 \/ r_proof_complete(k) \/ r_proof_validated(k) \/ r_mint_entered(k)
                 \/ r_mint_submitted(k) \/ r_mint_confirmed(k) \/ r_completed(k)
          PROVE  journal'[t] = journal[t]
      BY ZenonT(30), <2>1, <3>1 DEF JournalSteps, r_await_entered, r_await_complete, r_proof_entered, r_proof_complete,
         r_proof_validated, r_mint_entered, r_mint_submitted, r_mint_confirmed, r_completed
    <3>2. ASSUME \/ r_finality_gate(k) \/ r_verify_proof(k) \/ r_reverify(k)
                 \/ execute_from_proof(k) \/ r_confirm(k) \/ r_mint_store(k) \/ r_confirm_store(k)
                 \/ r_mint_sanad(k) \/ execute_from_mint(k)
                 \/ record_resumed_settlement_evidence(k)
          PROVE  journal'[t] = journal[t]
      BY <3>2, Zenon DEF r_finality_gate, r_verify_proof, r_reverify, execute_from_proof,
         r_confirm, r_mint_store, r_confirm_store, r_mint_sanad, execute_from_mint,
         record_resumed_settlement_evidence, Check, Confirm, store_transfer_entry
    <3> QED
      BY <2>3, <3>1, <3>2, Zenon DEF resume_step
  <2>4. ASSUME NEW k \in Tasks,
               \/ \E u \in Transfers : execute_outcome(k, u) \/ resume_transfer_outcome(k, u)
               \/ interrupt(k) \/ lose_failed_entry(k)
        PROVE  journal'[t] = journal[t]
    BY <2>4, Zenon DEF execute_outcome, resume_transfer_outcome, interrupt, lose_failed_entry
  <2>5. ASSUME \/ \E s \in Sanads : finalize(s)
               \/ elapse \/ attempt_circuit_breaker_recovery \/ crash \/ UNCHANGED vars
        PROVE  journal'[t] = journal[t]
    BY <2>5, Zenon DEF finalize, elapse, attempt_circuit_breaker_recovery, crash, vars
  <2>6. journal'[t] = journal[t]
    BY <1>1, <2>2, <2>3, <2>4, <2>5, Zenon DEF Next, Step
  <2> QED
    BY Zenon, <1>1, <2>6
<1>2. IInv /\ ResumeInv /\ [Next]_vars =>
        [\A t \in Transfers : journal[t].phase = "Completed" => journal'[t].phase = "Completed"]_vars
  BY Zenon, <1>1
<1> QED
  BY <1>2, ResumeInvHolds, PTL DEF Spec, CompletedIsFinal

(***************************************************************************)
(* Settling.                                                               *)
(***************************************************************************)

Outcomes == {"released", "refunded"}

(* What a clerk's step says of the escrow it settles.                      *)
ClerkOK(c) ==
    /\ clerk[c].at # "idle" => clerk[c].sanad \in Sanads
    /\ clerk[c].at = "release" => "minted" \in chain[clerk[c].sanad]
    /\ clerk[c].at = "released" => escrow[clerk[c].sanad] = "operator"
    /\ clerk[c].at = "refunded" => escrow[clerk[c].sanad] = "locker"

EvidenceOfMint == \A s \in Sanads : "evidence" \in Kinds(s) => "minted" \in chain[s]

SettlementInv ==
    /\ IInv
    /\ events = [s \in Sanads |-> events[s]]
    /\ escrow = [s \in Sanads |-> escrow[s]]
    /\ clerk = [c \in Clerks |-> clerk[c]]
    /\ \A c \in Clerks : ClerkOK(c)
    /\ EvidenceOfMint /\ ReleasedOnlyMinted /\ RecordsMatchEscrow

(* A step of the transfers records no settlement, and evidence of one only *)
(* for what is minted.                                                     *)
Advances ==
    /\ events' = [s \in Sanads |-> events'[s]]
    /\ \A s \in Sanads :
          /\ chain[s] \subseteq chain'[s]
          /\ \A x \in Kinds(s)' :
                \/ x \in Kinds(s)
                \/ x \notin Outcomes /\ (x = "evidence" => "minted" \in chain[s])

(* One event at most is added to one log.                                  *)
LEMMA EmitAdds ==
    ASSUME NEW s \in Sanads, NEW kind, NEW v, Emit(s, kind, v),
           events = [r \in Sanads |-> events[r]]
    PROVE  /\ events' = [r \in Sanads |-> events'[r]]
           /\ \A r \in Sanads : \A x \in Kinds(r)' : x \in Kinds(r) \/ (r = s /\ x = kind)
<1>1. CASE UNCHANGED events
  BY Zenon, <1>1 DEF Kinds
<1>2. CASE events' = [events EXCEPT ![s] = append(@, v, <<kind, v>>)]
  <2>1. events' = [r \in Sanads |-> events'[r]]
    BY Zenon, <1>2
  <2>2. ASSUME NEW r \in Sanads, NEW x \in Kinds(r)', r # s
        PROVE  x \in Kinds(r)
    <3>1. events'[r] = events[r]
      BY Zenon, <1>2, <2>2
    <3> QED
      BY Zenon, <2>2, <3>1 DEF Kinds
  <2>3. ASSUME NEW x \in Kinds(s)'
        PROVE  x \in Kinds(s) \/ x = kind
    <3>1. events'[s] = append(events[s], v, <<kind, v>>)
      BY Zenon, <1>2
    <3>2. events'[s] = events[s] \/ events'[s] = Put(events[s], v, <<kind, v>>)
      BY Zenon, <3>1 DEF append
    <3>3. CASE events'[s] = events[s]
      BY Zenon, <2>3, <3>3 DEF Kinds
    <3>4. CASE events'[s] = Put(events[s], v, <<kind, v>>)
      <4>1. PICK w \in DOMAIN events'[s] : x = events'[s][w][1]
        BY Zenon, <2>3 DEF Kinds
      <4>2. w \in DOMAIN events[s] \cup {v}
            /\ events'[s][w] = IF w = v THEN <<kind, v>> ELSE events[s][w]
        BY Zenon, <3>4, <4>1 DEF Put
      <4> QED
        BY <4>1, <4>2 DEF Kinds
    <3> QED
      BY Zenon, <3>2, <3>3, <3>4
  <2> QED
    BY Zenon, <2>1, <2>2, <2>3
<1> QED
  BY Zenon, <1>1, <1>2 DEF Emit

(* A step that leaves the event store alone.                               *)
LEMMA SilentAdvances ==
    ASSUME UNCHANGED events, \A s \in Sanads : chain[s] \subseteq chain'[s],
           events = [r \in Sanads |-> events[r]]
    PROVE  Advances
BY DEF Advances, Kinds

(* A step that reports one event.                                          *)
LEMMA EmitAdvances ==
    ASSUME NEW s \in Sanads, NEW kind, NEW v, Emit(s, kind, v), UNCHANGED chain,
           events = [r \in Sanads |-> events[r]], kind \notin Outcomes,
           kind = "evidence" => "minted" \in chain[s]
    PROVE  Advances
<1>1. /\ events' = [r \in Sanads |-> events'[r]]
      /\ \A r \in Sanads : \A x \in Kinds(r)' : x \in Kinds(r) \/ (r = s /\ x = kind)
  BY EmitAdds, Zenon
<1> QED
  BY <1>1, Zenon DEF Advances

(* Chain facts are only added.                                             *)
LEMMA FactsStay ==
    ASSUME IInv, NEW s, NEW fact,
           UNCHANGED chain \/ chain' = [chain EXCEPT ![s] = @ \cup {fact}]
    PROVE  \A r \in Sanads : chain[r] \subseteq chain'[r]
BY DEF IInv, TypeOK

(* Every step of a call advances chains and events.                        *)
LEMMA CallsAdvance ==
    ASSUME IInv, events = [r \in Sanads |-> events[r]], NEW k \in Tasks,
           execute_step(k) \/ resume_step(k)
    PROVE  Advances
<1>0. \A s \in Sanads : chain[s] \subseteq chain[s]
  BY Zenon
<1>a. UNCHANGED <<events, chain>> => Advances
  BY Zenon, <1>0, SilentAdvances
<1>b. task[k].at # "idle" => Sanad(k) \in Sanads
  BY Zenon, CoordinatorAssumption DEF IInv, TypeOK, Active, Sanad, Transfer
<1>c. task[k].at \in Minted => "minted" \in chain[Sanad(k)]
  BY DEF IInv, CallsOK, CallOK, Sanad, Transfer, Minted, Confirmed
<1>1. ASSUME NEW from, NEW entry, NEW to, Record(k, from, entry, to)
      PROVE  Advances
  BY Zenon, <1>1, <1>a DEF Record
<1>2. ASSUME NEW from, NEW minted, NEW to, store_transfer_entry(k, from, minted, to)
      PROVE  Advances
  BY Zenon, <1>2, <1>a DEF store_transfer_entry
<1>3. ASSUME NEW from, NEW to, Confirm(k, from, to) \/ Check(k, from, to)
      PROVE  Advances
  BY Zenon, <1>3, <1>a DEF Confirm, Check
<1>4. ASSUME NEW fact, UNCHANGED events,
             UNCHANGED chain \/ chain' = [chain EXCEPT ![Sanad(k)] = @ \cup {fact}]
      PROVE  Advances
  <2>1. \A r \in Sanads : chain[r] \subseteq chain'[r]
    BY Zenon, <1>4, FactsStay
  <2> QED
    BY Zenon, <1>4, <2>1, SilentAdvances
<1>5. ASSUME NEW from, NEW fact, NEW done, NEW failed, Attempt(k, from, fact, done, failed)
      PROVE  Advances
  BY ZenonT(30), <1>4, <1>5 DEF Attempt
<1>6. ASSUME NEW kind, NEW v, Emit(Sanad(k), kind, v), UNCHANGED chain, task[k].at # "idle",
             kind \notin Outcomes, kind = "evidence" => task[k].at \in Minted
      PROVE  Advances
  BY Zenon, <1>6, <1>b, <1>c, EmitAdvances
<1>7. CASE resume_step(k)
  <2>1. ASSUME \/ r_await_entered(k) \/ r_await_complete(k) \/ r_proof_entered(k)
               \/ r_proof_complete(k) \/ r_proof_validated(k) \/ r_mint_entered(k)
               \/ r_mint_submitted(k) \/ r_mint_confirmed(k) \/ r_completed(k)
        PROVE  Advances
    BY <1>1, <2>1, Zenon DEF r_await_entered, r_await_complete, r_proof_entered, r_proof_complete,
       r_proof_validated, r_mint_entered, r_mint_submitted, r_mint_confirmed, r_completed
  <2>2. ASSUME \/ r_finality_gate(k) \/ r_verify_proof(k) \/ r_reverify(k)
               \/ execute_from_proof(k) \/ r_confirm(k)
        PROVE  Advances
    BY <1>3, <2>2, Zenon DEF r_finality_gate, r_verify_proof, r_reverify, execute_from_proof,
       r_confirm
  <2>3. ASSUME r_mint_store(k) \/ r_confirm_store(k)
        PROVE  Advances
    BY <1>2, <2>3, Zenon DEF r_mint_store, r_confirm_store
  <2>4. ASSUME r_mint_sanad(k) \/ execute_from_mint(k)
        PROVE  Advances
    BY ZenonT(30), <1>4, <1>a, <2>4 DEF r_mint_sanad, execute_from_mint
  <2>5. ASSUME record_resumed_settlement_evidence(k)
        PROVE  Advances
    <3>1. /\ task[k].at = "r_evidence" /\ UNCHANGED chain
          /\ \/ Emit(Sanad(k), "evidence", get_latest_version(events[Sanad(k)]) + 1)
             \/ UNCHANGED events
      BY <2>5, Zenon DEF record_resumed_settlement_evidence, record_settlement_evidence
    <3>2. /\ task[k].at # "idle" /\ task[k].at \in Minted /\ "evidence" \notin Outcomes
      BY Zenon, <3>1 DEF Minted, Confirmed, Outcomes
    <3> QED
      BY Zenon, <1>6, <1>a, <3>1, <3>2
  <2> QED
    BY <1>7, <2>1, <2>2, <2>3, <2>4, <2>5, Zenon DEF resume_step
<1>8. CASE execute_step(k)
  <2>1. ASSUME \/ initialized(k) \/ initialize_complete(k) \/ lock_entered(k) \/ lock_failed(k)
               \/ lock_complete(k) \/ await_entered(k) \/ await_complete(k) \/ proof_entered(k)
               \/ proof_complete(k) \/ proof_validated(k) \/ mint_blocked(k) \/ mint_entered(k)
               \/ mint_failed(k) \/ mint_submitted(k) \/ mint_confirmed(k) \/ completed(k)
        PROVE  Advances
    BY <1>1, <2>1, Zenon DEF initialized, initialize_complete, lock_entered, lock_failed,
       lock_complete, await_entered, await_complete, proof_entered, proof_complete,
       proof_validated, mint_blocked, mint_entered, mint_failed, mint_submitted,
       mint_confirmed, completed
  <2>2. ASSUME \/ store_with_lock_hash(k) \/ lock_store(k) \/ mint_store(k) \/ confirm_store(k)
        PROVE  Advances
    BY <1>2, <2>2, Zenon DEF store_with_lock_hash, lock_store, mint_store, confirm_store
  <2>3. ASSUME lock_sanad(k) \/ mint_sanad(k)
        PROVE  Advances
    BY <1>5, <2>3, Zenon DEF lock_sanad, mint_sanad
  <2>4. ASSUME \/ completed_receipt_for(k) \/ capability_gates(k) \/ rollback(k)
               \/ mint_check(k) \/ return(k)
        PROVE  Advances
    BY Zenon, <1>a, <2>4 DEF completed_receipt_for, capability_gates, rollback, mint_check, return
  <2>5. ASSUME \/ consume(k) \/ lock_check(k) \/ finality_gate(k) \/ build_inclusion_proof(k)
               \/ verify_proof(k) \/ evidence(k) \/ complete_event(k)
        PROVE  Advances
    <3>1. /\ UNCHANGED chain
          /\ \/ UNCHANGED events
             \/ task[k].at = "consume" /\ Emit(Sanad(k), "replay_detected", 1)
             \/ task[k].at = "lock_check" /\ Emit(Sanad(k), "locked", 1)
             \/ task[k].at = "finality" /\ Emit(Sanad(k), "awaiting", 2)
             \/ task[k].at = "build" /\ Emit(Sanad(k), "proof_built", 3)
             \/ task[k].at = "verify" /\ Emit(Sanad(k), "verified", 4)
             \/ task[k].at = "complete_event" /\ Emit(Sanad(k), "complete", 5)
             \/ /\ task[k].at = "evidence"
                /\ Emit(Sanad(k), "evidence", get_latest_version(events[Sanad(k)]) + 1)
      BY ZenonT(30), <2>5 DEF consume, lock_check, finality_gate, build_inclusion_proof,
         verify_proof, evidence, complete_event, record_settlement_evidence
    <3>2. /\ task[k].at = "evidence" => task[k].at \in Minted
          /\ \A kind \in {"replay_detected", "locked", "awaiting", "proof_built", "verified",
                          "complete"} : kind \notin Outcomes /\ kind # "evidence"
          /\ "evidence" \notin Outcomes
      BY DEF Minted, Confirmed, Outcomes
    <3>3. ASSUME NEW kind, NEW v, Emit(Sanad(k), kind, v), task[k].at # "idle",
                 kind \in {"replay_detected", "locked", "awaiting", "proof_built", "verified",
                           "complete"}
          PROVE  Advances
      BY Zenon, <1>6, <3>1, <3>2, <3>3
    <3>4. CASE /\ task[k].at = "evidence"
               /\ Emit(Sanad(k), "evidence", get_latest_version(events[Sanad(k)]) + 1)
      <4>1. task[k].at # "idle"
        BY Zenon, <3>4
      <4> QED
        BY Zenon, <1>6, <3>1, <3>2, <3>4, <4>1
    <3>5. CASE UNCHANGED events
      BY Zenon, <1>a, <3>1, <3>5
    <3>6. ASSUME NEW at \in {"consume", "lock_check", "finality", "build", "verify",
                             "complete_event"}, task[k].at = at
          PROVE  task[k].at # "idle"
      BY Zenon, <3>6
    <3> QED
      BY ZenonT(30), <3>1, <3>3, <3>4, <3>5, <3>6
  <2>6. confirm(k) => Advances
    BY <1>3, Zenon DEF confirm
  <2> QED
    BY <1>8, <2>1, <2>2, <2>3, <2>4, <2>5, <2>6, Zenon DEF execute_step
<1> QED
  BY Zenon, <1>7, <1>8

(* So does every step of the coordinator.                                  *)
LEMMA NextAdvances ==
    ASSUME IInv, events = [r \in Sanads |-> events[r]], Next \/ UNCHANGED vars
    PROVE  Advances
<1>0. \A s \in Sanads : chain[s] \subseteq chain[s]
  BY Zenon
<1>1. UNCHANGED <<events, chain>> => Advances
  BY Zenon, <1>0, SilentAdvances
<1>2. ASSUME NEW k \in Tasks, NEW t \in Transfers,
             execute_outcome(k, t) \/ resume_transfer_outcome(k, t)
      PROVE  Advances
  BY <1>1, <1>2, Zenon DEF execute_outcome, resume_transfer_outcome
<1>3. ASSUME NEW k \in Tasks, interrupt(k) \/ lose_failed_entry(k)
      PROVE  Advances
  BY <1>1, <1>3, Zenon DEF interrupt, lose_failed_entry
<1>4. ASSUME NEW s \in Sanads, finalize(s)
      PROVE  Advances
  <2>1. UNCHANGED events /\ chain' = [chain EXCEPT ![s] = @ \cup {"final"}]
    BY Zenon, <1>4 DEF finalize
  <2>2. \A r \in Sanads : chain[r] \subseteq chain'[r]
    BY Zenon, <2>1, FactsStay
  <2> QED
    BY Zenon, <2>1, <2>2, SilentAdvances
<1>5. ASSUME elapse \/ attempt_circuit_breaker_recovery \/ crash \/ UNCHANGED vars
      PROVE  Advances
  BY <1>1, <1>5, Zenon DEF elapse, attempt_circuit_breaker_recovery, crash, vars
<1> QED
  BY <1>2, <1>3, <1>4, <1>5, CallsAdvance, Zenon DEF Next, Step

(* The transfers' invariant does not speak of events.                      *)
LEMMA ClerksKeepIInv ==
    ASSUME IInv, UNCHANGED <<replay, registry, journal, breaker, task, chain>>,
           UNCHANGED faults \/ Fail
    PROVE  IInv'
<1>1. faults' \in 0 .. MaxFaults
  BY Zenon, FaultsTyped
<1> QED
  BY Zenon, <1>1 DEF IInv, TypeOK, CallsOK, Active, Transfer, MintedOnlyFinal, ConsumedOnlyMinted,
              CompletedOnlyConsumed

(* The transfers' steps keep what the clerks rely on.                      *)
LEMMA TransferringKeeps ==
    ASSUME SettlementInv, Advances, IInv', UNCHANGED escrow,
           UNCHANGED clerk \/ clerk' = [c \in Clerks |-> Resting]
    PROVE  SettlementInv'
<1>1. \A s \in Sanads : chain[s] \subseteq chain'[s]
  BY Zenon DEF Advances
<1>2. \A c \in Clerks : ClerkOK(c)'
  <2>1. CASE UNCHANGED clerk
    BY Zenon, <1>1, <2>1 DEF SettlementInv, ClerkOK
  <2>2. CASE clerk' = [c \in Clerks |-> Resting]
    BY Zenon, <2>2 DEF ClerkOK, Resting
  <2> QED
    BY Zenon, <2>1, <2>2
<1>3. EvidenceOfMint'
  BY Zenon, <1>1 DEF SettlementInv, EvidenceOfMint, Advances
<1>4. ReleasedOnlyMinted'
  BY Zenon, <1>1 DEF SettlementInv, ReleasedOnlyMinted
<1>5. RecordsMatchEscrow'
  BY Zenon DEF SettlementInv, RecordsMatchEscrow, Advances, Outcomes
<1>6. /\ events' = [s \in Sanads |-> events'[s]]
      /\ escrow' = [s \in Sanads |-> escrow'[s]]
      /\ clerk' = [c \in Clerks |-> clerk'[c]]
  BY Zenon DEF SettlementInv, Advances
<1> QED
  BY Zenon, <1>2, <1>3, <1>4, <1>5, <1>6 DEF SettlementInv

(* A clerk starts: it releases on evidence only.                           *)
LEMMA ClerkStarts ==
    ASSUME SettlementInv, NEW c \in Clerks, NEW s \in Sanads,
           release_escrow(c, s) \/ refund_escrow(c, s)
    PROVE  SettlementInv'
<1>1. UNCHANGED vars /\ UNCHANGED escrow
  BY Zenon DEF release_escrow, refund_escrow
<1>2. UNCHANGED <<replay, registry, journal, events, breaker, task, chain, faults>>
  BY Zenon, <1>1 DEF vars
<1>3. PICK at \in {"release", "refund"} :
        /\ clerk' = [clerk EXCEPT ![c] = [at |-> at, sanad |-> s]]
        /\ at = "release" => "minted" \in chain[s]
  BY Zenon, SMTT(30) DEF release_escrow, refund_escrow, settlement_evidence, SettlementInv, EvidenceOfMint
<1>4. \A d \in Clerks : ClerkOK(d)'
  BY Zenon, <1>1, <1>2, <1>3 DEF ClerkOK, SettlementInv
<1>5. IInv'
  BY Zenon, <1>2, ClerksKeepIInv DEF SettlementInv
<1>6. clerk' = [d \in Clerks |-> clerk'[d]]
  BY Zenon, <1>3 DEF SettlementInv
<1> QED
  BY <1>1, <1>2, <1>4, <1>5, <1>6
  DEF SettlementInv, EvidenceOfMint, ReleasedOnlyMinted, RecordsMatchEscrow, Kinds

(* A clerk's submission: the escrow pays once, the operator only on a mint. *)
LEMMA ClerkSubmits ==
    ASSUME SettlementInv, NEW c \in Clerks, settle(c) \/ refund(c)
    PROVE  SettlementInv'
<1>1. PICK how \in {<<"release", "operator", "released">>, <<"refund", "locker", "refunded">>} :
        Submit(c, how[1], how[2], how[3])
  BY Zenon DEF settle, refund
<1>2. PICK s : s = clerk[c].sanad
  OBVIOUS
<1>3. /\ clerk[c].at = how[1]
      /\ UNCHANGED <<replay, registry, journal, events, breaker, task, chain>>
      /\ UNCHANGED faults \/ Fail
      /\ \/ /\ escrow[s] = "held" /\ escrow' = [escrow EXCEPT ![s] = how[2]]
            /\ \/ clerk' = [clerk EXCEPT ![c] = [at |-> how[3], sanad |-> s]]
               \/ clerk' = [clerk EXCEPT ![c] = Resting]
         \/ UNCHANGED escrow /\ clerk' = [clerk EXCEPT ![c] = Resting]
  BY <1>1, <1>2, ZenonT(30) DEF Submit
<1>4. s \in Sanads /\ (how[2] = "operator" => "minted" \in chain[s])
  BY <1>1, <1>2, <1>3 DEF SettlementInv, ClerkOK
<1>5. IInv'
  BY Zenon, <1>3, ClerksKeepIInv DEF SettlementInv
<1>6. \A r \in Sanads :
        /\ Kinds(r)' = Kinds(r)
        /\ escrow[r] # "held" => escrow'[r] = escrow[r]
        /\ escrow'[r] = "operator" => escrow[r] = "operator" \/ "minted" \in chain[r]
  BY Zenon, <1>1, <1>3, <1>4 DEF SettlementInv, Kinds
<1>7. \A d \in Clerks : ClerkOK(d)'
  <2>1. TAKE d \in Clerks
  <2>2. CASE d # c
    <3>1. clerk'[d] = clerk[d] /\ ClerkOK(d)
      BY Zenon, <1>3, <2>2 DEF SettlementInv
    <3> QED
      BY Zenon, <1>3, <1>6, <3>1 DEF ClerkOK
  <2>3. CASE d = c
    <3>1. \/ clerk'[c] = Resting
          \/ clerk'[c] = [at |-> how[3], sanad |-> s] /\ escrow'[s] = how[2]
      BY Zenon, <1>3, <1>4 DEF SettlementInv
    <3> QED
      BY SMTT(30), <1>1, <1>4, <2>3, <3>1 DEF ClerkOK, Resting
  <2> QED
    BY Zenon, <2>2, <2>3
<1>8. /\ events' = [r \in Sanads |-> events'[r]]
      /\ escrow' = [r \in Sanads |-> escrow'[r]]
      /\ clerk' = [d \in Clerks |-> clerk'[d]]
  BY Zenon, <1>3 DEF SettlementInv
<1>9. EvidenceOfMint' /\ ReleasedOnlyMinted'
  BY Zenon, <1>3, <1>6 DEF SettlementInv, EvidenceOfMint, ReleasedOnlyMinted
<1>10. RecordsMatchEscrow'
  BY Zenon, <1>6 DEF SettlementInv, RecordsMatchEscrow
<1> QED
  BY Zenon, <1>5, <1>7, <1>8, <1>9, <1>10 DEF SettlementInv

(* A clerk records what its submission did.                                *)
LEMMA ClerkRecords ==
    ASSUME SettlementInv, NEW c \in Clerks, record_settlement(c)
    PROVE  SettlementInv'
<1>1. PICK s, v : /\ s = clerk[c].sanad /\ clerk[c].at \in Outcomes /\ Emit(s, clerk[c].at, v)
                  /\ clerk' = [clerk EXCEPT ![c] = Resting]
                  /\ UNCHANGED <<replay, registry, journal, breaker, task, chain, escrow>>
  BY Zenon DEF record_settlement, Outcomes
<1>2. PICK kind \in Outcomes : kind = clerk[c].at
  BY Zenon, <1>1
<1>3. s \in Sanads /\ kind # "evidence"
      /\ (kind = "released" => escrow[s] = "operator") /\ (kind = "refunded" => escrow[s] = "locker")
  BY Zenon, <1>1, <1>2 DEF SettlementInv, ClerkOK, Outcomes
<1>4. /\ events' = [r \in Sanads |-> events'[r]]
      /\ \A r \in Sanads : \A x \in Kinds(r)' : x \in Kinds(r) \/ (r = s /\ x = kind)
  BY Zenon, <1>1, <1>2, <1>3, EmitAdds DEF SettlementInv
<1>5. UNCHANGED faults \/ Fail
  BY Zenon, <1>1 DEF Emit
<1>6. IInv'
  BY Zenon, <1>1, <1>5, ClerksKeepIInv DEF SettlementInv
<1>7. \A d \in Clerks : ClerkOK(d)'
  BY Zenon, <1>1 DEF SettlementInv, ClerkOK, Resting
<1>8. /\ escrow' = [r \in Sanads |-> escrow'[r]]
      /\ clerk' = [d \in Clerks |-> clerk'[d]]
  BY Zenon, <1>1 DEF SettlementInv
<1>9. EvidenceOfMint' /\ ReleasedOnlyMinted'
  BY Zenon, <1>1, <1>3, <1>4 DEF SettlementInv, EvidenceOfMint, ReleasedOnlyMinted
<1>10. RecordsMatchEscrow'
  BY Zenon, <1>1, <1>3, <1>4 DEF SettlementInv, RecordsMatchEscrow
<1> QED
  BY Zenon, <1>4, <1>6, <1>7, <1>8, <1>9, <1>10 DEF SettlementInv

(* Every step of transfers and clerks keeps the invariant.                 *)
LEMMA SettlementPreserves == SettlementInv /\ [SettlementNext]_svars => SettlementInv'
<1> SUFFICES ASSUME SettlementInv, [SettlementNext]_svars
             PROVE  SettlementInv'
  BY Zenon
<1>1. IInv /\ events = [r \in Sanads |-> events[r]]
  BY DEF SettlementInv
<1>2. ASSUME Next \/ UNCHANGED vars, UNCHANGED escrow,
             UNCHANGED clerk \/ clerk' = [c \in Clerks |-> Resting]
      PROVE  SettlementInv'
  <2>1. Advances
    BY Zenon, <1>1, <1>2, NextAdvances
  <2>2. IInv'
    BY Zenon, <1>1, <1>2, NextPreserves
  <2> QED
    BY Zenon, <1>2, <2>1, <2>2, TransferringKeeps
<1>3. ASSUME Transferring \/ stop \/ UNCHANGED svars
      PROVE  SettlementInv'
  BY Zenon, <1>2, <1>3 DEF Transferring, stop, svars, Next
<1> QED
  BY Zenon, <1>3, ClerkStarts, ClerkSubmits, ClerkRecords DEF SettlementNext

(* No escrow is settled and nothing is recorded at first.                  *)
LEMMA SettlementStarts == SettlementInit => SettlementInv
<1> SUFFICES ASSUME SettlementInit
             PROVE  SettlementInv
  BY Zenon
<1>1. IInv
  BY Zenon, InitHolds DEF SettlementInit
<1>2. /\ events = [s \in Sanads |-> NoEvents] /\ escrow = [s \in Sanads |-> "held"]
      /\ clerk = [c \in Clerks |-> Resting]
  BY Zenon DEF SettlementInit, Init
<1>3. \A s \in Sanads : Kinds(s) = {}
  BY Zenon, <1>2 DEF Kinds, NoEvents
<1> QED
  BY Zenon, <1>1, <1>2, <1>3
  DEF SettlementInv, ClerkOK, Resting, EvidenceOfMint, ReleasedOnlyMinted, RecordsMatchEscrow

(* For any number of transfers, clerks and faults, the escrow is released  *)
(* to the operator only for a sanad that is minted.                        *)
THEOREM ReleaseNeedsMint == SettlementSpec => []ReleasedOnlyMinted
<1>1. SettlementInv => ReleasedOnlyMinted
  BY Zenon DEF SettlementInv
<1> QED
  BY <1>1, SettlementStarts, SettlementPreserves, PTL DEF SettlementSpec

(* For any number of transfers, clerks and faults, and over either event   *)
(* store, a recorded settlement is the one the chain made.                 *)
THEOREM RecordsAreTrue == SettlementSpec => []RecordsMatchEscrow
<1>1. SettlementInv => RecordsMatchEscrow
  BY DEF SettlementInv
<1> QED
  BY <1>1, SettlementStarts, SettlementPreserves, PTL DEF SettlementSpec
=============================================================================
