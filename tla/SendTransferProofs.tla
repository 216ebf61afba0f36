------------------------- MODULE SendTransferProofs -------------------------
(***************************************************************************)
(* For any number of transfers, seals and concurrent drivers, and any      *)
(* number of crashes and failing calls: a source seal is closed on behalf  *)
(* of at most one transfer.  While no two tasks drive one transfer at a    *)
(* time, its steps also happen in order and none that is recorded happens  *)
(* again.                                                                  *)
(***************************************************************************)
EXTENDS SendTransfer, TLAPS

(* In the reservations r, the nullifier of t's seal was inserted by t.     *)
Owns(r, t) == r[SealOf[t]] = t

PastReserve ==
    {"close_enter", "close", "close_complete", "close_failed", "emit_enter", "emit",
     "emit_complete", "emit_failed", "finish"}

Entries ==
    [phase : -1 .. 4, outcome : {"none", "Entered", "Completed", "Failed"},
     progress : 0 .. 3]

DriverStates ==
    [at : Steps, transfer : Transfers \cup {NoTransfer}, progress : 0 .. 3, owns : BOOLEAN]

(* Everything a driver or a later resume takes for proof of ownership is   *)
(* one: the journaled phase, progress that includes the witness,           *)
(* owns_prior_close, and a control point past the reservation.             *)
EntryClaims(e) == e.phase >= SourceSealClosed \/ e.progress >= 2

DriverClaims(d) == d.owns \/ d.progress >= 2 \/ d.at \in PastReserve

(* How far a driver's progress is at the points where it goes on from it.  *)
ProgressAt(d) ==
    /\ d.at = "assign_complete" => d.progress = 1
    /\ d.at \in {"close_complete", "emit_enter"} => d.progress = 2
    /\ d.at \in {"emit_complete", "finish"} => d.progress = 3

JournalOK(j, r) == \A t \in Transfers : EntryClaims(j[t]) => Owns(r, t)

ClosedOK(n, r) == \A t \in Transfers : n[t] > 0 => Owns(r, t)

DriverOK(d, r) ==
    /\ d.at # "idle" => d.transfer \in Transfers
    /\ DriverClaims(d) => d.transfer \in Transfers /\ Owns(r, d.transfer)
    /\ ProgressAt(d)

IInv ==
    /\ TypeOK
    /\ JournalOK(journal, reserved)
    /\ ClosedOK(closed, reserved)
    /\ \A k \in Drivers : DriverOK(driver[k], reserved)

USE DEF Initialized, SealAssigned, SourceSealClosed, ConsignmentEmitted, Completed

(* A driver that runs nothing claims nothing of the record.                *)
LEMMA IdleOK == Idle \in DriverStates /\ \A r : DriverOK(Idle, r)
BY DEF Idle, DriverStates, Steps, DriverOK, DriverClaims, ProgressAt, PastReserve

(* No send has a record yet.                                               *)
LEMMA InitIInv == Init => IInv
<1> SUFFICES ASSUME Init PROVE IInv
  OBVIOUS
<1>1. NoEntry \in Entries /\ ~EntryClaims(NoEntry)
  BY DEF NoEntry, Entries, EntryClaims
<1>2. \A k \in Drivers : driver[k] = Idle /\ driver[k].at = "idle"
  BY DEF Init, Idle
<1>3. driver \in [Drivers -> DriverStates]
  BY IdleOK DEF Init
<1>4. journal \in [Transfers -> Entries] /\ recorded \in [Transfers -> SUBSET (0 .. 4)]
  BY <1>1 DEF Init
<1>5. TypeOK
  BY <1>2, <1>3, <1>4, SendAssumption DEF Init, TypeOK, Entries, DriverStates
<1>6. JournalOK(journal, reserved) /\ ClosedOK(closed, reserved)
  BY <1>1 DEF Init, JournalOK, ClosedOK
<1> QED
  BY <1>2, <1>5, <1>6, IdleOK DEF IInv

(* A journal entry for t that does not claim the close unless t owns it.   *)
LEMMA JournalStep ==
    ASSUME IInv, NEW t \in Transfers, NEW phase \in 0 .. 4,
           NEW outcome \in {"Entered", "Completed", "Failed"}, NEW progress \in 0 .. 3,
           journal_send_phase(t, phase, outcome, progress),
           phase >= SourceSealClosed \/ progress >= 2 => Owns(reserved, t)
    PROVE  /\ journal' \in [Transfers -> Entries]
           /\ recorded' \in [Transfers -> SUBSET (0 .. 4)]
           /\ JournalOK(journal', reserved)
<1>1. /\ journal' = [journal EXCEPT ![t] =
                       [phase |-> phase, outcome |-> outcome, progress |-> progress]]
      /\ recorded' = [recorded EXCEPT ![t] =
                        IF outcome = "Completed" THEN @ \cup {phase} ELSE @]
  BY DEF journal_send_phase, Entry
<1> QED
  BY <1>1 DEF IInv, TypeOK, Entries, JournalOK, EntryClaims

(* What a step of driver k has to leave behind for the invariant to hold   *)
(* when the reservations do not change hands.                              *)
LEMMA DriverStep ==
    ASSUME IInv, NEW k \in Drivers, NEW d \in DriverStates,
           driver' = [driver EXCEPT ![k] = d], DriverOK(d, reserved'),
           \A t \in Transfers : Owns(reserved, t) => Owns(reserved', t),
           reserved' \in [Seals -> Transfers \cup {NoTransfer}],
           journal' \in [Transfers -> Entries], JournalOK(journal', reserved'),
           recorded' \in [Transfers -> SUBSET (0 .. 4)],
           closed' \in [Transfers -> Nat], ClosedOK(closed', reserved'),
           emitted' \in [Transfers -> Nat],
           rejected' \subseteq Transfers, faults' \in 0 .. MaxFaults
    PROVE  IInv'
<1>1. /\ driver' \in [Drivers -> DriverStates]
      /\ \A j \in Drivers : driver'[j] = IF j = k THEN d ELSE driver[j]
  BY DEF IInv, TypeOK, DriverStates
<1>2. \A j \in Drivers : DriverOK(driver'[j], reserved')
  BY Zenon, <1>1 DEF IInv, DriverOK
<1>3. TypeOK'
  BY <1>1, <1>2 DEF IInv, TypeOK, DriverOK, Entries, DriverStates
<1> QED
  BY <1>2, <1>3 DEF IInv

(* The commonest case: one journal entry and a move of the driver.         *)
LEMMA JournalAndMove ==
    ASSUME IInv, NEW k \in Drivers, driver[k].at # "idle", NEW phase \in 0 .. 4,
           NEW outcome \in {"Entered", "Completed", "Failed"}, NEW n \in 0 .. 3,
           journal_send_phase(driver[k].transfer, phase, outcome, n),
           phase >= SourceSealClosed \/ n >= 2 => DriverClaims(driver[k]),
           NEW d \in DriverStates, driver' = [driver EXCEPT ![k] = d], DriverOK(d, reserved),
           UNCHANGED <<reserved, closed, emitted, rejected, faults>>
    PROVE  IInv'
<1>1. /\ driver[k].transfer \in Transfers
      /\ phase >= SourceSealClosed \/ n >= 2 => Owns(reserved, driver[k].transfer)
  BY Zenon DEF IInv, TypeOK, DriverOK, DriverClaims
<1>2. /\ journal' \in [Transfers -> Entries]
      /\ recorded' \in [Transfers -> SUBSET (0 .. 4)]
      /\ JournalOK(journal', reserved)
  BY <1>1, JournalStep
<1>3. /\ closed' \in [Transfers -> Nat] /\ ClosedOK(closed', reserved')
      /\ emitted' \in [Transfers -> Nat] /\ rejected' \subseteq Transfers
      /\ faults' \in 0 .. MaxFaults
      /\ reserved' \in [Seals -> Transfers \cup {NoTransfer}]
  BY DEF IInv, TypeOK
<1> QED
  BY Zenon, <1>2, <1>3, DriverStep

(* The record a driver moves to with EXCEPT.                               *)
Moved(r, at, n, o) == [at |-> at, transfer |-> r.transfer, progress |-> n, owns |-> o]

(* A driver that goes on in its send stays well typed.                     *)
LEMMA MoveType ==
    ASSUME IInv, NEW k \in Drivers, NEW at \in Steps, NEW n \in 0 .. 3, NEW o \in BOOLEAN
    PROVE  /\ Moved(driver[k], at, n, o) \in DriverStates
           /\ [driver EXCEPT ![k].at = at]
                = [driver EXCEPT ![k] = Moved(driver[k], at, driver[k].progress, driver[k].owns)]
           /\ Produced(k, n, at) =>
                driver' = [driver EXCEPT ![k] = Moved(driver[k], at, n, driver[k].owns)]
           /\ [driver EXCEPT ![k].owns = o, ![k].at = at]
                = [driver EXCEPT ![k] = Moved(driver[k], at, driver[k].progress, o)]
<1>1. PICK r \in DriverStates : r = driver[k]
  BY DEF IInv, TypeOK, DriverStates
<1>2. /\ [r EXCEPT !.at = at] = Moved(r, at, r.progress, r.owns)
      /\ [[r EXCEPT !.progress = n] EXCEPT !.at = at] = Moved(r, at, n, r.owns)
      /\ [[r EXCEPT !.owns = o] EXCEPT !.at = at] = Moved(r, at, r.progress, o)
  <2>1. [r EXCEPT !.at = at] = Moved(r, at, r.progress, r.owns)
    BY <1>1 DEF DriverStates, Moved
  <2>2. PICK p \in DriverStates : p = Moved(r, r.at, n, r.owns)
    BY Zenon, <1>1 DEF DriverStates, Moved
  <2>3. PICK q \in DriverStates : q = Moved(r, r.at, r.progress, o)
    BY Zenon, <1>1 DEF DriverStates, Moved
  <2>4. [r EXCEPT !.progress = n] = p
    BY <1>1, <2>2 DEF DriverStates, Moved
  <2>5. [r EXCEPT !.owns = o] = q
    BY <1>1, <2>3 DEF DriverStates, Moved
  <2>6. [p EXCEPT !.at = at] = Moved(r, at, n, r.owns)
    BY <2>2 DEF DriverStates, Moved
  <2>7. [q EXCEPT !.at = at] = Moved(r, at, r.progress, o)
    BY <2>3 DEF DriverStates, Moved
  <2> QED
    BY Zenon, <2>1, <2>4, <2>5, <2>6, <2>7
<1>3. Moved(r, at, n, o) \in DriverStates
  BY <1>1 DEF DriverStates, Moved
<1>4. DOMAIN driver = Drivers /\ driver = [j \in Drivers |-> driver[j]]
  BY DEF IInv, TypeOK
<1>5. [driver EXCEPT ![k].at = at] = [driver EXCEPT ![k] = [r EXCEPT !.at = at]]
  BY <1>1
<1>6. [driver EXCEPT ![k].progress = n, ![k].at = at]
        = [driver EXCEPT ![k] = [[r EXCEPT !.progress = n] EXCEPT !.at = at]]
  <2>1. PICK f : f = [driver EXCEPT ![k] = [r EXCEPT !.progress = n]]
    BY Zenon
  <2>2. f[k] = [r EXCEPT !.progress = n]
    BY <2>1, <1>4
  <2>3. [driver EXCEPT ![k].progress = n, ![k].at = at] = [f EXCEPT ![k] = [f[k] EXCEPT !.at = at]]
    BY <1>1, <2>1
  <2> QED
    BY Zenon, <2>1, <2>2, <2>3, <1>4
<1>7. [driver EXCEPT ![k].owns = o, ![k].at = at]
        = [driver EXCEPT ![k] = [[r EXCEPT !.owns = o] EXCEPT !.at = at]]
  <2>1. PICK f : f = [driver EXCEPT ![k] = [r EXCEPT !.owns = o]]
    BY Zenon
  <2>2. f[k] = [r EXCEPT !.owns = o]
    BY <2>1, <1>4
  <2>3. [driver EXCEPT ![k].owns = o, ![k].at = at] = [f EXCEPT ![k] = [f[k] EXCEPT !.at = at]]
    BY <1>1, <2>1
  <2> QED
    BY Zenon, <2>1, <2>2, <2>3, <1>4
<1>8. Produced(k, n, at) => driver' = [driver EXCEPT ![k] = Moved(r, at, n, r.owns)]
  BY Zenon, <1>2, <1>6 DEF Produced
<1> QED
  BY Zenon, <1>1, <1>2, <1>3, <1>5, <1>7, <1>8

(* What the invariant says of a driver, in one place.                      *)
LEMMA DriverFacts ==
    ASSUME IInv, NEW k \in Drivers
    PROVE  /\ driver[k] \in DriverStates
           /\ DriverOK(driver[k], reserved)
           /\ driver[k].at # "idle" => driver[k].transfer \in Transfers
           /\ driver[k].progress \in 0 .. 3 /\ driver[k].owns \in BOOLEAN
BY DEF IInv, TypeOK, DriverStates

(* Entering a step is journalled before its executor is called.            *)
LEMMA EnterIInv ==
    ASSUME IInv, NEW k \in Drivers, NEW at \in Steps, at # "idle",
           NEW phase \in 0 .. 4, NEW next \in Steps,
           EnterStep(k, at, phase, next),
           phase >= SourceSealClosed => at \in PastReserve,
           next \in PastReserve => at \in PastReserve,
           next \notin {"assign_complete", "close_complete", "emit_enter", "emit_complete", "finish"}
    PROVE  IInv'
<1> DEFINE d == Moved(driver[k], next, driver[k].progress, driver[k].owns)
<1>1. d \in DriverStates /\ driver' = [driver EXCEPT ![k] = d]
  BY Zenon, DriverFacts, MoveType DEF EnterStep, Move
<1>2. DriverOK(d, reserved)
  BY DriverFacts DEF EnterStep, DriverOK, DriverClaims, ProgressAt, Moved
<1>3. phase >= SourceSealClosed \/ driver[k].progress >= 2 => DriverClaims(driver[k])
  BY SMTT(30) DEF EnterStep, DriverClaims
<1> HIDE DEF d
<1> QED
  BY Zenon, <1>1, <1>2, <1>3, DriverFacts, JournalAndMove DEF EnterStep

(* The entry and the completion of Initialized are journalled.             *)
LEMMA StartedIInv ==
    ASSUME IInv, NEW k \in Drivers, init_enter(k) \/ init_complete(k)
    PROVE  IInv'
<1>1. PICK next \in {"init_complete", "capture"}, outcome \in {"Entered", "Completed"} :
         /\ journal_send_phase(driver[k].transfer, 0, outcome, 0)
         /\ Move(k, next) /\ driver[k].at # "idle"
         /\ UNCHANGED <<reserved, closed, emitted, rejected, faults>>
  BY DEF init_enter, init_complete
<1> DEFINE d == Moved(driver[k], next, driver[k].progress, driver[k].owns)
<1>2. next \in Steps
  BY <1>1 DEF Steps
<1>3. d \in DriverStates
  BY ZenonT(30), <1>2, DriverFacts, MoveType
<1>4. driver' = [driver EXCEPT ![k] = d]
  BY Zenon, <1>1, <1>2, DriverFacts, MoveType DEF Move
<1>5. DriverOK(d, reserved)
  BY SMTT(30), <1>1, DriverFacts DEF DriverOK, DriverClaims, ProgressAt, Moved, PastReserve
<1> HIDE DEF d
<1> QED
  <2>1. /\ 0 \in 0 .. 4 /\ 0 \in 0 .. 3 /\ outcome \in {"Entered", "Completed", "Failed"}
        /\ ~(0 >= SourceSealClosed) /\ ~(0 >= 2)
    BY <1>1
  <2> QED
    BY Zenon, <1>1, <1>3, <1>4, <1>5, <2>1, JournalAndMove

(* A completed step is recorded with its output.                           *)
LEMMA CompleteIInv ==
    ASSUME IInv, NEW k \in Drivers,
           \/ assign_complete(k) \/ close_complete(k) \/ emit_complete(k)
    PROVE  IInv'
<1> DEFINE d == Moved(driver[k], NextStep(driver[k].progress), driver[k].progress, driver[k].owns)
<1>1. PICK phase \in 1 .. 3, at \in {"assign_complete", "close_complete", "emit_complete"} :
         /\ CompleteStep(k, at, phase)
         /\ at = "assign_complete" => phase = 1
         /\ at # "assign_complete" => phase >= 2
  BY DEF assign_complete, close_complete, emit_complete
<1>2. /\ driver[k].progress = 1 => NextStep(driver[k].progress) = "reserve"
      /\ driver[k].progress = 2 => NextStep(driver[k].progress) = "emit_enter"
      /\ driver[k].progress = 3 => NextStep(driver[k].progress) = "finish"
  BY DEF NextStep
<1>3. /\ driver[k].progress \in 1 .. 3
      /\ phase >= SourceSealClosed => driver[k].progress >= 2
      /\ NextStep(driver[k].progress) \in Steps
  BY <1>1, <1>2, DriverFacts DEF CompleteStep, DriverOK, ProgressAt, Steps
<1>4. d \in DriverStates /\ driver' = [driver EXCEPT ![k] = d]
  BY ZenonT(30), <1>1, <1>3, DriverFacts, MoveType DEF CompleteStep, Move
<1>5. DriverOK(d, reserved)
  BY Zenon, <1>1, <1>2, <1>3, DriverFacts
  DEF CompleteStep, DriverOK, DriverClaims, ProgressAt, Moved, PastReserve
<1>6. phase >= SourceSealClosed \/ driver[k].progress >= 2 => DriverClaims(driver[k])
  BY Zenon, <1>3 DEF DriverClaims
<1>7. /\ driver[k].at # "idle" /\ phase \in 0 .. 4
      /\ journal_send_phase(driver[k].transfer, phase, "Completed", driver[k].progress)
      /\ UNCHANGED <<reserved, closed, emitted, rejected, faults>>
  BY <1>1 DEF CompleteStep
<1> HIDE DEF d
<1> QED
  BY Zenon, <1>4, <1>5, <1>6, <1>7, DriverFacts, JournalAndMove

(* Steps that write no journal entry, reserve nothing and close nothing.   *)
LEMMA LocalStep ==
    ASSUME IInv, NEW k \in Drivers, NEW d \in DriverStates,
           driver' = [driver EXCEPT ![k] = d], DriverOK(d, reserved),
           UNCHANGED <<journal, recorded, reserved>>,
           closed' \in [Transfers -> Nat], ClosedOK(closed', reserved),
           emitted' \in [Transfers -> Nat],
           rejected' \subseteq Transfers, faults' \in 0 .. MaxFaults
    PROVE  IInv'
<1>1. /\ journal' \in [Transfers -> Entries] /\ JournalOK(journal', reserved')
      /\ recorded' \in [Transfers -> SUBSET (0 .. 4)]
      /\ reserved' \in [Seals -> Transfers \cup {NoTransfer}]
  BY DEF IInv, TypeOK, Entries
<1> QED
  BY Zenon, <1>1, DriverStep

(* execute_send starts from nothing, resume_send from the record.          *)
LEMMA StartIInv ==
    ASSUME IInv, NEW k \in Drivers, NEW t \in Transfers,
           execute_send(k, t) \/ resume_send(k, t)
    PROVE  IInv'
<1>1. /\ closed' \in [Transfers -> Nat] /\ ClosedOK(closed', reserved)
      /\ emitted' \in [Transfers -> Nat] /\ rejected' \subseteq Transfers
      /\ faults' \in 0 .. MaxFaults /\ UNCHANGED <<journal, recorded, reserved>>
  BY DEF IInv, TypeOK, execute_send, resume_send
<1>2. CASE execute_send(k, t)
  <2>1. PICK d : d = [at |-> "init_enter", transfer |-> t, progress |-> 0, owns |-> FALSE]
    BY Zenon
  <2>2. d \in DriverStates /\ DriverOK(d, reserved)
    BY <2>1 DEF DriverStates, Steps, DriverOK, DriverClaims, ProgressAt, PastReserve
  <2> QED
    BY Zenon, <1>1, <1>2, <2>1, <2>2, LocalStep DEF execute_send
<1>3. CASE resume_send(k, t)
  <2>1. PICK d : d = [at |-> "capture", transfer |-> t,
                      progress |-> journal[t].progress, owns |-> FALSE]
    BY Zenon
  <2>2. d \in DriverStates
    BY Zenon, <2>1 DEF DriverStates, Steps, IInv, TypeOK
  <2>3. DriverOK(d, reserved)
    BY <2>1 DEF DriverOK, DriverClaims, ProgressAt, PastReserve, IInv, JournalOK, EntryClaims
  <2> QED
    BY Zenon, <1>1, <1>3, <2>1, <2>2, <2>3, LocalStep DEF resume_send
<1> QED
  BY <1>2, <1>3

(* capture_owns_prior_close reads the journal once, before the steps.      *)
LEMMA CaptureIInv ==
    ASSUME IInv, NEW k \in Drivers, capture_owns_prior_close(k)
    PROVE  IInv'
<1>1. PICK o \in BOOLEAN : o = (journal[driver[k].transfer].phase = SourceSealClosed)
  BY Zenon
<1> DEFINE d == Moved(driver[k], NextStep(driver[k].progress), driver[k].progress, o)
<1>2. /\ driver[k].progress = 0 => NextStep(driver[k].progress) = "assign_enter"
      /\ driver[k].progress = 1 => NextStep(driver[k].progress) = "reserve"
      /\ driver[k].progress = 2 => NextStep(driver[k].progress) = "emit_enter"
      /\ driver[k].progress = 3 => NextStep(driver[k].progress) = "finish"
  BY DEF NextStep
<1>3. NextStep(driver[k].progress) \in Steps
  BY <1>2, DriverFacts DEF Steps
<1>4. d \in DriverStates /\ driver' = [driver EXCEPT ![k] = d]
  BY ZenonT(30), <1>1, <1>3, DriverFacts, MoveType DEF capture_owns_prior_close
<1>5. o => Owns(reserved, driver[k].transfer)
  <2> SUFFICES ASSUME o PROVE Owns(reserved, driver[k].transfer)
    OBVIOUS
  <2>1. journal[driver[k].transfer].phase = SourceSealClosed
    BY <1>1, Zenon
  <2> QED
    BY <2>1, DriverFacts DEF capture_owns_prior_close, IInv, JournalOK, EntryClaims
<1>6. DriverOK(d, reserved)
  BY <1>2, <1>5, DriverFacts
  DEF capture_owns_prior_close, DriverOK, DriverClaims, ProgressAt, Moved, PastReserve
<1>7. /\ closed' \in [Transfers -> Nat] /\ ClosedOK(closed', reserved)
      /\ emitted' \in [Transfers -> Nat] /\ rejected' \subseteq Transfers
      /\ faults' \in 0 .. MaxFaults /\ UNCHANGED <<journal, recorded, reserved>>
  BY DEF IInv, TypeOK, capture_owns_prior_close
<1> HIDE DEF d
<1> QED
  BY Zenon, <1>4, <1>6, <1>7, LocalStep

(* The executor's answer becomes the driver's progress.                    *)
LEMMA ProducedIInv ==
    ASSUME IInv, NEW k \in Drivers,
           assign_seal(k) \/ close_source_seal(k) \/ emit_consignment(k)
    PROVE  IInv'
<1>1. PICK n \in 1 .. 3, next \in {"assign_complete", "close_complete", "emit_complete"} :
         /\ Produced(k, n, next)
         /\ next = "assign_complete" => n = 1
         /\ next = "close_complete" => n = 2
         /\ next = "emit_complete" => n = 3
         /\ n >= 2 => driver[k].at \in PastReserve
         /\ driver[k].at # "idle"
  BY DEF assign_seal, close_source_seal, emit_consignment, PastReserve
<1> DEFINE d == Moved(driver[k], next, n, driver[k].owns)
<1>2. next \in Steps /\ n \in 0 .. 3
  BY <1>1 DEF Steps
<1>3. d \in DriverStates /\ driver' = [driver EXCEPT ![k] = d]
  <2>1. driver[k].owns \in BOOLEAN
    BY SMTT(30), DriverFacts
  <2>2. driver' = [driver EXCEPT ![k] = Moved(driver[k], next, n, driver[k].owns)]
    BY ZenonT(30), <1>1, <1>2, <2>1, MoveType
  <2>3. Moved(driver[k], next, n, driver[k].owns) \in DriverStates
    BY ZenonT(30), <1>2, <2>1, MoveType
  <2> QED
    BY <2>2, <2>3
<1>4. DriverOK(d, reserved)
  BY <1>1, DriverFacts DEF DriverOK, DriverClaims, ProgressAt, Moved, PastReserve
<1>5. /\ UNCHANGED <<journal, recorded, reserved>>
      /\ rejected' \subseteq Transfers /\ faults' \in 0 .. MaxFaults
  BY DEF assign_seal, close_source_seal, emit_consignment, IInv, TypeOK
<1>6. closed' \in [Transfers -> Nat] /\ ClosedOK(closed', reserved)
  <2>1. CASE close_source_seal(k)
    <3>1. driver[k].transfer \in Transfers /\ Owns(reserved, driver[k].transfer)
      BY <2>1, DriverFacts DEF close_source_seal, DriverOK, DriverClaims, PastReserve
    <3> QED
      BY <2>1, <3>1, SendAssumption
      DEF close_source_seal, Closes, CountUp, IInv, TypeOK, ClosedOK
  <2> QED
    BY <2>1 DEF assign_seal, emit_consignment, IInv, TypeOK
<1>7. emitted' \in [Transfers -> Nat]
  BY SendAssumption DEF assign_seal, close_source_seal, emit_consignment, Emits, CountUp, IInv, TypeOK
<1> HIDE DEF d
<1> QED
  BY Zenon, <1>3, <1>4, <1>5, <1>6, <1>7, LocalStep

(* A step that ends the call, journal and reservations as before.          *)
LEMMA EndIInv ==
    ASSUME IInv, NEW k \in Drivers, driver' = [driver EXCEPT ![k] = Idle],
           UNCHANGED <<journal, recorded, reserved, closed, emitted>>,
           rejected' \subseteq Transfers, faults' \in 0 .. MaxFaults
    PROVE  IInv'
<1>1. /\ closed' \in [Transfers -> Nat] /\ ClosedOK(closed', reserved)
      /\ emitted' \in [Transfers -> Nat]
  BY DEF IInv, TypeOK
<1> QED
  BY Zenon, <1>1, IdleOK, LocalStep

(* A free nullifier taken by t changes no other reservation.               *)
LEMMA TakeSeal ==
    ASSUME IInv, NEW k \in Drivers, NEW d \in DriverStates, NEW t \in Transfers,
           reserved[SealOf[t]] = NoTransfer,
           reserved' = [reserved EXCEPT ![SealOf[t]] = t],
           driver' = [driver EXCEPT ![k] = d], DriverOK(d, reserved'),
           UNCHANGED <<journal, recorded, closed, emitted, rejected>>,
           faults' \in 0 .. MaxFaults
    PROVE  IInv'
<1>1. \A u \in Transfers : Owns(reserved, u) => Owns(reserved', u)
  BY SendAssumption DEF Owns, IInv, TypeOK
<1>2. /\ reserved' \in [Seals -> Transfers \cup {NoTransfer}]
      /\ JournalOK(journal', reserved') /\ ClosedOK(closed', reserved')
      /\ journal' \in [Transfers -> Entries]
      /\ recorded' \in [Transfers -> SUBSET (0 .. 4)]
      /\ closed' \in [Transfers -> Nat] /\ emitted' \in [Transfers -> Nat]
      /\ rejected' \subseteq Transfers
  BY ZenonT(30), <1>1, SendAssumption DEF IInv, TypeOK, JournalOK, ClosedOK, Entries
<1> QED
  BY Zenon, <1>1, <1>2, DriverStep

(* The seal's reservation is taken or refused.                             *)
LEMMA ReserveIInv ==
    ASSUME IInv, NEW k \in Drivers, reserve_source_seal(k)
    PROVE  IInv'
<1> DEFINE d == Moved(driver[k], "close_enter", driver[k].progress, driver[k].owns)
<1>1. PICK t \in Transfers : t = driver[k].transfer
  BY DriverFacts DEF reserve_source_seal
<1>2. "close_enter" \in Steps
  BY DEF Steps
<1>3. d \in DriverStates
  BY Zenon, <1>2, DriverFacts, MoveType
<1>4. Move(k, "close_enter") => driver' = [driver EXCEPT ![k] = d]
  BY Zenon, <1>2, DriverFacts, MoveType DEF Move
<1>5. \A r : Owns(r, t) => DriverOK(d, r)
  BY Zenon, <1>1 DEF DriverOK, DriverClaims, ProgressAt, Moved, PastReserve
<1>6. faults' \in 0 .. MaxFaults /\ UNCHANGED <<journal, recorded, closed, emitted>>
  BY DEF reserve_source_seal, IInv, TypeOK
<1> HIDE DEF d
<1>7. CASE /\ reserved[SealOf[t]] = NoTransfer
           /\ reserved' = [reserved EXCEPT ![SealOf[t]] = t]
           /\ Move(k, "close_enter") /\ UNCHANGED rejected
  <2>1. Owns(reserved', t)
    BY <1>7, SendAssumption DEF Owns, IInv, TypeOK
  <2> QED
    BY Zenon, <1>3, <1>4, <1>5, <1>6, <1>7, <2>1, TakeSeal
<1>8. CASE driver[k].owns /\ Move(k, "close_enter") /\ UNCHANGED <<reserved, rejected>>
  <2>1. Owns(reserved, t)
    BY Zenon, <1>1, <1>8, DriverFacts DEF DriverOK, DriverClaims
  <2>2. /\ closed' \in [Transfers -> Nat] /\ ClosedOK(closed', reserved)
        /\ emitted' \in [Transfers -> Nat] /\ rejected' \subseteq Transfers
    BY <1>6, <1>8 DEF IInv, TypeOK
  <2> QED
    BY Zenon, <1>3, <1>4, <1>5, <1>6, <1>8, <2>1, <2>2, LocalStep
<1>9. CASE /\ rejected' = rejected \cup {t}
           /\ driver' = [driver EXCEPT ![k] = Idle] /\ UNCHANGED reserved
  <2>1. rejected' \subseteq Transfers
    BY <1>9 DEF IInv, TypeOK
  <2> QED
    BY Zenon, <1>6, <1>9, <2>1, EndIInv
<1> QED
  BY Zenon, <1>1, <1>7, <1>8, <1>9 DEF reserve_source_seal

(* The two ways of ending a call with a journal entry.                     *)
LEMMA FinishIInv ==
    ASSUME IInv, NEW k \in Drivers, finish(k) \/ record_failed(k)
    PROVE  IInv'
<1>1. PICK phase \in 1 .. 4, outcome \in {"Completed", "Failed"} :
         /\ journal_send_phase(driver[k].transfer, phase, outcome, driver[k].progress)
         /\ phase >= 2 => driver[k].at \in PastReserve
         /\ driver[k].at # "idle"
         /\ driver' = [driver EXCEPT ![k] = Idle]
         /\ UNCHANGED <<reserved, closed, emitted, rejected, faults>>
  BY DEF finish, record_failed, PastReserve
<1>2. phase >= SourceSealClosed \/ driver[k].progress >= 2 => DriverClaims(driver[k])
  BY <1>1 DEF DriverClaims
<1> QED
  <2>1. phase \in 0 .. 4 /\ driver[k].progress \in 0 .. 3
    BY <1>1, DriverFacts
  <2>2. Idle \in DriverStates /\ DriverOK(Idle, reserved)
    BY Zenon, IdleOK
  <2> QED
    BY Zenon, <1>1, <1>2, <2>1, <2>2, JournalAndMove

(* An executor that fails sends its driver to the failure record.          *)
LEMMA ExecutorErrorIInv ==
    ASSUME IInv, NEW k \in Drivers, executor_error(k)
    PROVE  IInv'
<1>1. PICK next \in {"assign_failed", "close_failed", "emit_failed"} :
         /\ Move(k, next)
         /\ next # "assign_failed" => driver[k].at \in PastReserve
         /\ driver[k].at # "idle"
  BY DEF executor_error, PastReserve
<1> DEFINE d == Moved(driver[k], next, driver[k].progress, driver[k].owns)
<1>2. next \in Steps
  BY <1>1 DEF Steps
<1>3. d \in DriverStates
  BY ZenonT(30), <1>2, DriverFacts, MoveType
<1>4. driver' = [driver EXCEPT ![k] = d]
  BY ZenonT(30), <1>1, <1>2, DriverFacts, MoveType DEF Move
<1>5. DriverOK(d, reserved)
  BY <1>1, DriverFacts DEF DriverOK, DriverClaims, ProgressAt, Moved, PastReserve
<1>6. /\ UNCHANGED <<journal, recorded, reserved>>
      /\ rejected' \subseteq Transfers /\ faults' \in 0 .. MaxFaults
  BY SendAssumption DEF executor_error, Fault, IInv, TypeOK
<1>7. driver[k].transfer \in Transfers
  BY <1>1, DriverFacts
<1>8. closed' \in [Transfers -> Nat] /\ ClosedOK(closed', reserved)
  <2>1. CASE driver[k].at = "close" /\ Closes(driver[k].transfer)
    <3>1. Owns(reserved, driver[k].transfer)
      BY Zenon, <2>1, DriverFacts DEF DriverOK, DriverClaims, PastReserve
    <3> QED
      BY <1>7, <2>1, <3>1, SendAssumption DEF Closes, CountUp, IInv, TypeOK, ClosedOK
  <2>2. CASE UNCHANGED closed
    BY <2>2 DEF IInv, TypeOK
  <2> QED
    BY Zenon, <2>1, <2>2 DEF executor_error
<1>9. emitted' \in [Transfers -> Nat]
  <2>1. CASE Emits(driver[k].transfer)
    BY <1>7, <2>1, SendAssumption DEF Emits, CountUp, IInv, TypeOK
  <2>2. CASE UNCHANGED emitted
    BY <2>2 DEF IInv, TypeOK
  <2> QED
    BY Zenon, <2>1, <2>2 DEF executor_error
<1> HIDE DEF d
<1> QED
  BY Zenon, <1>3, <1>4, <1>5, <1>6, <1>8, <1>9, LocalStep

(* A storage error ends the call.                                          *)
LEMMA StorageErrorIInv ==
    ASSUME IInv, NEW k \in Drivers, storage_error(k)
    PROVE  IInv'
<1>1. /\ driver' = [driver EXCEPT ![k] = Idle] /\ faults' \in 0 .. MaxFaults
      /\ UNCHANGED <<journal, recorded, closed, emitted, rejected>>
  BY SendAssumption DEF storage_error, Fault, IInv, TypeOK
<1>2. CASE UNCHANGED reserved
  BY Zenon, <1>1, <1>2, EndIInv DEF IInv, TypeOK
<1>3. CASE ~UNCHANGED reserved
  <2>1. PICK t \in Transfers : t = driver[k].transfer
    BY Zenon, DriverFacts DEF storage_error
  <2>2. reserved[SealOf[t]] = NoTransfer /\ reserved' = [reserved EXCEPT ![SealOf[t]] = t]
    BY Zenon, <1>3, <2>1 DEF storage_error
  <2> QED
    BY Zenon, <1>1, <2>2, IdleOK, TakeSeal
<1> QED
  BY Zenon, <1>2, <1>3

(* A crash loses the drivers and keeps the records.                        *)
LEMMA CrashIInv == ASSUME IInv, Crash PROVE IInv'
<1>1. driver' \in [Drivers -> DriverStates] /\ \A k \in Drivers : driver'[k] = Idle
  BY IdleOK DEF Crash
<1>2. \A k \in Drivers : DriverOK(driver'[k], reserved')
  BY Zenon, <1>1, IdleOK
<1>3. TypeOK'
  BY <1>1, SendAssumption DEF Crash, Fault, IInv, TypeOK, DriverStates, Idle
<1> QED
  BY Zenon, <1>2, <1>3 DEF Crash, IInv

(* Every step of the send machine.                                         *)
LEMMA NextIInv == IInv /\ [Next]_vars => IInv'
<1> SUFFICES ASSUME IInv, [Next]_vars PROVE IInv'
  BY Zenon
<1>1. CASE UNCHANGED vars
  BY <1>1 DEF vars, IInv, TypeOK
<1>2. CASE Crash
  BY <1>2, CrashIInv
<1>3. ASSUME NEW k \in Drivers, NEW t \in Transfers, execute_send(k, t) \/ resume_send(k, t)
      PROVE  IInv'
  BY <1>3, StartIInv
<1>4. ASSUME NEW k \in Drivers, executor_error(k) \/ storage_error(k) PROVE IInv'
  BY Zenon, <1>4, ExecutorErrorIInv, StorageErrorIInv
<1>5. ASSUME NEW k \in Drivers, Step(k) PROVE IInv'
  <2>1. CASE init_enter(k)
    BY <2>1, StartedIInv
  <2>2. CASE init_complete(k)
    BY Zenon, <2>2, StartedIInv
  <2>3. CASE assign_enter(k)
    BY <2>3, EnterIInv DEF assign_enter, Steps, PastReserve
  <2>4. CASE close_enter(k)
    BY <2>4, EnterIInv DEF close_enter, Steps, PastReserve
  <2>5. CASE emit_enter(k)
    BY <2>5, EnterIInv DEF emit_enter, Steps, PastReserve
  <2> QED
    BY Zenon, <1>5, <2>1, <2>2, <2>3, <2>4, <2>5, CaptureIInv, CompleteIInv, ProducedIInv,
       ReserveIInv, FinishIInv DEF Step
<1> QED
  BY <1>1, <1>2, <1>3, <1>4, <1>5 DEF Next

(* The single-use guarantee of csv-runtime's send mode: reserving the      *)
(* nullifier before the close, and accepting an existing reservation only  *)
(* from a journal that already shows the close begun, keeps a source seal  *)
(* from being closed for two transfers, whatever crashes or fails and      *)
(* however many tasks drive the transfers.                                 *)
THEOREM SealIsSingleUse == Spec => []SealClosedForOneTransfer
<1>1. IInv => SealClosedForOneTransfer
  BY Zenon DEF IInv, ClosedOK, Owns, SealClosedForOneTransfer
<1> QED
  BY <1>1, InitIInv, NextIInv, PTL DEF Spec

----------------------------------------------------------------------------
(* The outputs a driver has at each of its points.                         *)
PointsOK(d) ==
    /\ d.at \in {"init_enter", "init_complete", "assign_enter", "assign"} => d.progress = 0
    /\ d.at \in {"assign_complete", "reserve", "close_enter", "close"} => d.progress = 1
    /\ d.at \in {"close_complete", "emit_enter", "emit"} => d.progress = 2
    /\ d.at \in {"emit_complete", "finish"} => d.progress = 3

(* What a driver has in hand happened, and nothing recorded is missing.    *)
Knows(d, r, c, e) ==
    /\ PointsOK(d)
    /\ \A n \in 1 .. 3 : n \in r => d.progress >= n
    /\ d.progress >= 2 => c > 0 /\ (d.at = "close_complete" \/ 2 \in r)
    /\ d.progress >= 3 => e > 0

(* The same of the latest entry, and the order of the two effects.         *)
History(j, r, c, e) ==
    /\ j.progress >= 2 => c > 0 /\ 2 \in r
    /\ j.progress >= 3 => e > 0
    /\ e > 0 => c > 0 /\ 2 \in r
    /\ 4 \in r => e > 0
    /\ \A n \in 1 .. 3 : n \in r => j.progress >= n

KnowsNow(d) == Knows(d, recorded[d.transfer], closed[d.transfer], emitted[d.transfer])

(* One driver to a transfer, as the callers of a send keep it.             *)
Alone ==
    \A k, l \in Drivers :
        k # l /\ driver[k].at # "idle" /\ driver[l].at # "idle"
            => driver[k].transfer # driver[l].transfer

OrderInv ==
    /\ \A t \in Transfers : History(journal[t], recorded[t], closed[t], emitted[t])
    /\ \A k \in Drivers : driver[k].at # "idle" => KnowsNow(driver[k])
    /\ Alone

(* An idle driver is left alone, and one that enters has the transfer to   *)
(* itself: a step of k on t that keeps both predicates keeps them for all. *)
LEMMA OneSendMoves ==
    ASSUME IInv, OrderInv, NEW k \in Drivers, NEW t \in Transfers, NEW d \in DriverStates,
           driver' = [driver EXCEPT ![k] = d],
           d.at # "idle" => d.transfer = t /\ KnowsNow(d)',
           \/ driver[k].at # "idle" /\ driver[k].transfer = t
           \/ \A l \in Drivers : driver[l].at # "idle" => driver[l].transfer # t,
           History(journal'[t], recorded'[t], closed'[t], emitted'[t]),
           \A u \in Transfers \ {t} :
              /\ journal'[u] = journal[u] /\ recorded'[u] = recorded[u]
              /\ closed'[u] = closed[u] /\ emitted'[u] = emitted[u]
    PROVE  OrderInv'
<1>1. driver'[k] = d /\ \A l \in Drivers \ {k} : driver'[l] = driver[l]
  BY Zenon DEF IInv, TypeOK
<1>2. \A u \in Transfers : History(journal'[u], recorded'[u], closed'[u], emitted'[u])
  BY Zenon DEF OrderInv
<1>3. \A l \in Drivers \ {k} : driver[l].at # "idle" => driver[l].transfer \in Transfers \ {t}
  BY DEF OrderInv, Alone, IInv, TypeOK
<1>4. ASSUME NEW l \in Drivers, driver'[l].at # "idle"
      PROVE  KnowsNow(driver[l])'
  <2>1. CASE l = k
    BY Zenon, <1>1, <1>4, <2>1
  <2>2. CASE l # k
    <3>1. driver'[l] = driver[l] /\ driver[l].at # "idle" /\ driver[l].transfer \in Transfers \ {t}
      BY Zenon, <1>1, <1>3, <1>4, <2>2
    <3>2. KnowsNow(driver[l])
      BY Zenon, <3>1 DEF OrderInv
    <3> QED
      BY Zenon, <3>1, <3>2 DEF KnowsNow
  <2> QED
    BY Zenon, <2>1, <2>2
<1>5. Alone'
  BY <1>1, <1>3 DEF OrderInv, Alone
<1> QED
  BY Zenon, <1>2, <1>4, <1>5 DEF OrderInv

(* What is known of the transfer a driver is at.                           *)
LEMMA AtSend ==
    ASSUME IInv, OrderInv, NEW k \in Drivers, driver[k].at # "idle", NEW t, t = driver[k].transfer
    PROVE  /\ t \in Transfers
           /\ driver[k] \in DriverStates
           /\ Knows(driver[k], recorded[t], closed[t], emitted[t])
           /\ History(journal[t], recorded[t], closed[t], emitted[t])
           /\ closed[t] \in Nat /\ emitted[t] \in Nat /\ recorded[t] \in SUBSET (0 .. 4)
           /\ journal[t] \in Entries
<1>1. t \in Transfers
  BY Zenon DEF IInv, TypeOK
<1> QED
  BY Zenon, <1>1 DEF IInv, TypeOK, OrderInv, KnowsNow, Entries, DriverStates

(* Moved changes where a driver is, not what it drives.                    *)
LEMMA MovedIs ==
    ASSUME NEW d \in DriverStates, NEW at \in Steps, NEW n \in 0 .. 3, NEW o \in BOOLEAN
    PROVE  /\ Moved(d, at, n, o) \in DriverStates
           /\ Moved(d, at, n, o).at = at /\ Moved(d, at, n, o).progress = n
           /\ Moved(d, at, n, o).transfer = d.transfer
BY DEF Moved, DriverStates

(* Move is Moved with the driver's own progress.                           *)
LEMMA MoveIs ==
    ASSUME IInv, NEW k \in Drivers, NEW at \in Steps, NEW n, n = driver[k].progress, Move(k, at)
    PROVE  driver' = [driver EXCEPT ![k] = Moved(driver[k], at, n, driver[k].owns)]
<1>1. 0 \in 0 .. 3 /\ FALSE \in BOOLEAN
  OBVIOUS
<1>2. [driver EXCEPT ![k].at = at]
        = [driver EXCEPT ![k] = Moved(driver[k], at, driver[k].progress, driver[k].owns)]
  BY <1>1, MoveType, Zenon
<1> QED
  BY <1>2, Zenon DEF Move

After(r, phase, outcome) == IF outcome = "Completed" THEN r \cup {phase} ELSE r

(* A record that carries the driver's progress loses nothing.              *)
LEMMA RecordKeeps ==
    ASSUME NEW d \in DriverStates, NEW r \in SUBSET (0 .. 4), NEW c \in Nat, NEW e \in Nat,
           NEW j, History(j, r, c, e), Knows(d, r, c, e),
           NEW phase \in 0 .. 4, NEW outcome,
           d.at = "close_complete" => phase = 2 /\ outcome = "Completed",
           phase \in 1 .. 3 /\ outcome = "Completed" => d.progress >= phase,
           phase = 4 => d.progress = 3
    PROVE  /\ History(Entry(phase, outcome, d.progress), After(r, phase, outcome), c, e)
           /\ \A x : /\ x.progress = d.progress /\ PointsOK(x)
                     => Knows(x, After(r, phase, outcome), c, e)
<1> PICK after : after = After(r, phase, outcome)
  OBVIOUS
<1>1. d.progress \in 0 .. 3 /\ r \subseteq after
  BY DEF DriverStates, After
<1>2. \A n \in 1 .. 3 : n \in after => d.progress >= n
  BY Zenon, <1>1 DEF Knows, After
<1>3. d.progress >= 2 => c > 0 /\ 2 \in after
  BY Zenon, <1>1 DEF Knows, After
<1>4. d.progress >= 3 => e > 0
  BY DEF Knows
<1>5. 4 \in after => e > 0
  BY <1>1, <1>4 DEF History, After
<1>6. e > 0 => c > 0 /\ 2 \in after
  BY Zenon, <1>1 DEF History
<1>7. Entry(phase, outcome, d.progress).progress = d.progress
  BY Zenon DEF Entry
<1>8. History(Entry(phase, outcome, d.progress), after, c, e)
  BY Zenon, <1>1, <1>2, <1>3, <1>4, <1>5, <1>6, <1>7 DEF History
<1>9. ASSUME NEW x, x.progress = d.progress, PointsOK(x)
      PROVE  Knows(x, after, c, e)
  BY Zenon, <1>1, <1>2, <1>3, <1>4, <1>9 DEF Knows
<1> QED
  BY <1>8, <1>9

(* A record of driver k, which goes on as d: one that says Completed has   *)
(* the output of its phase.                                                *)
Recording(k, phase, outcome, d) ==
    /\ driver[k].at # "idle"
    /\ journal_send_phase(driver[k].transfer, phase, outcome, driver[k].progress)
    /\ driver[k].at = "close_complete" => phase = 2 /\ outcome = "Completed"
    /\ phase \in 1 .. 3 /\ outcome = "Completed" => driver[k].progress >= phase
    /\ phase = 4 => driver[k].progress = 3
    /\ driver' = [driver EXCEPT ![k] = d]
    /\ d.at # "idle" => /\ d.transfer = driver[k].transfer
                        /\ d.progress = driver[k].progress /\ PointsOK(d)
    /\ UNCHANGED <<closed, emitted>>

(* A step that writes a record.                                            *)
LEMMA JournalOrder ==
    ASSUME IInv, OrderInv, NEW k \in Drivers, NEW phase \in 0 .. 4, NEW outcome,
           NEW d \in DriverStates, Recording(k, phase, outcome, d)
    PROVE  OrderInv'
<1> USE DEF Recording
<1> PICK t : t = driver[k].transfer
  OBVIOUS
<1> PICK r : r = recorded[t]
  OBVIOUS
<1> PICK o : o = driver[k]
  OBVIOUS
<1> PICK after : after = After(r, phase, outcome)
  OBVIOUS
<1> PICK c, e : c = closed[t] /\ e = emitted[t]
  BY Zenon
<1> PICK j : j = journal[t]
  OBVIOUS
<1>1. /\ t \in Transfers /\ driver[k] \in DriverStates
      /\ Knows(driver[k], r, closed[t], emitted[t])
      /\ History(journal[t], r, closed[t], emitted[t])
      /\ closed[t] \in Nat /\ emitted[t] \in Nat /\ r \in SUBSET (0 .. 4)
  BY Zenon, AtSend
<1>a. /\ o.at = "close_complete" => phase = 2 /\ outcome = "Completed"
      /\ phase \in 1 .. 3 /\ outcome = "Completed" => o.progress >= phase
      /\ phase = 4 => o.progress = 3
  BY Zenon, SMTT(30)
<1>b. /\ o \in DriverStates /\ Knows(o, r, c, e) /\ History(j, r, c, e)
      /\ c \in Nat /\ e \in Nat /\ r \in SUBSET (0 .. 4)
  BY <1>1
<1>c. /\ History(Entry(phase, outcome, o.progress), After(r, phase, outcome), c, e)
      /\ \A x : x.progress = o.progress /\ PointsOK(x)
                  => Knows(x, After(r, phase, outcome), c, e)
  <2> HIDE DEF Recording
  <2> QED
    BY <1>a, <1>b, RecordKeeps, Zenon
<1>2. /\ History(Entry(phase, outcome, driver[k].progress), after, closed[t], emitted[t])
      /\ \A x : x.progress = driver[k].progress /\ PointsOK(x)
                  => Knows(x, after, closed[t], emitted[t])
  BY Zenon, <1>c
<1>3. /\ journal'[t] = Entry(phase, outcome, driver[k].progress)
      /\ \A u \in Transfers \ {t} : journal'[u] = journal[u]
  BY SMTT(30), <1>1 DEF journal_send_phase, IInv, TypeOK
<1>4. recorded'[t] = after /\ \A u \in Transfers \ {t} : recorded'[u] = recorded[u]
  BY Zenon, <1>1 DEF journal_send_phase, IInv, TypeOK, After
<1>5. d.at # "idle" => d.transfer = t /\ KnowsNow(d)'
  BY <1>2, <1>4 DEF KnowsNow
<1> QED
  BY Zenon, <1>1, <1>2, <1>3, <1>4, <1>5, OneSendMoves

(* A step that writes no record: an output, or only a move.                *)
LEMMA EffectOrder ==
    ASSUME IInv, OrderInv, NEW k \in Drivers, driver[k].at # "idle",
           NEW t, t = driver[k].transfer, NEW c \in Nat, NEW e \in Nat,
           UNCHANGED <<journal, recorded>>,
           closed' = [closed EXCEPT ![t] = c], emitted' = [emitted EXCEPT ![t] = e],
           c >= closed[t], e >= emitted[t], e > emitted[t] => driver[k].at = "emit",
           NEW d \in DriverStates, driver' = [driver EXCEPT ![k] = d],
           d.at # "idle" => d.transfer = t /\ Knows(d, recorded[t], c, e)
    PROVE  OrderInv'
<1>1. /\ t \in Transfers /\ driver[k] \in DriverStates
      /\ Knows(driver[k], recorded[t], closed[t], emitted[t])
      /\ History(journal[t], recorded[t], closed[t], emitted[t])
      /\ closed[t] \in Nat /\ emitted[t] \in Nat
      /\ journal[t].progress \in 0 .. 3
  BY Zenon, AtSend DEF Entries
<1>2. closed'[t] = c /\ \A u \in Transfers \ {t} : closed'[u] = closed[u]
  BY Zenon, <1>1 DEF IInv, TypeOK
<1>3. emitted'[t] = e /\ \A u \in Transfers \ {t} : emitted'[u] = emitted[u]
  BY Zenon, <1>1 DEF IInv, TypeOK
<1>4. e > emitted[t] => closed[t] > 0 /\ 2 \in recorded[t]
  BY SMTT(30), <1>1 DEF Knows, PointsOK
<1>5. History(journal[t], recorded[t], c, e)
  BY <1>1, <1>4 DEF History
<1>6. d.at # "idle" => d.transfer = t /\ KnowsNow(d)'
  BY Zenon, <1>2, <1>3 DEF KnowsNow
<1> QED
  BY ZenonT(30), <1>1, <1>2, <1>3, <1>5, <1>6, OneSendMoves

(* Where a driver with the outputs of the first n steps goes on.           *)
LEMMA NextPoint ==
    ASSUME NEW n \in 0 .. 3
    PROVE  /\ NextStep(n) \in Steps \ {"idle", "close_complete"}
           /\ \A x : x.at = NextStep(n) /\ x.progress = n => PointsOK(x)
<1>1. /\ n = 0 => NextStep(n) = "assign_enter"
      /\ n = 1 => NextStep(n) = "reserve"
      /\ n = 2 => NextStep(n) = "emit_enter"
      /\ n = 3 => NextStep(n) = "finish"
  BY DEF NextStep
<1> QED
  BY <1>1 DEF Steps, PointsOK

(* The records a driver writes on its way, and those it ends with.         *)
LEMMA RecordsInOrder ==
    ASSUME IInv, OrderInv, NEW k \in Drivers,
           \/ init_enter(k) \/ init_complete(k)
           \/ assign_enter(k) \/ close_enter(k) \/ emit_enter(k)
           \/ assign_complete(k) \/ close_complete(k) \/ emit_complete(k)
           \/ finish(k) \/ record_failed(k)
    PROVE  OrderInv'
<1> PICK n : n = driver[k].progress
  BY Zenon
<1>0. driver[k].at # "idle"
  BY Zenon, SMTT(30) DEF init_enter, init_complete, assign_enter, close_enter, emit_enter, assign_complete,
     close_complete, emit_complete, finish, record_failed, EnterStep, CompleteStep
<1>1. driver[k] \in DriverStates /\ n \in 0 .. 3 /\ driver[k].owns \in BOOLEAN /\ PointsOK(driver[k])
  BY <1>0, AtSend DEF DriverStates, Knows
<1>2. ASSUME NEW at \in Steps, Move(k, at)
      PROVE  driver' = [driver EXCEPT ![k] = Moved(driver[k], at, n, driver[k].owns)]
  BY ZenonT(30), <1>1, <1>2, MoveIs
<1>3. ASSUME NEW at \in {"init_enter", "init_complete"}, NEW next \in {"init_complete", "capture"},
             NEW outcome \in {"Entered", "Completed"}, driver[k].at = at, Move(k, next),
             journal_send_phase(driver[k].transfer, 0, outcome, 0), UNCHANGED <<closed, emitted>>
      PROVE  OrderInv'
  <2>1. n = 0
    BY Zenon, <1>1, <1>3 DEF PointsOK
  <2>2. next \in Steps
    BY Zenon DEF Steps
  <2> PICK d : d = Moved(driver[k], next, n, driver[k].owns)
    BY Zenon
  <2>3. d \in DriverStates /\ d.progress = n /\ d.transfer = driver[k].transfer /\ d.at = next
    BY SMTT(30), <1>1, <2>2, MovedIs
  <2>4. PointsOK(d) /\ driver' = [driver EXCEPT ![k] = d]
    BY <1>2, <1>3, <2>1, <2>2, <2>3 DEF PointsOK
  <2> QED
    <3>0. /\ driver[k].at # "close_complete" /\ 0 \notin 1 .. 3 /\ 0 # 4
          /\ driver[k].progress = 0
      BY <1>3, <2>1
    <3>1. Recording(k, 0, outcome, d)
      BY <1>0, <1>3, <2>3, <2>4, <3>0, Zenon DEF Recording
    <3> QED
      BY SMTT(30), <2>3, <3>1, JournalOrder
<1>4. ASSUME NEW x \in {<<"assign_enter", 1, "assign">>, <<"close_enter", 2, "close">>,
                        <<"emit_enter", 3, "emit">>},
             EnterStep(k, x[1], x[2], x[3])
      PROVE  OrderInv'
  <2>1. driver[k].at = x[1] /\ Move(k, x[3]) /\ UNCHANGED <<closed, emitted>>
        /\ journal_send_phase(driver[k].transfer, x[2], "Entered", n)
    BY Zenon, <1>4 DEF EnterStep
  <2>2. x[3] \in Steps /\ x[2] \in 1 .. 3 /\ driver[k].at # "close_complete"
    BY <2>1 DEF Steps
  <2> PICK d : d = Moved(driver[k], x[3], n, driver[k].owns)
    BY Zenon, SMTT(30)
  <2>3. d \in DriverStates /\ d.progress = n /\ d.transfer = driver[k].transfer /\ d.at = x[3]
    BY SMTT(30), <1>1, <2>2, MovedIs
  <2>4. PointsOK(d)
    BY SMTT(30), <1>1, <2>1, <2>3 DEF PointsOK
  <2>5. driver' = [driver EXCEPT ![k] = d]
    BY ZenonT(30), <1>2, <2>1, <2>2
  <2> QED
    <3>0. x[2] # 4 /\ "Entered" # "Completed"
      BY <2>2
    <3>1. Recording(k, x[2], "Entered", d)
      BY <1>0, <2>1, <2>2, <2>3, <2>4, <2>5, <3>0, Zenon DEF Recording
    <3> QED
      BY SMTT(30), <2>2, <2>3, <3>1, JournalOrder
<1>5. ASSUME NEW x \in {<<"assign_complete", 1>>, <<"close_complete", 2>>, <<"emit_complete", 3>>},
             CompleteStep(k, x[1], x[2])
      PROVE  OrderInv'
  <2>1. driver[k].at = x[1] /\ Move(k, NextStep(n)) /\ UNCHANGED <<closed, emitted>>
        /\ journal_send_phase(driver[k].transfer, x[2], "Completed", n)
    BY ZenonT(30), <1>5 DEF CompleteStep
  <2>2. n = x[2] /\ x[2] \in 1 .. 3 /\ (driver[k].at = "close_complete" => x[2] = 2)
    BY SMTT(30), <1>1, <2>1 DEF PointsOK
  <2>3. NextStep(n) \in Steps /\ \A y : y.at = NextStep(n) /\ y.progress = n => PointsOK(y)
    BY Zenon, <1>1, NextPoint
  <2> PICK d : d = Moved(driver[k], NextStep(n), n, driver[k].owns)
    BY Zenon, SMTT(30)
  <2>4. d \in DriverStates /\ d.progress = n /\ d.transfer = driver[k].transfer /\ d.at = NextStep(n)
    BY SMTT(30), <1>1, <2>3, MovedIs
  <2>5. driver' = [driver EXCEPT ![k] = d] /\ PointsOK(d)
    BY Zenon, <1>2, <2>1, <2>3, <2>4
  <2> QED
    <3>0. /\ x[2] # 4 /\ driver[k].progress >= x[2]
          /\ driver[k].at = "close_complete" => x[2] = 2
      BY <1>1, <2>2
    <3>1. Recording(k, x[2], "Completed", d)
      BY <1>0, <2>1, <2>4, <2>5, <3>0, Zenon DEF Recording
    <3> QED
      BY SMTT(30), <2>2, <2>4, <3>1, JournalOrder
<1>6. CASE finish(k)
  <2>1. driver[k].at = "finish" /\ driver' = [driver EXCEPT ![k] = Idle]
        /\ journal_send_phase(driver[k].transfer, 4, "Completed", n) /\ UNCHANGED <<closed, emitted>>
    BY Zenon, <1>6 DEF finish
  <2>2. n = 3
    BY Zenon, <1>1, <2>1 DEF PointsOK
  <2>3. Idle.at = "idle"
    BY Zenon DEF Idle
  <2> QED
    <3>1. Recording(k, 4, "Completed", Idle)
      BY <1>0, <2>1, <2>2, <2>3 DEF Recording
    <3> QED
      BY <3>1, IdleOK, JournalOrder
<1>7. CASE record_failed(k)
  <2>1. PICK phase \in 1 .. 3 :
          /\ driver[k].at # "close_complete" /\ driver' = [driver EXCEPT ![k] = Idle]
          /\ journal_send_phase(driver[k].transfer, phase, "Failed", n) /\ UNCHANGED <<closed, emitted>>
    BY <1>7 DEF record_failed
  <2>2. Idle.at = "idle"
    BY Zenon, SMTT(30) DEF Idle
  <2> QED
    <3>1. Recording(k, phase, "Failed", Idle)
      BY SMTT(30), <1>0, <2>1, <2>2 DEF Recording
    <3> QED
      BY SMTT(30), <3>1, IdleOK, JournalOrder
<1>8. CASE init_enter(k) \/ init_complete(k)
  BY Zenon, <1>3, <1>8 DEF init_enter, init_complete
<1>9. CASE assign_enter(k) \/ close_enter(k) \/ emit_enter(k)
  BY Zenon, <1>4, <1>9 DEF assign_enter, close_enter, emit_enter
<1>10. CASE assign_complete(k) \/ close_complete(k) \/ emit_complete(k)
  BY SMTT(30), <1>5, <1>10 DEF assign_complete, close_complete, emit_complete
<1> QED
  BY Zenon, <1>6, <1>7, <1>8, <1>9, <1>10

(* execute_send and resume_send take a transfer nobody drives, with the    *)
(* progress of its latest record.                                          *)
LEMMA StartInOrder ==
    ASSUME OneDriver, IInv, OrderInv, NEW k \in Drivers, NEW t \in Transfers,
           execute_send(k, t) \/ resume_send(k, t)
    PROVE  OrderInv'
<1>1. PICK at \in {"init_enter", "capture"} :
         driver' = [driver EXCEPT ![k] = [at |-> at, transfer |-> t,
                                          progress |-> journal[t].progress, owns |-> FALSE]]
         /\ (at = "init_enter" => journal[t].progress = 0)
  BY DEF execute_send, resume_send, NoEntry
<1> PICK d : d = [at |-> at, transfer |-> t, progress |-> journal[t].progress, owns |-> FALSE]
  BY ZenonT(30)
<1>2. journal[t].progress \in 0 .. 3 /\ at \in Steps
  BY Zenon DEF IInv, TypeOK, Steps
<1>3. /\ d \in DriverStates /\ d.at = at /\ d.transfer = t /\ d.progress = journal[t].progress
  BY Zenon, <1>2 DEF DriverStates
<1>4. Free(k, t) /\ UNCHANGED <<journal, recorded, closed, emitted>>
  BY Zenon DEF execute_send, resume_send
<1>5. \A l \in Drivers : driver[l].at # "idle" => driver[l].transfer # t
  BY Zenon, <1>4 DEF Free
<1>6. History(journal[t], recorded[t], closed[t], emitted[t])
  BY Zenon, SMTT(30) DEF OrderInv
<1>7. PointsOK(d)
  BY SMTT(30), <1>1, <1>3 DEF PointsOK
<1>8. Knows(d, recorded[t], closed[t], emitted[t])
  BY ZenonT(30), <1>2, <1>3, <1>6, <1>7 DEF Knows, History
<1>9. KnowsNow(d)'
  BY Zenon, <1>3, <1>4, <1>8 DEF KnowsNow
<1> QED
  BY Zenon, <1>1, <1>3, <1>4, <1>5, <1>6, <1>9, OneSendMoves

(* capture_owns_prior_close goes on behind the outputs that are there.     *)
LEMMA CaptureMoves ==
    ASSUME IInv, NEW k \in Drivers, capture_owns_prior_close(k)
    PROVE  \E d \in DriverStates :
              /\ driver' = [driver EXCEPT ![k] = d]
              /\ d.at = NextStep(driver[k].progress)
              /\ d.progress = driver[k].progress /\ d.transfer = driver[k].transfer
<1>1. PICK o \in BOOLEAN : o = (journal[driver[k].transfer].phase = SourceSealClosed)
  BY Zenon
<1> DEFINE d == Moved(driver[k], NextStep(driver[k].progress), driver[k].progress, o)
<1>2. NextStep(driver[k].progress) \in Steps
  BY Zenon, DriverFacts, NextPoint
<1>3. d \in DriverStates /\ driver' = [driver EXCEPT ![k] = d]
  BY ZenonT(30), <1>1, <1>2, DriverFacts, MoveType DEF capture_owns_prior_close
<1>4. /\ d.at = NextStep(driver[k].progress)
      /\ d.progress = driver[k].progress /\ d.transfer = driver[k].transfer
  BY Zenon, SMTT(30) DEF Moved
<1> HIDE DEF d
<1> QED
  BY Zenon, <1>3, <1>4

(* Steps of the driver that have no effect outside it.                     *)
LEMMA MovesInOrder ==
    ASSUME IInv, OrderInv, NEW k \in Drivers,
           \/ capture_owns_prior_close(k) \/ reserve_source_seal(k) \/ assign_seal(k)
           \/ storage_error(k)
    PROVE  OrderInv'
<1> PICK n : n = driver[k].progress
  OBVIOUS
<1> PICK t : t = driver[k].transfer
  OBVIOUS
<1>0. driver[k].at # "idle" /\ UNCHANGED <<journal, recorded, closed, emitted>>
  BY ZenonT(30) DEF capture_owns_prior_close, reserve_source_seal, assign_seal, storage_error
<1>1. /\ t \in Transfers /\ driver[k] \in DriverStates /\ n \in 0 .. 3 /\ driver[k].owns \in BOOLEAN
      /\ Knows(driver[k], recorded[t], closed[t], emitted[t])
      /\ closed[t] \in Nat /\ emitted[t] \in Nat
  BY Zenon, <1>0, AtSend DEF DriverStates
<1>2. closed' = [closed EXCEPT ![t] = closed[t]] /\ emitted' = [emitted EXCEPT ![t] = emitted[t]]
  BY <1>0 DEF IInv, TypeOK
<1>3. ASSUME NEW d \in DriverStates, driver' = [driver EXCEPT ![k] = d],
             d.at # "idle" => d.transfer = t /\ Knows(d, recorded[t], closed[t], emitted[t])
      PROVE  OrderInv'
  <2>1. /\ closed[t] >= closed[t] /\ emitted[t] >= emitted[t]
        /\ ~(emitted[t] > emitted[t]) /\ UNCHANGED <<journal, recorded>>
    BY SMTT(30), <1>0, <1>1
  <2> QED
    BY <1>0, <1>1, <1>2, <1>3, <2>1, EffectOrder, ZenonT(30)
<1>4. CASE driver' = [driver EXCEPT ![k] = Idle]
  BY Zenon, <1>3, <1>4, IdleOK DEF Idle
<1>5. CASE capture_owns_prior_close(k)
  <2>1. PICK d \in DriverStates :
          /\ driver' = [driver EXCEPT ![k] = d]
          /\ d.at = NextStep(n) /\ d.progress = n /\ d.transfer = t
    BY Zenon, <1>5, CaptureMoves
  <2>2. \A x : x.at = NextStep(n) /\ x.progress = n => PointsOK(x)
    BY <1>1, NextPoint
  <2>6. driver[k].at # "close_complete" /\ PointsOK(d)
    BY ZenonT(30), <1>5, <2>1, <2>2 DEF capture_owns_prior_close
  <2>7. Knows(d, recorded[t], closed[t], emitted[t])
    BY SMTT(30), <1>1, <2>1, <2>6 DEF Knows
  <2> QED
    BY Zenon, <1>3, <2>1, <2>7
<1>6. CASE assign_seal(k) \/ (reserve_source_seal(k) /\ driver' # [driver EXCEPT ![k] = Idle])
  <2>1. PICK at \in {"assign_complete", "close_enter"} :
           /\ driver[k].at \in {"assign", "reserve"}
           /\ \/ driver[k].at = "reserve" /\ Move(k, at)
              \/ driver[k].at = "assign" /\ Produced(k, 1, at)
    BY Zenon, <1>6 DEF assign_seal, reserve_source_seal
  <2>2. at \in Steps /\ PointsOK(driver[k])
    BY Zenon, <1>1 DEF Steps, Knows
  <2>3. n \in {0, 1} /\ (driver[k].at = "reserve" => n = 1)
    BY Zenon, <2>1, <2>2 DEF PointsOK
  <2> PICK d : d = Moved(driver[k], at, 1, driver[k].owns)
    BY Zenon, SMTT(30)
  <2>4. d \in DriverStates /\ d.progress = 1 /\ d.transfer = t /\ d.at = at
    BY <1>1, <2>2, MovedIs
  <2>5. driver' = [driver EXCEPT ![k] = d]
    <3>1. 1 \in 0 .. 3
      OBVIOUS
    <3>2. CASE driver[k].at = "reserve" /\ Move(k, at)
      <4>1. driver[k].progress = 1
        BY <2>3, <3>2
      <4> QED
        BY <1>1, <2>2, <3>2, <4>1, MoveIs, Zenon
    <3>3. CASE Produced(k, 1, at)
      BY <1>1, <2>2, <3>1, <3>3, MoveType, ZenonT(30)
    <3> QED
      BY <2>1, <3>2, <3>3
  <2>6. Knows(d, recorded[t], closed[t], emitted[t])
    BY SMTT(30), <1>1, <2>3, <2>4 DEF Knows, PointsOK
  <2> QED
    BY ZenonT(30), <1>3, <2>4, <2>5, <2>6
<1> QED
  BY Zenon, <1>4, <1>5, <1>6 DEF storage_error

(* The seal is closed, or the consignment emitted, with or without an      *)
(* answer.                                                                 *)
LEMMA EffectsInOrder ==
    ASSUME IInv, OrderInv, NEW k \in Drivers,
           close_source_seal(k) \/ emit_consignment(k) \/ executor_error(k)
    PROVE  OrderInv'
<1> PICK n : n = driver[k].progress
  OBVIOUS
<1> PICK t : t = driver[k].transfer
  OBVIOUS
<1>0. driver[k].at \in {"assign", "close", "emit"} /\ UNCHANGED <<journal, recorded>>
  BY ZenonT(30) DEF close_source_seal, emit_consignment, executor_error
<1>1. /\ t \in Transfers /\ driver[k] \in DriverStates /\ n \in 0 .. 3 /\ driver[k].owns \in BOOLEAN
      /\ Knows(driver[k], recorded[t], closed[t], emitted[t]) /\ PointsOK(driver[k])
      /\ closed[t] \in Nat /\ emitted[t] \in Nat
  BY <1>0, AtSend DEF DriverStates, Knows
<1>2. PICK c \in Nat, e \in Nat :
        /\ closed' = [closed EXCEPT ![t] = c] /\ emitted' = [emitted EXCEPT ![t] = e]
        /\ c >= closed[t] /\ e >= emitted[t] /\ (e > emitted[t] => driver[k].at = "emit")
        /\ close_source_seal(k) => c > 0
        /\ emit_consignment(k) => e > 0
  <2> DEFINE c1 == CountUp(closed[t])
             e1 == CountUp(emitted[t])
  <2>1. c1 \in Nat /\ c1 >= closed[t] /\ c1 > 0 /\ e1 \in Nat /\ e1 >= emitted[t] /\ e1 > 0
    BY <1>1, SendAssumption DEF CountUp
  <2>2. closed = [closed EXCEPT ![t] = closed[t]] /\ emitted = [emitted EXCEPT ![t] = emitted[t]]
    BY Zenon DEF IInv, TypeOK
  <2>3. Closes(t) => closed' = [closed EXCEPT ![t] = c1]
    BY DEF Closes
  <2>4. Emits(t) => emitted' = [emitted EXCEPT ![t] = e1]
    BY Zenon DEF Emits
  <2> HIDE DEF c1, e1
  <2>5. CASE closed' = closed /\ emitted' = emitted /\ executor_error(k)
    <3>1. ~close_source_seal(k) /\ ~emit_consignment(k)
      BY SMTT(30), <1>1, <2>1, <2>3, <2>4, <2>5 DEF close_source_seal, emit_consignment, executor_error, Fault, IInv, TypeOK
    <3> QED
      BY <1>1, <2>2, <2>5, <3>1
  <2>6. CASE driver[k].at = "close" /\ Closes(t) /\ emitted' = emitted
    <3>1. ~emit_consignment(k)
      BY Zenon, <2>6 DEF emit_consignment
    <3> QED
      BY SMTT(30), <1>1, <2>1, <2>2, <2>3, <2>6, <3>1
  <2>7. CASE driver[k].at = "emit" /\ Emits(t) /\ closed' = closed
    <3>1. ~close_source_seal(k)
      BY Zenon, <2>7 DEF close_source_seal
    <3> QED
      BY SMTT(30), <1>1, <2>1, <2>2, <2>4, <2>7, <3>1
  <2> QED
    BY ZenonT(30), <2>5, <2>6, <2>7 DEF close_source_seal, emit_consignment, executor_error
<1> DEFINE Goes(at, m) ==
             /\ driver' = [driver EXCEPT ![k] = Moved(driver[k], at, m, driver[k].owns)]
             /\ \/ at \in {"assign_failed", "close_failed", "emit_failed"} /\ m = n
                \/ at = "close_complete" /\ m = 2 /\ n = 1 /\ c > 0
                \/ at = "emit_complete" /\ m = 3 /\ n = 2 /\ e > 0
<1>3. PICK at \in {"close_complete", "emit_complete", "assign_failed", "close_failed", "emit_failed"},
           m \in 0 .. 3 : Goes(at, m)
  <2>1. \A at \in {"close_complete", "emit_complete", "assign_failed", "close_failed", "emit_failed"} :
          at \in Steps
    BY Zenon DEF Steps
  <2>2. CASE executor_error(k)
    <3>1. PICK at \in {"assign_failed", "close_failed", "emit_failed"} : Move(k, at)
      BY Zenon, <1>0, <2>2 DEF executor_error
    <3>a. at \in Steps
      BY DEF Steps
    <3>b. driver' = [driver EXCEPT ![k] = Moved(driver[k], at, n, driver[k].owns)]
      BY <1>1, <3>1, <3>a, MoveIs, Zenon
    <3>2. Goes(at, n)
      BY <3>b
    <3> HIDE DEF Goes
    <3> QED
      BY Zenon, <1>1, <3>2
  <2>3. CASE close_source_seal(k)
    <3>1. n = 1 /\ Produced(k, 2, "close_complete")
      BY Zenon, <1>1, <2>3 DEF close_source_seal, PointsOK
    <3>2. 2 \in 0 .. 3
      OBVIOUS
    <3>3. Goes("close_complete", 2)
      BY <1>1, <1>2, <2>1, <2>3, <3>1, <3>2, MoveType, ZenonT(30)
    <3> HIDE DEF Goes
    <3> QED
      BY ZenonT(30), <3>2, <3>3
  <2>4. CASE emit_consignment(k)
    <3>1. n = 2 /\ Produced(k, 3, "emit_complete")
      BY Zenon, <1>1, <2>4 DEF emit_consignment, PointsOK
    <3>2. 3 \in 0 .. 3
      OBVIOUS
    <3>3. Goes("emit_complete", 3)
      BY <1>1, <1>2, <2>1, <2>4, <3>1, <3>2, MoveType, ZenonT(30)
    <3> HIDE DEF Goes
    <3> QED
      BY <3>2, <3>3
  <2> QED
    BY Zenon, <2>2, <2>3, <2>4
<1> PICK d : d = Moved(driver[k], at, m, driver[k].owns)
  OBVIOUS
<1>4. at \in Steps
  BY ZenonT(30) DEF Steps
<1>5. d \in DriverStates /\ d.progress = m /\ d.transfer = t /\ d.at = at
  BY SMTT(30), <1>1, <1>4, MovedIs
<1>6. PointsOK(d)
  BY <1>3, <1>5 DEF PointsOK
<1>7. \A i \in 1 .. 3 : i \in recorded[t] => m >= i
  BY SMTT(30), <1>1, <1>3 DEF Knows
<1>8. m >= 2 => c > 0 /\ (at = "close_complete" \/ 2 \in recorded[t])
  BY SMTT(30), <1>0, <1>1, <1>2, <1>3 DEF Knows
<1>9. m >= 3 => e > 0
  BY SMTT(30), <1>1, <1>2, <1>3 DEF Knows
<1>10. Knows(d, recorded[t], c, e)
  BY Zenon, <1>5, <1>6, <1>7, <1>8, <1>9 DEF Knows
<1>11. driver[k].at # "idle"
  BY Zenon, <1>0
<1> QED
  BY ZenonT(30), <1>0, <1>2, <1>3, <1>5, <1>10, <1>11, EffectOrder

(* Every step of the send machine keeps the order.                         *)
LEMMA NextInOrder ==
    ASSUME OneDriver
    PROVE  IInv /\ OrderInv /\ [Next]_vars => OrderInv'
<1> SUFFICES ASSUME IInv, OrderInv, [Next]_vars PROVE OrderInv'
  BY ZenonT(30)
<1>1. CASE UNCHANGED vars
  BY Zenon, <1>1 DEF vars, OrderInv, KnowsNow, Alone
<1>2. CASE Crash
  <2>1. \A k \in Drivers : driver'[k].at = "idle"
    BY Zenon, <1>2 DEF Crash, Idle
  <2>2. UNCHANGED <<journal, recorded, closed, emitted>>
    BY Zenon, <1>2 DEF Crash
  <2> QED
    BY Zenon, <2>1, <2>2 DEF OrderInv, Alone
<1>3. ASSUME NEW k \in Drivers, NEW t \in Transfers, execute_send(k, t) \/ resume_send(k, t)
      PROVE  OrderInv'
  BY <1>3, StartInOrder
<1>4. ASSUME NEW k \in Drivers, Step(k) \/ executor_error(k) \/ storage_error(k)
      PROVE  OrderInv'
  BY <1>4, RecordsInOrder, MovesInOrder, EffectsInOrder, Zenon DEF Step
<1> QED
  BY <1>1, <1>2, <1>3, <1>4 DEF Next

(* Before the first send there is nothing to be out of order.              *)
LEMMA InitInOrder == Init => OrderInv
<1> SUFFICES ASSUME Init PROVE OrderInv
  OBVIOUS
<1>1. \A k \in Drivers : driver[k].at = "idle"
  BY Zenon DEF Init, Idle
<1>2. ASSUME NEW t \in Transfers
      PROVE  History(journal[t], recorded[t], closed[t], emitted[t])
  BY DEF Init, NoEntry, History
<1> QED
  BY Zenon, <1>1, <1>2 DEF OrderInv, Alone

(* The order of drive_send survives every crash, error and resume as long  *)
(* as a transfer has one driver at a time: a consignment leaves after the  *)
(* recorded close of its seal, a Completed send has emitted, and no record *)
(* loses an output.  For any number of transfers, seals and faults.        *)
THEOREM EmissionFollowsClose ==
    ASSUME OneDriver
    PROVE  Spec => []EmittedAfterClose
<1>1. IInv /\ OrderInv => EmittedAfterClose
  BY DEF IInv, TypeOK, OrderInv, History, EmittedAfterClose
<1>2. IInv /\ OrderInv /\ [Next]_vars => OrderInv'
  BY NextInOrder
<1> QED
  BY <1>1, <1>2, InitIInv, NextIInv, InitInOrder, PTL DEF Spec

(* Nor is a step repeated that was journaled Completed: the executor is    *)
(* asked to close a seal, or to emit a consignment, only while the journal *)
(* has no such record of the transfer.                                     *)
THEOREM RecordedIsNotRepeated ==
    ASSUME OneDriver
    PROVE  Spec => CompletedStepsNotRepeated
<1>1. ASSUME IInv, OrderInv, [Next]_vars
      PROVE  [\A t \in Transfers :
                 /\ closed'[t] # closed[t] => SourceSealClosed \notin recorded[t]
                 /\ emitted'[t] # emitted[t] => ConsignmentEmitted \notin recorded[t]]_vars
  <2> SUFFICES ASSUME NEW t \in Transfers
               PROVE  /\ closed'[t] # closed[t] => SourceSealClosed \notin recorded[t]
                      /\ emitted'[t] # emitted[t] => ConsignmentEmitted \notin recorded[t]
    BY Zenon
  <2>1. closed'[t] # closed[t] =>
          \E k \in Drivers : driver[k].at = "close" /\ driver[k].transfer = t
    <3> SUFFICES ASSUME closed'[t] # closed[t]
                 PROVE  \E k \in Drivers : driver[k].at = "close" /\ driver[k].transfer = t
      BY Zenon, SMTT(30)
    <3>1. PICK k \in Drivers : close_source_seal(k) \/ executor_error(k)
      BY ZenonT(30), <1>1 DEF Next, vars, Step, Crash, execute_send, resume_send, init_enter, init_complete,
         capture_owns_prior_close, assign_enter, assign_seal, assign_complete, EnterStep,
         CompleteStep, reserve_source_seal, close_enter, close_complete, emit_enter,
         emit_consignment, emit_complete, finish, record_failed, storage_error
    <3>2. driver[k].at = "close" /\ Closes(driver[k].transfer)
      BY <3>1 DEF close_source_seal, executor_error
    <3> QED
      BY Zenon, <1>1, <3>2 DEF Closes, IInv, TypeOK
  <2>2. emitted'[t] # emitted[t] =>
          \E k \in Drivers : driver[k].at = "emit" /\ driver[k].transfer = t
    <3> SUFFICES ASSUME emitted'[t] # emitted[t]
                 PROVE  \E k \in Drivers : driver[k].at = "emit" /\ driver[k].transfer = t
      BY Zenon, SMTT(30)
    <3>1. PICK k \in Drivers : emit_consignment(k) \/ executor_error(k)
      BY ZenonT(30), <1>1 DEF Next, vars, Step, Crash, execute_send, resume_send, init_enter, init_complete,
         capture_owns_prior_close, assign_enter, assign_seal, assign_complete, EnterStep,
         CompleteStep, reserve_source_seal, close_enter, close_source_seal, close_complete,
         emit_enter, emit_complete, finish, record_failed, storage_error
    <3>2. driver[k].at = "emit" /\ Emits(driver[k].transfer)
      BY <3>1 DEF emit_consignment, executor_error
    <3> QED
      BY Zenon, <1>1, <3>2 DEF Emits, IInv, TypeOK
  <2>3. ASSUME NEW k \in Drivers, driver[k].at \in {"close", "emit"}, driver[k].transfer = t
        PROVE  /\ driver[k].at = "close" => 2 \notin recorded[t]
               /\ driver[k].at = "emit" => 3 \notin recorded[t]
    BY <1>1, <2>3 DEF OrderInv, KnowsNow, Knows, PointsOK
  <2> QED
    BY Zenon, <2>1, <2>2, <2>3
<1>2. IInv /\ OrderInv /\ [Next]_vars => OrderInv'
  BY NextInOrder
<1> QED
  BY <1>1, <1>2, InitIInv, NextIInv, InitInOrder, PTL DEF Spec, CompletedStepsNotRepeated
============================================================================
