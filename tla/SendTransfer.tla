---------------------------- MODULE SendTransfer ----------------------------
(***************************************************************************)
(* Send mode (csv-runtime: send_transfer.rs and the send half of           *)
(* transfer_coordinator.rs).  A driver task assigns the sanad to the       *)
(* invoice's seal, reserves the source seal's nullifier, closes the seal   *)
(* and emits the consignment.  Each journal write, each executor call and  *)
(* the reservation is a step of its own; the process can crash, and any    *)
(* call can fail, between any two.  Only the journal, the nullifiers and   *)
(* what the executor did survive a crash.                                  *)
(***************************************************************************)
EXTENDS Integers, FiniteSets

CONSTANTS
    Transfers,   \* transfer ids
    Seals,       \* source seals
    SealOf,      \* SealOf[t]: the source seal of transfer t
    Drivers,     \* tasks that may call execute_send or resume_send
    OneDriver,   \* TRUE if a transfer is never driven by two tasks at once
    MaxFaults,   \* bound on crashes and failing calls
    MaxCalls,    \* how far the executor's closes and emissions are counted
    NoTransfer

ASSUME SendAssumption ==
    /\ SealOf \in [Transfers -> Seals]
    /\ NoTransfer \notin Transfers
    /\ OneDriver \in BOOLEAN
    /\ MaxFaults \in Nat
    /\ MaxCalls \in Nat \ {0}

VARIABLES
    journal,     \* journal[t]: the latest journal entry of t
    recorded,    \* history: recorded[t], the phases ever journaled Completed
    reserved,    \* reserved[s]: whose insert of the nullifier of s succeeded
    driver,      \* driver[k]: the call task k is in
    closed,      \* closed[t]: how often the executor closed t's source seal
    emitted,     \* emitted[t]: how often it emitted t's consignment
    rejected,    \* the transfers that ended in DuplicateSourceSeal
    faults       \* crashes and failed calls so far

vars == <<journal, recorded, reserved, driver, closed, emitted, rejected, faults>>

(* The send stages by number: SendProgress always holds the outputs of the *)
(* first few steps, so it is the number of the last step that has one.     *)
Initialized        == 0
SealAssigned       == 1
SourceSealClosed   == 2
ConsignmentEmitted == 3
Completed          == 4

NoEntry == [phase |-> -1, outcome |-> "none", progress |-> 0]

Entry(phase, outcome, progress) ==
    [phase |-> phase, outcome |-> outcome, progress |-> progress]

Idle == [at |-> "idle", transfer |-> NoTransfer, progress |-> 0, owns |-> FALSE]

Init ==
    /\ journal = [t \in Transfers |-> NoEntry]
    /\ recorded = [t \in Transfers |-> {}]
    /\ reserved = [s \in Seals |-> NoTransfer]
    /\ driver = [k \in Drivers |-> Idle]
    /\ closed = [t \in Transfers |-> 0]
    /\ emitted = [t \in Transfers |-> 0]
    /\ rejected = {}
    /\ faults = 0

-----------------------------------------------------------------------------
(* journal_send_phase: the new latest entry of t.                          *)
journal_send_phase(t, phase, outcome, progress) ==
    /\ journal' = [journal EXCEPT ![t] = Entry(phase, outcome, progress)]
    /\ recorded' = [recorded EXCEPT ![t] =
                      IF outcome = "Completed" THEN @ \cup {phase} ELSE @]

Free(k, t) ==
    /\ driver[k].at = "idle"
    /\ OneDriver => \A j \in Drivers : driver[j].transfer # t

Move(k, at) == driver' = [driver EXCEPT ![k].at = at]

\* The mutation that emits again when the consignment is already there.
EmitsAgain(n) ==
    CASE n = 0 -> "assign_enter"
      [] n = 1 -> "reserve"
      [] n \in {2, 3} -> "emit_enter"

(* The step after the outputs of the first n steps are there.              *)
NextStep(n) ==
    CASE n = 0 -> "assign_enter"
      [] n = 1 -> "reserve"
      [] n = 2 -> "emit_enter"
      [] n = 3 -> "finish"

(* execute_send: only for a transfer without journal history.              *)
execute_send(k, t) ==
    /\ Free(k, t)
    /\ journal[t] = NoEntry
    /\ driver' = [driver EXCEPT ![k] =
                    [at |-> "init_enter", transfer |-> t, progress |-> 0, owns |-> FALSE]]
    /\ UNCHANGED <<journal, recorded, reserved, closed, emitted, rejected, faults>>

init_enter(k) ==
    /\ driver[k].at = "init_enter"
    /\ journal_send_phase(driver[k].transfer, Initialized, "Entered", 0)
    /\ Move(k, "init_complete")
    /\ UNCHANGED <<reserved, closed, emitted, rejected, faults>>

init_complete(k) ==
    /\ driver[k].at = "init_complete"
    /\ journal_send_phase(driver[k].transfer, Initialized, "Completed", 0)
    /\ Move(k, "capture")
    /\ UNCHANGED <<reserved, closed, emitted, rejected, faults>>

\* The mutation that resumes from nothing, whatever the journal says.
ResumeFromScratch(k, t) ==
    /\ Free(k, t)
    /\ driver' = [driver EXCEPT ![k] =
                    [at |-> "capture", transfer |-> t, progress |-> 0, owns |-> FALSE]]
    /\ UNCHANGED <<journal, recorded, reserved, closed, emitted, rejected, faults>>

(* resume_send and load_send_progress: the progress of the latest entry.   *)
resume_send(k, t) ==
    /\ Free(k, t)
    /\ driver' = [driver EXCEPT ![k] =
                    [at |-> "capture", transfer |-> t,
                     progress |-> journal[t].progress, owns |-> FALSE]]
    /\ UNCHANGED <<journal, recorded, reserved, closed, emitted, rejected, faults>>

\* The mutation that takes any history for ownership of the reservation.
CaptureAnyHistory(k) ==
    /\ driver[k].at = "capture"
    /\ driver' = [driver EXCEPT
                    ![k].owns = journal[driver[k].transfer] # NoEntry,
                    ![k].at = NextStep(driver[k].progress)]
    /\ UNCHANGED <<journal, recorded, reserved, closed, emitted, rejected, faults>>

(* The head of drive_send: owns_prior_close is read from the journal, and  *)
(* the steps whose output is present are skipped.                          *)
capture_owns_prior_close(k) ==
    /\ driver[k].at = "capture"
    /\ driver' = [driver EXCEPT
                    ![k].owns = journal[driver[k].transfer].phase = SourceSealClosed,
                    ![k].at = NextStep(driver[k].progress)]
    /\ UNCHANGED <<journal, recorded, reserved, closed, emitted, rejected, faults>>

(* The Entered record of a step.                                           *)
EnterStep(k, at, phase, next) ==
    /\ driver[k].at = at
    /\ journal_send_phase(driver[k].transfer, phase, "Entered", driver[k].progress)
    /\ Move(k, next)
    /\ UNCHANGED <<reserved, closed, emitted, rejected, faults>>

(* The output of a step becomes part of the driver's progress.             *)
Produced(k, n, next) ==
    driver' = [driver EXCEPT ![k].progress = n, ![k].at = next]

(* The Completed record of a step.                                         *)
CompleteStep(k, at, phase) ==
    /\ driver[k].at = at
    /\ journal_send_phase(driver[k].transfer, phase, "Completed", driver[k].progress)
    /\ Move(k, NextStep(driver[k].progress))
    /\ UNCHANGED <<reserved, closed, emitted, rejected, faults>>

assign_enter(k) == EnterStep(k, "assign_enter", SealAssigned, "assign")

assign_seal(k) ==
    /\ driver[k].at = "assign"
    /\ Produced(k, 1, "assign_complete")
    /\ UNCHANGED <<journal, recorded, reserved, closed, emitted, rejected, faults>>

assign_complete(k) == CompleteStep(k, "assign_complete", SealAssigned)

(* The effect of the executor's irreversible calls, which it may have had  *)
(* even if it returns an error.                                            *)
CountUp(n) == IF n < MaxCalls THEN n + 1 ELSE n

Closes(t) == closed' = [closed EXCEPT ![t] = CountUp(@)]

Emits(t) == emitted' = [emitted EXCEPT ![t] = CountUp(@)]

\* The mutation that tolerates an existing reservation unconditionally.
ReserveTolerant(k) ==
    LET t == driver[k].transfer
        s == SealOf[t] IN
    /\ driver[k].at = "reserve"
    /\ reserved' = [reserved EXCEPT ![s] = IF @ = NoTransfer THEN t ELSE @]
    /\ Move(k, "close_enter")
    /\ UNCHANGED <<journal, recorded, closed, emitted, rejected, faults>>

(* reserve_source_seal: insert_if_absent of the seal's nullifier.          *)
reserve_source_seal(k) ==
    LET t == driver[k].transfer
        s == SealOf[t] IN
    /\ driver[k].at = "reserve"
    /\ \/ /\ reserved[s] = NoTransfer
          /\ reserved' = [reserved EXCEPT ![s] = t]
          /\ Move(k, "close_enter")
          /\ UNCHANGED rejected
       \/ /\ reserved[s] # NoTransfer /\ driver[k].owns
          /\ Move(k, "close_enter")
          /\ UNCHANGED <<reserved, rejected>>
       \/ /\ reserved[s] # NoTransfer /\ ~driver[k].owns
          /\ rejected' = rejected \cup {t}
          /\ driver' = [driver EXCEPT ![k] = Idle]
          /\ UNCHANGED reserved
    /\ UNCHANGED <<journal, recorded, closed, emitted, faults>>

close_enter(k) == EnterStep(k, "close_enter", SourceSealClosed, "close")

close_source_seal(k) ==
    /\ driver[k].at = "close"
    /\ Closes(driver[k].transfer)
    /\ Produced(k, 2, "close_complete")
    /\ UNCHANGED <<journal, recorded, reserved, emitted, rejected, faults>>

\* The mutation that journals a completed close without its witness.
CloseCompleteForgets(k) ==
    /\ driver[k].at = "close_complete"
    /\ journal_send_phase(driver[k].transfer, SourceSealClosed, "Completed", 1)
    /\ Move(k, "emit_enter")
    /\ UNCHANGED <<reserved, closed, emitted, rejected, faults>>

close_complete(k) == CompleteStep(k, "close_complete", SourceSealClosed)

emit_enter(k) == EnterStep(k, "emit_enter", ConsignmentEmitted, "emit")

emit_consignment(k) ==
    /\ driver[k].at = "emit"
    /\ Emits(driver[k].transfer)
    /\ Produced(k, 3, "emit_complete")
    /\ UNCHANGED <<journal, recorded, reserved, closed, rejected, faults>>

emit_complete(k) == CompleteStep(k, "emit_complete", ConsignmentEmitted)

(* The terminal record; the receipt is returned to the caller.             *)
finish(k) ==
    /\ driver[k].at = "finish"
    /\ journal_send_phase(driver[k].transfer, Completed, "Completed", driver[k].progress)
    /\ driver' = [driver EXCEPT ![k] = Idle]
    /\ UNCHANGED <<reserved, closed, emitted, rejected, faults>>

-----------------------------------------------------------------------------
Fault == faults < MaxFaults /\ faults' = faults + 1

(* The executor call returns an error.                                     *)
executor_error(k) ==
    LET t == driver[k].transfer IN
    /\ Fault
    /\ driver[k].at \in {"assign", "close", "emit"}
    /\ \/ UNCHANGED <<closed, emitted>>
       \/ driver[k].at = "close" /\ Closes(t) /\ UNCHANGED emitted
       \/ driver[k].at = "emit" /\ Emits(t) /\ UNCHANGED closed
    /\ Move(k, CASE driver[k].at = "assign" -> "assign_failed"
                 [] driver[k].at = "close"  -> "close_failed"
                 [] driver[k].at = "emit"   -> "emit_failed")
    /\ UNCHANGED <<journal, recorded, reserved, rejected>>

(* The Failed record written before the error is returned.                 *)
record_failed(k) ==
    /\ \E x \in {<<"assign_failed", SealAssigned>>, <<"close_failed", SourceSealClosed>>,
                 <<"emit_failed", ConsignmentEmitted>>} :
          /\ driver[k].at = x[1]
          /\ journal_send_phase(driver[k].transfer, x[2], "Failed", driver[k].progress)
    /\ driver' = [driver EXCEPT ![k] = Idle]
    /\ UNCHANGED <<reserved, closed, emitted, rejected, faults>>

(* The journal fails, which ends the call before anything is written; or   *)
(* the replay database does, with or without having inserted.              *)
storage_error(k) ==
    LET t == driver[k].transfer IN
    /\ Fault
    /\ driver[k].at \notin {"idle", "assign", "close", "emit"}
    /\ driver' = [driver EXCEPT ![k] = Idle]
    /\ \/ UNCHANGED reserved
       \/ /\ driver[k].at = "reserve" /\ reserved[SealOf[t]] = NoTransfer
          /\ reserved' = [reserved EXCEPT ![SealOf[t]] = t]
    /\ UNCHANGED <<journal, recorded, closed, emitted, rejected>>

(* The process dies with all its tasks.                                    *)
Crash ==
    /\ Fault
    /\ \E k \in Drivers : driver[k].at # "idle"
    /\ driver' = [k \in Drivers |-> Idle]
    /\ UNCHANGED <<journal, recorded, reserved, closed, emitted, rejected>>

Step(k) ==
    \/ init_enter(k) \/ init_complete(k) \/ capture_owns_prior_close(k)
    \/ assign_enter(k) \/ assign_seal(k) \/ assign_complete(k)
    \/ reserve_source_seal(k)
    \/ close_enter(k) \/ close_source_seal(k) \/ close_complete(k)
    \/ emit_enter(k) \/ emit_consignment(k) \/ emit_complete(k)
    \/ finish(k) \/ record_failed(k)

Next ==
    \/ \E k \in Drivers, t \in Transfers : execute_send(k, t) \/ resume_send(k, t)
    \/ \E k \in Drivers : Step(k) \/ executor_error(k) \/ storage_error(k)
    \/ Crash

Spec == Init /\ [][Next]_vars

-----------------------------------------------------------------------------
Steps ==
    {"idle", "init_enter", "init_complete", "capture", "assign_enter", "assign",
     "assign_complete", "assign_failed", "reserve", "close_enter", "close",
     "close_complete", "close_failed", "emit_enter", "emit", "emit_complete",
     "emit_failed", "finish"}

TypeOK ==
    /\ journal \in [Transfers -> [phase : -1 .. 4,
                                  outcome : {"none", "Entered", "Completed", "Failed"},
                                  progress : 0 .. 3]]
    /\ recorded \in [Transfers -> SUBSET (0 .. 4)]
    /\ reserved \in [Seals -> Transfers \cup {NoTransfer}]
    /\ driver \in [Drivers -> [at : Steps, transfer : Transfers \cup {NoTransfer},
                               progress : 0 .. 3, owns : BOOLEAN]]
    /\ \A k \in Drivers : driver[k].at # "idle" => driver[k].transfer \in Transfers
    /\ closed \in [Transfers -> Nat]
    /\ emitted \in [Transfers -> Nat]
    /\ rejected \subseteq Transfers
    /\ faults \in 0 .. MaxFaults

(* The single-use guarantee across transfers: whatever crashes, fails and  *)
(* is resumed, and however many tasks drive the transfers, no seal is ever *)
(* closed on behalf of two of them.                                        *)
SealClosedForOneTransfer ==
    \A t, u \in Transfers :
        closed[t] > 0 /\ closed[u] > 0 /\ SealOf[t] = SealOf[u] => t = u

(* "once journaled Completed, resume MUST NOT re-close it": the executor   *)
(* is not asked to close the seal again once a close was journaled         *)
(* Completed, nor to emit again once an emission was.                      *)
CompletedStepsNotRepeated ==
    [][\A t \in Transfers :
          /\ closed'[t] # closed[t] => SourceSealClosed \notin recorded[t]
          /\ emitted'[t] # emitted[t] => ConsignmentEmitted \notin recorded[t]]_vars

(* The order of the protocol, and that it survives interruptions: a        *)
(* consignment leaves only after the seal it rests on was closed for that  *)
(* transfer and the close was journaled, a transfer journaled Completed    *)
(* has both behind it, and the latest entry of an interrupted transfer     *)
(* still carries every output that was journaled.                          *)
EmittedAfterClose ==
    \A t \in Transfers :
        /\ emitted[t] > 0 => closed[t] > 0 /\ SourceSealClosed \in recorded[t]
        /\ Completed \in recorded[t] => emitted[t] > 0
        /\ \A n \in {SealAssigned, SourceSealClosed, ConsignmentEmitted} :
              n \in recorded[t] => journal[t].progress >= n

(* Fairness: the runtime polls every task that can take a step, and the    *)
(* caller of an interrupted transfer keeps resuming it until it has a      *)
(* receipt or a rejection (the CLI's send does both in one command).       *)
Resuming(t) ==
    /\ Completed \notin recorded[t] /\ t \notin rejected
    /\ journal[t] # NoEntry
    /\ \E k \in Drivers : resume_send(k, t)

SendFairness ==
    /\ \A k \in Drivers : WF_vars(Step(k))
    /\ \A t \in Transfers : SF_vars(Resuming(t))

(* Once started, a send ends: its seal is consumed and its consignment     *)
(* emitted, or it is told that the seal is taken.                          *)
StartedSendEnds ==
    \A t \in Transfers :
        journal[t] # NoEntry ~> Completed \in recorded[t] \/ t \in rejected
=============================================================================
