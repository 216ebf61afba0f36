----------------------------- MODULE Settlement -----------------------------
(***************************************************************************)
(* Settling the source escrow of a transferred sanad: release_escrow and   *)
(* refund_escrow of the TransferCoordinator, called by clerks beside the   *)
(* transfers of TransferCoordinator.tla.  Both read the event store, submit *)
(* to the source chain and record the outcome in the event store.          *)
(***************************************************************************)
EXTENDS TransferCoordinator

CONSTANTS Clerks, NoSanad

ASSUME SettlementAssumption == NoSanad \notin Sanads

VARIABLES
    clerk,     \* clerk[c]: the settlement call clerk c is executing
    escrow     \* escrow[s]: who was paid, on the source chain

svars == <<vars, clerk, escrow>>

Resting == [at |-> "idle", sanad |-> NoSanad]

SettlementInit ==
    /\ Init
    /\ clerk = [c \in Clerks |-> Resting]
    /\ escrow = [s \in Sanads |-> "held"]

Kinds(s) == {events[s][v][1] : v \in DOMAIN events[s]}

settlement_status(s) ==
    IF {"released", "refunded"} \cap Kinds(s) = {} THEN "Unsettled" ELSE "Settled"

settlement_evidence(s) == "evidence" \in Kinds(s)

Working(c) == clerk[c].at # "idle"

(* With OneTask the calls on a sanad exclude each other, settlement too.   *)
MayStart(c, s) ==
    /\ ~Working(c) /\ get_latest_version(events[s]) < MaxVersion
    /\ OneTask => Quiet(s) /\ \A d \in Clerks : ~Working(d)

release_escrow(c, s) ==
    /\ MayStart(c, s)
    /\ settlement_status(s) = "Unsettled" /\ settlement_evidence(s)
    /\ clerk' = [clerk EXCEPT ![c] = [at |-> "release", sanad |-> s]]
    /\ UNCHANGED <<vars, escrow>>

refund_escrow(c, s) ==
    /\ MayStart(c, s)
    /\ settlement_status(s) = "Unsettled" /\ ~settlement_evidence(s)
    /\ clerk' = [clerk EXCEPT ![c] = [at |-> "refund", sanad |-> s]]
    /\ UNCHANGED <<vars, escrow>>

\* The mutation that goes on to the record when the submission fails.
SubmitAnyway(c, from, payee, to) ==
    /\ clerk[c].at = from
    /\ LET s == clerk[c].sanad IN
       /\ \/ /\ "locked" \in chain[s] /\ escrow[s] = "held"
             /\ escrow' = [escrow EXCEPT ![s] = payee]
          \/ UNCHANGED escrow
       /\ clerk' = [clerk EXCEPT ![c] = [at |-> to, sanad |-> s]]
    /\ UNCHANGED vars

(* The source chain pays a held escrow once, and the answer may be lost.   *)
Submit(c, from, payee, to) ==
    /\ clerk[c].at = from
    /\ LET s == clerk[c].sanad
           paid == /\ "locked" \in chain[s] /\ escrow[s] = "held"
                   /\ escrow' = [escrow EXCEPT ![s] = payee]
       IN  \/ /\ paid /\ UNCHANGED faults
              /\ clerk' = [clerk EXCEPT ![c] = [at |-> to, sanad |-> s]]
           \/ /\ (paid /\ Fail) \/ UNCHANGED <<escrow, faults>>
              /\ clerk' = [clerk EXCEPT ![c] = Resting]
    /\ UNCHANGED <<replay, registry, journal, events, breaker, task, chain>>

settle(c) == Submit(c, "release", "operator", "released")
refund(c) == Submit(c, "refund", "locker", "refunded")

(* The record is appended, or the call fails with the settlement done.     *)
record_settlement(c) ==
    /\ clerk[c].at \in {"released", "refunded"}
    /\ LET s == clerk[c].sanad IN
       Emit(s, clerk[c].at, get_latest_version(events[s]) + 1)
    /\ clerk' = [clerk EXCEPT ![c] = Resting]
    /\ UNCHANGED <<replay, registry, journal, breaker, task, chain, escrow>>

Transferring ==
    /\ OneTask => \A c \in Clerks : ~Working(c)
    /\ Step
    /\ UNCHANGED <<clerk, escrow>>

(* A crash ends the clerks' calls too.                                     *)
stop ==
    /\ crash
    /\ clerk' = [c \in Clerks |-> Resting]
    /\ UNCHANGED escrow

SettlementNext ==
    \/ Transferring \/ stop
    \/ \E c \in Clerks, s \in Sanads : release_escrow(c, s) \/ refund_escrow(c, s)
    \/ \E c \in Clerks : settle(c) \/ refund(c) \/ record_settlement(c)

SettlementSpec == SettlementInit /\ [][SettlementNext]_svars

(* The escrow is released to the operator only for a sanad that was minted *)
(* on the destination chain: evidence is recorded after confirmation only, *)
(* whatever is resumed, fails or crashes.                                  *)
ReleasedOnlyMinted == \A s \in Sanads : escrow[s] = "operator" => "minted" \in chain[s]

(* The event store never shows a settlement the chain did not make, and    *)
(* never both outcomes, even with a release and a refund in a race.        *)
RecordsMatchEscrow ==
    \A s \in Sanads :
        /\ "released" \in Kinds(s) => escrow[s] = "operator"
        /\ "refunded" \in Kinds(s) => escrow[s] = "locker"

(* As refund_escrow's comment has it, a confirmed mint must settle to the  *)
(* operator, never refund.                                                 *)
ConfirmedNeverRefunded ==
    [][\A s \in Sanads :
          escrow[s] = "held" /\ escrow'[s] = "locker" => replay[s] # "Consumed"]_svars
=============================================================================
