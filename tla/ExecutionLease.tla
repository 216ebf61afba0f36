-------------------------- MODULE ExecutionLease ---------------------------
(***************************************************************************)
(* The per-transfer lease of csv-runtime (user_runtime_lease.rs) and the   *)
(* table of accepted leases a TransferCoordinator keeps in memory          *)
(* (accept_execution_lease): a lease is a value its runtime makes for      *)
(* itself; the coordinator decides which one it executes under.            *)
(***************************************************************************)
EXTENDS Integers, FiniteSets

CONSTANTS
    Runtimes,
    LeasedSanads,
    LeaseDuration,   \* at most MAX_LEASE_DURATION_SECS
    MaxEpoch,        \* bound on epochs
    MaxTime          \* bound on the clock

ASSUME ExecutionLeaseAssumption ==
    LeaseDuration \in Nat /\ MaxEpoch \in Nat /\ MaxTime \in Nat

VARIABLES
    time,
    active,     \* active[s]: active_execution_leases, a set of at most one lease
    accepted    \* history, accepted[s]: the leases executed under since the start

executionVars == <<time, active, accepted>>

ExecutionInit ==
    /\ time = 0
    /\ active = [s \in LeasedSanads |-> {}]
    /\ accepted = [s \in LeasedSanads |-> {}]

is_active(l) == time < l.expires

(* TransferLease::acquire and renew make a value and change nothing, and   *)
(* the epoch is their caller's (the SDK's build_runtime_ctx makes a lease  *)
(* of epoch 1 for every call): any of these may be presented now.          *)
Leases ==
    [owner : Runtimes, epoch : 0 .. MaxEpoch, expires : LeaseDuration .. time + LeaseDuration]

\* The mutation that lets a higher epoch supersede a live lease.
AcceptsHigherEpoch(s, l) ==
    \A current \in active[s] :
        \/ l.epoch > current.epoch
        \/ l.epoch = current.epoch /\ l.owner = current.owner

(* What accept_execution_lease asks of the lease recorded for the sanad.   *)
Accepted(s, l) ==
    \A current \in active[s] :
        \/ l.epoch = current.epoch /\ l.owner = current.owner
        \/ /\ l.epoch > current.epoch
           /\ is_active(current) => l.owner = current.owner

(* A lease of the recorded epoch is accepted and not recorded.             *)
Store(s, l) ==
    active' = [active EXCEPT ![s] = IF \E c \in @ : c.epoch = l.epoch THEN @ ELSE {l}]

(* execute_outcome and validate_recovery_context: epoch 0 and expired      *)
(* leases are refused before accept_execution_lease.                       *)
accept_execution_lease(s, l) ==
    /\ l.epoch # 0 /\ is_active(l) /\ Accepted(s, l)
    /\ Store(s, l)
    /\ accepted' = [accepted EXCEPT ![s] = @ \cup {l}]
    /\ UNCHANGED time

(* The coordinator's process restarts: the table is empty.                 *)
coordinator_restarts ==
    /\ \E s \in LeasedSanads : active[s] # {}
    /\ active' = [s \in LeasedSanads |-> {}]
    /\ accepted' = [s \in LeasedSanads |-> {}]
    /\ UNCHANGED time

time_passes ==
    /\ time < MaxTime
    /\ time' = time + 1
    /\ UNCHANGED <<active, accepted>>

ExecutionNext ==
    \/ \E s \in LeasedSanads : \E l \in Leases : accept_execution_lease(s, l)
    \/ coordinator_restarts \/ time_passes

ExecutionSpec == ExecutionInit /\ [][ExecutionNext]_executionVars

-----------------------------------------------------------------------------
(* "Active transfer lease cannot be superseded by another runtime": of two *)
(* accepted leases of different runtimes that are both valid, the owner of *)
(* the one with the lower epoch has itself brought a lease that expired    *)
(* earlier under that epoch or a later one, and the table went by that     *)
(* one.  Runtimes that never do so exclude each other.                     *)
LiveOwnersAgree ==
    \A s \in LeasedSanads : \A k, l \in accepted[s] :
        /\ is_active(k) /\ is_active(l) /\ k.owner # l.owner /\ k.epoch < l.epoch
        => \E j \in accepted[s] :
              j.owner = k.owner /\ j.epoch >= k.epoch /\ j.expires < k.expires
=============================================================================
