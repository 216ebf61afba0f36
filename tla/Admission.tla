----------------------------- MODULE Admission -----------------------------
(***************************************************************************)
(* Admission control of the runtime (csv-admission).  A transfer that      *)
(* enters TransferCoordinator::execute_outcome or execute_from_proof takes *)
(* an AdmissionPermit for its source and destination chain and gives it    *)
(* back when the permit is dropped, on every return path.  Each operation  *)
(* runs under the controller's mutex, so it is one step.                   *)
(***************************************************************************)
EXTENDS Integers, FiniteSets

CONSTANTS
    Chains,                    \* chain identifiers
    Callers,                   \* threads that may run a transfer
    max_in_flight_transfers,   \* AdmissionLimits
    max_in_flight_per_chain

ASSUME AdmissionAssumption ==
    /\ IsFiniteSet(Callers)
    /\ max_in_flight_transfers \in Nat
    /\ max_in_flight_per_chain \in Nat

VARIABLES
    permit,                \* permit[w]: the chains of the permit w holds, {} for none
    in_flight_transfers,   \* AdmissionState
    in_flight_by_chain     \* a map: a chain without an entry counts zero

admissionVars == <<permit, in_flight_transfers, in_flight_by_chain>>

unique_chains(source, destination) == {source, destination}

InFlight(c) ==
    IF c \in DOMAIN in_flight_by_chain THEN in_flight_by_chain[c] ELSE 0

saturating_sub(n) == IF n = 0 THEN 0 ELSE n - 1

AdmissionInit ==
    /\ permit = [w \in Callers |-> {}]
    /\ in_flight_transfers = 0
    /\ in_flight_by_chain = [c \in {} |-> 0]

(* acquire_transfer.  A rejected call returns before it changes anything.  *)
acquire_transfer(w, source, destination) ==
    LET chains == unique_chains(source, destination) IN
    /\ permit[w] = {}
    /\ in_flight_transfers < max_in_flight_transfers
    /\ \A c \in chains : InFlight(c) < max_in_flight_per_chain
    /\ permit' = [permit EXCEPT ![w] = chains]
    /\ in_flight_transfers' = in_flight_transfers + 1
    /\ in_flight_by_chain' =
         [c \in DOMAIN in_flight_by_chain \cup chains |->
            InFlight(c) + IF c \in chains THEN 1 ELSE 0]

\* The mutation that drops a chain's entry whatever its count.
ReleaseRemovesEntry(w) ==
    /\ permit[w] # {}
    /\ permit' = [permit EXCEPT ![w] = {}]
    /\ in_flight_transfers' = saturating_sub(in_flight_transfers)
    /\ in_flight_by_chain' =
         [c \in DOMAIN in_flight_by_chain \ permit[w] |-> in_flight_by_chain[c]]

(* release_transfer, run by the permit's Drop: both counts saturate at     *)
(* zero and a chain whose count reaches zero leaves the map.               *)
release_transfer(w) ==
    /\ permit[w] # {}
    /\ permit' = [permit EXCEPT ![w] = {}]
    /\ in_flight_transfers' = saturating_sub(in_flight_transfers)
    /\ in_flight_by_chain' =
         [c \in {x \in DOMAIN in_flight_by_chain :
                   x \in permit[w] => saturating_sub(in_flight_by_chain[x]) # 0} |->
            IF c \in permit[w] THEN saturating_sub(in_flight_by_chain[c])
                               ELSE in_flight_by_chain[c]]

AdmissionNext ==
    \E w \in Callers :
        \/ \E source, destination \in Chains :
              acquire_transfer(w, source, destination)
        \/ release_transfer(w)

AdmissionSpec == AdmissionInit /\ [][AdmissionNext]_admissionVars

-----------------------------------------------------------------------------
AdmissionTypeOK ==
    /\ permit \in [Callers -> SUBSET Chains]
    /\ in_flight_transfers \in Nat
    /\ DOMAIN in_flight_by_chain \subseteq Chains
    /\ \A c \in DOMAIN in_flight_by_chain : in_flight_by_chain[c] \in Nat \ {0}

Holders == {w \in Callers : permit[w] # {}}

HoldersOn(c) == {w \in Callers : c \in permit[w]}

(* The counters acquire_transfer tests are exactly the permits that are    *)
(* out, in total and per chain: no path through acquire and drop leaks     *)
(* capacity, frees it twice, or makes a saturating subtraction saturate.   *)
CountsArePermits ==
    /\ in_flight_transfers = Cardinality(Holders)
    /\ \A c \in Chains : InFlight(c) = Cardinality(HoldersOn(c))

(* The pressure boundary: never more transfers in flight than the limits   *)
(* of AdmissionLimits allow, whatever the mix of same-chain and cross-     *)
(* chain transfers.                                                        *)
WithinLimits ==
    /\ Cardinality(Holders) <= max_in_flight_transfers
    /\ \A c \in Chains : Cardinality(HoldersOn(c)) <= max_in_flight_per_chain

(* Capacity is neither leaked nor oversold: the counters acquire_transfer  *)
(* tests are the permits that are out, and these are within                *)
(* AdmissionLimits.                                                        *)
CapacityAccounted == CountsArePermits /\ WithinLimits
=============================================================================
