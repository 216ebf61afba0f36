-------------------------- MODULE ComponentProofs ---------------------------
(***************************************************************************)
(* Components of their own, each for every value of its constants: the     *)
(* admission counters are exact and the limits hold; a downgrade of        *)
(* accepted states reaches every descendant that depends on it; the chain  *)
(* cell exceeds its memory ceiling by less than a task for each submitter; *)
(* the proof router finds an event new once; a quorum's decision is backed *)
(* by independent providers; and an inclusion proof read page by page is   *)
(* that of the transaction asked for.                                      *)
(***************************************************************************)
EXTENDS Admission, AcceptedState, ChainCell, ProofDelivery, VerificationQuorum,
        BlockInclusion, FiniteSetTheorems, TLAPS

-----------------------------------------------------------------------------
(* Admission.                                                              *)

(* A set of callers is finite, so its cardinality is a natural number.     *)
LEMMA CallersFinite ==
    ASSUME NEW S \in SUBSET Callers
    PROVE  IsFiniteSet(S) /\ Cardinality(S) \in Nat
BY Zenon, AdmissionAssumption, FS_Subset, FS_CardinalityType

(* One caller more, one permit more.                                       *)
LEMMA CountUp ==
    ASSUME NEW S \in SUBSET Callers, NEW w \in Callers, w \notin S
    PROVE  Cardinality(S \cup {w}) = Cardinality(S) + 1
BY CallersFinite, FS_AddElement

(* One caller less, one permit less.                                       *)
LEMMA CountDown ==
    ASSUME NEW S \in SUBSET Callers, NEW w \in S
    PROVE  /\ Cardinality(S \ {w}) = Cardinality(S) - 1
           /\ Cardinality(S) # 0
<1>1. IsFiniteSet(S) /\ Cardinality(S) \in Nat
  BY CallersFinite
<1>2. Cardinality(S \ {w}) = Cardinality(S) - 1
  BY Zenon, <1>1, FS_RemoveElement
<1>3. Cardinality(S) # 0
  BY Zenon, <1>1, FS_EmptySet
<1> QED
  BY <1>2, <1>3

IInv == AdmissionTypeOK /\ CountsArePermits

(* Nobody holds a permit at first and every count is zero.                 *)
LEMMA InitIInv == AdmissionInit => IInv
<1> SUFFICES ASSUME AdmissionInit PROVE IInv
  OBVIOUS
<1>1. Holders = {} /\ \A c \in Chains : HoldersOn(c) = {}
  BY DEF AdmissionInit, Holders, HoldersOn
<1>2. Cardinality({}) = 0
  BY FS_EmptySet
<1> QED
  BY Zenon, <1>1, <1>2 DEF AdmissionInit, IInv, AdmissionTypeOK, CountsArePermits, InFlight

(* acquire_transfer adds the caller to the holders of exactly its chains.  *)
LEMMA AcquireIInv ==
    ASSUME IInv, NEW w \in Callers, NEW src \in Chains, NEW destination \in Chains,
           acquire_transfer(w, src, destination)
    PROVE  IInv'
<1> DEFINE chains == unique_chains(src, destination)
<1>0. chains \subseteq Chains /\ chains # {}
  BY DEF unique_chains
<1> HIDE DEF chains
<1>1. /\ permit[w] = {}
      /\ permit' = [permit EXCEPT ![w] = chains]
      /\ in_flight_transfers' = in_flight_transfers + 1
      /\ in_flight_by_chain' =
           [c \in DOMAIN in_flight_by_chain \cup chains |->
              InFlight(c) + IF c \in chains THEN 1 ELSE 0]
  BY DEF acquire_transfer, chains
<1>2. \A c \in Chains : InFlight(c) \in Nat
  BY DEF IInv, AdmissionTypeOK, InFlight
<1>3. AdmissionTypeOK'
  BY <1>0, <1>1, <1>2 DEF IInv, AdmissionTypeOK, InFlight
<1>4. in_flight_transfers' = Cardinality(Holders')
  <2>1. Holders' = Holders \cup {w} /\ w \notin Holders /\ Holders \subseteq Callers
    BY Zenon, <1>0, <1>1 DEF IInv, AdmissionTypeOK, Holders
  <2> QED
    BY Zenon, <1>1, <2>1, CountUp DEF IInv, CountsArePermits
<1>5. ASSUME NEW c \in Chains
      PROVE  InFlight(c)' = Cardinality(HoldersOn(c)')
  <2>1. InFlight(c) = Cardinality(HoldersOn(c))
    BY DEF IInv, CountsArePermits
  <2>2. CASE c \in chains
    <3>1. /\ HoldersOn(c)' = HoldersOn(c) \cup {w}
          /\ w \notin HoldersOn(c)
          /\ HoldersOn(c) \subseteq Callers
      BY Zenon, <1>1, <2>2 DEF IInv, AdmissionTypeOK, HoldersOn
    <3>2. InFlight(c)' = InFlight(c) + 1
      BY Zenon, <1>1, <2>2 DEF InFlight
    <3> QED
      BY Zenon, <2>1, <3>1, <3>2, CountUp
  <2>3. CASE c \notin chains
    <3>1. HoldersOn(c)' = HoldersOn(c)
      BY Zenon, <1>1, <2>3 DEF IInv, AdmissionTypeOK, HoldersOn
    <3>2. InFlight(c)' = InFlight(c)
      BY <1>1, <1>2, <2>3 DEF InFlight
    <3> QED
      BY Zenon, <2>1, <3>1, <3>2
  <2> QED
    BY Zenon, <2>2, <2>3
<1> QED
  BY Zenon, <1>3, <1>4, <1>5 DEF IInv, CountsArePermits

(* release_transfer removes it again, and its counts are never zero, so    *)
(* neither subtraction saturates.                                          *)
LEMMA ReleaseIInv ==
    ASSUME IInv, NEW w \in Callers, release_transfer(w)
    PROVE  IInv'
<1>1. /\ permit[w] # {}
      /\ permit' = [permit EXCEPT ![w] = {}]
      /\ in_flight_transfers' = saturating_sub(in_flight_transfers)
  BY Zenon DEF release_transfer
<1>2. in_flight_by_chain' =
         [c \in {x \in DOMAIN in_flight_by_chain :
                   x \in permit[w] => saturating_sub(in_flight_by_chain[x]) # 0} |->
            IF c \in permit[w] THEN saturating_sub(in_flight_by_chain[c])
                               ELSE in_flight_by_chain[c]]
  BY Zenon DEF release_transfer
<1>3. AdmissionTypeOK'
  BY <1>1, <1>2 DEF IInv, AdmissionTypeOK, saturating_sub
<1>4. in_flight_transfers' = Cardinality(Holders')
  <2>1. Holders' = Holders \ {w} /\ w \in Holders /\ Holders \subseteq Callers
    BY Zenon, <1>1 DEF IInv, AdmissionTypeOK, Holders
  <2> QED
    BY Zenon, <1>1, <2>1, CountDown DEF IInv, CountsArePermits, saturating_sub
<1>5. ASSUME NEW c \in Chains
      PROVE  InFlight(c)' = Cardinality(HoldersOn(c)')
  <2>1. InFlight(c) = Cardinality(HoldersOn(c))
    BY DEF IInv, CountsArePermits
  <2>2. CASE c \in permit[w]
    <3>1. /\ HoldersOn(c)' = HoldersOn(c) \ {w}
          /\ w \in HoldersOn(c)
          /\ HoldersOn(c) \subseteq Callers
      BY Zenon, <1>1, <2>2 DEF IInv, AdmissionTypeOK, HoldersOn
    <3>2. InFlight(c) # 0 /\ Cardinality(HoldersOn(c)') = InFlight(c) - 1
      BY Zenon, <2>1, <3>1, CountDown
    <3>3. InFlight(c)' = InFlight(c) - 1
      BY Zenon, <1>2, <2>2, <3>2 DEF IInv, AdmissionTypeOK, InFlight, saturating_sub
    <3> QED
      BY Zenon, <3>2, <3>3
  <2>3. CASE c \notin permit[w]
    <3>1. HoldersOn(c)' = HoldersOn(c)
      BY Zenon, <1>1, <2>3 DEF IInv, AdmissionTypeOK, HoldersOn
    <3>2. InFlight(c)' = InFlight(c)
      BY Zenon, <1>2, <2>3 DEF InFlight
    <3> QED
      BY Zenon, <2>1, <3>1, <3>2
  <2> QED
    BY Zenon, <2>2, <2>3
<1> QED
  BY Zenon, <1>3, <1>4, <1>5 DEF IInv, CountsArePermits

(* Every step of the controller keeps the counts exact.                    *)
LEMMA NextIInv == IInv /\ [AdmissionNext]_admissionVars => IInv'
<1> SUFFICES ASSUME IInv, [AdmissionNext]_admissionVars PROVE IInv'
  OBVIOUS
<1>1. CASE AdmissionNext
  BY Zenon, <1>1, AcquireIInv, ReleaseIInv DEF AdmissionNext
<1>2. CASE UNCHANGED admissionVars
  BY Zenon, <1>2 DEF admissionVars, IInv, AdmissionTypeOK, CountsArePermits, InFlight, Holders, HoldersOn
<1> QED
  BY Zenon, <1>1, <1>2

(* The counters AdmissionController keeps are the permits that are out.    *)
THEOREM CountsAreExact == AdmissionSpec => [](AdmissionTypeOK /\ CountsArePermits)
<1>1. IInv => AdmissionTypeOK /\ CountsArePermits
  BY DEF IInv
<1> QED
  BY <1>1, InitIInv, NextIInv, PTL DEF AdmissionSpec

-----------------------------------------------------------------------------
(* With exact counters the tests of acquire_transfer bound the permits.    *)
LEMMA InitLimits == AdmissionInit => WithinLimits
<1> SUFFICES ASSUME AdmissionInit PROVE WithinLimits
  OBVIOUS
<1>1. Holders = {} /\ \A c \in Chains : HoldersOn(c) = {}
  BY DEF AdmissionInit, Holders, HoldersOn
<1> QED
  BY <1>1, FS_EmptySet, AdmissionAssumption DEF WithinLimits

(* acquire_transfer tests both limits before it counts the caller.         *)
LEMMA NextLimits == IInv /\ IInv' /\ WithinLimits /\ [AdmissionNext]_admissionVars => WithinLimits'
<1> SUFFICES ASSUME IInv, IInv', WithinLimits, [AdmissionNext]_admissionVars PROVE WithinLimits'
  BY Zenon
<1>1. ASSUME NEW w \in Callers, NEW s \in Chains, NEW d \in Chains,
             acquire_transfer(w, s, d)
      PROVE  WithinLimits'
  <2>1. Cardinality(Holders') <= max_in_flight_transfers
    BY <1>1, AdmissionAssumption
    DEF acquire_transfer, IInv, AdmissionTypeOK, CountsArePermits
  <2>2. ASSUME NEW c \in Chains
        PROVE  Cardinality(HoldersOn(c)') <= max_in_flight_per_chain
    <3>1. /\ InFlight(c) = Cardinality(HoldersOn(c))
          /\ InFlight(c)' = Cardinality(HoldersOn(c)')
          /\ InFlight(c) \in Nat
      BY Zenon DEF IInv, CountsArePermits, AdmissionTypeOK, InFlight
    <3>2. CASE c \in unique_chains(s, d)
      <4>1. InFlight(c)' = InFlight(c) + 1 /\ InFlight(c) < max_in_flight_per_chain
        BY Zenon, <1>1, <3>2 DEF acquire_transfer, InFlight
      <4> QED
        BY <3>1, <4>1, AdmissionAssumption
    <3>3. CASE c \notin unique_chains(s, d)
      <4>1. InFlight(c)' = InFlight(c)
        BY <1>1, <3>1, <3>3 DEF acquire_transfer, InFlight
      <4> QED
        BY Zenon, <3>1, <4>1 DEF WithinLimits
    <3> QED
      BY Zenon, <3>2, <3>3
  <2> QED
    BY Zenon, <2>1, <2>2 DEF WithinLimits
<1>2. ASSUME NEW w \in Callers, release_transfer(w)
      PROVE  WithinLimits'
  <2>1. /\ Holders' \subseteq Holders
        /\ \A c \in Chains : HoldersOn(c)' \subseteq HoldersOn(c)
    BY Zenon, <1>2 DEF release_transfer, IInv, AdmissionTypeOK, Holders, HoldersOn
  <2>2. ASSUME NEW S \in SUBSET Callers, NEW T \in SUBSET S, NEW n \in Nat,
               Cardinality(S) <= n
        PROVE  Cardinality(T) <= n
    <3>1. Cardinality(T) <= Cardinality(S) /\ Cardinality(T) \in Nat /\ Cardinality(S) \in Nat
      BY Zenon, CallersFinite, FS_Subset
    <3> QED
      BY <2>2, <3>1
  <2>3. Holders \subseteq Callers /\ \A c \in Chains : HoldersOn(c) \subseteq Callers
    BY Zenon DEF Holders, HoldersOn
  <2> QED
    BY Zenon, <2>1, <2>2, <2>3, AdmissionAssumption DEF WithinLimits
<1>3. CASE UNCHANGED admissionVars
  BY <1>3 DEF admissionVars, WithinLimits, Holders, HoldersOn
<1> QED
  BY <1>1, <1>2, <1>3 DEF AdmissionNext

(* AdmissionLimits are never exceeded, in total or on any chain.           *)
THEOREM LimitsHold == AdmissionSpec => []WithinLimits
BY InitIInv, NextIInv, InitLimits, NextLimits, PTL DEF AdmissionSpec

(* Both together, for any number of callers and chains and any limits.     *)
THEOREM CapacityIsAccounted == AdmissionSpec => []CapacityAccounted
BY CountsAreExact, LimitsHold, PTL DEF CapacityAccounted

----------------------------------------------------------------------------
(* Accepted states.                                                        *)

(* A record that was found final again, and has not been looked at since,  *)
(* is Final.                                                               *)
RevalidatedIsFinal ==
    /\ DOMAIN successor = StateIds
    /\ status \in [Transitions -> {"none", "Final", "Revoked", "Indeterminate"}]
    /\ \A t \in Transitions : last[t].reason = "REVALIDATED" => status[t] = "Final"

(* The walk of reconcile_records ends with a closed set: the least one.    *)
LEMMA WalkIsClosed ==
    ASSUME NEW c, NEW t \in Present, ~Settled(t, c), Parent(t) \in Roots(c) \cup Downgraded(c)
    PROVE  t \in Downgraded(c)
<1> SUFFICES ASSUME NEW found \in SUBSET Present, Closed(c, found)
             PROVE  t \in found
  BY Zenon DEF Downgraded
<1>1. Parent(t) \in Roots(c) \cup found
  BY Zenon DEF Downgraded
<1> QED
  BY Zenon, <1>1 DEF Closed

(* Every step of the accepted-state machine keeps it.                     *)
LEMMA RevalidatedKept == RevalidatedIsFinal /\ [AcceptedNext]_acceptedVars => RevalidatedIsFinal'
<1> SUFFICES ASSUME RevalidatedIsFinal, [AcceptedNext]_acceptedVars
             PROVE  RevalidatedIsFinal'
  OBVIOUS
<1>1. ASSUME NEW t \in Transitions, accept(t)
      PROVE  RevalidatedIsFinal'
  <2>1. status' = [status EXCEPT ![t] = "Final"]
    BY Zenon, <1>1 DEF accept
  <2>2. \A u \in Transitions : u # t => last'[u] = last[u]
    BY <1>1 DEF accept
  <2>3. DOMAIN successor' = DOMAIN successor
    BY Zenon, <1>1 DEF accept
  <2> QED
    BY Zenon, <2>1, <2>2, <2>3 DEF RevalidatedIsFinal
<1>2. ASSUME NEW c, NEW d \in {"Final", "Orphaned", "Indeterminate"}, reconcile_checkpoint(c, d)
      PROVE  RevalidatedIsFinal'
  <2>1. PICK below \in {IF d = "Final" THEN {} ELSE Downgraded(c)} :
          /\ status' = [t \in Transitions |->
                          IF t \in below THEN "Indeterminate"
                          ELSE IF t \in Roots(c) THEN RootStatus(d) ELSE status[t]]
          /\ last' = [t \in Transitions |->
                        IF t \in below THEN [checkpoint |-> c, reason |-> "ANCESTOR"]
                        ELSE IF t \in Roots(c) THEN [checkpoint |-> c, reason |-> RootReason(d)]
                        ELSE last[t]]
          /\ successor' = successor
    BY Zenon, <1>2 DEF reconcile_checkpoint
  <2>2. RootStatus(d) \in {"Final", "Revoked", "Indeterminate"}
        /\ (RootReason(d) = "REVALIDATED" => RootStatus(d) = "Final")
    BY Zenon DEF RootStatus, RootReason
  <2> QED
    BY Zenon, <2>1, <2>2 DEF RevalidatedIsFinal
<1>3. CASE UNCHANGED acceptedVars
  BY Zenon, <1>3 DEF acceptedVars, RevalidatedIsFinal
<1> QED
  BY Zenon, <1>1, <1>2, <1>3 DEF AcceptedNext

(* An accept leaves every other successor; reconcile_checkpoint all.       *)
LEMMA SuccessorsStay ==
    ASSUME AcceptedNext, NEW s \in StateIds, successor[s] # NoTransition
    PROVE  successor'[s] = successor[s]
<1>1. ASSUME NEW t \in Transitions, accept(t)
      PROVE  successor'[s] = successor[s]
  BY <1>1 DEF accept
<1>2. ASSUME NEW c, NEW d, reconcile_checkpoint(c, d)
      PROVE  successor'[s] = successor[s]
  BY Zenon, <1>2 DEF reconcile_checkpoint
<1> QED
  BY Zenon, <1>1, <1>2 DEF AcceptedNext

(* A step that only downgrades keeps a consistent lineage consistent.      *)
LEMMA DowngradeKeeps ==
    ASSUME RevalidatedIsFinal, AcceptedNext, LineageConsistent, Downgrade
    PROVE  LineageConsistent'
<1>1. successor' = successor /\ Present' = Present
  BY Zenon DEF Downgrade, Present, IsAccepted
<1>2. ASSUME NEW t \in Transitions, accept(t)
      PROVE  LineageConsistent'
  <2>1. t \in Transitions /\ ConsumedBy[t] \in StateIds /\ t # NoTransition
    BY Zenon, AcceptedStateAssumption
  <2>2. successor[ConsumedBy[t]] = NoTransition /\ successor[ConsumedBy[t]] = t
    BY Zenon, <1>1, <1>2, <2>1 DEF accept, RevalidatedIsFinal
  <2> QED
    BY Zenon, <2>1, <2>2
<1>3. ASSUME NEW c, NEW d \in {"Final", "Orphaned", "Indeterminate"}, reconcile_checkpoint(c, d)
      PROVE  LineageConsistent'
  <2>1. PICK below \in {IF d = "Final" THEN {} ELSE Downgraded(c)} :
          /\ status' = [t \in Transitions |->
                          IF t \in below THEN "Indeterminate"
                          ELSE IF t \in Roots(c) THEN RootStatus(d) ELSE status[t]]
          /\ last' = [t \in Transitions |->
                        IF t \in below THEN [checkpoint |-> c, reason |-> "ANCESTOR"]
                        ELSE IF t \in Roots(c) THEN [checkpoint |-> c, reason |-> RootReason(d)]
                        ELSE last[t]]
    BY Zenon, <1>3 DEF reconcile_checkpoint
  <2>2. Present \subseteq Transitions /\ Roots(c) \subseteq Present
    BY Zenon DEF Present, Roots
  <2> SUFFICES ASSUME NEW t \in Present, Parent(t) \in Present, status'[t] = "Final"
               PROVE  status'[Parent(t)] = "Final"
    BY Zenon, <1>1 DEF LineageConsistent, Parent
  <2> DEFINE p == Parent(t)
  <2>3. t \in Transitions /\ p \in Transitions
    BY Zenon, <2>2
  <2>4. CASE d = "Final"
    <3>1. below = {} /\ RootStatus(d) = "Final" /\ RootReason(d) = "REVALIDATED"
      BY Zenon, <2>4 DEF RootStatus, RootReason
    <3>2. \A u \in Roots(c) : last'[u].reason = "REVALIDATED"
      BY Zenon, <2>1, <2>2, <3>1
    <3>3. \A u \in Roots(c) : status[u] = "Final"
      BY Zenon, <2>2, <3>2 DEF Downgrade, RevalidatedIsFinal
    <3>4. \A u \in Transitions : status'[u] = status[u]
      BY Zenon, <2>1, <3>1, <3>3
    <3> QED
      BY Zenon, <2>3, <3>4 DEF LineageConsistent
  <2>5. CASE d # "Final"
    <3>1. below = Downgraded(c) /\ RootStatus(d) # "Final"
      BY Zenon, <2>5 DEF RootStatus
    <3>2. t \notin below /\ t \notin Roots(c) /\ status[t] = "Final"
      BY Zenon, <2>1, <2>3, <3>1
    <3>3. ~Settled(t, c)
      BY Zenon, <3>2 DEF Settled
    <3>4. p \notin Roots(c) \cup below
      BY Zenon, <3>1, <3>2, <3>3, WalkIsClosed
    <3>5. status'[p] = status[p]
      BY Zenon, <2>1, <2>3, <3>4
    <3> QED
      BY Zenon, <3>2, <3>5 DEF LineageConsistent
  <2> QED
    BY Zenon, <2>4, <2>5
<1> QED
  BY Zenon, <1>2, <1>3 DEF AcceptedNext

(* For any lineage of transitions and any assignment of checkpoints: a     *)
(* consumed state keeps its successor, and a downgrade never leaves a      *)
(* Final record below one that is not, though its walk stops at records    *)
(* that were downgraded before.                                            *)
THEOREM LineageIsKept == AcceptedSpec => LineageKept
<1>1. AcceptedInit => RevalidatedIsFinal
  BY DEF AcceptedInit, RevalidatedIsFinal
<1>2. ASSUME RevalidatedIsFinal, [AcceptedNext]_acceptedVars
      PROVE  [/\ \A s \in StateIds : successor[s] # NoTransition => successor'[s] = successor[s]
              /\ Downgrade /\ LineageConsistent => LineageConsistent']_acceptedVars
  BY Zenon, <1>2, SuccessorsStay, DowngradeKeeps
<1> QED
  BY <1>1, <1>2, RevalidatedKept, PTL DEF AcceptedSpec, LineageKept

-----------------------------------------------------------------------------
(* The chain cell's ceiling and the router's cache.                        *)

(* The submitters that will pass the ceiling's test.                       *)
Passing ==
    {w \in Submitters : submitter[w].at = "allocate" /\ submitter[w].loaded + 1 <= MaxMemory}

(* What is charged, and what those that have loaded the usage will charge: *)
(* one of them loaded it below the ceiling, and the others add one each.   *)
CellInv ==
    /\ submitter \in [Submitters -> [at : {"away", "allocate", "send"}, task : Tasks, loaded : Nat]]
    /\ current_bytes \in Nat
    /\ current_bytes + Cardinality(Passing) <= MaxMemory + Cardinality(Submitters) - 1

(* There are finitely many submitters, one at least.                       *)
LEMMA PassingIsFinite ==
    /\ IsFiniteSet(Passing) /\ IsFiniteSet(Submitters)
    /\ Cardinality(Passing) \in Nat /\ Cardinality(Submitters) \in Nat \ {0}
    /\ Cardinality(Passing) <= Cardinality(Submitters)
<1>1. IsFiniteSet(Submitters) /\ Passing \subseteq Submitters
  BY Zenon, CellAssumption DEF Passing
<1>2. IsFiniteSet(Passing) /\ Cardinality(Passing) <= Cardinality(Submitters)
  BY Zenon, <1>1, FS_Subset
<1> QED
  BY Zenon, <1>1, <1>2, FS_CardinalityType, FS_EmptySet, CellAssumption

(* Nobody has loaded the usage and nothing is charged.                     *)
LEMMA CellInvInit == CellInit => CellInv
<1> SUFFICES ASSUME CellInit PROVE CellInv
  OBVIOUS
<1>1. Passing = {}
  BY Zenon DEF CellInit, Away, Passing
<1> QED
  BY <1>1, PassingIsFinite, FS_EmptySet, CellAssumption DEF CellInit, CellInv, Away, Tasks

(* Loading adds the submitter to those that will charge only while the     *)
(* usage is below the ceiling; charging moves one from what will be        *)
(* charged to what is.                                                     *)
LEMMA CellInvNext == CellInv /\ [CellNext]_cellVars => CellInv'
<1> SUFFICES ASSUME CellInv, [CellNext]_cellVars PROVE CellInv'
  OBVIOUS
<1>1. ASSUME NEW w \in Submitters, NEW t \in Tasks, submit(w, t) PROVE CellInv'
  <2>1. submitter' \in [Submitters -> [at : {"away", "allocate", "send"}, task : Tasks, loaded : Nat]]
    BY Zenon, <1>1 DEF CellInv, submit
  <2>2. CASE t # "HealthCheck" /\ current_bytes + 1 <= MaxMemory
    <3>1. Passing' = Passing \cup {w} /\ w \notin Passing
      BY Zenon, <1>1, <2>2 DEF CellInv, submit, Passing
    <3>2. Cardinality(Passing') <= Cardinality(Submitters)
      BY Zenon, <3>1, CellAssumption, FS_Subset DEF Passing
    <3>3. Cardinality(Passing') = Cardinality(Passing) + 1
      BY ZenonT(30), <3>1, PassingIsFinite, FS_AddElement
    <3> QED
      BY <1>1, <2>1, <2>2, <3>2, <3>3, PassingIsFinite, CellAssumption DEF CellInv, submit
  <2>3. CASE ~(t # "HealthCheck" /\ current_bytes + 1 <= MaxMemory)
    <3>1. Passing' = Passing
      BY Zenon, <1>1, <2>3 DEF CellInv, submit, Passing
    <3> QED
      BY Zenon, <1>1, <2>1, <3>1 DEF CellInv, submit
  <2> QED
    BY Zenon, <2>2, <2>3
<1>2. ASSUME NEW w \in Submitters, try_allocate(w) PROVE CellInv'
  <2>1. submitter' \in [Submitters -> [at : {"away", "allocate", "send"}, task : Tasks, loaded : Nat]]
    BY Zenon, <1>2 DEF CellInv, try_allocate, Charged, Away, Tasks
  <2>2. Passing' = Passing \ {w}
    BY Zenon, <1>2 DEF CellInv, try_allocate, Charged, Away, Passing
  <2>3. CASE w \in Passing
    <3>1. Cardinality(Passing') = Cardinality(Passing) - 1
      BY ZenonT(30), <2>2, <2>3, PassingIsFinite, FS_RemoveElement
    <3>2. current_bytes' = current_bytes + 1
      BY Zenon, <1>2, <2>3 DEF try_allocate, Passing
    <3> QED
      BY <2>1, <3>1, <3>2, PassingIsFinite, CellAssumption DEF CellInv
  <2>4. CASE w \notin Passing
    <3>1. Passing' = Passing /\ current_bytes' = current_bytes
      BY <1>2, <2>2, <2>4 DEF CellInv, try_allocate, Passing
    <3> QED
      BY Zenon, <2>1, <3>1 DEF CellInv
  <2> QED
    BY Zenon, <2>3, <2>4
<1>3. ASSUME NEW w \in Submitters, send(w) PROVE CellInv'
  <2>1. Passing' = Passing
    BY Zenon, <1>3 DEF CellInv, send, Away, Passing
  <2>2. submitter' \in [Submitters -> [at : {"away", "allocate", "send"}, task : Tasks, loaded : Nat]]
    BY Zenon, <1>3 DEF CellInv, send, Away, Tasks
  <2> QED
    BY Zenon, <1>3, <2>1, <2>2 DEF CellInv, send
<1>4. CASE UNCHANGED <<submitter, current_bytes>>
  BY <1>4 DEF CellInv, Passing
<1> QED
  BY Zenon, <1>1, <1>2, <1>3, <1>4 DEF CellNext, recv, execute_transfer_phase, timeout_elapses, cellVars

(* For any number of submitters and any ceiling: try_allocate's load and   *)
(* its fetch_add let the cell exceed its memory ceiling by less than one   *)
(* task for each submitter.                                                *)
THEOREM OvershootIsBounded == CellSpec => []CeilingOvershoot
<1>1. CellInv => CeilingOvershoot
  BY PassingIsFinite, CellAssumption DEF CellInv, CeilingOvershoot
<1> QED
  BY <1>1, CellInvInit, CellInvNext, PTL DEF CellSpec

(* An event that was taken for new is in the cache, or the cache is full.  *)
DeliveryInv ==
    /\ IsFiniteSet(seen) /\ Cardinality(seen) <= MaxCachedProofs
    /\ fresh \in [1 .. MaxEvents -> Nat]
    /\ \A n \in 1 .. MaxEvents :
          fresh[n] > 0 => n \in seen \/ Cardinality(seen) = MaxCachedProofs
    /\ DuplicatesOnlyWhenFull

(* The cache is empty.                                                     *)
LEMMA DeliveryInvInit == DeliveryInit => DeliveryInv
BY DeliveryAssumption, FS_EmptySet DEF DeliveryInit, DeliveryInv, DuplicatesOnlyWhenFull

(* record adds one event, if there is room; an event that the cache holds  *)
(* is not counted again.                                                   *)
LEMMA DeliveryInvNext == DeliveryInv /\ [DeliveryNext]_deliveryVars => DeliveryInv'
<1> SUFFICES ASSUME DeliveryInv, [DeliveryNext]_deliveryVars PROVE DeliveryInv'
  OBVIOUS
<1>1. CASE UNCHANGED <<seen, fresh>>
  BY Zenon, <1>1 DEF DeliveryInv, DuplicatesOnlyWhenFull
<1>2. ASSUME NEW n, n \notin seen, seen' = record(n),
             fresh' = [fresh EXCEPT ![n] = IF @ < 2 THEN @ + 1 ELSE @]
      PROVE  DeliveryInv'
  <2>1. fresh' \in [1 .. MaxEvents -> Nat]
    <3>1. fresh \in [1 .. MaxEvents -> Nat]
      BY Zenon DEF DeliveryInv
    <3>2. ASSUME NEW m \in 1 .. MaxEvents PROVE fresh'[m] \in Nat
      <4>1. CASE m = n
        <5>1. fresh'[m] = IF fresh[m] < 2 THEN fresh[m] + 1 ELSE fresh[m]
          BY Zenon, <1>2, <3>1, <4>1
        <5>2. fresh[m] \in Nat
          BY Zenon, <3>1
        <5> QED
          BY <5>1, <5>2
      <4>2. CASE m # n
        BY Zenon, <1>2, <3>1, <4>2
      <4> QED
        BY Zenon, <4>1, <4>2
    <3> QED
      BY Zenon, <1>2, <3>1, <3>2
  <2>2. Cardinality(seen) \in Nat
    BY Zenon, FS_CardinalityType DEF DeliveryInv
  <2>3. CASE Cardinality(seen) < MaxCachedProofs
    <3>1. seen' = seen \cup {n}
      BY <1>2, <2>3 DEF record
    <3>2. IsFiniteSet(seen') /\ Cardinality(seen') = Cardinality(seen) + 1
      BY Zenon, <1>2, <3>1, FS_AddElement DEF DeliveryInv
    <3>3. \A m \in 1 .. MaxEvents : fresh[m] > 0 => m \in seen
      BY <2>3, <2>2, DeliveryAssumption DEF DeliveryInv
    <3>4. \A m \in 1 .. MaxEvents : fresh'[m] > 0 => m \in seen'
      BY Zenon, <1>2, <3>1, <3>3 DEF DeliveryInv
    <3>5. \A m \in 1 .. MaxEvents : fresh'[m] <= 1
      BY <1>2, <2>2, <2>3, <3>3, DeliveryAssumption DEF DeliveryInv, DuplicatesOnlyWhenFull
    <3> QED
      BY <2>1, <2>2, <2>3, <3>2, <3>4, <3>5, DeliveryAssumption DEF DeliveryInv, DuplicatesOnlyWhenFull
  <2>4. CASE ~(Cardinality(seen) < MaxCachedProofs)
    <3>1. seen' = seen /\ Cardinality(seen) = MaxCachedProofs
      BY <1>2, <2>2, <2>4, DeliveryAssumption DEF record, DeliveryInv
    <3> QED
      BY Zenon, <2>1, <3>1 DEF DeliveryInv, DuplicatesOnlyWhenFull
  <2> QED
    BY Zenon, <2>3, <2>4
<1>3. ASSUME process_incoming PROVE DeliveryInv'
  BY Zenon, <1>1, <1>2, <1>3 DEF process_incoming
<1>4. ASSUME NEW n, Notify(n) PROVE UNCHANGED <<seen, fresh>>
  BY Zenon, <1>4 DEF Notify
<1>5. ASSUME NEW ok, NEW kept, send_event(ok, kept) PROVE UNCHANGED <<seen, fresh>>
  BY Zenon, <1>4, <1>5 DEF send_event, receiverVars
<1> QED
  BY ZenonT(30), <1>1, <1>3, <1>4, <1>5
     DEF DeliveryNext, deliver, try_transport, disconnect, no_relays, notify_again,
         subscription_recv, channel_send, receiverVars, deliveryVars

(* For any number of events, relays and retries and any size of the cache: *)
(* process_incoming finds an event new a second time only once the proof   *)
(* cache is full.                                                          *)
THEOREM NewIsNewOnce == DeliverySpec => []DuplicatesOnlyWhenFull
BY DeliveryInvInit, DeliveryInvNext, PTL DEF DeliverySpec, DeliveryInv

-----------------------------------------------------------------------------
(* The verification quorum.                                                *)

(* The fold's state: a provider has an entry once one of its endpoints     *)
(* answered, and the entry holds a value exactly when all of them said it. *)
QuorumInv ==
    /\ DOMAIN observed \subseteq Endpoints
    /\ DOMAIN per_provider = {ProviderOf[e] : e \in DOMAIN observed}
    /\ \A p \in DOMAIN per_provider :
          /\ per_provider[p] \subseteq Observable
          /\ \A v \in Observable : v \in per_provider[p] <=> Said(p) = {v}

(* No endpoint has answered.                                               *)
LEMMA QuorumInvInit == QuorumInit => QuorumInv
BY Zenon DEF QuorumInit, QuorumInv

(* An answer makes, keeps or clears the entry of its provider.             *)
LEMMA QuorumInvNext == QuorumInv /\ [QuorumNext]_quorumVars => QuorumInv'
<1> SUFFICES ASSUME QuorumInv, [QuorumNext]_quorumVars PROVE QuorumInv'
  OBVIOUS
<1>1. ASSUME NEW e \in Endpoints, NEW v \in Observable, observe(e, v) PROVE QuorumInv'
  <2> DEFINE me == ProviderOf[e]
  <2>1. DOMAIN observed' = DOMAIN observed \cup {e}
    BY Zenon, <1>1 DEF observe
  <2>2. DOMAIN per_provider' = DOMAIN per_provider \cup {me}
    BY Zenon, <1>1 DEF observe, Fold
  <2>3. Said(me)' = Said(me) \cup {v}
    BY Zenon, <1>1 DEF observe, Said
  <2>4. ASSUME NEW p, p # me PROVE Said(p)' = Said(p)
    BY Zenon, <1>1, <2>4 DEF observe, Said
  <2>5. DOMAIN per_provider' = {ProviderOf[f] : f \in DOMAIN observed'}
    BY <2>1, <2>2 DEF QuorumInv
  <2>6. me \notin DOMAIN per_provider => Said(me) = {}
    BY DEF QuorumInv, Said
  <2>7. me \in DOMAIN per_provider => Said(me) # {}
    BY DEF QuorumInv, Said
  <2>8. ASSUME NEW u \in Observable PROVE u \in per_provider'[me] <=> Said(me)' = {u}
    <3>1. per_provider'[me] = IF me \in DOMAIN per_provider THEN per_provider[me] \cap {v} ELSE {v}
      BY Zenon, <1>1 DEF observe, Fold
    <3>2. CASE me \in DOMAIN per_provider
      BY <3>1, <3>2, <2>3, <2>7 DEF QuorumInv
    <3>3. CASE me \notin DOMAIN per_provider
      BY Zenon, <3>1, <3>3, <2>3, <2>6
    <3> QED
      BY Zenon, <3>2, <3>3
  <2>9. ASSUME NEW p \in DOMAIN per_provider', p # me, NEW u \in Observable
        PROVE  u \in per_provider'[p] <=> Said(p)' = {u}
    <3>1. p \in DOMAIN per_provider /\ per_provider'[p] = per_provider[p]
      BY Zenon, <1>1, <2>2, <2>9 DEF observe, Fold
    <3> QED
      BY Zenon, <3>1, <2>4, <2>9 DEF QuorumInv
  <2>10. DOMAIN observed' \subseteq Endpoints
    BY Zenon, <2>1 DEF QuorumInv
  <2>11. ASSUME NEW p \in DOMAIN per_provider' PROVE per_provider'[p] \subseteq Observable
    BY Zenon, <1>1, <2>11 DEF observe, Fold, QuorumInv
  <2> QED
    BY Zenon, <2>5, <2>8, <2>9, <2>10, <2>11 DEF QuorumInv
<1>2. ASSUME next_decision PROVE QuorumInv'
  BY Zenon, <1>2 DEF next_decision, QuorumInv
<1>3. ASSUME UNCHANGED quorumVars PROVE QuorumInv'
  <2>1. observed' = observed /\ per_provider' = per_provider
    BY Zenon, <1>3 DEF quorumVars
  <2>2. \A p : Said(p)' = Said(p)
    BY Zenon, <2>1 DEF Said
  <2> QED
    BY Zenon, <2>1, <2>2 DEF QuorumInv
<1> QED
  BY Zenon, <1>1, <1>2, <1>3 DEF QuorumNext

(* The providers evaluate_quorum counts are those whose endpoints all said *)
(* the value.                                                              *)
LEMMA BackedWhenDecided == QuorumInv => DecisionIsBacked
<1> SUFFICES ASSUME QuorumInv, NEW v \in evaluate_quorum(per_provider)
             PROVE  LET behind == {p \in Providers : Said(p) = {v}} IN
                    /\ Cardinality(behind) >= MinAgreement /\ behind \ {Submitter} # {}
                    /\ Cardinality({p \in Providers : Cardinality(Said(p)) = 1}) >= MinProviders
  BY ZenonT(30) DEF DecisionIsBacked
<1> DEFINE behind == {p \in Providers : Said(p) = {v}}
           consistent == {p \in Providers : Cardinality(Said(p)) = 1}
<1>1. \A p \in DOMAIN per_provider : p \in Providers
  BY Zenon DEF QuorumInv, Providers
<1>2. Agreeing(per_provider, v) = behind
  <2>1. \A p \in Providers : Said(p) = {v} => p \in DOMAIN per_provider
    BY DEF QuorumInv, Said
  <2>2. v \in Observable
    BY Zenon DEF evaluate_quorum
  <2>3. \A p \in DOMAIN per_provider : v \in per_provider[p] <=> Said(p) = {v}
    BY Zenon, <2>2 DEF QuorumInv
  <2> QED
    BY Zenon, <1>1, <2>1, <2>3 DEF Agreeing, Reliable
<1>3. Cardinality(behind) >= MinAgreement /\ behind \ {Submitter} # {}
  BY Zenon, <1>2 DEF evaluate_quorum
<1>4. IsFiniteSet(consistent)
  <2>1. IsFiniteSet(Providers)
    <3>1. ProviderOf \in Surjection(Endpoints, Providers)
      BY QuorumAssumption DEF Providers, Surjection
    <3> QED
      BY Zenon, <3>1, QuorumAssumption, FS_Surjection
  <2> QED
    BY Zenon, <2>1, FS_Subset
<1>5. Reliable(per_provider) \subseteq consistent
  <2> SUFFICES ASSUME NEW p \in Reliable(per_provider) PROVE p \in consistent
    BY Zenon
  <2>1. PICK u \in Observable : u \in per_provider[p]
    BY Zenon DEF Reliable, QuorumInv
  <2>2. Said(p) = {u}
    BY Zenon, <2>1 DEF QuorumInv, Reliable
  <2> QED
    BY ZenonT(30), <1>1, <2>2, FS_Singleton DEF Reliable
<1>6. Cardinality(Reliable(per_provider)) <= Cardinality(consistent)
  BY Zenon, <1>4, <1>5, FS_Subset
<1>7. Cardinality(consistent) \in Nat /\ Cardinality(Reliable(per_provider)) \in Nat
  BY Zenon, <1>4, <1>5, FS_Subset, FS_CardinalityType
<1>8. Cardinality(Reliable(per_provider)) >= MinProviders
  BY DEF evaluate_quorum
<1> QED
  BY <1>3, <1>6, <1>7, <1>8, QuorumAssumption

(* For any endpoints, providers and thresholds, and in whatever order the  *)
(* endpoints answer: a value the quorum decides is reported by             *)
(* min_agreement independent providers, one of them not the submitter.     *)
THEOREM DecisionsAreBacked == QuorumSpec => []DecisionIsBacked
BY QuorumInvInit, QuorumInvNext, BackedWhenDecided, PTL DEF QuorumSpec

-----------------------------------------------------------------------------
(* The inclusion proof of a block read page by page.                       *)

(* The transactions the pages read so far hold.                            *)
ReadSoFar == IF page * PageSize < tx_count THEN page * PageSize ELSE tx_count

(* The inductive invariant of the reading: the list is the beginning of    *)
(* the block, as long as the pages read.                                   *)
InclusionInv ==
    /\ tx_count \in 1 .. MaxBlock /\ wanted \in 1 .. MaxBlock
    /\ reported \/ ServerPages = 1
    /\ page \in Nat /\ page <= total_pages
    /\ all_txids = [i \in 1 .. ReadSoFar |-> i]
    /\ inclusion.found = "no" => wanted > tx_count
    /\ inclusion.found = "yes" =>
        /\ wanted <= tx_count /\ inclusion.index = wanted - 1
        /\ inclusion.branch = BlockBranch(Block, wanted - 1)

(* Rounding up: a page is left to read exactly while a transaction is.     *)
LEMMA PagesLeft ==
    ASSUME NEW n \in Nat \ {0}, NEW p \in Nat \ {0}, NEW k \in Nat
    PROVE  /\ (n + p - 1) \div p \in Nat
           /\ k < (n + p - 1) \div p <=> k * p < n
<1> DEFINE m == n + p - 1
           q == m \div p
<1>1. m \in Nat /\ q \in Nat /\ q * p <= m /\ m < q * p + p
  OBVIOUS
<1> HIDE DEF q
<1>2. ASSUME k < q PROVE k * p < n
  <2>1. q - (k + 1) \in Nat
    BY <1>1, <1>2
  <2>2. (q - (k + 1)) * p >= 0
    BY <2>1
  <2>3. (q - (k + 1)) * p = q * p - k * p - p
    BY <1>1
  <2> QED
    BY <1>1, <2>2, <2>3
<1>3. ASSUME k >= q PROVE k * p >= n
  <2>1. k - q \in Nat
    BY <1>1, <1>3
  <2>2. (k - q) * p >= 0
    BY <2>1
  <2>3. (k - q) * p = k * p - q * p
    BY <1>1
  <2> QED
    BY <1>1, <2>2, <2>3
<1>4. k < q <=> k * p < n
  <2>1. k * p \in Nat
    OBVIOUS
  <2> QED
    BY <1>1, <1>2, <1>3, <2>1
<1> QED
  BY Zenon, <1>1, <1>4 DEF q

(* A page put after the beginning of the block.                            *)
LEMMA PageAppended ==
    ASSUME NEW n \in Nat, NEW a \in Nat, NEW b \in Nat, a <= b, b <= n
    PROVE  [i \in 1 .. a |-> i] \o SubSeq([i \in 1 .. n |-> i], a + 1, b) = [i \in 1 .. b |-> i]
<1> DEFINE s == [i \in 1 .. a |-> i]
           t == SubSeq([i \in 1 .. n |-> i], a + 1, b)
<1>1. s \in Seq(Nat) /\ Len(s) = a /\ \A i \in 1 .. a : s[i] = i
  OBVIOUS
<1>2. t \in Seq(Nat) /\ Len(t) = b - a /\ \A i \in 1 .. b - a : t[i] = a + i
  OBVIOUS
<1> HIDE DEF s, t
<1>3. s \o t \in Seq(Nat) /\ Len(s \o t) = b /\ DOMAIN (s \o t) = 1 .. b
  BY <1>1, <1>2
<1>4. ASSUME NEW i \in 1 .. b PROVE (s \o t)[i] = i
  <2>1. CASE i <= a
    BY <1>1, <1>2, <2>1
  <2>2. CASE a < i
    <3>1. i - a \in 1 .. b - a
      BY <2>2
    <3>2. (s \o t)[i] = t[i - a]
      BY <1>1, <1>2, <2>2, <3>1
    <3> QED
      BY <1>2, <3>1, <3>2
  <2>3. i <= a \/ a < i
    OBVIOUS
  <2> QED
    BY Zenon, <2>1, <2>2, <2>3
<1> DEFINE u == s \o t
<1>5. u \in Seq(Nat) /\ Len(u) = b
  BY Zenon, <1>3
<1>6. \A i \in 1 .. b : u[i] = i
  BY <1>4, Zenon
<1> HIDE DEF u
<1>7. u \in [1 .. b -> Nat]
  BY <1>5
<1>8. u = [i \in 1 .. b |-> i]
  BY Zenon, <1>6, <1>7
<1> QED
  BY Zenon, <1>8 DEF s, t, u

(* Every step keeps the list the beginning of the block.                   *)
LEMMA InclusionStep == InclusionInv /\ [InclusionNext]_inclusionVars => InclusionInv'
<1> SUFFICES ASSUME InclusionInv, [InclusionNext]_inclusionVars PROVE InclusionInv'
  BY Zenon
<1>1. /\ tx_count \in Nat \ {0} /\ PageSize \in Nat \ {0} /\ page \in Nat /\ total_pages \in Nat
      /\ page * PageSize \in Nat
      /\ page < total_pages <=> page * PageSize < tx_count
  <2>1. /\ tx_count \in Nat \ {0} /\ PageSize \in Nat \ {0} /\ page \in Nat
    BY InclusionAssumption DEF InclusionInv
  <2>2. total_pages = ServerPages
    BY Zenon DEF InclusionInv, total_pages
  <2> QED
    BY <2>1, <2>2, PagesLeft DEF ServerPages
<1>2. CASE fetch_block_page
  <2>1. page < total_pages /\ page * PageSize < tx_count
        /\ tx_count' = tx_count /\ wanted' = wanted /\ reported' = reported
    BY Zenon, <1>1, <1>2 DEF fetch_block_page
  <2>2. inclusion.found = "reading"
    BY Zenon, <1>2 DEF fetch_block_page
  <2>3. total_pages' = total_pages /\ ServerPages' = ServerPages /\ Block' = Block
    BY Zenon, <2>1 DEF total_pages, ServerPages, Block
  <2>4. CASE page' = page + 1 /\ inclusion' = inclusion
             /\ all_txids' = all_txids \o SubSeq(Block, page * PageSize + 1, EndOfPage)
    <3>1. (page + 1) * PageSize = page * PageSize + PageSize
      BY <1>1
    <3>2. EndOfPage \in Nat /\ page * PageSize <= EndOfPage /\ EndOfPage <= tx_count
      BY <1>1, <2>1, <3>1 DEF EndOfPage
    <3>3. ReadSoFar = page * PageSize
      BY Zenon, <2>1 DEF ReadSoFar
    <3>4. ReadSoFar' = EndOfPage
      BY Zenon, <2>1, <2>4 DEF ReadSoFar, EndOfPage
    <3>5. all_txids' = [i \in 1 .. EndOfPage |-> i]
      <4>1. all_txids' = [i \in 1 .. page * PageSize |-> i]
                           \o SubSeq([i \in 1 .. tx_count |-> i], page * PageSize + 1, EndOfPage)
        BY Zenon, <2>4, <3>3 DEF InclusionInv, Block
      <4> QED
        BY Zenon, <1>1, <3>2, <4>1, PageAppended
    <3>6. page' \in Nat /\ page' <= total_pages'
      BY <1>1, <2>1, <2>3, <2>4
    <3> QED
      BY Zenon, <2>1, <2>2, <2>3, <2>4, <3>4, <3>5, <3>6 DEF InclusionInv
  <2>5. CASE inclusion' = BlockAnswer("error", 0, <<>>) /\ UNCHANGED <<page, all_txids>>
    <3>1. ReadSoFar' = ReadSoFar
      BY Zenon, <2>1, <2>5 DEF ReadSoFar
    <3>2. inclusion'.found = "error"
      BY Zenon, <2>5 DEF BlockAnswer
    <3> QED
      BY Zenon, <2>1, <2>3, <2>5, <3>1, <3>2 DEF InclusionInv
  <2> QED
    BY Zenon, <1>2, <2>4, <2>5 DEF fetch_block_page
<1>3. CASE extract_merkle_proof_from_block
  <2>1. /\ page = total_pages /\ UNCHANGED <<tx_count, wanted, page, all_txids, reported>>
    BY Zenon, <1>3 DEF extract_merkle_proof_from_block
  <2>2. /\ ReadSoFar = tx_count /\ ReadSoFar' = ReadSoFar
        /\ total_pages' = total_pages /\ ServerPages' = ServerPages /\ Block' = Block
    BY <1>1, <2>1 DEF ReadSoFar, total_pages, ServerPages, Block
  <2>3. all_txids = Block
    BY Zenon, <2>2 DEF InclusionInv, Block
  <2>4. FoundAt = IF wanted <= tx_count THEN {wanted} ELSE {}
    <3>0. wanted \in Nat \ {0}
      BY InclusionAssumption DEF InclusionInv
    <3>1. DOMAIN all_txids = 1 .. tx_count /\ \A i \in 1 .. tx_count : all_txids[i] = i
      BY Zenon, <2>3 DEF Block
    <3>2. \A i : i \in FoundAt <=> i \in 1 .. tx_count /\ i = wanted
      BY Zenon, <3>1 DEF FoundAt
    <3>3. wanted \in 1 .. tx_count <=> wanted <= tx_count
      BY <1>1, <3>0
    <3> QED
      BY Zenon, <3>2, <3>3
  <2>5. CASE wanted <= tx_count
    <3>1. (CHOOSE i \in {wanted} : \A j \in {wanted} : i <= j) = wanted
      BY DEF InclusionInv
    <3>2. inclusion' = BlockAnswer("yes", wanted - 1, BlockBranch(Block, wanted - 1))
      BY Zenon, <1>3, <2>3, <2>4, <2>5, <3>1 DEF extract_merkle_proof_from_block
    <3>3. /\ inclusion'.found = "yes" /\ inclusion'.index = wanted - 1
          /\ inclusion'.branch = BlockBranch(Block, wanted - 1)
      BY Zenon, <3>2 DEF BlockAnswer
    <3> QED
      BY Zenon, <2>1, <2>2, <2>5, <3>3 DEF InclusionInv
  <2>6. CASE ~(wanted <= tx_count)
    <3>1. inclusion'.found = "no"
      BY Zenon, <1>3, <2>4, <2>6 DEF extract_merkle_proof_from_block, BlockAnswer
    <3>2. wanted > tx_count
      BY <1>1, <2>6 DEF InclusionInv
    <3> QED
      BY Zenon, <2>1, <2>2, <3>1, <3>2 DEF InclusionInv
  <2> QED
    BY Zenon, <2>5, <2>6
<1>4. CASE UNCHANGED inclusionVars
  BY Zenon, <1>4 DEF inclusionVars, InclusionInv, ReadSoFar, total_pages, ServerPages, Block
<1> QED
  BY Zenon, <1>2, <1>3, <1>4 DEF InclusionNext

(* get_inclusion_proof answers with a proof of the transaction asked for,  *)
(* under the root of the block, and with "not found" only for one that is  *)
(* not in it, whatever the size of the block and of a page: the last page, *)
(* full or short, is read.  The tree is as BlockTreeAssumption says.       *)
THEOREM InclusionProofsAreExact == InclusionSpec => []InclusionIsExact
<1>1. InclusionInit => InclusionInv
  <2> SUFFICES ASSUME InclusionInit PROVE InclusionInv
    BY Zenon
  <2>1. tx_count \in Nat \ {0} /\ PageSize \in Nat \ {0} /\ page = 0
    BY InclusionAssumption DEF InclusionInit
  <2>2. total_pages \in Nat
    BY <2>1, PagesLeft DEF total_pages, ServerPages
  <2>3. ReadSoFar = 0
    BY <2>1 DEF ReadSoFar
  <2>4. <<>> = [i \in 1 .. 0 |-> i]
    OBVIOUS
  <2>5. inclusion.found = "reading"
    BY Zenon DEF InclusionInit, BlockAnswer
  <2> QED
    BY <2>1, <2>2, <2>3, <2>4, <2>5 DEF InclusionInit, InclusionInv
<1>2. InclusionInv => InclusionIsExact
  <2> SUFFICES ASSUME InclusionInv PROVE InclusionIsExact
    BY Zenon
  <2>1. ASSUME inclusion.found = "yes", NEW t \in 1 .. MaxBlock
        PROVE  BlockVerify(t, BlockRoot(Block), inclusion.index, inclusion.branch) <=> t = wanted
    <3>1. tx_count \in 1 .. MaxBlock /\ wanted \in 1 .. tx_count
      BY <2>1, InclusionAssumption DEF InclusionInv
    <3>2. BlockVerify(t, BlockRoot(Block), wanted - 1, BlockBranch(Block, wanted - 1)) <=> t = wanted
      BY Zenon, <3>1, BlockTreeAssumption DEF Block
    <3> QED
      BY Zenon, <2>1, <3>2 DEF InclusionInv
  <2> QED
    BY Zenon, <2>1 DEF InclusionIsExact, InclusionInv
<1> QED
  BY <1>1, <1>2, InclusionStep, PTL DEF InclusionSpec
=============================================================================
