--------------------------- MODULE AcceptedState ---------------------------
(***************************************************************************)
(* The cache of accepted transitions (csv-storage, accepted_state.rs): one *)
(* accepted successor per consumed state, each with the checkpoint its     *)
(* closure rests on, and the downgrade of a checkpoint and of everything   *)
(* accepted below it.  Each operation holds the store's write lock (or is  *)
(* one write transaction), so it is one step.                              *)
(***************************************************************************)
EXTENDS FiniteSets

CONSTANTS
    Transitions,
    NoTransition,
    StateIds,        \* consumed states, the conflict keys
    ConsumedBy,      \* ConsumedBy[t]: the state t consumes
    CreatedBy,       \* CreatedBy[s]: the transition an output of which s is
    CheckpointOf     \* CheckpointOf[t]: the checkpoint of t's closure

ASSUME AcceptedStateAssumption ==
    /\ NoTransition \notin Transitions
    /\ ConsumedBy \in [Transitions -> StateIds]
    /\ CreatedBy \in [StateIds -> Transitions \cup {NoTransition}]
    /\ DOMAIN CheckpointOf = Transitions

VARIABLES
    successor,   \* successor[s]: the accepted transition that consumed s
    status,      \* status[t]: Final, Revoked or Indeterminate
    last         \* last[t]: checkpoint and reason of its last observation

acceptedVars == <<successor, status, last>>

Checkpoints == {CheckpointOf[t] : t \in Transitions}

AcceptedInit ==
    /\ successor = [s \in StateIds |-> NoTransition]
    /\ status = [t \in Transitions |-> "none"]
    /\ last = [t \in Transitions |-> [checkpoint |-> NoTransition, reason |-> "none"]]

IsAccepted(t) == successor[ConsumedBy[t]] = t

Present == {t \in Transitions : IsAccepted(t)}

Parent(t) == CreatedBy[ConsumedBy[t]]

(* accept: the first record for a consumed state.  Any other is answered   *)
(* (the same with Ok, a different one with Conflict) and changes nothing.  *)
accept(t) ==
    /\ successor[ConsumedBy[t]] = NoTransition
    /\ successor' = [successor EXCEPT ![ConsumedBy[t]] = t]
    /\ status' = [status EXCEPT ![t] = "Final"]
    /\ last' = [last EXCEPT ![t] = [checkpoint |-> CheckpointOf[t], reason |-> "ACCEPTED"]]

-----------------------------------------------------------------------------
RootStatus(d) ==
    CASE d = "Final" -> "Final" [] d = "Orphaned" -> "Revoked" [] d = "Indeterminate" -> d

RootReason(d) ==
    CASE d = "Final" -> "REVALIDATED" [] d = "Orphaned" -> "ORPHANED" [] d = "Indeterminate" -> d

Roots(c) == {t \in Present : CheckpointOf[t] = c}

(* append_observation answers false for a record that was already          *)
(* downgraded below c, and the walk does not go past it.                   *)
Settled(t, c) ==
    status[t] = "Indeterminate" /\ last[t] = [checkpoint |-> c, reason |-> "ANCESTOR"]

\* The mutation that stops the walk at the children.
OnlyChildren(c, found) ==
    \A t \in Present : ~Settled(t, c) /\ Parent(t) \in Roots(c) => t \in found

Closed(c, found) ==
    \A t \in Present : ~Settled(t, c) /\ Parent(t) \in Roots(c) \cup found => t \in found

(* What the frontier loop of reconcile_records reaches below the roots.    *)
Downgraded(c) ==
    {t \in Present : \A found \in SUBSET Present : Closed(c, found) => t \in found}

(* reconcile_checkpoint.  A checkpoint found final again ends the walk at  *)
(* its roots.                                                              *)
reconcile_checkpoint(c, d) ==
    \E below \in {IF d = "Final" THEN {} ELSE Downgraded(c)} :
    /\ status' = [t \in Transitions |->
                    IF t \in below THEN "Indeterminate"
                    ELSE IF t \in Roots(c) THEN RootStatus(d) ELSE status[t]]
    /\ last' = [t \in Transitions |->
                  IF t \in below THEN [checkpoint |-> c, reason |-> "ANCESTOR"]
                  ELSE IF t \in Roots(c) THEN [checkpoint |-> c, reason |-> RootReason(d)]
                  ELSE last[t]]
    /\ UNCHANGED successor

AcceptedNext ==
    \/ \E t \in Transitions : accept(t)
    \/ \E c \in Checkpoints, d \in {"Final", "Orphaned", "Indeterminate"} :
          reconcile_checkpoint(c, d)

AcceptedSpec == AcceptedInit /\ [][AcceptedNext]_acceptedVars

-----------------------------------------------------------------------------
(* No accepted record is Final below one that is not.                      *)
LineageConsistent ==
    \A t \in Present :
        status[t] = "Final" /\ Parent(t) \in Present => status[Parent(t)] = "Final"

(* A step that changes a record and neither accepts one nor finds one      *)
(* final again.                                                            *)
Downgrade ==
    /\ status' # status /\ UNCHANGED successor
    /\ \A t \in Transitions : last'[t] # last[t] => last'[t].reason # "REVALIDATED"

(* A consumed state keeps the successor that won: neither a race of        *)
(* accepts nor the revocation of its checkpoint opens the state to         *)
(* another; and a downgrade leaves no accepted record Final below one that *)
(* is not, if there was none: the walk may stop at a record that was       *)
(* downgraded before, since everything below that one has been reached as  *)
(* well.  Nothing is said of a child accepted Final below a record that is *)
(* not: the accept reads no parent, and a later walk stops above it.       *)
LineageKept ==
    [][/\ \A s \in StateIds : successor[s] # NoTransition => successor'[s] = successor[s]
       /\ Downgrade /\ LineageConsistent => LineageConsistent']_acceptedVars
=============================================================================
