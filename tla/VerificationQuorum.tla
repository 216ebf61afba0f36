------------------------ MODULE VerificationQuorum -------------------------
(***************************************************************************)
(* evaluate_quorum of csv-runtime (verification_quorum.rs), which decides  *)
(* inclusion, finality, seal state and mint confirmation from what several *)
(* RPC endpoints observed.  The answers come in any order; the loop folds  *)
(* them into one vote per provider, and the winner of the tally is taken   *)
(* from a HashMap, so a tie is broken either way.                          *)
(***************************************************************************)
EXTENDS Integers, FiniteSets, FiniteSetsExt

CONSTANTS
    Endpoints,
    ProviderOf,       \* the provider that runs an endpoint
    Observable,       \* the values an endpoint can report
    Submitter,        \* the provider that submitted the transaction
    MinProviders,     \* QuorumParams
    MinAgreement

ASSUME QuorumAssumption ==
    /\ MinProviders \in Nat /\ MinAgreement \in Nat
    /\ ProviderOf = [e \in Endpoints |-> ProviderOf[e]] /\ IsFiniteSet(Endpoints)

VARIABLES
    observed,       \* the answers so far, a function from endpoints to values
    per_provider    \* the fold: provider -> {value}, or {} for an unreliable one

quorumVars == <<observed, per_provider>>

Providers == {ProviderOf[e] : e \in Endpoints}

QuorumInit ==
    /\ observed = [e \in {} |-> {}]
    /\ per_provider = [p \in {} |-> {}]

\* The mutation in which the last answer of a provider is its vote.
FoldLast(votes, p, v) == [q \in DOMAIN votes \cup {p} |-> IF q = p THEN {v} ELSE votes[q]]

(* One round of the loop: a provider's first answer is its vote, and one   *)
(* that differs from it makes the provider unreliable for good.            *)
Fold(votes, p, v) ==
    [q \in DOMAIN votes \cup {p} |->
        IF q # p THEN votes[q]
        ELSE IF p \in DOMAIN votes THEN votes[p] \cap {v} ELSE {v}]

observe(e, v) ==
    /\ e \notin DOMAIN observed
    /\ observed' = [f \in DOMAIN observed \cup {e} |-> IF f = e THEN v ELSE observed[f]]
    /\ per_provider' = Fold(per_provider, ProviderOf[e], v)

(* A new decision is asked for.                                            *)
next_decision ==
    /\ DOMAIN observed = Endpoints
    /\ observed' = [e \in {} |-> {}]
    /\ per_provider' = [p \in {} |-> {}]

QuorumNext ==
    \/ \E e \in Endpoints, v \in Observable : observe(e, v)
    \/ next_decision

QuorumSpec == QuorumInit /\ [][QuorumNext]_quorumVars

Reliable(votes) == {p \in DOMAIN votes : votes[p] # {}}

Agreeing(votes, v) == {p \in Reliable(votes) : v \in votes[p]}

(* The values evaluate_quorum may return for the votes; {} is an error.    *)
evaluate_quorum(votes) ==
    LET tally == [v \in Observable |-> Cardinality(Agreeing(votes, v))]
        most == Max({tally[v] : v \in Observable})
    IN  {v \in Observable :
            /\ 0 < MinProviders /\ 0 < MinAgreement /\ MinAgreement <= MinProviders
            /\ Cardinality(Reliable(votes)) >= MinProviders
            /\ tally[v] = most /\ most >= MinAgreement
            /\ Agreeing(votes, v) \ {Submitter} # {}}

-----------------------------------------------------------------------------
(* The endpoints of p that have answered, and what they said.              *)
Said(p) == {observed[e] : e \in {f \in DOMAIN observed : ProviderOf[f] = p}}

(* A decided value rests on min_agreement independent providers, all of    *)
(* whose endpoints reported it in whatever order they answered, one of     *)
(* them not the submitter, out of min_providers consistent ones.           *)
DecisionIsBacked ==
    \A v \in evaluate_quorum(per_provider) :
        LET behind == {p \in Providers : Said(p) = {v}} IN
        /\ Cardinality(behind) >= MinAgreement /\ behind \ {Submitter} # {}
        /\ Cardinality({p \in Providers : Cardinality(Said(p)) = 1}) >= MinProviders
=============================================================================
