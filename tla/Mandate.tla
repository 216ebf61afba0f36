------------------------------ MODULE Mandate ------------------------------
(***************************************************************************)
(* One action mandate (csv-accountability): signed authority to have a     *)
(* provider perform an action once.  state.rs is the law that its database *)
(* row, its execution attempts and its exported journal obey; the database *)
(* and the provider are outside the repository and are modelled as         *)
(* state.rs uses them: a conditional update of one row, and a request that *)
(* is accepted, rejected or lost without the executor hearing of it.       *)
(***************************************************************************)
EXTENDS Naturals, Sequences, FiniteSets

CONSTANTS
    Executors,
    ValidFrom, ExpiresAt,   \* the half-open validity interval
    MaxInstant              \* bound on the clock

ASSUME MandateAssumption ==
    /\ ValidFrom \in Nat /\ ExpiresAt \in Nat /\ MaxInstant \in Nat
    /\ ValidFrom < ExpiresAt

VARIABLES
    instant,
    release_policy,   \* QuarantineReleasePolicy of the mandate's profile
    projection,       \* the row: MandateState and revision
    attempts,         \* attempts[e]: the executor's request and its ExecutionAttempt
    request,          \* request[e]: what became of the provider request
    exported          \* the MandateJournalEntry sequence

mandateVars == <<instant, release_policy, projection, attempts, request, exported>>

MandateStates ==
    {"Proposed", "Issued", "Reserved", "Consumed", "Expired", "Revoked",
     "Released", "Quarantined", "Abandoned"}

NoAttempt == "none"

\* at: the step of the reservation; expected: the revision it is asked for;
\* attempt: ExecutionAttemptState; knows: DispatchCertainty.
NotStarted == [at |-> "idle", expected |-> 0, attempt |-> NoAttempt, knows |-> "NotDispatched"]

MandateInit ==
    /\ instant = 0
    /\ release_policy \in {"Never", "registered"}
    /\ projection = [state |-> "Proposed", revision |-> 0]
    /\ attempts = [e \in Executors |-> NotStarted]
    /\ request = [e \in Executors |-> "none"]
    /\ exported = <<>>

-----------------------------------------------------------------------------
(***************************************************************************)
(* validate_mandate_transition.  A context is what is known at the         *)
(* dispatch boundary, the profile's policy and the evidence offered: the   *)
(* policy it was made under, or none.                                      *)
(***************************************************************************)
Edges ==
    {<<"Proposed", "Issued">>,
     <<"Issued", "Reserved">>, <<"Issued", "Revoked">>, <<"Issued", "Expired">>,
     <<"Reserved", "Consumed">>, <<"Reserved", "Released">>, <<"Reserved", "Quarantined">>,
     <<"Quarantined", "Consumed">>, <<"Quarantined", "Released">>, <<"Quarantined", "Abandoned">>}

AnyEvidence(context) ==
    /\ context.knows = "PossiblyAccepted"
    /\ context.policy # "Never"
    /\ context.evidence # "none"

validate_non_acceptance_evidence(context) ==
    /\ context.knows = "PossiblyAccepted"
    /\ context.policy # "Never"
    /\ context.evidence = context.policy

\* The attempt state and the certainty an edge asks for.
Required(from, to) ==
    CASE <<from, to>> = <<"Issued", "Reserved">>      -> <<"Prepared", "NotDispatched">>
      [] <<from, to>> = <<"Reserved", "Consumed">>    -> <<"Accepted", "Accepted">>
      [] <<from, to>> = <<"Reserved", "Released">>    -> <<"Rejected", "DefinitePreAcceptanceRejection">>
      [] <<from, to>> = <<"Reserved", "Quarantined">> -> <<"OutcomeAmbiguous", "PossiblyAccepted">>
      [] <<from, to>> = <<"Quarantined", "Consumed">> -> <<"ReconciledAccepted", "Accepted">>
      [] <<from, to>> = <<"Quarantined", "Released">> -> <<"ReconciledNotAccepted", "PossiblyAccepted">>
      [] <<from, to>> = <<"Quarantined", "Abandoned">> -> <<"AbandonedAmbiguous", "PossiblyAccepted">>
      [] OTHER -> <<NoAttempt, "NotDispatched">>

validate_mandate_transition(from, to, attempt, context) ==
    /\ <<from, to>> \in Edges
    /\ attempt = Required(from, to)[1]
    /\ attempt # NoAttempt => context.knows = Required(from, to)[2]
    /\ <<from, to>> = <<"Quarantined", "Released">> => validate_non_acceptance_evidence(context)

\* before_dispatch
BeforeDispatch == [knows |-> "NotDispatched", policy |-> "Never", evidence |-> "none"]

(***************************************************************************)
(* validate_journal: identity, revisions, order and every edge, from an    *)
(* initial state; the state and the revision it ends in.                   *)
(***************************************************************************)
EntryFollows(entry, state, revision, last_time) ==
    /\ entry.from = state
    /\ entry.previous_revision = revision
    /\ entry.revision = revision + 1
    /\ last_time <= entry.occurred_at
    /\ validate_mandate_transition(entry.from, entry.to, entry.attempt, entry.context)

validate_journal(initial, revision, entries) ==
    \A i \in 1 .. Len(entries) :
        IF i = 1 THEN EntryFollows(entries[1], initial, revision, 0)
        ELSE EntryFollows(entries[i], entries[i - 1].to, entries[i - 1].revision,
                          entries[i - 1].occurred_at)

JournalEnd(initial, revision, entries) ==
    IF entries = <<>> THEN [state |-> initial, revision |-> revision]
    ELSE [state |-> entries[Len(entries)].to, revision |-> entries[Len(entries)].revision]

-----------------------------------------------------------------------------
(***************************************************************************)
(* The row is updated only where it still holds what the update expects,   *)
(* and the journal entry is written with it.                               *)
(***************************************************************************)
Project(to, attempt, context) ==
    /\ projection' = [state |-> to, revision |-> projection.revision + 1]
    /\ exported' = Append(exported,
          [previous_revision |-> projection.revision, revision |-> projection.revision + 1,
           from |-> projection.state, to |-> to, attempt |-> attempt,
           context |-> context, occurred_at |-> instant])

\* A transition nobody has reserved for: signing, revocation and expiry.
Authority(to) ==
    /\ to \in {"Issued", "Revoked", "Expired"}
    /\ to = "Expired" => instant >= ExpiresAt
    /\ validate_mandate_transition(projection.state, to, NoAttempt, BeforeDispatch)
    /\ Project(to, NoAttempt, BeforeDispatch)
    /\ UNCHANGED <<instant, release_policy, attempts, request>>

\* An executor decides to reserve the mandate it sees.
Intend(e) ==
    /\ attempts[e].at = "idle"
    /\ attempts' = [attempts EXCEPT ![e].at = "intends", ![e].expected = projection.revision]
    /\ UNCHANGED <<instant, release_policy, projection, request, exported>>

is_valid_at(t) == ValidFrom <= t /\ t < ExpiresAt

\* The snapshot is read and turned into a CasReservation, or the request fails.
validate_reservation_cas(e) ==
    /\ attempts[e].at = "intends"
    /\ attempts' = [attempts EXCEPT ![e] =
          IF /\ projection.revision = @.expected
             /\ projection.state = "Issued"
             /\ is_valid_at(instant)
          THEN [@ EXCEPT !.at = "cas"]
          ELSE NotStarted]
    /\ UNCHANGED <<instant, release_policy, projection, request, exported>>

\* "The update succeeds only where all `expected_*` values still match."
CasReservation(e) ==
    /\ attempts[e].at = "cas"
    /\ IF projection = [state |-> "Issued", revision |-> attempts[e].expected]
       THEN /\ Project("Reserved", "Prepared", BeforeDispatch)
            /\ attempts' = [attempts EXCEPT ![e].at = "owner", ![e].attempt = "Prepared"]
       ELSE /\ attempts' = [attempts EXCEPT ![e] = NotStarted]
            /\ UNCHANGED <<projection, exported>>
    /\ UNCHANGED <<instant, release_policy, request>>

-----------------------------------------------------------------------------
(***************************************************************************)
(* Execution.  dispatch_boundary_at is recorded before the request leaves; *)
(* a crash after that, like a timeout, leaves an attempt whose request may *)
(* still be accepted.                                                      *)
(***************************************************************************)
Learn(e, attempt, knows) ==
    /\ attempts' = [attempts EXCEPT ![e].attempt = attempt, ![e].knows = knows]
    /\ UNCHANGED <<instant, release_policy, projection, exported>>

Dispatch(e) ==
    /\ attempts[e].attempt = "Prepared"
    /\ \E r \in {"flying", "lost"} : request' = [request EXCEPT ![e] = r]
    /\ Learn(e, "Dispatching", "PossiblyAccepted")

ProviderDecides(e) ==
    /\ request[e] = "flying"
    /\ \E r \in {"accepted", "rejected", "lost"} : request' = [request EXCEPT ![e] = r]
    /\ UNCHANGED <<instant, release_policy, projection, attempts, exported>>

Hear(e) ==
    /\ attempts[e].attempt = "Dispatching"
    /\ \/ request[e] = "accepted" /\ Learn(e, "Accepted", "Accepted")
       \/ request[e] = "rejected" /\ Learn(e, "Rejected", "DefinitePreAcceptanceRejection")
       \/ Learn(e, "OutcomeAmbiguous", "PossiblyAccepted")
    /\ UNCHANGED request

\* Reconciliation of an ambiguous attempt: the action is found, its absence is
\* claimed, or the search is given up.
Reconcile(e) ==
    /\ attempts[e].attempt = "OutcomeAmbiguous" /\ projection.state = "Quarantined"
    /\ \/ request[e] = "accepted" /\ Learn(e, "ReconciledAccepted", "Accepted")
       \/ Learn(e, "ReconciledNotAccepted", "PossiblyAccepted")
       \/ Learn(e, "AbandonedAmbiguous", "PossiblyAccepted")
    /\ UNCHANGED request

\* Evidence under the registered policy shows that the request was not and will
\* not be accepted; evidence under another policy shows nothing.
Offers(e) ==
    {"none", "unregistered"} \cup
    (IF request[e] \in {"rejected", "lost"} THEN {"registered"} ELSE {})

\* The owner of the reservation proposes a transition; the law admits it or not.
Settle(e, to) ==
    /\ attempts[e].at = "owner"
    /\ \E evidence \in Offers(e) :
         LET context == [knows |-> attempts[e].knows, policy |-> release_policy,
                         evidence |-> evidence]
         IN  /\ validate_mandate_transition(projection.state, to, attempts[e].attempt, context)
             /\ Project(to, attempts[e].attempt, context)
    /\ UNCHANGED <<instant, release_policy, attempts, request>>

\* A claim of absence that was not admitted is taken back.
Reopen(e) ==
    /\ attempts[e].attempt = "ReconciledNotAccepted" /\ projection.state = "Quarantined"
    /\ Learn(e, "OutcomeAmbiguous", "PossiblyAccepted")
    /\ UNCHANGED request

Passes ==
    /\ instant < MaxInstant
    /\ instant' = instant + 1
    /\ UNCHANGED <<release_policy, projection, attempts, request, exported>>

MandateNext ==
    \/ \E to \in MandateStates : Authority(to)
    \/ \E e \in Executors :
         \/ Intend(e) \/ validate_reservation_cas(e) \/ CasReservation(e)
         \/ Dispatch(e) \/ ProviderDecides(e) \/ Hear(e) \/ Reconcile(e) \/ Reopen(e)
         \/ \E to \in MandateStates : Settle(e, to)
    \/ Passes

MandateSpec == MandateInit /\ [][MandateNext]_mandateVars

-----------------------------------------------------------------------------
Occurred == {e \in Executors : request[e] = "accepted"}
Possible == {e \in Executors : request[e] \in {"accepted", "flying"}}

(* The row never says less than the world: the action is performed once at *)
(* most, whoever raced for the reservation and whatever answer was lost; a *)
(* consumed mandate has been acted on, and one that is free, withdrawn or  *)
(* released has not been and will not be.  The exported journal replays to *)
(* the row ("Validates an ordered exported projection journal").           *)
OutcomeIsHonest ==
    /\ \A e, other \in Possible : e = other
    /\ projection.state = "Consumed" => Occurred # {}
    /\ projection.state \in {"Proposed", "Issued", "Expired", "Revoked", "Released"} =>
          Possible = {}
    /\ validate_journal("Proposed", 0, exported)
    /\ JournalEnd("Proposed", 0, exported) = projection
=============================================================================
