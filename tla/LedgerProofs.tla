---------------------------- MODULE LedgerProofs ----------------------------
(***************************************************************************)
(* What is written down, each for every value of its constants: an output  *)
(* is used as its creation fixed it (StateUse), a mandate's row and its    *)
(* exported journal tell honestly what became of an execution (Mandate),   *)
(* and recovery reads the last entry of the execution journal              *)
(* (ExecutionJournal).                                                     *)
(***************************************************************************)
EXTENDS StateUse, Mandate, ExecutionJournal, TLAPS

-----------------------------------------------------------------------------
(* The use of state.                                                       *)

Commitments ==
    Nat \X Nat \X StateTypes \X StateTypes \X Classes \X (SUBSET Owners)

StateOutputs ==
    [transition_id : Nat, output_index : Nat, state_type : StateTypes, bound_type : StateTypes,
     class : Classes, authorized : SUBSET Owners, recorded_commitment : Commitments]

(* What the source holds was created, and still carries the commitment it  *)
(* was recorded with, whatever else became of it.                          *)
StateUseInv ==
    /\ \A t \in DOMAIN bindings : bindings[t] \in Classes
    /\ created \in Seq(StateOutputs) /\ source \in Seq(StateOutputs)
    /\ \A k \in DOMAIN created : created[k].recorded_commitment = content_commitment(created[k])
    /\ \A i \in DOMAIN source : \E k \in DOMAIN created :
          source[i].recorded_commitment = created[k].recorded_commitment
    /\ UseFixedAtCreation

(* The commitment is to all of an output's content.                        *)
LEMMA CommitmentBinds ==
    ASSUME NEW a \in StateOutputs, NEW b \in StateOutputs,
           a.recorded_commitment = content_commitment(a),
           b.recorded_commitment = content_commitment(b),
           a.recorded_commitment = b.recorded_commitment
    PROVE  a = b
<1>1. content_commitment(a) = content_commitment(b)
  OBVIOUS
<1>2. /\ a.transition_id = b.transition_id /\ a.output_index = b.output_index
      /\ a.state_type = b.state_type /\ a.bound_type = b.bound_type
      /\ a.class = b.class /\ a.authorized = b.authorized
  BY <1>1 DEF content_commitment
<1> QED
  BY <1>2 DEF StateOutputs

(* Nothing is created.                                                     *)
LEMMA StateUseInvInit == StateUseInit => StateUseInv
BY DEF StateUseInit, StateUseInv, UseFixedAtCreation

(* Outputs that are created later change nothing for a resolved input.     *)
LEMMA LaterOutputs ==
    ASSUME UseFixedAtCreation, resolution' = resolution,
           \A k \in DOMAIN created : k \in DOMAIN created' /\ created'[k] = created[k]
    PROVE  UseFixedAtCreation'
BY DEF UseFixedAtCreation, SamePlace

(* An output is created with the commitment to its content.                *)
LEMMA SealedKeeps ==
    ASSUME StateUseInv, NEW t \in StateTypes, NEW authorized \in SUBSET Owners, sealed(t, authorized)
    PROVE  StateUseInv'
<1> DEFINE output == [transition_id |-> Len(created) \div 2, output_index |-> Len(created) % 2,
                      state_type |-> t, bound_type |-> t, class |-> bindings[t],
                      authorized |-> authorized, recorded_commitment |-> <<>>]
           recorded == [output EXCEPT !.recorded_commitment = content_commitment(output)]
<1>1. /\ created' = Append(created, recorded) /\ source' = Append(source, recorded)
      /\ t \in DOMAIN bindings /\ bindings' = bindings /\ resolution' = resolution
  BY DEF sealed
<1>2. Len(created) \div 2 \in Nat /\ Len(created) % 2 \in Nat /\ bindings[t] \in Classes
  BY <1>1 DEF StateUseInv
<1>3. content_commitment(output) \in Commitments
  BY Zenon, <1>2 DEF content_commitment, Commitments
<1>4. recorded \in StateOutputs /\ recorded.recorded_commitment = content_commitment(recorded)
  <2>1. content_commitment(recorded) = content_commitment(output)
    BY DEF content_commitment
  <2>2. recorded.recorded_commitment = content_commitment(output)
    OBVIOUS
  <2>3. recorded \in StateOutputs
    BY Zenon, <1>2, <1>3 DEF StateOutputs
  <2> QED BY Zenon, <2>1, <2>2, <2>3
<1> HIDE DEF output, recorded
<1>5. created' \in Seq(StateOutputs) /\ source' \in Seq(StateOutputs)
  BY <1>1, <1>4 DEF StateUseInv
<1>6. \A k \in DOMAIN created : k \in DOMAIN created' /\ created'[k] = created[k]
  BY <1>1, <1>4 DEF StateUseInv
<1>7. \A k \in DOMAIN created' :
         k \in DOMAIN created \/ created'[k] = recorded
  BY <1>1, <1>4 DEF StateUseInv
<1>8. \A i \in DOMAIN source' :
         (i \in DOMAIN source /\ source'[i] = source[i]) \/ source'[i] = recorded
  BY <1>1, <1>4 DEF StateUseInv
<1>9. \E k \in DOMAIN created' : created'[k] = recorded
  <2>1. Len(created) + 1 \in DOMAIN created' /\ created'[Len(created) + 1] = recorded
    BY <1>1, <1>4 DEF StateUseInv
  <2> QED
    BY <2>1
<1>10. UseFixedAtCreation'
  BY <1>1, <1>6, LaterOutputs DEF StateUseInv
<1>11. \A k \in DOMAIN created' : created'[k].recorded_commitment = content_commitment(created'[k])
  BY <1>4, <1>6, <1>7 DEF StateUseInv
<1>12. \A i \in DOMAIN source' : \E k \in DOMAIN created' :
          source'[i].recorded_commitment = created'[k].recorded_commitment
  BY <1>6, <1>8, <1>9 DEF StateUseInv
<1> QED
  BY Zenon, <1>1, <1>5, <1>10, <1>11, <1>12 DEF StateUseInv, content_commitment

(* A sequence without one of its elements holds no other.                  *)
LEMMA RemovedKeeps ==
    ASSUME NEW S, NEW s \in Seq(S), NEW i \in 1 .. Len(s)
    PROVE  LET r == SubSeq(s, 1, i - 1) \o SubSeq(s, i + 1, Len(s)) IN
           r \in Seq(S) /\ \A j \in DOMAIN r : \E h \in DOMAIN s : r[j] = s[h]
<1> DEFINE a == SubSeq(s, 1, i - 1)
           b == SubSeq(s, i + 1, Len(s))
<1>0. Len(s) \in Nat /\ i \in Nat /\ i >= 1 /\ i <= Len(s)
  OBVIOUS
<1>1. a \in Seq(S) /\ Len(a) = i - 1 /\ \A j \in 1 .. i - 1 : a[j] = s[j]
  BY <1>0
<1>2. /\ b \in Seq(S) /\ Len(b) = Len(s) - i
      /\ \A j \in 1 .. Len(s) - i : b[j] = s[i + j]
  BY <1>0
<1>3. SubSeq(s, 1, i - 1) \o SubSeq(s, i + 1, Len(s)) = a \o b
  OBVIOUS
<1> HIDE DEF a, b
<1>4. a \o b \in Seq(S) /\ DOMAIN (a \o b) = 1 .. Len(s) - 1
  BY <1>0, <1>1, <1>2
<1>5. \A j \in 1 .. Len(s) - 1 : (a \o b)[j] = IF j <= i - 1 THEN s[j] ELSE s[j + 1]
  <2> SUFFICES ASSUME NEW j \in 1 .. Len(s) - 1
               PROVE  (a \o b)[j] = IF j <= i - 1 THEN s[j] ELSE s[j + 1]
    BY Zenon
  <2>1. (a \o b)[j] = IF j <= Len(a) THEN a[j] ELSE b[j - Len(a)]
    BY <1>0, <1>1, <1>2
  <2>2. CASE j <= i - 1
    BY <1>0, <1>1, <2>1, <2>2
  <2>3. CASE ~(j <= i - 1)
    <3>1. j - Len(a) \in 1 .. Len(s) - i /\ i + (j - Len(a)) = j + 1
      BY <1>0, <1>1, <2>3
    <3> QED
      BY Zenon, <1>0, <1>1, <1>2, <2>1, <2>3, <3>1
  <2> QED
    BY Zenon, <2>2, <2>3
<1>6. ASSUME NEW j \in 1 .. Len(s) - 1 PROVE \E h \in DOMAIN s : (a \o b)[j] = s[h]
  <2>1. j \in DOMAIN s /\ j + 1 \in DOMAIN s
    BY <1>0
  <2> QED
    BY Zenon, <1>5, <2>1
<1> QED
  BY Zenon, <1>3, <1>4, <1>6

(* The source loses, repeats or alters an output, and cannot alter what it *)
(* was recorded with.                                                      *)
LEMMA DamageKeeps ==
    ASSUME StateUseInv, NEW i \in 1 .. Len(source), SourceDamaged(i)
    PROVE  StateUseInv'
<1>0. UNCHANGED <<bindings, created, resolution>> /\ source \in Seq(StateOutputs)
      /\ i \in DOMAIN source /\ source[i] \in StateOutputs
  BY DEF SourceDamaged, StateUseInv
<1>1. ASSUME source' \in Seq(StateOutputs),
             \A j \in DOMAIN source' : \E h \in DOMAIN source :
                source'[j].recorded_commitment = source[h].recorded_commitment
      PROVE  StateUseInv'
  <2>1. UseFixedAtCreation'
    BY <1>0, LaterOutputs DEF StateUseInv
  <2> QED
    BY <1>0, <1>1, <2>1 DEF StateUseInv, content_commitment
<1>2. CASE source' = SubSeq(source, 1, i - 1) \o SubSeq(source, i + 1, Len(source))
  <2>1. source' \in Seq(StateOutputs)
    BY Zenon, <1>0, <1>2, RemovedKeeps
  <2>2. \A j \in DOMAIN source' : \E h \in DOMAIN source : source'[j] = source[h]
    BY Zenon, <1>0, <1>2, RemovedKeeps
  <2> QED
    BY Zenon, <1>1, <2>1, <2>2
<1>3. CASE source' = Append(source, source[i])
  <2>1. source' \in Seq(StateOutputs)
    BY <1>0, <1>3
  <2>2. \A j \in DOMAIN source' : \E h \in DOMAIN source : source'[j] = source[h]
    BY <1>0, <1>3
  <2> QED
    BY <1>1, <2>1, <2>2
<1>4. ASSUME NEW o \in StateOutputs, o.recorded_commitment = source[i].recorded_commitment,
             source' = [source EXCEPT ![i] = o]
      PROVE  StateUseInv'
  <2>1. source' \in Seq(StateOutputs) /\ DOMAIN source' = DOMAIN source
    BY <1>0, <1>4
  <2>2. \A j \in DOMAIN source : source'[j].recorded_commitment = source[j].recorded_commitment
    BY <1>0, <1>4
  <2> QED
    BY <1>1, <2>1, <2>2
<1>5. ASSUME NEW t \in StateTypes, source' = [source EXCEPT ![i].state_type = t] PROVE StateUseInv'
  <2>1. [source[i] EXCEPT !.state_type = t] \in StateOutputs
    BY Zenon, <1>0 DEF StateOutputs
  <2> QED
    BY Zenon, <1>0, <1>4, <1>5, <2>1 DEF StateOutputs
<1>6. ASSUME NEW t \in StateTypes, source' = [source EXCEPT ![i].bound_type = t] PROVE StateUseInv'
  <2>1. [source[i] EXCEPT !.bound_type = t] \in StateOutputs
    BY Zenon, <1>0 DEF StateOutputs
  <2> QED
    BY Zenon, <1>0, <1>4, <1>6, <2>1 DEF StateOutputs
<1>7. ASSUME NEW class \in Classes, source' = [source EXCEPT ![i].class = class] PROVE StateUseInv'
  <2>1. [source[i] EXCEPT !.class = class] \in StateOutputs
    BY Zenon, <1>0 DEF StateOutputs
  <2> QED
    BY Zenon, <1>0, <1>4, <1>7, <2>1 DEF StateOutputs
<1>8. ASSUME NEW consumers \in SUBSET Owners, source' = [source EXCEPT ![i].authorized = consumers]
      PROVE  StateUseInv'
  <2>1. [source[i] EXCEPT !.authorized = consumers] \in StateOutputs
    BY Zenon, <1>0 DEF StateOutputs
  <2> QED
    BY Zenon, <1>0, <1>4, <1>8, <2>1 DEF StateOutputs
<1> QED
  BY Zenon, <1>2, <1>3, <1>5, <1>6, <1>7, <1>8 DEF SourceDamaged

(* A resolved input is an output as it was created, at the place named.    *)
LEMMA ResolvedWasCreated ==
    ASSUME StateUseInv, NEW reference, NEW signers, resolve_input(reference, signers)
    PROVE  \E k \in DOMAIN created :
              parent(reference) = created[k] /\ SamePlace(created[k], reference)
<1> DEFINE i == CHOOSE j \in outputs(reference) : TRUE
<1>1. outputs(reference) # {}
  BY DEF resolve_input
<1>2. i \in outputs(reference)
  BY <1>1
<1>3. i \in DOMAIN source /\ SamePlace(source[i], reference) /\ parent(reference) = source[i]
  BY <1>2 DEF outputs, parent
<1> HIDE DEF i
<1>4. PICK k \in DOMAIN created : source[i].recorded_commitment = created[k].recorded_commitment
  BY <1>3 DEF StateUseInv
<1>5. source[i] \in StateOutputs /\ created[k] \in StateOutputs
  BY <1>3, <1>4 DEF StateUseInv
<1>6. source[i] = created[k]
  BY ZenonT(30), <1>3, <1>4, <1>5, CommitmentBinds DEF StateUseInv, resolve_input
<1> QED
  BY <1>3, <1>6

(* An output that resolve_input accepts has the content it was recorded    *)
(* with, and that is the content it was created with.                      *)
LEMMA ResolveKeeps ==
    ASSUME StateUseInv, NEW references, NEW signers, NEW output_type,
           resolve_transition(references, signers, output_type)
    PROVE  StateUseInv'
<1>1. /\ resolution' = [i \in DOMAIN references |-> ResolvedInput(references[i])]
      /\ UNCHANGED <<bindings, created, source>>
  BY DEF resolve_transition
<1>2. ASSUME NEW i \in DOMAIN references
      PROVE  /\ resolution'[i].reference = references[i]
             /\ resolution'[i].parent = parent(references[i])
             /\ resolution'[i].mode = required_mode(parent(references[i]).class)
             /\ \E k \in DOMAIN created :
                   parent(references[i]) = created[k] /\ SamePlace(created[k], references[i])
  <2>1. resolution'[i] = ResolvedInput(references[i])
    BY <1>1
  <2>2. resolve_input(references[i], signers)
    BY <1>2 DEF resolve_transition
  <2>3. \E k \in DOMAIN created :
            parent(references[i]) = created[k] /\ SamePlace(created[k], references[i])
    BY <2>2, ResolvedWasCreated
  <2>4. /\ resolution'[i].reference = references[i]
        /\ resolution'[i].parent = parent(references[i])
        /\ resolution'[i].mode = required_mode(parent(references[i]).class)
    BY <2>1 DEF ResolvedInput
  <2> QED
    BY Zenon, <2>3, <2>4
<1>3. ASSUME NEW i \in DOMAIN references, NEW j \in DOMAIN references,
             resolution'[j].parent = resolution'[i].parent
      PROVE  i = j
  <2>1. SamePlace(references[i], references[j])
    BY <1>2, <1>3 DEF SamePlace
  <2> QED
    BY Zenon, <2>1 DEF resolve_transition
<1>4. UseFixedAtCreation'
  BY <1>1, <1>2, <1>3 DEF UseFixedAtCreation
<1> QED
  BY <1>1, <1>4 DEF StateUseInv, content_commitment

(* Every step of the schema, the creators, the source and the resolver.    *)
LEMMA StateUseInvNext == StateUseInv /\ [StateUseNext]_stateUseVars => StateUseInv'
<1> SUFFICES ASSUME StateUseInv, [StateUseNext]_stateUseVars PROVE StateUseInv'
  OBVIOUS
<1>1. ASSUME UNCHANGED <<created, source, resolution>>,
             \A t \in DOMAIN bindings' : bindings'[t] \in Classes
      PROVE  StateUseInv'
  <2>1. UseFixedAtCreation'
    BY Zenon, <1>1, LaterOutputs DEF StateUseInv
  <2> QED
    BY <1>1, <2>1 DEF StateUseInv, content_commitment
<1>2. ASSUME NEW t \in StateTypes, NEW class \in Classes, bind(t, class) PROVE StateUseInv'
  BY <1>1, <1>2 DEF bind, StateUseInv
<1>3. ASSUME NewSchema PROVE StateUseInv'
  BY <1>1, <1>3 DEF NewSchema
<1>4. ASSUME UNCHANGED stateUseVars PROVE StateUseInv'
  BY <1>1, <1>4 DEF stateUseVars, StateUseInv
<1> QED
  BY <1>2, <1>3, <1>4, SealedKeeps, DamageKeeps, ResolveKeeps DEF StateUseNext

(* For any types, owners and outputs, any revision of the schema and any   *)
(* damage to the source that leaves the recorded commitments and the       *)
(* places alone: resolve_transition accepts an output only as it was       *)
(* created, in the mode of the class it had then, and once.                *)
THEOREM UseIsFixed == StateUseSpec => []UseFixedAtCreation
BY StateUseInvInit, StateUseInvNext, PTL DEF StateUseSpec, StateUseInv

-----------------------------------------------------------------------------
(* The mandate. Its inductive invariant ties what an executor knows to     *)
(* what became of its request (Knowledge), makes the owner of the          *)
(* reservation unique (Ownership), and keeps the exported journal a replay *)
(* of the row (Journal).                                                   *)

Steps == {"idle", "intends", "cas", "owner"}

Certainties == {"NotDispatched", "PossiblyAccepted", "Accepted", "DefinitePreAcceptanceRejection"}

Fates == {"none", "flying", "lost", "accepted", "rejected"}

AttemptStates ==
    {NoAttempt, "Prepared", "Dispatching", "Accepted", "Rejected", "OutcomeAmbiguous",
     "ReconciledAccepted", "ReconciledNotAccepted", "AbandonedAmbiguous"}

Contexts ==
    [knows : Certainties, policy : {"Never", "registered"},
     evidence : {"none", "unregistered", "registered"}]

Entries ==
    [previous_revision : Nat, revision : Nat, from : MandateStates, to : MandateStates,
     attempt : AttemptStates, context : Contexts, occurred_at : Nat]

MandateTypeOK ==
    /\ instant \in Nat
    /\ release_policy \in {"Never", "registered"}
    /\ projection \in [state : MandateStates, revision : Nat]
    /\ attempts \in [Executors -> [at : Steps, expected : Nat, attempt : AttemptStates,
                                   knows : Certainties]]
    /\ request \in [Executors -> Fates]
    /\ exported \in Seq(Entries)

(* What an executor's attempt says of its request.                         *)
KnowledgeOf(a, r) ==
    /\ a.at # "owner" => a.attempt = NoAttempt
    /\ a.at = "owner" => a.attempt # NoAttempt
    /\ a.attempt = NoAttempt => r = "none"
    /\ a.attempt = "Prepared" => r = "none"
    /\ a.attempt \notin {NoAttempt, "Prepared"} => r # "none"
    /\ a.attempt = "Accepted" => r = "accepted"
    /\ a.attempt = "ReconciledAccepted" => r = "accepted"
    /\ a.attempt = "Rejected" => r = "rejected"

Knowledge == \A e \in Executors : KnowledgeOf(attempts[e], request[e])

Ownership ==
    /\ \A e, f \in Executors : attempts[e].at = "owner" /\ attempts[f].at = "owner" => e = f
    /\ projection.state \in {"Proposed", "Issued", "Expired", "Revoked"} =>
          \A e \in Executors : attempts[e].at # "owner"

Outcome ==
    /\ projection.state = "Consumed" => \E e \in Executors : request[e] = "accepted"
    /\ projection.state = "Released" =>
          \A e \in Executors : attempts[e].attempt # "Prepared"
                                /\ request[e] \notin {"flying", "accepted"}

Journal ==
    /\ validate_journal("Proposed", 0, exported)
    /\ JournalEnd("Proposed", 0, exported) = projection
    /\ exported # <<>> => exported[Len(exported)].occurred_at <= instant

MandateInv == MandateTypeOK /\ Knowledge /\ Ownership /\ Outcome /\ Journal

-----------------------------------------------------------------------------
(* An entry that follows the row extends a valid journal to the new row.   *)
LEMMA JournalExtends ==
    ASSUME NEW log \in Seq(Entries), NEW row \in [state : MandateStates, revision : Nat],
           NEW now \in Nat, NEW entry \in Entries,
           validate_journal("Proposed", 0, log),
           JournalEnd("Proposed", 0, log) = row,
           log # <<>> => log[Len(log)].occurred_at <= now,
           entry.from = row.state, entry.previous_revision = row.revision,
           entry.revision = row.revision + 1, entry.occurred_at = now,
           validate_mandate_transition(entry.from, entry.to, entry.attempt, entry.context)
    PROVE  /\ validate_journal("Proposed", 0, Append(log, entry))
           /\ JournalEnd("Proposed", 0, Append(log, entry)) =
                 [state |-> entry.to, revision |-> entry.revision]
           /\ Append(log, entry) # <<>>
           /\ Append(log, entry)[Len(Append(log, entry))].occurred_at = now
<1> DEFINE longer == Append(log, entry)
<1>1. /\ longer \in Seq(Entries)
      /\ Len(log) \in Nat
      /\ Len(longer) = Len(log) + 1
      /\ longer[Len(log) + 1] = entry
      /\ \A i \in 1 .. Len(log) : longer[i] = log[i]
  OBVIOUS
<1>2. longer # <<>>
  BY <1>1
<1>3. JournalEnd("Proposed", 0, longer) = [state |-> entry.to, revision |-> entry.revision]
  BY Zenon, <1>1, <1>2 DEF JournalEnd
<1>4. ASSUME NEW i \in 1 .. Len(log)
      PROVE  IF i = 1 THEN EntryFollows(longer[1], "Proposed", 0, 0)
             ELSE EntryFollows(longer[i], longer[i - 1].to, longer[i - 1].revision,
                               longer[i - 1].occurred_at)
  BY <1>1 DEF validate_journal
<1>5. IF Len(log) + 1 = 1 THEN EntryFollows(longer[1], "Proposed", 0, 0)
      ELSE EntryFollows(longer[Len(log) + 1], longer[Len(log)].to, longer[Len(log)].revision,
                        longer[Len(log)].occurred_at)
  <2>1. CASE log = <<>>
    <3>1. row.state = "Proposed" /\ row.revision = 0
      BY Zenon, <2>1 DEF JournalEnd
    <3>2. entry.occurred_at \in Nat
      BY Zenon DEF Entries
    <3> QED BY <1>1, <2>1, <3>1, <3>2 DEF EntryFollows
  <2>2. CASE log # <<>>
    <3>1. Len(log) \in 1 .. Len(log) /\ Len(log) # 0
      BY <2>2
    <3>2. row.state = log[Len(log)].to /\ row.revision = log[Len(log)].revision
      BY Zenon, <2>2 DEF JournalEnd
    <3>3. longer[Len(log)] = log[Len(log)]
      BY Zenon, <1>1, <3>1
    <3> QED BY <1>1, <2>2, <3>1, <3>2, <3>3 DEF EntryFollows
  <2> QED BY Zenon, <2>1, <2>2
<1>6. validate_journal("Proposed", 0, longer)
  BY <1>1, <1>4, <1>5 DEF validate_journal
<1> QED BY Zenon, <1>1, <1>2, <1>3, <1>6

(* Every transition the law admits keeps the journal a replay of the row.  *)
LEMMA ProjectKeepsJournal ==
    ASSUME MandateTypeOK, Journal, NEW to \in MandateStates, NEW attempt \in AttemptStates,
           NEW context \in Contexts, Project(to, attempt, context), instant' = instant,
           validate_mandate_transition(projection.state, to, attempt, context)
    PROVE  /\ Journal'
           /\ projection' \in [state : MandateStates, revision : Nat]
           /\ projection'.state = to
           /\ exported' \in Seq(Entries)
<1> DEFINE entry == [previous_revision |-> projection.revision,
                     revision |-> projection.revision + 1,
                     from |-> projection.state, to |-> to, attempt |-> attempt,
                     context |-> context, occurred_at |-> instant]
<1>1. /\ projection \in [state : MandateStates, revision : Nat]
      /\ instant \in Nat
      /\ exported \in Seq(Entries)
  BY Zenon DEF MandateTypeOK
<1>2. entry \in Entries
  BY <1>1 DEF Entries
<1>3. /\ entry.from = projection.state /\ entry.previous_revision = projection.revision
      /\ entry.revision = projection.revision + 1 /\ entry.occurred_at = instant
      /\ entry.to = to /\ entry.attempt = attempt /\ entry.context = context
  BY Zenon
<1>4. /\ exported' = Append(exported, entry)
      /\ projection' = [state |-> to, revision |-> projection.revision + 1]
  BY Zenon DEF Project
<1> HIDE DEF entry
<1>5. /\ validate_journal("Proposed", 0, Append(exported, entry))
      /\ JournalEnd("Proposed", 0, Append(exported, entry)) =
            [state |-> entry.to, revision |-> entry.revision]
      /\ Append(exported, entry) # <<>>
      /\ Append(exported, entry)[Len(Append(exported, entry))].occurred_at = instant
  BY <1>1, <1>2, <1>3, JournalExtends DEF Journal
<1>6. Journal'
  BY <1>1, <1>3, <1>4, <1>5 DEF Journal
<1>7. exported' \in Seq(Entries)
  BY <1>1, <1>2, <1>4
<1> QED BY <1>1, <1>4, <1>6, <1>7

(* A mandate that nobody has looked at yet.                                *)
LEMMA InitMandate == MandateInit => MandateInv
<1> SUFFICES ASSUME MandateInit PROVE MandateInv
  BY Zenon
<1>1. MandateTypeOK
  BY DEF MandateInit, MandateTypeOK, NotStarted, Steps, Certainties, Fates, AttemptStates,
         NoAttempt, MandateStates
<1>2. Knowledge /\ Ownership /\ Outcome
  BY Zenon DEF MandateInit, Knowledge, KnowledgeOf, Ownership, Outcome, NotStarted, NoAttempt
<1>3. Journal
  BY DEF MandateInit, Journal, validate_journal, JournalEnd
<1> QED BY <1>1, <1>2, <1>3 DEF MandateInv

(* Signing, revocation and expiry happen only while nobody owns it.        *)
LEMMA AuthorityKeeps ==
    ASSUME MandateInv, NEW to \in MandateStates, Authority(to)
    PROVE  MandateInv'
<1>1. /\ to \in {"Issued", "Revoked", "Expired"}
      /\ Project(to, NoAttempt, BeforeDispatch)
      /\ validate_mandate_transition(projection.state, to, NoAttempt, BeforeDispatch)
      /\ UNCHANGED <<instant, release_policy, attempts, request>>
  BY Zenon DEF Authority
<1>2. projection.state \in {"Proposed", "Issued"}
  BY <1>1 DEF validate_mandate_transition, Edges
<1>3. NoAttempt \in AttemptStates /\ BeforeDispatch \in Contexts
  BY DEF AttemptStates, BeforeDispatch, Contexts, Certainties
<1>4. /\ Journal' /\ projection'.state = to
      /\ projection' \in [state : MandateStates, revision : Nat]
      /\ exported' \in Seq(Entries)
  BY <1>1, <1>3, ProjectKeepsJournal DEF MandateInv
<1>5. MandateTypeOK'
  BY Zenon, <1>1, <1>4 DEF MandateInv, MandateTypeOK
<1>6. Knowledge' /\ Ownership'
  BY Zenon, <1>1, <1>2, <1>4 DEF MandateInv, Knowledge, Ownership
<1>7. Outcome'
  BY Zenon, <1>1, <1>4 DEF Outcome
<1> QED BY <1>4, <1>5, <1>6, <1>7 DEF MandateInv

(* The row is left alone: what an executor does or learns by itself.       *)
LEMMA LocalStepKeeps ==
    ASSUME MandateInv, NEW e \in Executors,
           NEW a \in [at : Steps, expected : Nat, attempt : AttemptStates, knows : Certainties],
           NEW r \in Fates,
           attempts' = [attempts EXCEPT ![e] = a], request' = [request EXCEPT ![e] = r],
           UNCHANGED <<instant, release_policy, projection, exported>>,
           KnowledgeOf(a, r),
           a.at = "owner" => attempts[e].at = "owner",
           request[e] = "accepted" => r = "accepted",
           request[e] # "flying" => r # "accepted" \/ request[e] = "accepted",
           a.attempt = "Prepared" => attempts[e].attempt = "Prepared",
           r = "flying" => request[e] = "flying" \/ attempts[e].attempt = "Prepared"
    PROVE  MandateInv'
<1>1. MandateTypeOK'
  BY DEF MandateInv, MandateTypeOK
<1>2. /\ \A f \in Executors : f # e => attempts'[f] = attempts[f] /\ request'[f] = request[f]
      /\ attempts'[e] = a /\ request'[e] = r
  BY Zenon DEF MandateInv, MandateTypeOK
<1>3. Knowledge'
  BY Zenon, <1>2 DEF MandateInv, Knowledge
<1>4. Ownership'
  BY <1>2 DEF MandateInv, Ownership
<1>5. Outcome'
  BY <1>2 DEF MandateInv, Outcome
<1>6. Journal'
  BY Zenon DEF MandateInv, Journal
<1> QED BY Zenon, <1>1, <1>3, <1>4, <1>5, <1>6 DEF MandateInv

(* Each call an executor makes, from validate to the recorded outcome.     *)
LEMMA ExecutorStepKeeps ==
    ASSUME MandateInv, NEW e \in Executors,
           \/ Intend(e) \/ validate_reservation_cas(e) \/ Dispatch(e) \/ ProviderDecides(e)
           \/ Hear(e) \/ Reconcile(e) \/ Reopen(e)
    PROVE  MandateInv'
<1> DEFINE Attempts == [at : Steps, expected : Nat, attempt : AttemptStates, knows : Certainties]
<1> PICK a : a = attempts[e]
  BY Zenon
<1> PICK r : r = request[e]
  BY Zenon
<1>1. /\ a \in Attempts /\ r \in Fates
      /\ a.at \in Steps /\ a.expected \in Nat /\ a.attempt \in AttemptStates
      /\ a.knows \in Certainties
      /\ projection.revision \in Nat
      /\ KnowledgeOf(a, r)
      /\ attempts = [attempts EXCEPT ![e] = a]
      /\ request = [request EXCEPT ![e] = r]
  BY DEF MandateInv, MandateTypeOK, Knowledge
<1>2. CASE Intend(e)
  <2> DEFINE b == [a EXCEPT !.at = "intends", !.expected = projection.revision]
  <2>1. /\ a.at = "idle" /\ b \in Attempts /\ b.at = "intends" /\ b.attempt = a.attempt
        /\ attempts' = [attempts EXCEPT ![e] = b]
        /\ request' = [request EXCEPT ![e] = r]
        /\ UNCHANGED <<instant, release_policy, projection, exported>>
    BY ZenonT(30), <1>1, <1>2 DEF Intend, Steps
  <2>2. KnowledgeOf(b, r)
    BY <1>1, <2>1 DEF KnowledgeOf, NoAttempt
  <2> HIDE DEF b
  <2> QED BY Zenon, <1>1, <2>1, <2>2, LocalStepKeeps DEF KnowledgeOf
<1>3. CASE validate_reservation_cas(e)
  <2>1. PICK b \in Attempts :
           /\ a.at = "intends" /\ b.at \in {"cas", "idle"} /\ b.attempt = NoAttempt
           /\ attempts' = [attempts EXCEPT ![e] = b]
    <3>1. a.at = "intends" /\ a.attempt = NoAttempt
      BY <1>1, <1>3 DEF validate_reservation_cas, KnowledgeOf
    <3>2. [a EXCEPT !.at = "cas"] \in Attempts /\ [a EXCEPT !.at = "cas"].at = "cas"
             /\ [a EXCEPT !.at = "cas"].attempt = NoAttempt
      BY <1>1, <3>1 DEF Steps
    <3>3. NotStarted \in Attempts /\ NotStarted.at = "idle" /\ NotStarted.attempt = NoAttempt
      BY DEF NotStarted, Steps, AttemptStates, Certainties
    <3>4. \/ attempts' = [attempts EXCEPT ![e] = [a EXCEPT !.at = "cas"]]
          \/ attempts' = [attempts EXCEPT ![e] = NotStarted]
      BY Zenon, <1>3 DEF validate_reservation_cas
    <3> QED BY <3>1, <3>2, <3>3, <3>4
  <2>2. /\ request' = [request EXCEPT ![e] = r]
        /\ UNCHANGED <<instant, release_policy, projection, exported>>
    BY Zenon, <1>1, <1>3 DEF validate_reservation_cas
  <2>3. KnowledgeOf(b, r)
    BY <1>1, <2>1 DEF KnowledgeOf, NoAttempt
  <2> QED BY Zenon, <1>1, <2>1, <2>2, <2>3, LocalStepKeeps DEF KnowledgeOf, NoAttempt
<1>4. ASSUME NEW attempt \in AttemptStates, NEW knows \in Certainties, Learn(e, attempt, knows),
             NEW s \in Fates, request' = [request EXCEPT ![e] = s],
             a.attempt \notin {NoAttempt}, attempt \notin {NoAttempt, "Prepared"},
             s # "none", s = r \/ (a.attempt = "Prepared" /\ s \in {"flying", "lost"}),
             attempt \in {"Accepted", "ReconciledAccepted"} => s = "accepted",
             attempt = "Rejected" => s = "rejected"
      PROVE  MandateInv'
  <2> DEFINE b == [a EXCEPT !.attempt = attempt, !.knows = knows]
  <2>1. /\ b \in Attempts /\ b.at = a.at /\ b.attempt = attempt
        /\ attempts' = [attempts EXCEPT ![e] = b]
        /\ UNCHANGED <<instant, release_policy, projection, exported>>
    BY ZenonT(30), <1>1, <1>4 DEF Learn
  <2>2. a.at = "owner"
    BY <1>1, <1>4 DEF KnowledgeOf
  <2>3. KnowledgeOf(b, s)
    BY <1>1, <1>4, <2>1, <2>2 DEF KnowledgeOf
  <2> HIDE DEF b
  <2> QED BY Zenon, <1>1, <1>4, <2>1, <2>2, <2>3, LocalStepKeeps DEF KnowledgeOf
<1>5. CASE Dispatch(e)
  <2>1. PICK s \in {"flying", "lost"} : request' = [request EXCEPT ![e] = s]
    BY Zenon, <1>5 DEF Dispatch
  <2>2. a.attempt = "Prepared" /\ Learn(e, "Dispatching", "PossiblyAccepted")
    BY <1>5 DEF Dispatch
  <2>3. "Dispatching" \in AttemptStates /\ "PossiblyAccepted" \in Certainties /\ s \in Fates
    BY DEF AttemptStates, Certainties, Fates
  <2> QED BY Zenon, <1>4, <2>1, <2>2, <2>3 DEF NoAttempt
<1>6. CASE ProviderDecides(e)
  <2>1. PICK s \in {"accepted", "rejected", "lost"} : request' = [request EXCEPT ![e] = s]
    BY Zenon, <1>6 DEF ProviderDecides
  <2>2. /\ r = "flying" /\ s \in Fates
        /\ attempts' = [attempts EXCEPT ![e] = a]
        /\ UNCHANGED <<instant, release_policy, projection, exported>>
    BY Zenon, <1>1, <1>6 DEF ProviderDecides, Fates
  <2>3. KnowledgeOf(a, s)
    BY <1>1, <2>2 DEF KnowledgeOf
  <2> QED BY Zenon, <1>1, <2>1, <2>2, <2>3, LocalStepKeeps
<1>7. CASE Hear(e) \/ Reconcile(e) \/ Reopen(e)
  <2>1. /\ request' = [request EXCEPT ![e] = r]
        /\ a.attempt \notin {NoAttempt, "Prepared"}
    BY Zenon, <1>1, <1>7 DEF Hear, Reconcile, Reopen, NoAttempt
  <2>2. r # "none"
    BY Zenon, <1>1, <2>1 DEF KnowledgeOf
  <2>3. \/ r = "accepted" /\ (Learn(e, "Accepted", "Accepted") \/ Learn(e, "ReconciledAccepted", "Accepted"))
        \/ r = "rejected" /\ Learn(e, "Rejected", "DefinitePreAcceptanceRejection")
        \/ Learn(e, "OutcomeAmbiguous", "PossiblyAccepted")
        \/ Learn(e, "ReconciledNotAccepted", "PossiblyAccepted")
        \/ Learn(e, "AbandonedAmbiguous", "PossiblyAccepted")
    BY Zenon, <1>7 DEF Hear, Reconcile, Reopen
  <2>4. /\ {"Accepted", "ReconciledAccepted", "Rejected", "OutcomeAmbiguous",
            "ReconciledNotAccepted", "AbandonedAmbiguous"} \subseteq AttemptStates
        /\ {"Accepted", "DefinitePreAcceptanceRejection", "PossiblyAccepted"} \subseteq Certainties
    BY Zenon DEF AttemptStates, Certainties
  <2>5. NoAttempt = "none"
    BY DEF NoAttempt
  <2> QED BY Zenon, <1>1, <1>4, <2>1, <2>2, <2>3, <2>4, <2>5
<1> QED BY <1>2, <1>3, <1>5, <1>6, <1>7

(* The conditional update makes an owner only of an issued mandate.        *)
LEMMA CasKeeps ==
    ASSUME MandateInv, NEW e \in Executors, CasReservation(e)
    PROVE  MandateInv'
<1> DEFINE Attempts == [at : Steps, expected : Nat, attempt : AttemptStates, knows : Certainties]
<1> PICK a : a = attempts[e]
  OBVIOUS
<1>1. /\ a \in Attempts /\ a.at = "cas" /\ a.attempt = NoAttempt /\ request[e] = "none"
      /\ UNCHANGED <<instant, release_policy, request>>
  BY DEF MandateInv, MandateTypeOK, Knowledge, KnowledgeOf, CasReservation
<1>2. CASE projection = [state |-> "Issued", revision |-> a.expected]
  <2> DEFINE b == [a EXCEPT !.at = "owner", !.attempt = "Prepared"]
  <2>1. /\ Project("Reserved", "Prepared", BeforeDispatch)
        /\ attempts' = [attempts EXCEPT ![e] = b]
    BY Zenon, <1>2 DEF CasReservation
  <2>2. b \in Attempts /\ b.at = "owner" /\ b.attempt = "Prepared"
    BY Zenon, <1>1 DEF Steps, AttemptStates
  <2> HIDE DEF b
  <2>3. /\ "Reserved" \in MandateStates /\ "Prepared" \in AttemptStates
        /\ BeforeDispatch \in Contexts
    BY Zenon DEF MandateStates, AttemptStates, BeforeDispatch, Contexts, Certainties
  <2>4. validate_mandate_transition(projection.state, "Reserved", "Prepared", BeforeDispatch)
    <3>1. projection.state = "Issued"
      BY <1>2
    <3>2. Required("Issued", "Reserved") = <<"Prepared", "NotDispatched">>
      BY Zenon DEF Required
    <3> QED BY <3>1, <3>2 DEF validate_mandate_transition, Edges, BeforeDispatch
  <2>5. /\ Journal' /\ projection'.state = "Reserved"
        /\ projection' \in [state : MandateStates, revision : Nat]
        /\ exported' \in Seq(Entries)
    BY Zenon, <1>1, <2>1, <2>3, <2>4, ProjectKeepsJournal DEF MandateInv
  <2>6. /\ \A f \in Executors : f # e => attempts'[f] = attempts[f]
        /\ attempts'[e] = b /\ attempts' \in [Executors -> Attempts]
    BY Zenon, <2>1, <2>2 DEF MandateInv, MandateTypeOK
  <2>7. MandateTypeOK'
    BY Zenon, <1>1, <2>5, <2>6 DEF MandateInv, MandateTypeOK
  <2>8. Knowledge'
    BY <1>1, <2>2, <2>6 DEF MandateInv, Knowledge, KnowledgeOf, NoAttempt
  <2>9. Ownership'
    BY Zenon, <1>2, <2>5, <2>6 DEF MandateInv, Ownership
  <2>10. Outcome'
    BY <2>5 DEF Outcome
  <2> QED BY <2>5, <2>7, <2>8, <2>9, <2>10 DEF MandateInv
<1>3. CASE projection # [state |-> "Issued", revision |-> a.expected]
  <2>1. /\ attempts' = [attempts EXCEPT ![e] = NotStarted]
        /\ request' = [request EXCEPT ![e] = "none"]
        /\ UNCHANGED <<instant, release_policy, projection, exported>>
    BY <1>1, <1>3 DEF CasReservation, MandateInv, MandateTypeOK
  <2>2. /\ NotStarted \in Attempts /\ NotStarted.at = "idle" /\ NotStarted.attempt = NoAttempt
        /\ "none" \in Fates /\ NoAttempt = "none"
    BY DEF NotStarted, Steps, AttemptStates, Certainties, Fates, NoAttempt
  <2>3. KnowledgeOf(NotStarted, "none")
    BY <2>2 DEF KnowledgeOf
  <2> QED BY Zenon, <1>1, <2>1, <2>2, <2>3, LocalStepKeeps
<1> QED BY <1>2, <1>3

(* The law lets the owner say consumed only of an accepted request, and    *)
(* released only of one that was or will be refused.                       *)
LEMMA SettleKeeps ==
    ASSUME MandateInv, NEW e \in Executors, NEW to \in MandateStates, Settle(e, to)
    PROVE  MandateInv'
<1> PICK a : a = attempts[e]
  BY Zenon
<1>1. PICK evidence \in Offers(e) :
         LET context == [knows |-> a.knows, policy |-> release_policy, evidence |-> evidence]
         IN  /\ validate_mandate_transition(projection.state, to, a.attempt, context)
             /\ Project(to, a.attempt, context)
  BY Zenon DEF Settle
<1> DEFINE context == [knows |-> a.knows, policy |-> release_policy, evidence |-> evidence]
<1>2. /\ a.at = "owner" /\ a.attempt \in AttemptStates /\ a.knows \in Certainties
      /\ release_policy \in {"Never", "registered"}
      /\ KnowledgeOf(a, request[e])
      /\ UNCHANGED <<instant, release_policy, attempts, request>>
  BY Zenon DEF Settle, MandateInv, MandateTypeOK, Knowledge
<1>3. evidence \in {"none", "unregistered", "registered"}
  BY Zenon DEF Offers
<1>4. context \in Contexts /\ context.policy = release_policy /\ context.evidence = evidence
  BY Zenon, <1>2, <1>3 DEF Contexts
<1>5. /\ validate_mandate_transition(projection.state, to, a.attempt, context)
      /\ Project(to, a.attempt, context)
  BY Zenon, <1>1
<1> HIDE DEF context
<1>6. /\ Journal' /\ projection'.state = to
      /\ projection' \in [state : MandateStates, revision : Nat]
      /\ exported' \in Seq(Entries)
  BY Zenon, <1>2, <1>4, <1>5, ProjectKeepsJournal DEF MandateInv
<1>7. MandateTypeOK' /\ Knowledge'
  BY Zenon, <1>2, <1>6 DEF MandateInv, MandateTypeOK, Knowledge
<1>8. <<projection.state, to>> \in Edges /\ a.attempt = Required(projection.state, to)[1]
  BY <1>5 DEF validate_mandate_transition
<1>9. to \notin {"Proposed", "Issued", "Expired", "Revoked"}
  <2>1. ASSUME to \in {"Proposed", "Issued", "Expired", "Revoked"} PROVE FALSE
    <3>1. projection.state \in {"Proposed", "Issued"}
      BY Zenon, <1>8, <2>1 DEF Edges
    <3> QED BY Zenon, <1>2, <3>1 DEF MandateInv, Ownership
  <2> QED BY Zenon, <2>1
<1>10. Ownership'
  BY Zenon, <1>2, <1>6, <1>9 DEF MandateInv, Ownership
<1>11. ASSUME to = "Consumed" PROVE request[e] = "accepted"
  <2>1. a.attempt \in {"Accepted", "ReconciledAccepted"}
    <3>1. projection.state \in {"Reserved", "Quarantined"}
      BY <1>8, <1>11 DEF Edges
    <3>2. /\ Required("Reserved", "Consumed")[1] = "Accepted"
          /\ Required("Quarantined", "Consumed")[1] = "ReconciledAccepted"
      BY Zenon DEF Required
    <3> QED BY Zenon, <1>8, <1>11, <3>1, <3>2
  <2> QED BY Zenon, <1>2, <2>1 DEF KnowledgeOf
<1>12. ASSUME to = "Released"
       PROVE  a.attempt # "Prepared" /\ request[e] \notin {"flying", "accepted"}
  <2>1. projection.state \in {"Reserved", "Quarantined"}
    BY <1>8, <1>12 DEF Edges
  <2>2. /\ Required("Reserved", "Released")[1] = "Rejected"
        /\ Required("Quarantined", "Released")[1] = "ReconciledNotAccepted"
    BY Zenon DEF Required
  <2>3. CASE projection.state = "Reserved"
    BY Zenon, <1>2, <1>8, <1>12, <2>2, <2>3 DEF KnowledgeOf
  <2>4. CASE projection.state = "Quarantined"
    <3>1. context.policy # "Never" /\ context.evidence = context.policy
      BY Zenon, <1>5, <1>12, <2>4 DEF validate_mandate_transition, validate_non_acceptance_evidence
    <3>2. evidence = "registered"
      BY Zenon, <1>2, <1>4, <3>1
    <3>3. request[e] \in {"rejected", "lost"}
      BY Zenon, <3>2 DEF Offers
    <3> QED BY Zenon, <1>8, <1>12, <2>2, <2>4, <3>3
  <2> QED BY Zenon, <2>1, <2>3, <2>4
<1>13. ASSUME NEW f \in Executors, f # e
       PROVE  attempts[f].attempt = NoAttempt /\ request[f] = "none"
  BY Zenon, <1>2, <1>13 DEF MandateInv, Ownership, Knowledge, KnowledgeOf
<1>14. Outcome'
  <2>1. NoAttempt = "none"
    BY Zenon DEF NoAttempt
  <2> QED BY Zenon, <1>2, <1>6, <1>11, <1>12, <1>13, <2>1 DEF Outcome
<1> QED BY <1>6, <1>7, <1>10, <1>14 DEF MandateInv

(* Executors, the provider, the clock and restarts together.               *)
LEMMA MandateNextKeeps == MandateInv /\ [MandateNext]_mandateVars => MandateInv'
<1> SUFFICES ASSUME MandateInv, [MandateNext]_mandateVars PROVE MandateInv'
  OBVIOUS
<1>1. ASSUME NEW to \in MandateStates, Authority(to) PROVE MandateInv'
  BY Zenon, <1>1, AuthorityKeeps
<1>2. ASSUME NEW e \in Executors,
             \/ Intend(e) \/ validate_reservation_cas(e) \/ Dispatch(e) \/ ProviderDecides(e)
             \/ Hear(e) \/ Reconcile(e) \/ Reopen(e)
      PROVE  MandateInv'
  BY <1>2, ExecutorStepKeeps
<1>3. ASSUME NEW e \in Executors, CasReservation(e) PROVE MandateInv'
  BY Zenon, <1>3, CasKeeps
<1>4. ASSUME NEW e \in Executors, NEW to \in MandateStates, Settle(e, to) PROVE MandateInv'
  BY Zenon, <1>4, SettleKeeps
<1>5. CASE Passes
  <2>1. instant' \in Nat /\ instant <= instant'
    BY <1>5 DEF Passes, MandateInv, MandateTypeOK
  <2>2. UNCHANGED <<release_policy, projection, attempts, request, exported>>
    BY Zenon, <1>5 DEF Passes
  <2>3. MandateTypeOK' /\ Knowledge' /\ Ownership' /\ Outcome'
    BY Zenon, <2>1, <2>2 DEF MandateInv, MandateTypeOK, Knowledge, Ownership, Outcome
  <2>4. ASSUME exported # <<>> PROVE exported[Len(exported)].occurred_at <= instant'
    <3>1. exported \in Seq(Entries) /\ instant \in Nat
      BY DEF MandateInv, MandateTypeOK
    <3>2. exported[Len(exported)] \in Entries
      BY <2>4, <3>1
    <3>3. exported[Len(exported)].occurred_at \in Nat
      BY Zenon, <3>2 DEF Entries
    <3>4. exported[Len(exported)].occurred_at <= instant
      BY Zenon, <2>4 DEF MandateInv, Journal
    <3> QED BY <2>1, <3>1, <3>3, <3>4
  <2>5. Journal'
    BY Zenon, <2>2, <2>4 DEF MandateInv, Journal
  <2> QED BY Zenon, <2>3, <2>5 DEF MandateInv
<1>6. CASE UNCHANGED mandateVars
  BY Zenon, <1>6 DEF mandateVars, MandateInv, MandateTypeOK, Knowledge, Ownership, Outcome, Journal
<1> QED BY Zenon, <1>1, <1>2, <1>3, <1>4, <1>5, <1>6 DEF MandateNext

(* What the invariant says of a recorded outcome is the property.          *)
LEMMA InvIsHonest == MandateInv => OutcomeIsHonest
<1> SUFFICES ASSUME MandateInv PROVE OutcomeIsHonest
  BY Zenon
<1>1. \A e \in Executors : request[e] # "none" => attempts[e].at = "owner"
  BY Zenon DEF MandateInv, Knowledge, KnowledgeOf
<1>2. \A e, other \in Possible : e = other
  BY Zenon, <1>1 DEF Possible, MandateInv, Ownership
<1>3. projection.state = "Consumed" => Occurred # {}
  BY Zenon DEF MandateInv, Outcome, Occurred
<1>4. projection.state \in {"Proposed", "Issued", "Expired", "Revoked", "Released"} => Possible = {}
  BY <1>1 DEF MandateInv, Ownership, Outcome, Possible
<1> QED BY <1>2, <1>3, <1>4 DEF OutcomeIsHonest, MandateInv, Journal

(* Whatever the number of executors, the validity interval and the bound   *)
(* on the clock: an action is performed once at most, the row of a mandate *)
(* is true of what the provider did, and the exported journal validates    *)
(* and replays to it (csv-accountability/src/state.rs).                    *)
THEOREM MandateIsHonest == MandateSpec => []OutcomeIsHonest
<1>1. MandateInit => MandateInv
  BY InitMandate
<1>2. MandateInv /\ [MandateNext]_mandateVars => MandateInv'
  BY MandateNextKeeps
<1>3. MandateInv => OutcomeIsHonest
  BY Zenon, InvIsHonest
<1> QED BY <1>1, <1>2, <1>3, PTL DEF MandateSpec

-----------------------------------------------------------------------------
(* The execution journal. Its inductive invariant says where a call is     *)
(* known: in one task or under one key (Calls), that the key the counter   *)
(* names is free or holds an entry nobody was told of (Keys), that calls   *)
(* were acknowledged in the order of their keys (Order), and that of any   *)
(* keys in the table one is the last (Lasts).                              *)

RecorderStates ==
    {NotRecording} \cup [at : {"waiting", "holding", "committed"}, entry : JournalEntry]

JournalTypeOK ==
    /\ next_sequence \in Nat
    /\ issued \in 0 .. MaxRecords
    /\ acked \in [1 .. MaxRecords -> Nat]
    /\ recorder \in [Recorders -> RecorderStates]
    /\ \A k \in DOMAIN table : k \in Nat /\ table[k] \in JournalEntry

Active(w) == recorder[w].at # "idle"

Keys ==
    \A k \in DOMAIN table :
        /\ k <= next_sequence
        /\ k = next_sequence => acked[table[k].call] = 0
        /\ table[k].call <= issued
        /\ \A j \in DOMAIN table : table[j].call = table[k].call => j = k

\* A call that has not returned.
Pending(w) ==
    /\ opened
    /\ recorder[w].entry.call <= issued /\ acked[recorder[w].entry.call] = 0
    /\ recorder[w].at # "waiting" => mutex = w /\ backing = "redb"
    /\ IF recorder[w].at = "committed"
       THEN next_sequence \in DOMAIN table /\ table[next_sequence] = recorder[w].entry
       ELSE \A k \in DOMAIN table : table[k].call # recorder[w].entry.call

Calls ==
    /\ \A w \in Recorders : Active(w) => Pending(w)
    /\ \A v, w \in Recorders :
          Active(v) /\ Active(w) /\ recorder[v].entry.call = recorder[w].entry.call => v = w

Acks ==
    \A n \in 1 .. MaxRecords : acked[n] # 0 =>
        /\ n <= acked[n] /\ acked[n] <= issued
        /\ \E k \in DOMAIN table : table[k].call = n

Order ==
    \A j, k \in DOMAIN table :
        j < k /\ acked[table[j].call] # 0 /\ acked[table[k].call] # 0
        => acked[table[j].call] <= acked[table[k].call]

JournalInv == JournalTypeOK /\ Keys /\ Calls /\ Acks /\ Order

\* Of any keys in the table one is the last.
Lasts ==
    \A K \in SUBSET (DOMAIN table) : K # {} => \E k \in K : \A j \in K : j <= k

-----------------------------------------------------------------------------
(* The key written is the counter's; every other entry stays.              *)
LEMMA InsertedIs ==
    ASSUME NEW e, table' = Inserted(e)
    PROVE  /\ DOMAIN table' = DOMAIN table \cup {next_sequence}
           /\ table'[next_sequence] = e
           /\ \A k \in DOMAIN table : k # next_sequence => table'[k] = table[k]
BY DEF Inserted

(* At the start there is nothing to recover.                               *)
LEMMA InitJournal == JournalInit => JournalInv
<1> SUFFICES ASSUME JournalInit PROVE JournalInv
  OBVIOUS
<1>1. DOMAIN table = {} /\ \A w \in Recorders : ~Active(w)
  BY Zenon DEF JournalInit, Active, NotRecording
<1>2. JournalTypeOK
  BY <1>1, JournalAssumption DEF JournalInit, JournalTypeOK, RecorderStates
<1>3. Keys /\ Calls /\ Order
  BY Zenon, <1>1 DEF Keys, Calls, Order
<1>4. Acks
  BY Zenon DEF JournalInit, Acks
<1> QED BY Zenon, <1>2, <1>3, <1>4 DEF JournalInv

(* A call gets a number nobody has had.                                    *)
LEMMA CallRecordKeeps ==
    ASSUME JournalInv, NEW w \in Recorders, NEW t \in JournalIds, CallRecord(w, t)
    PROVE  JournalInv'
<1> PICK n : n = issued + 1
  BY Zenon
<1> DEFINE e == [transfer |-> t, call |-> n]
<1>1. /\ issued \in Nat /\ n \in 1 .. MaxRecords /\ issued' = n /\ n = issued + 1
      /\ opened /\ recorder[w] = NotRecording
      /\ recorder' = [recorder EXCEPT ![w] = [at |-> "waiting", entry |-> e]]
      /\ UNCHANGED <<backing, table, next_sequence, mutex, acked, opened, stops>>
  BY JournalAssumption DEF CallRecord, Waiting, JournalInv, JournalTypeOK
<1>2. e \in JournalEntry /\ e.call = n
  BY Zenon, <1>1 DEF JournalEntry
<1> HIDE DEF e
<1>3. /\ recorder' \in [Recorders -> RecorderStates]
      /\ recorder'[w].at = "waiting" /\ recorder'[w].entry = e
      /\ \A v \in Recorders : v # w => recorder'[v] = recorder[v]
  BY Zenon, <1>1, <1>2 DEF JournalInv, JournalTypeOK, RecorderStates
<1>4. /\ acked[n] = 0
      /\ \A k \in DOMAIN table : table[k].call \in Nat /\ table[k].call < n
      /\ \A v \in Recorders : Active(v) => recorder[v].entry.call \in Nat /\ recorder[v].entry.call < n
  <2>1. \A k \in DOMAIN table : table[k].call \in Nat
    BY DEF JournalInv, JournalTypeOK, JournalEntry
  <2>2. \A v \in Recorders : Active(v) => recorder[v].entry.call \in Nat
    BY DEF JournalInv, JournalTypeOK, JournalEntry, RecorderStates, Active, NotRecording
  <2>3. acked[n] = 0
    BY <1>1 DEF JournalInv, JournalTypeOK, Acks
  <2> QED BY <1>1, <2>1, <2>2, <2>3 DEF JournalInv, Keys, Calls, Pending
<1>5. JournalTypeOK'
  BY <1>1, <1>3 DEF JournalInv, JournalTypeOK
<1>6. Keys'
  BY <1>1, <1>4 DEF JournalInv, Keys
<1>7. Calls'
  BY <1>1, <1>2, <1>3, <1>4 DEF JournalInv, Calls, Pending, Active
<1>8. Acks'
  <2>1. \A m \in 1 .. MaxRecords : acked[m] \in Nat
    BY DEF JournalInv, JournalTypeOK
  <2>2. \A m \in 1 .. MaxRecords : acked[m] # 0 =>
            /\ m <= acked[m] /\ acked[m] <= issued
            /\ \E k \in DOMAIN table : table[k].call = m
    BY Zenon DEF JournalInv, Acks
  <2>3. acked' = acked /\ table' = table /\ issued' = issued + 1 /\ issued \in Nat
    BY <1>1
  <2>4. \A m \in 1 .. MaxRecords : acked[m] <= issued => acked[m] <= issued'
    BY <2>1, <2>3
  <2> QED BY Zenon, <2>2, <2>3, <2>4 DEF Acks
<1>9. Order'
  BY Zenon, <1>1 DEF JournalInv, Order
<1> QED BY Zenon, <1>5, <1>6, <1>7, <1>8, <1>9 DEF JournalInv

(* The entry a call has in hand.                                           *)
LEMMA EntryOf ==
    ASSUME JournalInv, NEW w \in Recorders, Active(w)
    PROVE  /\ recorder[w].entry \in JournalEntry
           /\ recorder[w].entry.call \in 1 .. MaxRecords
           /\ recorder[w].at \in {"waiting", "holding", "committed"}
           /\ recorder[w] = [at |-> recorder[w].at, entry |-> recorder[w].entry]
BY DEF JournalInv, JournalTypeOK, RecorderStates, JournalEntry, Active, NotRecording

(* A call that ends without a trace takes nothing with it.                 *)
LEMMA EndKeeps ==
    ASSUME JournalInv, NEW W \in SUBSET Recorders,
           recorder' = [w \in Recorders |-> IF w \in W THEN NotRecording ELSE recorder[w]],
           \A w \in Recorders \ W : Active(w) => mutex' = mutex \/ recorder[w].at = "waiting",
           \A w \in Recorders \ W : Active(w) => opened',
           UNCHANGED <<backing, table, next_sequence, issued, acked>>
    PROVE  JournalInv'
<1>1. /\ recorder' \in [Recorders -> RecorderStates]
      /\ \A w \in Recorders : Active(w)' => w \notin W /\ recorder'[w] = recorder[w] /\ Active(w)
  BY Zenon DEF JournalInv, JournalTypeOK, RecorderStates, Active, NotRecording
<1>2. JournalTypeOK'
  BY Zenon, <1>1 DEF JournalInv, JournalTypeOK
<1>3. Calls'
  BY Zenon, <1>1 DEF JournalInv, Calls, Pending
<1>4. Keys' /\ Acks' /\ Order'
  BY Zenon DEF JournalInv, Keys, Acks, Order
<1> QED BY Zenon, <1>2, <1>3, <1>4 DEF JournalInv

(* The lock is taken when nobody has it.                                   *)
LEMMA LockKeeps ==
    ASSUME JournalInv, NEW w \in Recorders, lock(w)
    PROVE  JournalInv'
<1> PICK e : e = recorder[w].entry
  BY Zenon
<1>1. /\ backing = "redb" /\ recorder[w].at = "waiting" /\ Active(w) /\ mutex = Unheld /\ mutex' = w
      /\ recorder' = [recorder EXCEPT ![w] = [at |-> "holding", entry |-> e]]
      /\ UNCHANGED <<backing, table, next_sequence, issued, acked, opened, stops>>
  BY DEF lock, Holding, Active
<1>2. e \in JournalEntry
  BY Zenon, <1>1, EntryOf
<1>3. /\ recorder' \in [Recorders -> RecorderStates]
      /\ recorder'[w].at = "holding" /\ recorder'[w].entry = e
      /\ \A v \in Recorders : v # w => recorder'[v] = recorder[v]
  BY Zenon, <1>1, <1>2 DEF JournalInv, JournalTypeOK, RecorderStates
<1>4. JournalTypeOK'
  BY Zenon, <1>1, <1>3 DEF JournalInv, JournalTypeOK
<1>5. \A v \in Recorders : v # w /\ Active(v) => recorder[v].at = "waiting"
  BY Zenon, <1>1, JournalAssumption DEF JournalInv, Calls, Pending
<1>6. Calls'
  BY <1>1, <1>3, <1>5 DEF JournalInv, Calls, Pending, Active
<1>7. Keys' /\ Acks' /\ Order'
  BY <1>1 DEF JournalInv, Keys, Acks, Order
<1> QED BY <1>4, <1>6, <1>7 DEF JournalInv

(* An entry nobody was told of is written under the counter's key.         *)
LEMMA InsertKeeps ==
    ASSUME JournalInv, NEW w \in Recorders, recorder[w].at \in {"waiting", "holding"},
           \A v \in Recorders : v # w /\ Active(v) => recorder[v].at = "waiting",
           table' = Inserted(recorder[w].entry),
           UNCHANGED <<next_sequence, issued, acked>>
    PROVE  /\ Keys' /\ Acks' /\ Order'
           /\ \A k \in DOMAIN table' : k \in Nat /\ table'[k] \in JournalEntry
           /\ next_sequence \in DOMAIN table' /\ table'[next_sequence] = recorder[w].entry
           /\ \A v \in Recorders : v # w /\ Active(v) =>
                 \A k \in DOMAIN table' : table'[k].call # recorder[v].entry.call
<1> PICK e : e = recorder[w].entry
  BY Zenon
<1>1. /\ e \in JournalEntry /\ e.call \in 1 .. MaxRecords /\ Active(w)
      /\ e.call <= issued /\ acked[e.call] = 0
      /\ \A k \in DOMAIN table : table[k].call # e.call
      /\ next_sequence \in Nat
  BY Zenon, EntryOf DEF JournalInv, JournalTypeOK, Calls, Pending, Active
<1>2. /\ DOMAIN table' = DOMAIN table \cup {next_sequence}
      /\ table'[next_sequence] = e
      /\ \A k \in DOMAIN table : k # next_sequence => table'[k] = table[k]
  BY Zenon, InsertedIs
<1>3. \A k \in DOMAIN table' : k \in Nat /\ table'[k] \in JournalEntry
  BY Zenon, <1>1, <1>2 DEF JournalInv, JournalTypeOK
<1>4. Keys'
  BY <1>1, <1>2 DEF JournalInv, Keys
<1>5. Acks'
  <2> SUFFICES ASSUME NEW n \in 1 .. MaxRecords, acked[n] # 0
               PROVE  /\ n <= acked[n] /\ acked[n] <= issued
                      /\ \E k \in DOMAIN table' : table'[k].call = n
    BY Zenon DEF Acks
  <2>1. PICK k \in DOMAIN table : table[k].call = n
    BY Zenon DEF JournalInv, Acks
  <2>2. k # next_sequence
    BY Zenon, <2>1 DEF JournalInv, Keys
  <2> QED BY Zenon, <1>2, <2>1, <2>2 DEF JournalInv, Acks
<1>6. Order'
  BY <1>1, <1>2 DEF JournalInv, Order
<1>7. ASSUME NEW v \in Recorders, v # w, Active(v), NEW k \in DOMAIN table'
      PROVE  table'[k].call # recorder[v].entry.call
  BY <1>1, <1>2, <1>7 DEF JournalInv, Calls, Pending
<1> QED BY ZenonT(30), <1>1, <1>2, <1>3, <1>4, <1>5, <1>6, <1>7

(* The commit of the holder of the lock.                                   *)
LEMMA CommitKeeps ==
    ASSUME JournalInv, NEW w \in Recorders, commit(w)
    PROVE  JournalInv'
<1> PICK e : e = recorder[w].entry
  OBVIOUS
<1>1. /\ recorder[w].at = "holding" /\ Active(w) /\ table' = Inserted(e)
      /\ recorder' = [recorder EXCEPT ![w] = [at |-> "committed", entry |-> e]]
      /\ UNCHANGED <<backing, next_sequence, mutex, issued, acked, opened, stops>>
  BY DEF commit, Committed, Active
<1>2. /\ e \in JournalEntry
      /\ \A v \in Recorders : v # w /\ Active(v) => recorder[v].at = "waiting"
  BY Zenon, <1>1, EntryOf DEF JournalInv, Calls, Pending
<1>3. /\ recorder' \in [Recorders -> RecorderStates]
      /\ recorder'[w].at = "committed" /\ recorder'[w].entry = e
      /\ \A v \in Recorders : v # w => recorder'[v] = recorder[v]
  BY <1>1, <1>2 DEF JournalInv, JournalTypeOK, RecorderStates
<1>4. /\ Keys' /\ Acks' /\ Order'
      /\ \A k \in DOMAIN table' : k \in Nat /\ table'[k] \in JournalEntry
      /\ next_sequence \in DOMAIN table' /\ table'[next_sequence] = e
      /\ \A v \in Recorders : v # w /\ Active(v) =>
            \A k \in DOMAIN table' : table'[k].call # recorder[v].entry.call
  <2>1. /\ recorder[w].at \in {"waiting", "holding"}
        /\ table' = Inserted(recorder[w].entry)
        /\ UNCHANGED <<next_sequence, issued, acked>>
    BY Zenon, <1>1
  <2> QED BY Zenon, <1>2, <2>1, InsertKeeps
<1>5. JournalTypeOK'
  BY Zenon, <1>1, <1>3, <1>4 DEF JournalInv, JournalTypeOK
<1>6. Calls'
  BY <1>1, <1>2, <1>3, <1>4 DEF JournalInv, Calls, Pending, Active
<1> QED BY Zenon, <1>4, <1>5, <1>6 DEF JournalInv

(* A failure that may or may not have reached the disk.                    *)
LEMMA IoErrorKeeps ==
    ASSUME JournalInv, NEW w \in Recorders, NEW durable \in BOOLEAN, JournalIoError(w, durable)
    PROVE  JournalInv'
<1> PICK e : e = recorder[w].entry
  BY Zenon
<1>1. /\ recorder[w].at = "holding" /\ Active(w)
      /\ recorder' = [recorder EXCEPT ![w] = NotRecording]
      /\ UNCHANGED <<backing, next_sequence, issued, acked, opened, stops>>
  BY DEF JournalIoError, Active
<1>2. /\ e \in JournalEntry
      /\ \A v \in Recorders : v # w /\ Active(v) => recorder[v].at = "waiting"
      /\ opened
  BY Zenon, <1>1, EntryOf DEF JournalInv, Calls, Pending
<1>3. /\ recorder' \in [Recorders -> RecorderStates]
      /\ ~Active(w)'
      /\ \A v \in Recorders : v # w => recorder'[v] = recorder[v]
  BY <1>1 DEF JournalInv, JournalTypeOK, RecorderStates, NotRecording, Active
<1>4. CASE table' = table
  <2>1. recorder' = [v \in Recorders |-> IF v \in {w} THEN NotRecording ELSE recorder[v]]
    BY Zenon, <1>1 DEF JournalInv, JournalTypeOK
  <2> QED BY Zenon, <1>1, <1>2, <1>4, <2>1, EndKeeps
<1>5. CASE table' = Inserted(e)
  <2>1. /\ Keys' /\ Acks' /\ Order'
        /\ \A k \in DOMAIN table' : k \in Nat /\ table'[k] \in JournalEntry
        /\ \A v \in Recorders : v # w /\ Active(v) =>
              \A k \in DOMAIN table' : table'[k].call # recorder[v].entry.call
    <3>1. /\ recorder[w].at \in {"waiting", "holding"}
          /\ table' = Inserted(recorder[w].entry)
          /\ UNCHANGED <<next_sequence, issued, acked>>
      BY Zenon, <1>1, <1>5
    <3> QED BY Zenon, <1>2, <3>1, InsertKeeps
  <2>2. JournalTypeOK'
    BY Zenon, <1>1, <1>3, <2>1 DEF JournalInv, JournalTypeOK
  <2>3. Calls'
    <3>1. \A v \in Recorders : Active(v)' => v # w /\ Active(v)
      BY Zenon, <1>1, <1>3 DEF Active
    <3> QED BY <1>1, <1>2, <1>3, <2>1, <3>1 DEF JournalInv, Calls, Pending
  <2> QED BY <2>1, <2>2, <2>3 DEF JournalInv
<1> QED BY Zenon, <1>4, <1>5 DEF JournalIoError

(* The entry under the counter's key is acknowledged, the last of all.     *)
LEMMA AckKeeps ==
    ASSUME JournalInv, NEW w \in Recorders, Active(w), NEW e, e = recorder[w].entry,
           \A v \in Recorders : v # w /\ Active(v) => recorder[v].at = "waiting",
           DOMAIN table' = DOMAIN table \cup {next_sequence},
           table'[next_sequence] = e,
           \A k \in DOMAIN table : k # next_sequence =>
               table'[k] = table[k] /\ table[k].call # e.call,
           next_sequence' = next_sequence + 1,
           acked' = [acked EXCEPT ![e.call] = issued],
           recorder' = [recorder EXCEPT ![w] = NotRecording],
           UNCHANGED <<backing, issued, opened>>
    PROVE  JournalInv'
<1>1. /\ e \in JournalEntry /\ e.call \in 1 .. MaxRecords
      /\ e.call <= issued /\ acked[e.call] = 0 /\ opened
      /\ next_sequence \in Nat /\ issued \in Nat /\ issued # 0
  BY EntryOf DEF JournalInv, JournalTypeOK, Calls, Pending
<1>2. /\ acked' \in [1 .. MaxRecords -> Nat] /\ acked'[e.call] = issued
      /\ \A n \in 1 .. MaxRecords : n # e.call => acked'[n] = acked[n]
      /\ \A n \in 1 .. MaxRecords : acked[n] \in Nat /\ acked[n] <= issued
  BY <1>1 DEF JournalInv, JournalTypeOK, Acks
<1>3. /\ recorder' \in [Recorders -> RecorderStates]
      /\ ~Active(w)'
      /\ \A v \in Recorders : v # w => recorder'[v] = recorder[v]
  BY Zenon DEF JournalInv, JournalTypeOK, RecorderStates, NotRecording, Active
<1>4. /\ \A k \in DOMAIN table' : k \in Nat /\ table'[k] \in JournalEntry
      /\ \A k \in DOMAIN table' : k < next_sequence' /\ k <= next_sequence
      /\ \A k \in DOMAIN table' : table'[k].call \in 1 .. MaxRecords
  <2>1. \A k \in DOMAIN table : k \in Nat /\ table[k] \in JournalEntry /\ k <= next_sequence
    BY Zenon DEF JournalInv, JournalTypeOK, Keys
  <2>2. \A k \in DOMAIN table' : k \in Nat /\ table'[k] \in JournalEntry /\ k <= next_sequence
    BY <1>1, <2>1
  <2> QED BY <1>1, <2>2 DEF JournalEntry
<1>5. JournalTypeOK'
  BY <1>1, <1>2, <1>3, <1>4 DEF JournalInv, JournalTypeOK
<1>6. Keys'
  <2>1. \A k \in DOMAIN table' : table'[k].call <= issued
    BY Zenon, <1>1 DEF JournalInv, Keys
  <2>2. \A j, k \in DOMAIN table' : table'[j].call = table'[k].call => j = k
    BY Zenon DEF JournalInv, Keys
  <2>3. \A k \in DOMAIN table' : k <= next_sequence' /\ k # next_sequence'
    BY <1>1, <1>4
  <2> QED BY Zenon, <2>1, <2>2, <2>3 DEF Keys
<1>7. Calls'
  <2> SUFFICES ASSUME NEW v \in Recorders, Active(v)'
               PROVE  /\ Pending(v)'
                      /\ \A u \in Recorders :
                            Active(u)' /\ recorder'[u].entry.call = recorder'[v].entry.call => u = v
    BY Zenon DEF Calls
  <2>1. v # w /\ recorder'[v] = recorder[v] /\ Active(v) /\ recorder[v].at = "waiting"
    BY Zenon, <1>3 DEF Active
  <2>2. /\ recorder[v].entry.call \in 1 .. MaxRecords
        /\ recorder[v].entry.call # e.call
        /\ recorder[v].entry.call <= issued /\ acked[recorder[v].entry.call] = 0
        /\ \A k \in DOMAIN table : table[k].call # recorder[v].entry.call
    BY Zenon, <2>1, EntryOf DEF JournalInv, Calls, Pending
  <2>3. Pending(v)'
    BY Zenon, <1>1, <1>2, <2>1, <2>2 DEF Pending
  <2>4. ASSUME NEW u \in Recorders, Active(u)',
               recorder'[u].entry.call = recorder'[v].entry.call
        PROVE  u = v
    BY Zenon, <1>3, <2>1, <2>4 DEF JournalInv, Calls, Active
  <2> QED BY Zenon, <2>3, <2>4
<1>8. Acks'
  <2> SUFFICES ASSUME NEW n \in 1 .. MaxRecords, acked'[n] # 0
               PROVE  /\ n <= acked'[n] /\ acked'[n] <= issued
                      /\ \E k \in DOMAIN table' : table'[k].call = n
    BY Zenon DEF Acks
  <2>1. CASE n = e.call
    BY <1>1, <1>2, <2>1
  <2>2. CASE n # e.call
    <3>1. acked'[n] = acked[n] /\ acked[n] # 0
      BY Zenon, <1>2, <2>2
    <3>2. n <= acked[n] /\ acked[n] <= issued
      BY Zenon, <3>1 DEF JournalInv, Acks
    <3>3. PICK k \in DOMAIN table : table[k].call = n
      BY Zenon, <3>1 DEF JournalInv, Acks
    <3>4. k # next_sequence
      BY Zenon, <3>1, <3>3 DEF JournalInv, Keys
    <3>5. k \in DOMAIN table' /\ table'[k].call = n
      BY Zenon, <3>3, <3>4
    <3> QED BY Zenon, <3>1, <3>2, <3>5
  <2> QED BY Zenon, <2>1, <2>2
<1>9. Order'
  <2> SUFFICES ASSUME NEW j \in DOMAIN table', NEW k \in DOMAIN table', j < k,
                      acked'[table'[j].call] # 0, acked'[table'[k].call] # 0
               PROVE  acked'[table'[j].call] <= acked'[table'[k].call]
    BY Zenon DEF Order
  <2>1. j # next_sequence /\ j \in DOMAIN table /\ table'[j] = table[j] /\ table[j].call # e.call
    BY <1>1, <1>4
  <2>2. acked'[table'[j].call] = acked[table[j].call] /\ acked[table[j].call] <= issued
    BY Zenon, <1>2, <1>4, <2>1
  <2>3. CASE k = next_sequence
    BY Zenon, <1>2, <2>2, <2>3
  <2>4. CASE k # next_sequence
    <3>1. k \in DOMAIN table /\ acked'[table'[k].call] = acked[table[k].call]
      BY <1>2, <1>4, <2>4
    <3> QED BY Zenon, <2>1, <2>2, <3>1 DEF JournalInv, Order
  <2> QED BY Zenon, <2>3, <2>4
<1> QED BY Zenon, <1>5, <1>6, <1>7, <1>8, <1>9 DEF JournalInv

(* record returns Ok under the lock.                                       *)
LEMMA ReturnKeeps ==
    ASSUME JournalInv, NEW w \in Recorders, record_returns(w)
    PROVE  JournalInv'
<1> PICK e : e = recorder[w].entry
  OBVIOUS
<1>1. /\ recorder[w].at = "committed" /\ Active(w)
      /\ next_sequence' = next_sequence + 1
      /\ acked' = [acked EXCEPT ![e.call] = issued]
      /\ recorder' = [recorder EXCEPT ![w] = NotRecording]
      /\ UNCHANGED <<backing, table, issued, opened>>
  BY Zenon DEF record_returns, Acked, Active
<1>2. /\ \A v \in Recorders : v # w /\ Active(v) => recorder[v].at = "waiting"
      /\ next_sequence \in DOMAIN table /\ table[next_sequence] = e
  BY Zenon, <1>1, EntryOf DEF JournalInv, Calls, Pending
<1>3. \A k \in DOMAIN table : k # next_sequence => table[k].call # e.call
  BY Zenon, <1>2 DEF JournalInv, Keys
<1>4. DOMAIN table' = DOMAIN table \cup {next_sequence}
  BY Zenon, <1>1, <1>2
<1> QED BY Zenon, <1>1, <1>2, <1>3, <1>4, AckKeeps

(* The list in memory: refused when full, or written and acknowledged.     *)
LEMMA RecordLockedKeeps ==
    ASSUME JournalInv, NEW w \in Recorders, record_locked(w)
    PROVE  JournalInv'
<1> PICK e : e = recorder[w].entry
  OBVIOUS
<1>1. /\ recorder[w].at = "waiting" /\ Active(w) /\ backing = "memory"
      /\ recorder' = [recorder EXCEPT ![w] = NotRecording]
      /\ UNCHANGED <<backing, mutex, issued, opened, stops>>
  BY Zenon DEF record_locked, Active
<1>2. \A v \in Recorders : Active(v) => recorder[v].at = "waiting" /\ opened
  BY <1>1, EntryOf DEF JournalInv, Calls, Pending
<1>3. CASE UNCHANGED <<table, next_sequence, acked>>
  <2>1. recorder' = [v \in Recorders |-> IF v \in {w} THEN NotRecording ELSE recorder[v]]
    BY Zenon, <1>1 DEF JournalInv, JournalTypeOK
  <2> QED BY Zenon, <1>1, <1>2, <1>3, <2>1, EndKeeps
<1>4. CASE /\ table' = Inserted(e)
           /\ next_sequence' = next_sequence + 1
           /\ acked' = Acked(e)
  <2>1. /\ DOMAIN table' = DOMAIN table \cup {next_sequence}
        /\ table'[next_sequence] = e
        /\ \A k \in DOMAIN table : k # next_sequence => table'[k] = table[k]
    BY Zenon, <1>4, InsertedIs
  <2>2. \A k \in DOMAIN table : table[k].call # e.call
    BY Zenon, <1>1 DEF JournalInv, Calls, Pending
  <2>3. acked' = [acked EXCEPT ![e.call] = issued] /\ next_sequence' = next_sequence + 1
    BY Zenon, <1>4 DEF Acked
  <2> QED BY Zenon, <1>1, <1>2, <2>1, <2>2, <2>3, AckKeeps
<1> QED BY Zenon, <1>3, <1>4 DEF record_locked

(* What a stop leaves is the table, or nothing and no promise either.      *)
LEMMA StopKeeps ==
    ASSUME JournalInv, ProcessStops
    PROVE  JournalInv'
<1>1. /\ recorder' = [w \in Recorders |-> NotRecording]
      /\ UNCHANGED <<backing, next_sequence, issued>>
      /\ \/ UNCHANGED <<table, acked>>
         \/ table' = [k \in {} |-> 0] /\ acked' = [n \in 1 .. MaxRecords |-> 0]
  BY Zenon DEF ProcessStops
<1>2. CASE UNCHANGED <<table, acked>>
  <2>1. recorder' = [w \in Recorders |-> IF w \in Recorders THEN NotRecording ELSE recorder[w]]
    BY Zenon, <1>1
  <2>2. Recorders \ Recorders = {} /\ Recorders \in SUBSET Recorders
    BY Zenon
  <2> QED BY Zenon, <1>1, <1>2, <2>1, <2>2, EndKeeps
<1>3. CASE table' = [k \in {} |-> 0] /\ acked' = [n \in 1 .. MaxRecords |-> 0]
  <2>1. DOMAIN table' = {} /\ \A w \in Recorders : ~Active(w)'
    BY Zenon, <1>1, <1>3 DEF Active, NotRecording
  <2>2. JournalTypeOK'
    BY Zenon, <1>1, <1>3, <2>1 DEF JournalInv, JournalTypeOK, RecorderStates
  <2>3. Keys' /\ Calls' /\ Order'
    BY Zenon, <2>1 DEF Keys, Calls, Order
  <2>4. Acks'
    BY <1>3 DEF Acks
  <2> QED BY Zenon, <2>2, <2>3, <2>4 DEF JournalInv
<1> QED BY Zenon, <1>1, <1>2, <1>3

(* A key that is written is the last of all.                               *)
LEMMA LastsKeep ==
    ASSUME JournalInv, Lasts, [JournalNext]_journalVars
    PROVE  Lasts'
<1>1. \/ table' = table
      \/ \E w \in Recorders : table' = Inserted(recorder[w].entry)
      \/ table' = [k \in {} |-> 0]
  BY Zenon DEF JournalNext, journalVars, CallRecord, record_locked, lock, commit, JournalIoError,
               record_returns, ProcessStops, open
<1>2. CASE table' = table
  BY <1>2 DEF Lasts
<1>3. ASSUME NEW e, table' = Inserted(e) PROVE Lasts'
  <2> SUFFICES ASSUME NEW K \in SUBSET (DOMAIN table'), K # {}
               PROVE  \E k \in K : \A j \in K : j <= k
    BY Zenon DEF Lasts
  <2>1. DOMAIN table' = DOMAIN table \cup {next_sequence}
    BY Zenon, <1>3, InsertedIs
  <2>2. next_sequence \in Nat /\ \A k \in DOMAIN table : k <= next_sequence
    BY Zenon DEF JournalInv, JournalTypeOK, Keys
  <2>3. CASE next_sequence \in K
    BY <2>1, <2>2, <2>3
  <2>4. CASE next_sequence \notin K
    <3>1. K \in SUBSET (DOMAIN table)
      BY Zenon, <2>1, <2>4
    <3> QED BY Zenon, <3>1 DEF Lasts
  <2> QED BY Zenon, <2>3, <2>4
<1>4. CASE table' = [k \in {} |-> 0]
  <2>1. DOMAIN table' = {}
    BY Zenon, <1>4
  <2> QED BY Zenon, <2>1 DEF Lasts
<1> QED BY Zenon, <1>1, <1>2, <1>3, <1>4

(* The counter goes on past every key on file.                             *)
LEMMA OpenKeeps ==
    ASSUME JournalInv, Lasts, open
    PROVE  JournalInv'
<1>1. /\ ~opened
      /\ UNCHANGED <<backing, table, mutex, recorder, issued, acked, stops>>
  BY Zenon DEF open
<1>2. \A w \in Recorders : ~Active(w)
  BY <1>1 DEF JournalInv, Calls, Pending
<1>3. next_sequence' \in Nat /\ \A k \in DOMAIN table : k < next_sequence'
  <2>1. CASE DOMAIN table = {}
    BY Zenon, <2>1 DEF open
  <2>2. CASE DOMAIN table # {}
    <3>1. \A k \in DOMAIN table : k \in Nat
      BY DEF JournalInv, JournalTypeOK
    <3>2. \E k \in DOMAIN table : \A j \in DOMAIN table : j <= k
      BY Zenon, <2>2 DEF Lasts
    <3>3. PICK k : k = CHOOSE i \in DOMAIN table : \A j \in DOMAIN table : j <= i
      OBVIOUS
    <3>4. k \in DOMAIN table /\ \A j \in DOMAIN table : j <= k
      BY Zenon, <3>2, <3>3
    <3>5. next_sequence' = k + 1
      BY Zenon, <2>2, <3>3 DEF open
    <3> QED BY <3>1, <3>4, <3>5
  <2> QED BY Zenon, <2>1, <2>2
<1>4. JournalTypeOK'
  BY Zenon, <1>1, <1>3 DEF JournalInv, JournalTypeOK
<1>5. Keys'
  <2>1. \A k \in DOMAIN table : k \in Nat
    BY DEF JournalInv, JournalTypeOK
  <2>2. \A k \in DOMAIN table : k <= next_sequence' /\ k # next_sequence'
    BY <1>3, <2>1
  <2> QED BY Zenon, <1>1, <2>2 DEF JournalInv, Keys
<1>6. Calls'
  BY Zenon, <1>1, <1>2 DEF Calls, Active
<1>7. Acks' /\ Order'
  BY Zenon, <1>1 DEF JournalInv, Acks, Order
<1> QED BY Zenon, <1>4, <1>5, <1>6, <1>7 DEF JournalInv

(* Every step keeps the invariant.                                         *)
LEMMA JournalNextKeeps == JournalInv /\ Lasts /\ [JournalNext]_journalVars => JournalInv'
<1> SUFFICES ASSUME JournalInv, Lasts, [JournalNext]_journalVars PROVE JournalInv'
  BY Zenon
<1>1. ASSUME NEW w \in Recorders, NEW t \in JournalIds, CallRecord(w, t) PROVE JournalInv'
  BY Zenon, <1>1, CallRecordKeeps
<1>2. ASSUME NEW w \in Recorders, record_locked(w) \/ lock(w) \/ commit(w) \/ record_returns(w)
      PROVE  JournalInv'
  BY Zenon, <1>2, RecordLockedKeeps, LockKeeps, CommitKeeps, ReturnKeeps
<1>3. ASSUME NEW w \in Recorders, NEW durable \in BOOLEAN, JournalIoError(w, durable)
      PROVE  JournalInv'
  BY Zenon, <1>3, IoErrorKeeps
<1>4. CASE ProcessStops \/ open
  BY Zenon, <1>4, StopKeeps, OpenKeeps
<1>5. CASE UNCHANGED journalVars
  <2>1. JournalTypeOK' /\ Keys'
    BY Zenon, <1>5 DEF journalVars, JournalInv, JournalTypeOK, Keys
  <2>2. Calls'
    BY Zenon, <1>5 DEF journalVars, JournalInv, Calls, Pending, Active
  <2>3. Acks' /\ Order'
    BY Zenon, <1>5 DEF journalVars, JournalInv, Acks, Order
  <2> QED BY Zenon, <2>1, <2>2, <2>3 DEF JournalInv
<1> QED BY Zenon, <1>1, <1>2, <1>3, <1>4, <1>5 DEF JournalNext

(* The latest entry has the last key, and keys follow acknowledgements.    *)
LEMMA InvReadsLatest == JournalInv /\ Lasts => RecoveryReadsLatest
<1> SUFFICES ASSUME JournalInv, Lasts, NEW n \in 1 .. MaxRecords, acked[n] # 0
             PROVE  \E k \in DOMAIN table :
                       /\ table[k].call = n
                       /\ LET last == latest_entry(table[k].transfer).call
                          IN  acked[last] = 0 \/ acked[last] >= n
  BY Zenon DEF RecoveryReadsLatest
<1>1. PICK k \in DOMAIN table : table[k].call = n
  BY Zenon DEF JournalInv, Acks
<1>2. n <= acked[n] /\ acked[n] \in Nat
  BY DEF JournalInv, JournalTypeOK, Acks
<1> PICK t : t = table[k].transfer
  BY Zenon
<1>3. k \in KeysOf(t) /\ KeysOf(t) \subseteq DOMAIN table
  BY Zenon DEF KeysOf
<1>4. \A j \in KeysOf(t) : j \in Nat
  BY <1>3 DEF JournalInv, JournalTypeOK
<1>5. \E i \in KeysOf(t) : \A j \in KeysOf(t) : j <= i
  BY Zenon, <1>3 DEF Lasts
<1>6. PICK i : i = CHOOSE x \in KeysOf(t) : \A j \in KeysOf(t) : j <= x
  BY Zenon
<1>7. i \in KeysOf(t) /\ k <= i
  BY Zenon, <1>3, <1>5, <1>6
<1>8. latest_entry(t) = table[i]
  BY Zenon, <1>6 DEF latest_entry
<1>9. acked[table[i].call] = 0 \/ acked[table[i].call] >= n
  <2>1. CASE i = k
    BY Zenon, <1>1, <1>2, <2>1
  <2>2. CASE i # k
    <3>1. i \in DOMAIN table /\ k < i
      BY <1>3, <1>4, <1>7, <2>2
    <3>2. table[i].call \in 1 .. MaxRecords
      BY Zenon, <3>1 DEF JournalInv, JournalTypeOK, JournalEntry
    <3>3. acked[table[i].call] = 0 \/ acked[n] <= acked[table[i].call]
      BY Zenon, <1>1, <3>1 DEF JournalInv, Order
    <3>4. acked[table[i].call] \in Nat
      BY Zenon, <3>2 DEF JournalInv, JournalTypeOK
    <3> QED BY <1>2, <3>3, <3>4
  <2> QED BY Zenon, <2>1, <2>2
<1> QED BY Zenon, <1>1, <1>8, <1>9

(* For any number of tasks, transfers, records and stops: an entry that    *)
(* was acknowledged stays in the journal, and latest_entry, which recovery *)
(* goes by, answers no entry acknowledged before that record was called.   *)
THEOREM JournalIsCurrent == JournalSpec => []RecoveryReadsLatest
<1>1. JournalInit => JournalInv /\ Lasts
  BY Zenon, InitJournal DEF JournalInit, Lasts
<1>2. JournalInv /\ Lasts /\ [JournalNext]_journalVars => JournalInv' /\ Lasts'
  BY JournalNextKeeps, LastsKeep
<1>3. JournalInv /\ Lasts => RecoveryReadsLatest
  BY InvReadsLatest
<1> QED BY <1>1, <1>2, <1>3, PTL DEF JournalSpec

=============================================================================
