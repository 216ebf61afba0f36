------------------------------ MODULE StateUse ------------------------------
(***************************************************************************)
(* State-use semantics and the resolution of consumed state (csv-protocol, *)
(* exclusivity.rs and resolution.rs): an output takes its class from the   *)
(* schema when it is created; later, under a schema that may have been     *)
(* revised and from a source that may have lost, doubled or damaged it, a  *)
(* transition that consumes it is resolved or refused.  A commitment is    *)
(* the tuple of what is committed to.                                      *)
(***************************************************************************)
EXTENDS Naturals, Sequences

CONSTANTS StateTypes,
          Owners,
          MaxOutputs,       \* bound: outputs created
          MaxDamage         \* bound: schema revisions and losses of the source

ASSUME StateUseAssumption == MaxOutputs \in Nat /\ MaxDamage \in Nat

VARIABLES bindings,         \* StateUseSchema::bindings
          created,          \* history: the outputs as they were created
          source,           \* the ParentStateSource: a vector of outputs
          damage,           \* revisions and losses so far
          resolution        \* the inputs of the last transition resolved

stateUseVars == <<bindings, created, source, damage, resolution>>

Classes == {"Citable", "Exclusive"}

required_mode(class) == IF class = "Exclusive" THEN "exclusive" ELSE "observational"

StateUseInit ==
    /\ bindings = <<>>
    /\ created = <<>>
    /\ source = <<>>
    /\ damage = 0
    /\ resolution = <<>>

-----------------------------------------------------------------------------
(* A type that is bound keeps its class; the schema may be another one.    *)
bind(t, class) ==
    /\ t \notin DOMAIN bindings
    /\ bindings' = [u \in DOMAIN bindings \cup {t} |-> IF u = t THEN class ELSE bindings[u]]
    /\ UNCHANGED <<created, source, damage, resolution>>

NewSchema ==
    /\ damage < MaxDamage /\ bindings # <<>>
    /\ damage' = damage + 1
    /\ bindings' = <<>>
    /\ UNCHANGED <<created, source, resolution>>

content_commitment(output) ==
    <<output.transition_id, output.output_index, output.state_type, output.bound_type,
      output.class, output.authorized>>

(* bind_output and ParentOutput::sealed.  Each transition has two outputs. *)
sealed(t, authorized) ==
    /\ t \in DOMAIN bindings /\ Len(created) < MaxOutputs
    /\ LET output == [transition_id |-> Len(created) \div 2, output_index |-> Len(created) % 2,
                      state_type |-> t, bound_type |-> t, class |-> bindings[t],
                      authorized |-> authorized, recorded_commitment |-> <<>>]
           recorded == [output EXCEPT !.recorded_commitment = content_commitment(output)]
       IN  created' = Append(created, recorded) /\ source' = Append(source, recorded)
    /\ UNCHANGED <<bindings, damage, resolution>>

(* What may become of a source: an output is lost, held twice, or its      *)
(* content is damaged; its place and the recorded commitment are not.      *)
SourceDamaged(i) ==
    /\ damage < MaxDamage
    /\ damage' = damage + 1
    /\ \/ source' = SubSeq(source, 1, i - 1) \o SubSeq(source, i + 1, Len(source))
       \/ source' = Append(source, source[i])
       \/ \E t \in StateTypes \ {source[i].state_type} :
             source' = [source EXCEPT ![i].state_type = t]
       \/ \E t \in StateTypes \ {source[i].bound_type} :
             source' = [source EXCEPT ![i].bound_type = t]
       \/ \E class \in Classes \ {source[i].class} :
             source' = [source EXCEPT ![i].class = class]
       \/ \E consumers \in SUBSET Owners \ {source[i].authorized} :
             source' = [source EXCEPT ![i].authorized = consumers]
    /\ UNCHANGED <<bindings, created, resolution>>

-----------------------------------------------------------------------------
SamePlace(a, b) == a.transition_id = b.transition_id /\ a.output_index = b.output_index

\* Where the source holds the output that is referred to, and the output.
outputs(reference) == {i \in DOMAIN source : SamePlace(source[i], reference)}

parent(reference) == source[CHOOSE i \in outputs(reference) : TRUE]

schema_agrees(output) ==
    output.bound_type \in DOMAIN bindings /\ bindings[output.bound_type] = output.class

\* The recorded commitment is taken for granted.
TrustsTheRecord(reference, signers) ==
    /\ \E i \in DOMAIN source : outputs(reference) = {i}
    /\ parent(reference).state_type = reference.state_type
    /\ schema_agrees(parent(reference))
    /\ parent(reference).authorized \cap signers # {}

(* One output at the place, of the type named, with the class the schema   *)
(* gives it, the content it was recorded with, and a signer among those    *)
(* it authorizes.                                                          *)
resolve_input(reference, signers) ==
    /\ \E i \in DOMAIN source : outputs(reference) = {i}
    /\ parent(reference).state_type = reference.state_type
    /\ schema_agrees(parent(reference))
    /\ parent(reference).recorded_commitment = content_commitment(parent(reference))
    /\ parent(reference).authorized \cap signers # {}

ResolvedInput(reference) ==
    [reference |-> reference, parent |-> parent(reference),
     mode |-> required_mode(parent(reference).class)]

(* The inputs in their order, no output twice, and the created output of a *)
(* type that is bound (validate_rules).  A refusal changes nothing.        *)
resolve_transition(references, signers, output_type) ==
    /\ output_type \in DOMAIN bindings
    /\ \A i, j \in DOMAIN references : SamePlace(references[i], references[j]) => i = j
    /\ \A i \in DOMAIN references : resolve_input(references[i], signers)
    /\ resolution' = [i \in DOMAIN references |-> ResolvedInput(references[i])]
    /\ UNCHANGED <<bindings, created, source, damage>>

References ==
    [transition_id : 0 .. (MaxOutputs - 1) \div 2, output_index : {0, 1}, state_type : StateTypes]

(* One or two inputs; a transition with an input that does not resolve is  *)
(* refused and changes nothing.                                            *)
ReferenceLists(signers) ==
    UNION {[1 .. n -> {r \in References : resolve_input(r, signers)}] : n \in 1 .. 2}

StateUseNext ==
    \/ \E t \in StateTypes, class \in Classes : bind(t, class)
    \/ NewSchema
    \/ \E t \in StateTypes, authorized \in SUBSET Owners : sealed(t, authorized)
    \/ \E i \in 1 .. Len(source) : SourceDamaged(i)
    \/ \E signers \in SUBSET Owners : \E references \in ReferenceLists(signers) :
          \E output_type \in StateTypes : resolve_transition(references, signers, output_type)

StateUseSpec == StateUseInit /\ [][StateUseNext]_stateUseVars

(* What an output may be used for is fixed when it is created: after any   *)
(* revision of the schema, and if the source lost outputs, held them twice *)
(* or changed their content under the commitment they were recorded with,  *)
(* a resolved input is the output as it was created, used in the mode of   *)
(* the class it had then, and two inputs of a transition are two outputs.  *)
UseFixedAtCreation ==
    \A i \in DOMAIN resolution :
        LET input == resolution[i]
        IN  /\ \E k \in DOMAIN created :
                  /\ SamePlace(created[k], input.reference)
                  /\ input.parent = created[k]
                  /\ input.mode = required_mode(created[k].class)
            /\ \A j \in DOMAIN resolution :
                  resolution[j].parent = input.parent => i = j
=============================================================================
