--------------------------- MODULE TransitionDag ---------------------------
(***************************************************************************)
(* The transition DAG of a proof bundle (csv-hash, dag.rs): nodes are      *)
(* sealed under the hash of their contents, a segment lists them in one    *)
(* canonical order under a root, and a verifier decides about a segment    *)
(* that may have been altered on its way.  Hashes are numbers, because the *)
(* order depends on how they compare: digest gives every preimage hashed   *)
(* so far a number of its own, in any order.                               *)
(***************************************************************************)
EXTENDS Integers, Sequences, SequencesExt, FiniteSetsExt

CONSTANT MaxNodes           \* bound: nodes sealed

ASSUME DagAssumption == MaxNodes \in Nat \ {0}

VARIABLES digest,           \* preimage <<payload, parents>> -> identifier
          drafted,          \* the nodes sealed, in the order they were made
          segment,          \* the segment on its way: nodes and root_commitment
          altered           \* what is decoded is not what was sealed

dagVars == <<digest, drafted, segment, altered>>

NoSegment == [nodes |-> <<>>, root_commitment |-> <<>>]

DagInit ==
    /\ digest = <<>>
    /\ drafted = <<>>
    /\ segment = NoSegment
    /\ altered = FALSE

-----------------------------------------------------------------------------
canonical_id(node) == digest[<<node.payload, node.parents>>]

verify_identity(node) == node.node_id = canonical_id(node)

NodeIds(nodes) == {nodes[i].node_id : i \in DOMAIN nodes}

(* A reference to a parent resolves to the first node of that identifier.  *)
ResolvedParents(nodes, i) ==
    {SelectInSeq(nodes, LAMBDA node : node.node_id = p) :
        p \in ToSet(nodes[i].parents) \cap NodeIds(nodes)}

\* The next node is the one listed first.
ReadyByIndex(nodes, order) ==
    LET ready == {i \in DOMAIN nodes \ ToSet(order) :
                    ResolvedParents(nodes, i) \subseteq ToSet(order)}
    IN  {i \in ready : \A j \in ready : i <= j}

(* The smallest (identifier, index) of the nodes no parent holds back.     *)
NextReady(nodes, order) ==
    LET ready == {i \in DOMAIN nodes \ ToSet(order) :
                    ResolvedParents(nodes, i) \subseteq ToSet(order)}
    IN  {i \in ready : \A j \in ready :
            \/ nodes[i].node_id < nodes[j].node_id
            \/ nodes[i].node_id = nodes[j].node_id /\ i <= j}

(* Kahn's algorithm: indices, as many as have an order.                    *)
RECURSIVE topological_order(_, _)
topological_order(nodes, order) ==
    IF NextReady(nodes, order) = {} THEN order
    ELSE topological_order(nodes, Append(order, CHOOSE i \in NextReady(nodes, order) : TRUE))

root_of_nodes(nodes, order) == [k \in DOMAIN order |-> canonical_id(nodes[order[k]])]

(* The first rule a list of nodes breaks.  The rules about parents are     *)
(* checked node by node, parent by parent.                                 *)
ParentRule(nodes, i, k) ==
    LET parents == nodes[i].parents
    IN  CASE parents[k] = nodes[i].node_id -> "SelfParent"
          [] \E l \in 1 .. k - 1 : parents[l] = parents[k] -> "DuplicateParent"
          [] parents[k] \notin NodeIds(nodes) -> "MissingParent"
          [] OTHER -> "Ok"

check_relations(nodes) ==
    LET places == {<<i, k>> \in (DOMAIN nodes) \X (1 .. 2) :
                    k \in DOMAIN nodes[i].parents /\ ParentRule(nodes, i, k) # "Ok"}
    IN  CASE nodes = <<>> -> "EmptySegment"
          [] Cardinality(NodeIds(nodes)) < Len(nodes) -> "DuplicateNodeId"
          [] places # {} ->
                LET first == CHOOSE x \in places : \A y \in places :
                                x[1] < y[1] \/ (x[1] = y[1] /\ x[2] <= y[2])
                IN  ParentRule(nodes, first[1], first[2])
          [] OTHER -> "Ok"

checked_order(nodes, order) ==
    LET relations == check_relations(nodes)
    IN  CASE relations # "Ok" -> relations
          [] Len(order) < Len(nodes) -> "Cycle"
          [] \A i \in DOMAIN nodes : nodes[i].parents # <<>> -> "NoRoot"
          [] OTHER -> "Ok"

validate_structure(s) ==
    LET order == topological_order(s.nodes, <<>>)
        checked == checked_order(s.nodes, order)
    IN  CASE checked # "Ok" -> checked
          [] \E i \in DOMAIN s.nodes : ~verify_identity(s.nodes[i]) -> "NodeIdMismatch"
          [] \E k \in DOMAIN order :
                s.nodes[k].node_id # s.nodes[order[k]].node_id -> "NonCanonicalOrder"
          [] s.root_commitment # root_of_nodes(s.nodes, order) -> "RootMismatch"
          [] OTHER -> "Ok"

-----------------------------------------------------------------------------
Hashed(preimage, id) ==
    IF preimage \in DOMAIN digest THEN digest[preimage] = id /\ UNCHANGED digest
    ELSE /\ id \notin Range(digest)
         /\ digest' = [x \in DOMAIN digest \cup {preimage} |->
                        IF x = preimage THEN id ELSE digest[x]]

(* Up to two parents, named once or twice.                                 *)
ParentLists(ids) == {<<>>} \cup {<<p>> : p \in ids} \cup {<<p, q>> : p, q \in ids}

(* DAGNode::sealed: a child is made after the parents it names.            *)
seal_node(payload, parents, id) ==
    /\ Len(drafted) < MaxNodes
    /\ Hashed(<<payload, parents>>, id)
    /\ drafted' = Append(drafted, [node_id |-> id, payload |-> payload, parents |-> parents])
    /\ UNCHANGED <<segment, altered>>

(* DAGSegment::sealed takes the nodes in any order.  Sealing each of them  *)
(* again changes nothing; a segment that is not valid is not made.         *)
seal_segment(listing) ==
    LET nodes == [k \in DOMAIN listing |-> drafted[listing[k]]]
        order == topological_order(nodes, <<>>)
        made == [nodes |-> [k \in DOMAIN order |-> nodes[order[k]]],
                 root_commitment |-> root_of_nodes(nodes, order)]
    IN  /\ nodes # <<>>
        /\ \A i \in DOMAIN nodes : ToSet(nodes[i].parents) \subseteq NodeIds(nodes)
        /\ validate_structure(made) = "Ok"
        /\ segment' = made
        /\ drafted' = <<>>
        /\ UNCHANGED <<digest, altered>>

(* What may be decoded in place of the segment: a node lost, listed twice  *)
(* or in another place, or under the identifier of another node; the root  *)
(* kept or computed for the list as it is.                                 *)
Relisted(i) ==
    /\ altered' = TRUE
    /\ \E nodes \in {RemoveAt(segment.nodes, i), Append(segment.nodes, segment.nodes[i])}
            \cup {[segment.nodes EXCEPT ![i].node_id = id] : id \in Range(digest)}
            \cup {[segment.nodes EXCEPT ![i] = segment.nodes[j], ![j] = segment.nodes[i]] :
                    j \in DOMAIN segment.nodes} :
          \E root \in {segment.root_commitment,
                       root_of_nodes(nodes, [k \in DOMAIN nodes |-> k])} :
             segment' = [nodes |-> nodes, root_commitment |-> root]
    /\ UNCHANGED <<digest, drafted>>

(* A node with other contents, which hash to a number before or after all  *)
(* others; under its old identifier, the new one or that of another node.  *)
Rewritten(i, payload, parents, hash) ==
    LET others == [segment.nodes EXCEPT ![i].payload = payload, ![i].parents = parents]
    IN  /\ altered' = TRUE
        /\ others # segment.nodes
        /\ Hashed(<<payload, parents>>, hash)
        /\ \E id \in Range(digest) \cup {hash},
              root \in {segment.root_commitment, [segment.root_commitment EXCEPT ![i] = hash]} :
              segment' = [nodes |-> [others EXCEPT ![i].node_id = id], root_commitment |-> root]
        /\ UNCHANGED drafted

Listings == {s \in [DOMAIN drafted -> DOMAIN drafted] : IsInjective(s)}

(* One segment is made, and altered once.                                  *)
DagNext ==
    \/ /\ segment = NoSegment
       /\ \/ \E parents \in ParentLists(Range(digest)), id \in 1 .. MaxNodes :
                seal_node(Len(drafted), parents, id)
          \/ \E listing \in Listings : seal_segment(listing)
    \/ /\ segment # NoSegment /\ ~altered
       /\ \E i \in DOMAIN segment.nodes :
             \/ Relisted(i)
             \/ \E payload \in {segment.nodes[i].payload, MaxNodes},
                   parents \in ParentLists(NodeIds(segment.nodes)),
                   hash \in Range(digest) \cup {0, MaxNodes + 1} :
                   Rewritten(i, payload, parents, hash)

DagSpec == DagInit /\ [][DagNext]_dagVars

-----------------------------------------------------------------------------
(* The listings of the nodes in which every parent comes before its        *)
(* children, as lists of identifiers.                                      *)
Topological(nodes) ==
    {s \in [DOMAIN nodes -> DOMAIN nodes] :
        /\ IsInjective(s)
        /\ \A k \in DOMAIN s : ResolvedParents(nodes, s[k]) \subseteq {s[l] : l \in 1 .. k - 1}}

Precedes(s, t) ==
    \E k \in DOMAIN s : s[k] < t[k] /\ \A l \in 1 .. k - 1 : s[l] = t[l]

(* "they cannot be accepted under two different identities": a segment     *)
(* passes validate_structure only if every identifier is that of the       *)
(* contents, its list is the least of all that put parents first (so that  *)
(* one set of nodes has one list), and the root is the list's.  "Cycle" is *)
(* the answer exactly when the relations hold and there is no such list,   *)
(* "NoRoot" never is.  What was sealed and not altered passes.             *)
OneIdentityPerGraph ==
    segment # NoSegment =>
        LET verdict == validate_structure(segment)
            nodes == segment.nodes
            ids(s) == [k \in DOMAIN s |-> nodes[s[k]].node_id]
            listed == [k \in DOMAIN nodes |-> nodes[k].node_id]
            listings == Topological(nodes)
        IN  /\ verdict = "Ok" =>
                /\ \A i \in DOMAIN nodes : verify_identity(nodes[i])
                /\ [k \in DOMAIN nodes |-> k] \in listings
                /\ \A s \in listings : ~Precedes(ids(s), listed)
                /\ segment.root_commitment = listed
            /\ verdict = "Cycle" <=> check_relations(nodes) = "Ok" /\ listings = {}
            /\ verdict # "NoRoot"
            /\ ~altered => verdict = "Ok"
=============================================================================
