---------------------------- MODULE MerkleTrees ----------------------------
(***************************************************************************)
(* The three Merkle trees of the code as functions on symbolic hashes: the *)
(* canonical tree of csv-hash, which orders the children of a node; the    *)
(* tree of the multi-protocol commitments; and Bitcoin's tree of the       *)
(* transactions of a block.  A hash is the tuple of what was hashed, so    *)
(* two hashes are equal exactly when their inputs are.  Indices of leaves  *)
(* start at 0, as in the code.                                             *)
(***************************************************************************)
EXTENDS Naturals, Sequences, SequencesExt

hash_leaf(data) == <<"leaf", data>>

(* "the smaller hash is always on the left": the order of the children is  *)
(* lost.                                                                   *)
combine_children(left, right) == <<"node", {left, right}>>

(* Two commitments of one protocol differ in their leaf.                   *)
MuxLeaf(commitment) == <<"mpc-leaf", commitment>>

hash_pair(left, right) == <<"mpc-internal", left, right>>

(* Bitcoin hashes leaves and nodes alike; a txid is a tuple of length one. *)
Txid(t) == <<t>>

double_sha256(left, right) == <<left, right>>

(* The parent of a chunk of two, and of the odd node at the end of a       *)
(* level, which is promoted, or paired with itself.                        *)
PairParent(tree, left, right) ==
    CASE tree = "canonical" -> combine_children(left, right)
      [] tree = "mux" -> hash_pair(left, right)
      [] tree = "bitcoin" -> double_sha256(left, right)

OddParent(tree, node) == IF tree = "bitcoin" THEN double_sha256(node, node) ELSE node

NextLevel(tree, level) ==
    [k \in 1 .. (Len(level) + 1) \div 2 |->
        IF 2 * k <= Len(level)
        THEN PairParent(tree, level[2 * k - 1], level[2 * k])
        ELSE OddParent(tree, level[2 * k - 1])]

(* The levels of the tree, from the leaves to the root.                    *)
RECURSIVE Levels(_, _)
Levels(tree, level) ==
    <<level>> \o IF Len(level) <= 1 THEN <<>> ELSE Levels(tree, NextLevel(tree, level))

Root(tree, level) == Last(Last(Levels(tree, level)))

(* The node at place index of a level and its sibling, if it has one.      *)
Sibling(level, index) ==
    CASE index % 2 = 1 -> <<[hash |-> level[index], is_left |-> TRUE]>>
      [] index % 2 = 0 /\ index + 1 < Len(level) ->
            <<[hash |-> level[index + 2], is_left |-> FALSE]>>
      [] OTHER -> <<>>

(* The siblings on the way from a leaf to the root.                        *)
RECURSIVE Branch(_, _, _)
Branch(tree, level, index) ==
    IF Len(level) <= 1 THEN <<>>
    ELSE LET odd == <<[hash |-> level[index + 1], is_left |-> FALSE]>>
             sibling == Sibling(level, index)
         IN  (IF sibling = <<>> /\ tree = "bitcoin" THEN odd ELSE sibling)
             \o Branch(tree, NextLevel(tree, level), index \div 2)

-----------------------------------------------------------------------------
(* The canonical tree: an odd last leaf is doubled, an odd node above the  *)
(* leaves is promoted.                                                     *)
balance_leaves(leaves) ==
    IF Len(leaves) > 1 /\ Len(leaves) % 2 = 1 THEN Append(leaves, Last(leaves)) ELSE leaves

merkle_root(leaves) == Root("canonical", balance_leaves(leaves))

\* A proof that forgets the doubled leaf.
UnbalancedProof(leaves, index) ==
    [k \in 1 .. Len(Branch("canonical", leaves, index)) |->
        Branch("canonical", leaves, index)[k].hash]

proof(leaves, index) ==
    LET branch == Branch("canonical", balance_leaves(leaves), index)
    IN  [k \in 1 .. Len(branch) |-> branch[k].hash]

verify(siblings, leaf, root) == FoldLeft(combine_children, leaf, siblings) = root

-----------------------------------------------------------------------------
(* Multi-protocol commitments, over the commitments of a batch.            *)
Leaves(commitments) == [i \in DOMAIN commitments |-> MuxLeaf(commitments[i])]

mux_root(commitments) == Root("mux", Leaves(commitments))

merkle_branch(commitments, index) == Branch("mux", Leaves(commitments), index)

verify_mux(branch, commitment, root) ==
    LET Climb(current, node) ==
            IF node.is_left THEN hash_pair(node.hash, current)
            ELSE hash_pair(current, node.hash)
    IN  FoldLeft(Climb, MuxLeaf(commitment), branch) = root

-----------------------------------------------------------------------------
(* Bitcoin, over the transactions of a block: the side of a sibling        *)
(* follows from the index.                                                 *)
Txids(block) == [i \in DOMAIN block |-> Txid(block[i])]

compute_merkle_root(block) == Root("bitcoin", Txids(block))

compute_merkle_branch(block, index) ==
    LET branch == Branch("bitcoin", Txids(block), index)
    IN  [k \in 1 .. Len(branch) |-> branch[k].hash]

RECURSIVE climb(_, _, _)
climb(current, index, branch) ==
    IF branch = <<>> THEN current
    ELSE climb(IF index % 2 = 1 THEN double_sha256(Head(branch), current)
               ELSE double_sha256(current, Head(branch)),
               index \div 2, Tail(branch))

verify_merkle_proof(t, root, index, branch) == climb(Txid(t), index, branch) = root
=============================================================================
