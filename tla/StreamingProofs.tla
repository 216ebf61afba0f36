-------------------------- MODULE StreamingProofs --------------------------
(***************************************************************************)
(* StreamingMerkleProofGenerator: leaves arrive one at a time, a proof may *)
(* be taken when its leaf is added and goes stale with the next one, and   *)
(* build_proofs takes all of them again.                                   *)
(***************************************************************************)
EXTENDS MerkleTrees

CONSTANTS LeafData,     \* the data a leaf may hold
          NoProof,      \* an entry of proofs that is None
          MaxLeaves     \* bound: leaves added

ASSUME StreamingAssumption == MaxLeaves \in Nat

VARIABLES leaves,       \* builder.leaves: the hashes of the leaves
          proofs,       \* the proofs kept, shorter than leaves or as long
          proved_at     \* of each proof, the number of leaves it was taken at

streamingVars == <<leaves, proofs, proved_at>>

StreamingInit == leaves = <<>> /\ proofs = <<>> /\ proved_at = <<>>

add_leaf(data) ==
    /\ Len(leaves) < MaxLeaves
    /\ leaves' = Append(leaves, hash_leaf(data))
    /\ UNCHANGED <<proofs, proved_at>>

(* The vector of proofs is padded with None up to the new leaf.            *)
add_and_prove(data) ==
    /\ Len(leaves) < MaxLeaves
    /\ leaves' = Append(leaves, hash_leaf(data))
    /\ proofs' = [i \in 1 .. Len(leaves') |->
                    IF i = Len(leaves') THEN proof(leaves', Len(leaves))
                    ELSE IF i <= Len(proofs) THEN proofs[i] ELSE NoProof]
    /\ proved_at' = [i \in 1 .. Len(leaves') |->
                        IF i = Len(leaves') THEN i
                        ELSE IF i <= Len(proofs) THEN proved_at[i] ELSE 0]

build_proofs ==
    /\ leaves # <<>>
    /\ proofs' = [i \in 1 .. Len(leaves) |-> proof(leaves, i - 1)]
    /\ proved_at' = [i \in 1 .. Len(leaves) |-> Len(leaves)]
    /\ UNCHANGED leaves

StreamingNext ==
    \/ \E data \in LeafData : add_leaf(data) \/ add_and_prove(data)
    \/ build_proofs

StreamingSpec == StreamingInit /\ [][StreamingNext]_streamingVars

(* A proof the generator keeps shows its own leaf, and no other, in the    *)
(* tree it was taken from; against the root of the tree as it is now, a    *)
(* proof that went stale may still pass, for its leaf or for another one,  *)
(* but only ever for a leaf of the tree.                                   *)
KeptProofsAreSound ==
    \A i \in 1 .. Len(proofs) :
        proofs[i] # NoProof =>
            LET root == merkle_root(leaves)
                root_then == merkle_root(SubSeq(leaves, 1, proved_at[i]))
            IN  \A data \in LeafData :
                    /\ verify(proofs[i], hash_leaf(data), root_then)
                            <=> hash_leaf(data) = leaves[i]
                    /\ verify(proofs[i], hash_leaf(data), root)
                            => hash_leaf(data) \in ToSet(leaves)
=============================================================================
