--------------------------- MODULE BlockInclusion ---------------------------
(***************************************************************************)
(* The inclusion proof of a transaction through a Blockbook server: the    *)
(* transactions of a block are read page by page, and the branch of one of *)
(* them is computed over the list.  A transaction is the number of its     *)
(* place in the block, which names no transaction twice.                   *)
(***************************************************************************)
EXTENDS Naturals, Sequences

CONSTANTS PageSize,     \* transactions in a page of the server
          MaxBlock,     \* bound: transactions in a block
          BlockRoot(_),            \* the Merkle root of a list of transactions
          BlockBranch(_, _),       \* the branch of the one at an index, from 0
          BlockVerify(_, _, _, _)  \* whether it leads from a transaction to a root

ASSUME InclusionAssumption == PageSize \in Nat \ {0} /\ MaxBlock \in Nat \ {0}

(* The branch of a place leads from the transaction at that place to the   *)
(* root of the block, and from no other.                                   *)
ASSUME BlockTreeAssumption ==
    \A n \in 1 .. MaxBlock : \A i \in 1 .. n : \A t \in 1 .. MaxBlock :
        LET block == [k \in 1 .. n |-> k]
        IN  BlockVerify(t, BlockRoot(block), i - 1, BlockBranch(block, i - 1)) <=> t = i

VARIABLES tx_count,     \* transactions of the block
          wanted,       \* the one asked for, in the block or not
          page,         \* pages read
          all_txids,    \* the list read so far
          reported,     \* whether the server says how many pages there are
          inclusion     \* the answer

inclusionVars == <<tx_count, wanted, page, all_txids, reported, inclusion>>

BlockAnswer(found, index, branch) == [found |-> found, index |-> index, branch |-> branch]

Block == [i \in 1 .. tx_count |-> i]

(* The pages of the server: it may leave their number out of its answer,   *)
(* and does so only where there is one.                                    *)
ServerPages == (tx_count + PageSize - 1) \div PageSize

InclusionInit ==
    /\ tx_count \in 1 .. MaxBlock
    /\ wanted \in 1 .. MaxBlock
    /\ reported \in BOOLEAN /\ (reported \/ ServerPages = 1)
    /\ page = 0
    /\ all_txids = <<>>
    /\ inclusion = BlockAnswer("reading", 0, <<>>)

\* The loop over the pages ends one page early.
AllButTheLastPage ==
    IF reported /\ ServerPages > 1 THEN ServerPages - 1 ELSE 1

total_pages == IF reported THEN ServerPages ELSE 1

(* Where the next page ends: the last one may be short.                    *)
EndOfPage == IF (page + 1) * PageSize < tx_count THEN (page + 1) * PageSize ELSE tx_count

(* A page of the block, its ids turned from display to internal order; an  *)
(* error of the server ends the call.                                      *)
fetch_block_page ==
    /\ inclusion.found = "reading" /\ page < total_pages
    /\ \/ /\ page' = page + 1
          /\ all_txids' = all_txids \o SubSeq(Block, page * PageSize + 1, EndOfPage)
          /\ UNCHANGED inclusion
       \/ /\ inclusion' = BlockAnswer("error", 0, <<>>)
          /\ UNCHANGED <<page, all_txids>>
    /\ UNCHANGED <<tx_count, wanted, reported>>

FoundAt == {i \in DOMAIN all_txids : all_txids[i] = wanted}

(* The index of the first id that is the one asked for.                    *)
extract_merkle_proof_from_block ==
    /\ inclusion.found = "reading" /\ page = total_pages
    /\ inclusion' =
          IF FoundAt = {} THEN BlockAnswer("no", 0, <<>>)
          ELSE LET index == (CHOOSE i \in FoundAt : \A j \in FoundAt : i <= j) - 1
               IN  BlockAnswer("yes", index, BlockBranch(all_txids, index))
    /\ UNCHANGED <<tx_count, wanted, page, all_txids, reported>>

InclusionNext == fetch_block_page \/ extract_merkle_proof_from_block

InclusionSpec == InclusionInit /\ [][InclusionNext]_inclusionVars

(* The proof that is answered shows the transaction asked for, and no      *)
(* other, under the Merkle root in the header of the block; "not found" is *)
(* answered only for a transaction that is not in the block.               *)
InclusionIsExact ==
    /\ inclusion.found = "no" => wanted > tx_count
    /\ inclusion.found = "yes" =>
        \A t \in 1 .. MaxBlock :
            BlockVerify(t, BlockRoot(Block), inclusion.index, inclusion.branch) <=> t = wanted
=============================================================================
