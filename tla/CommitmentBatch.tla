-------------------------- MODULE CommitmentBatch --------------------------
(***************************************************************************)
(* MpcBatcher and BitcoinBackend::finalize_batch: requests queue their     *)
(* commitments, and whoever finalizes takes up to batch_size of them out   *)
(* of the queue, publishes the root of their tree in one transaction and   *)
(* answers with a proof for each.  The queue is behind a lock; between     *)
(* taking a batch and answering, a finalizer waits for the node.           *)
(***************************************************************************)
EXTENDS Naturals, Sequences

CONSTANTS Requests,         \* request ids; a caller that tries again takes a new one
          Finalizers,       \* tasks inside finalize_batch
          Commitment,       \* the commitment of a request
          batch_size,
          max_queue_depth,
          TreeRoot(_),         \* CommitMux: the root over a list of commitments,
          TreeBranch(_, _),    \* the branch of the leaf at an index, from 0, and
          TreeVerify(_, _, _)  \* whether a branch leads from a commitment to a root

ASSUME BatchAssumption == batch_size \in Nat \ {0, 1} /\ max_queue_depth \in Nat \ {0}

(* The branch of a leaf leads from the commitment of that leaf to the      *)
(* root, and from no other.                                                *)
ASSUME CommitMuxAssumption ==
    \A n \in 1 .. batch_size :
        \A leaves \in [1 .. n -> {Commitment[r] : r \in Requests}] :
            \A i \in 1 .. n, r \in Requests :
                TreeVerify(TreeBranch(leaves, i - 1), Commitment[r], TreeRoot(leaves))
                    <=> Commitment[r] = leaves[i]

VARIABLES pending,      \* the queue of requests
          finalizer,    \* what each finalizer holds, and how far it is
          roots,        \* roots a transaction of which the node accepted
          receipts,     \* proofs handed out: request -> [branch, root]
          queued,       \* requests told Ok by the queue
          waiting,      \* those of them not answered yet
          unproved      \* a published batch was refused its proofs

batchVars == <<pending, finalizer, roots, receipts, queued, waiting, unproved>>

IdleFinalizer == [at |-> "idle", batch |-> <<>>]

Members(requests) == {requests[i] : i \in DOMAIN requests}

Commitments(requests) == [i \in DOMAIN requests |-> Commitment[requests[i]]]

BatchInit ==
    /\ pending = <<>>
    /\ finalizer = [f \in Finalizers |-> IdleFinalizer]
    /\ roots = {}
    /\ receipts = <<>>
    /\ queued = {} /\ waiting = {}
    /\ unproved = FALSE

(* A full queue answers with an error and keeps the queue.                 *)
queue_commitment(r) ==
    /\ r \notin queued
    /\ Len(pending) < max_queue_depth
    /\ pending' = Append(pending, r)
    /\ queued' = queued \cup {r}
    /\ waiting' = waiting \cup {r}
    /\ UNCHANGED <<finalizer, roots, receipts, unproved>>

\* The batch is read and left in the queue until it is published.
PeeksTheBatch(f) ==
    LET taken == IF batch_size < Len(pending) THEN batch_size ELSE Len(pending)
    IN  /\ finalizer[f] = IdleFinalizer /\ pending # <<>>
        /\ finalizer' = [finalizer EXCEPT ![f] =
                            [at |-> "built", batch |-> SubSeq(pending, 1, taken)]]
        /\ UNCHANGED <<pending, roots, receipts, queued, waiting, unproved>>

build_mpc_tree(f) ==
    LET taken == IF batch_size < Len(pending) THEN batch_size ELSE Len(pending)
    IN  /\ finalizer[f] = IdleFinalizer /\ pending # <<>>
        /\ finalizer' = [finalizer EXCEPT ![f] =
                            [at |-> "built", batch |-> SubSeq(pending, 1, taken)]]
        /\ pending' = SubSeq(pending, taken + 1, Len(pending))
        /\ UNCHANGED <<roots, receipts, queued, waiting, unproved>>

(* finalize_batch returns an error: what it took is not put back.          *)
Fails(f) ==
    /\ finalizer' = [finalizer EXCEPT ![f] = IdleFinalizer]
    /\ waiting' = waiting \ Members(finalizer[f].batch)
    /\ UNCHANGED <<pending, receipts, queued>>

(* No output to fund the transaction, or the node refuses it, or takes it  *)
(* and its answer is lost: the root is then published and nobody is told.  *)
publication_fails(f) ==
    /\ finalizer[f].at = "built"
    /\ Fails(f)
    /\ roots' \in {roots, roots \cup {TreeRoot(Commitments(finalizer[f].batch))}}
    /\ UNCHANGED unproved

\* CommitMux::prove looks a leaf up by its protocol: the first one.
FirstOfProtocol(batch, i) ==
    [branch |-> TreeBranch(Commitments(batch), 0), root |-> TreeRoot(Commitments(batch))]

ProofAt(batch, i) ==
    [branch |-> TreeBranch(Commitments(batch), i - 1), root |-> TreeRoot(Commitments(batch))]

(* Every proof is verified before the next one is made.                    *)
generate_proofs(batch) ==
    \A i \in DOMAIN batch :
        TreeVerify(ProofAt(batch, i).branch, Commitment[batch[i]], ProofAt(batch, i).root)

broadcast_mpc_transaction(f) ==
    /\ finalizer[f].at = "built"
    /\ roots' = roots \cup {TreeRoot(Commitments(finalizer[f].batch))}
    /\ \/ /\ generate_proofs(finalizer[f].batch)
          /\ finalizer' = [finalizer EXCEPT ![f].at = "proved"]
          /\ UNCHANGED <<pending, receipts, queued, waiting, unproved>>
       \/ /\ ~generate_proofs(finalizer[f].batch)
          /\ Fails(f)
          /\ unproved' = TRUE

(* The height of the record: without it the proofs are lost.               *)
get_latest_block_height(f) ==
    /\ finalizer[f].at = "proved"
    /\ LET batch == finalizer[f].batch
           place(r) == CHOOSE i \in DOMAIN batch : batch[i] = r
       IN  \/ /\ receipts' = [r \in DOMAIN receipts \cup Members(batch) |->
                                IF r \in Members(batch) THEN ProofAt(batch, place(r))
                                ELSE receipts[r]]
              /\ finalizer' = [finalizer EXCEPT ![f] = IdleFinalizer]
              /\ waiting' = waiting \ Members(batch)
              /\ UNCHANGED <<pending, queued>>
           \/ Fails(f)
    /\ UNCHANGED <<roots, unproved>>

clear ==
    /\ pending # <<>>
    /\ pending' = <<>>
    /\ waiting' = waiting \ Members(pending)
    /\ UNCHANGED <<finalizer, roots, receipts, queued, unproved>>

BatchNext ==
    \/ \E r \in Requests : queue_commitment(r)
    \/ \E f \in Finalizers :
          build_mpc_tree(f) \/ publication_fails(f)
            \/ broadcast_mpc_transaction(f) \/ get_latest_block_height(f)
    \/ clear

BatchSpec == BatchInit /\ [][BatchNext]_batchVars

(* Where a request is: its places in the queue and in the batches.         *)
Places(r) ==
    {<<"queue", i>> : i \in {i \in DOMAIN pending : pending[i] = r}}
        \cup UNION {{<<f, i>> : i \in {i \in DOMAIN finalizer[f].batch : finalizer[f].batch[i] = r}} :
                       f \in Finalizers}

(* A request the queue accepted and nobody answered yet is in the queue or *)
(* with one finalizer, once: two finalizers that run at the same time      *)
(* never publish one commitment in two batches.  A proof handed to a       *)
(* request shows the commitment of that request, and no other, under a     *)
(* root that was published; and no batch that was published fails the      *)
(* check its proofs are put to.                                            *)
BatchedOnceAndProved ==
    /\ \A r \in Requests :
        IF r \in waiting THEN \E p \in Places(r) : Places(r) = {p} ELSE Places(r) = {}
    /\ ~unproved
    /\ \A r \in DOMAIN receipts :
        /\ receipts[r].root \in roots
        /\ \A s \in Requests :
            TreeVerify(receipts[r].branch, Commitment[s], receipts[r].root)
                <=> Commitment[s] = Commitment[r]
=============================================================================
