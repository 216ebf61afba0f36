---------------------------- MODULE MCComponents ----------------------------
(***************************************************************************)
(* The components whose properties are about single states and steps, each *)
(* on its own instance.  They share no state; a behaviour runs one of      *)
(* them, the part it begins with, and the others stay as they began.       *)
(***************************************************************************)
EXTENDS Admission, CoordinatorLease, ExecutionLease,
        VerificationQuorum, ReorgRecovery, AcceptedState,
        TxConfirmation, ChainOperations, SealProtocol, CliState, SendTransfer,
        Mandate, ExecutionJournal, StreamingProofs, CommitmentBatch, BlockInclusion,
        StateUse, SlotSync, TransitionDag, TLC

VARIABLE part

\* Four callers over three chains: a total limit of three and two per chain both bind.
MCChains == {"eth", "sol", "sui"}
MCCallers == {"w1", "w2", "w3", "w4"}

\* Two calls of one coordinator and one of another, over one proof.
MCMintCalls == {"m1", "m2", "m3"}
MCCoordinators == {"a", "b"}
MCCallerOf == [m \in MCMintCalls |-> IF m = "m3" THEN "b" ELSE "a"]
MCProofs == {"proof"}

MCRuntimes == {"r1", "r2"}
MCLeasedSanads == {"sanad"}

\* Five endpoints of four providers, two of them the submitter's own.
MCEndpoints == {"e1", "e2", "e3", "e4", "e5"}
MCProviderOf == "e1" :> "p1" @@ "e2" :> "p1" @@ "e3" :> "p2" @@ "e4" :> "p3" @@ "e5" :> "p4"
MCObservable == {"y", "n"}

MCReorgTransfers == {"t"}

\* A chain of transitions a, b, c, d, each consuming an output of the one before,
\* and a rival of b.  a and the rival rest on one checkpoint, b and d on another.
MCTransitions == {"a", "b", "rival", "c", "d"}
MCStateIds == {"s1", "s2", "s3", "s4"}
MCConsumedBy == "a" :> "s1" @@ "b" :> "s2" @@ "rival" :> "s2" @@ "c" :> "s3" @@ "d" :> "s4"
MCCreatedBy == "s1" :> NoTransition @@ "s2" :> "a" @@ "s3" :> "b" @@ "s4" :> "c"
MCCheckpointOf == "a" :> "k1" @@ "b" :> "k2" @@ "rival" :> "k1" @@ "c" :> "k3" @@ "d" :> "k2"

MCSubmitters == {"w1", "w2"}

\* Two calls over two references and a registry that holds one; where there is a
\* nonce, the references name one output or object under two nonces.
MCEnforcers == {"e1", "e2"}
MCSealRefs == {"x1", "x2"}
MCObjectOf == [s \in MCSealRefs |-> "o"]

\* Two processes of the command line and one sanad.
MCProcesses == {"p1", "p2"}
MCCliSanads == {"sanad"}

\* Two sends compete for one seal, and two tasks may drive the same send.
MCTransfers == {"t1", "t2"}
MCSeals == {"s1"}
MCSealOf == [t \in MCTransfers |-> "s1"]
MCDrivers == {"k1", "k2"}

MCExecutors == {"x1", "x2"}

\* Two tasks record the progress of two transfers in one journal.
MCRecorders == {"w1", "w2"}
MCJournalIds == {"t1", "t2"}

\* Four requests, two with the same commitment: batches of one to three, one left waiting.
MCRequests == {"q1", "q2", "q3", "q4"}
MCFinalizers == {"f1", "f2"}
MCCommitment == "q1" :> "a" @@ "q2" :> "a" @@ "q3" :> "b" @@ "q4" :> "c"
MCLeafData == {"a", "b"}

\* An output that authorizes its owner, and one that authorizes nobody.
MCStateTypes == {"token", "note"}
MCOwners == {"owner"}

\* Two loops beside a caller that forces the sync forward; both slots have a CSV
\* instruction, and the buffer holds one observation.
MCLoops == {"l1", "l2"}
MCSyncCallers == {"c1"}
MCActive == {1, 2}

Parts ==
    {"admission", "lease", "execution", "quorum",
     "reorg", "accepted", "confirmation", "operations", "seal", "cli", "send",
     "mandate", "journal", "streaming", "batch", "inclusion", "use",
     "slots", "dag"}

Runs(p) == part = p /\ part' = part

(* The variables of every component but p's own.                           *)
Rest(p) ==
    /\ IF p = "admission" THEN TRUE ELSE UNCHANGED admissionVars
    /\ IF p = "lease" THEN TRUE ELSE UNCHANGED leaseVars
    /\ IF p = "execution" THEN TRUE ELSE UNCHANGED executionVars
    /\ IF p = "quorum" THEN TRUE ELSE UNCHANGED quorumVars
    /\ IF p = "reorg" THEN TRUE ELSE UNCHANGED reorgVars
    /\ IF p = "accepted" THEN TRUE ELSE UNCHANGED acceptedVars
    /\ IF p = "confirmation" THEN TRUE ELSE UNCHANGED confirmationVars
    /\ IF p = "operations" THEN TRUE ELSE UNCHANGED operationVars
    /\ IF p = "seal" THEN TRUE ELSE UNCHANGED sealVars
    /\ IF p = "cli" THEN TRUE ELSE UNCHANGED cliVars
    /\ IF p = "send" THEN TRUE ELSE UNCHANGED vars
    /\ IF p = "mandate" THEN TRUE ELSE UNCHANGED mandateVars
    /\ IF p = "journal" THEN TRUE ELSE UNCHANGED journalVars
    /\ IF p = "streaming" THEN TRUE ELSE UNCHANGED streamingVars
    /\ IF p = "batch" THEN TRUE ELSE UNCHANGED batchVars
    /\ IF p = "inclusion" THEN TRUE ELSE UNCHANGED inclusionVars
    /\ IF p = "use" THEN TRUE ELSE UNCHANGED stateUseVars
    /\ IF p = "slots" THEN TRUE ELSE UNCHANGED syncVars
    /\ IF p = "dag" THEN TRUE ELSE UNCHANGED dagVars

(* A part that does not run begins in one of its initial states.           *)
ComponentsInit ==
    /\ part \in Parts
    /\ AdmissionInit
    /\ LeaseInit
    /\ ExecutionInit
    /\ QuorumInit
    /\ ReorgInit
    /\ AcceptedInit
    /\ ConfirmationInit
    /\ OperationsInit
    /\ SealInit
    /\ CliInit
    /\ Init
    /\ MandateInit
    /\ JournalInit
    /\ StreamingInit
    /\ BatchInit
    /\ InclusionInit
    /\ StateUseInit
    /\ SlotSyncInit
    /\ DagInit
    /\ part # "confirmation" => network = "bitcoin"
    /\ part # "operations" => adapter = "sui" /\ operation = "lock"
    /\ part # "seal" => platform = "sui"
    /\ part # "mandate" => release_policy = "Never"
    /\ part # "journal" => backing = "redb"
    /\ part # "inclusion" => tx_count = 1 /\ wanted = 1 /\ reported

ComponentsNext ==
    \/ Runs("admission") /\ AdmissionNext /\ Rest("admission")
    \/ Runs("lease") /\ LeaseNext /\ Rest("lease")
    \/ Runs("execution") /\ ExecutionNext /\ Rest("execution")
    \/ Runs("quorum") /\ QuorumNext /\ Rest("quorum")
    \/ Runs("reorg") /\ ReorgNext /\ Rest("reorg")
    \/ Runs("accepted") /\ AcceptedNext /\ Rest("accepted")
    \/ Runs("confirmation") /\ ConfirmationNext /\ Rest("confirmation")
    \/ Runs("operations") /\ OperationsNext /\ Rest("operations")
    \/ Runs("seal") /\ SealNext /\ Rest("seal")
    \/ Runs("cli") /\ CliNext /\ Rest("cli")
    \/ Runs("send") /\ Next /\ Rest("send")
    \/ Runs("mandate") /\ MandateNext /\ Rest("mandate")
    \/ Runs("journal") /\ JournalNext /\ Rest("journal")
    \/ Runs("streaming") /\ StreamingNext /\ Rest("streaming")
    \/ Runs("batch") /\ BatchNext /\ Rest("batch")
    \/ Runs("inclusion") /\ InclusionNext /\ Rest("inclusion")
    \/ Runs("use") /\ StateUseNext /\ Rest("use")
    \/ Runs("slots") /\ SlotSyncNext /\ Rest("slots")
    \/ Runs("dag") /\ DagNext /\ Rest("dag")

ComponentsSpec ==
    ComponentsInit /\ [][ComponentsNext]_<<part, admissionVars,
        leaseVars, executionVars, quorumVars, reorgVars, acceptedVars,
        confirmationVars, operationVars, sealVars, cliVars, vars, mandateVars, journalVars,
        streamingVars, batchVars, inclusionVars, stateUseVars,
        syncVars, dagVars>>
=============================================================================
