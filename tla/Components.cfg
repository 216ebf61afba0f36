CONSTANTS
    Chains <- MCChains
    Callers <- MCCallers
    max_in_flight_transfers = 3
    max_in_flight_per_chain = 2
    MintCalls <- MCMintCalls
    Coordinators <- MCCoordinators
    CallerOf <- MCCallerOf
    Proofs <- MCProofs
    NoCoordinator = "none"
    LeaseTtl = 2
    MaxClock = 3
    Runtimes <- MCRuntimes
    LeasedSanads <- MCLeasedSanads
    LeaseDuration = 2
    MaxEpoch = 3
    MaxTime = 4
    Endpoints <- MCEndpoints
    ProviderOf <- MCProviderOf
    Observable <- MCObservable
    Submitter = "p1"
    MinProviders = 3
    MinAgreement = 2
    ReorgTransfers <- MCReorgTransfers
    MaxHeight = 4
    MaxBlockId = 5
    DeepReorg = 2
    NoTransition = "none"
    Transitions <- MCTransitions
    StateIds <- MCStateIds
    ConsumedBy <- MCConsumedBy
    CreatedBy <- MCCreatedBy
    CheckpointOf <- MCCheckpointOf
    FinalityDepth = 2
    AdapterDepth = 1
    MaxTip = 6
    MaxReorgs = 1
    Submitters <- MCSubmitters
    MaxTxs = 2
    MaxPolls = 2
    Enforcers <- MCEnforcers
    SealRefs <- MCSealRefs
    ObjectOf <- MCObjectOf
    MaxRegistry = 1
    MaxGrants = 2
    Processes <- MCProcesses
    Sanads <- MCCliSanads
    MaxAccepts = 2
    NoTransfer = "none"
    Transfers <- MCTransfers
    Seals <- MCSeals
    SealOf <- MCSealOf
    Drivers <- MCDrivers
    OneDriver = FALSE
    MaxFaults = 0
    MaxCalls = 2
    Executors <- MCExecutors
    ValidFrom = 1
    ExpiresAt = 2
    MaxInstant = 2
    Recorders <- MCRecorders
    JournalIds <- MCJournalIds
    Unheld = "nobody"
    max_entries = 2
    MaxRecords = 3
    MaxStops = 2
    LeafData <- MCLeafData
    NoProof = NoProof
    MaxLeaves = 6
    Requests <- MCRequests
    Finalizers <- MCFinalizers
    Commitment <- MCCommitment
    batch_size = 3
    TreeRoot <- mux_root
    TreeBranch <- merkle_branch
    TreeVerify <- verify_mux
    BlockRoot <- compute_merkle_root
    BlockBranch <- compute_merkle_branch
    BlockVerify <- verify_merkle_proof
    max_queue_depth = 3
    PageSize = 3
    MaxBlock = 8
    StateTypes <- MCStateTypes
    Owners <- MCOwners
    MaxOutputs = 2
    MaxDamage = 2
    Loops <- MCLoops
    SyncCallers <- MCSyncCallers
    Active <- MCActive
    MaxSlot = 2
    max_recovery_gap = 2
    MaxBuffered = 1
    ConfirmedAfter = 1
    MaxNodes = 3
SPECIFICATION ComponentsSpec
INVARIANTS
    CapacityAccounted
    NoSplitBrain
    LiveOwnersAgree
    DecisionIsBacked
    FinalIsBuried
    ProofIsOnChain
    OkMeansDone
    RetryRecovers
    EnforcedOnce
    AnsweredIsOnFile
    SealClosedForOneTransfer
    OutcomeIsHonest
    RecoveryReadsLatest
    KeptProofsAreSound
    BatchedOnceAndProved
    InclusionIsExact
    UseFixedAtCreation
    SyncedSlotsWereRead
    OneIdentityPerGraph
PROPERTIES
    RollbackNeverForward
    ReconciledWasLocked
    LineageKept
CHECK_DEADLOCK FALSE
