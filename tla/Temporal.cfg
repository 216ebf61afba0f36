CONSTANTS
    Submitters <- MCSubmitters
    TaskStages <- MCTaskStages
    MaxQueueDepth = 1
    MaxMemory = 3
    OpenThreshold = 2
    CloseThreshold = 2
    Transports <- MCTransports
    Kinds <- MCKinds
    Preferred = "nostr"
    MaxRetries = 2
    BufferSize = 2
    ChannelSize = 1
    MaxCachedProofs = 2
    MaxEvents = 3
    MaxDuplicates = 1
    Clients <- MCClients
    Ids <- MCIds
    PgClients <- MCClients
    PgIds <- MCIds
    NoTransfer = "none"
    Transfers <- MCTransfers
    Seals <- MCSeals
    SealOf <- MCSealOf
    Drivers <- MCDrivers
    OneDriver = TRUE
    MaxFaults = 2
    MaxCalls = 3
SPECIFICATION TemporalSpec
INVARIANTS
    CeilingOvershoot
    DuplicatesOnlyWhenFull
    EmittedAfterClose
PROPERTIES
    SubmitReturns
    ConsignmentArrives
    ImplementsContract
    OtherStepsImplementContract
    CompletedStepsNotRepeated
    StartedSendEnds
