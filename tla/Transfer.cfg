CONSTANTS
    t1 = t1
    t2 = t2
    s1 = s1
    k1 = k1
    NoTransfer = NoTransfer
    Transfers <- Rivals
    Sanads <- OneSanad
    SanadOf <- RivalSanads
    Tasks <- OneCaller
    Backend = "redb"
    FreshIds = TRUE
    OneTask = TRUE
    MaxFaults = 3
    MaxVersion = 6
    MaxRetries = 1
    FailureThreshold = 2
    SuccessThreshold = 1
    MaxFailures = 2
SPECIFICATION FairSpec
INVARIANTS
    MintJustified
    PendingResumable
    ResumeNeverLocks
PROPERTIES
    CompletedIsFinal
    InterruptedTransferSettles
CHECK_DEADLOCK FALSE
