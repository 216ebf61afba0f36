CONSTANTS
    t1 = t1
    t2 = t2
    s1 = s1
    k1 = k1
    k2 = k2
    c1 = c1
    c2 = c2
    NoTransfer = NoTransfer
    NoSanad = NoSanad
    Transfers <- Rivals
    Sanads <- OneSanad
    SanadOf <- RivalSanads
    Tasks <- TwoCallers
    Clerks <- TwoClerks
    Backend = "redb"
    FreshIds = FALSE
    OneTask = FALSE
    MaxFaults = 1
    MaxVersion = 7
    MaxRetries = 0
    FailureThreshold = 2
    SuccessThreshold = 2
    MaxFailures = 2
SPECIFICATION CallsSpec
SYMMETRY Symmetry
INVARIANTS
    OneExecutionPerSlot
    CountDecides
    ReleasedOnlyMinted
    RecordsMatchEscrow
CHECK_DEADLOCK FALSE
