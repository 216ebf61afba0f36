CONSTANTS
    t1 = t1
    t2 = t2
    s1 = s1
    k1 = k1
    c1 = c1
    NoTransfer = NoTransfer
    NoSanad = NoSanad
    Transfers <- Rivals
    Sanads <- OneSanad
    SanadOf <- RivalSanads
    Tasks <- OneCaller
    Clerks <- OneClerk
    Backend = "redb"
    FreshIds = TRUE
    OneTask = TRUE
    MaxFaults = 0
    MaxVersion = 7
    MaxRetries = 0
    FailureThreshold = 2
    SuccessThreshold = 1
    MaxFailures = 2
SPECIFICATION SettlementSpec
PROPERTY
    ConfirmedNeverRefunded
CHECK_DEADLOCK FALSE
