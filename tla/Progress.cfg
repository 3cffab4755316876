SPECIFICATION ProgressSpec
CONSTANTS
    s1 = s1
    s2 = s2
    s3 = s3
    m = m
    Known <- FourNodes
    Master = m
    NoOne = none
    MaxCrashes = 3
    MaxLosses = 3
    NChunks = 2
    OutRing = 1
    SendSlots = 1
    MaxSyncs = 3
INVARIANTS
    MonitoredIsMaster
    SlavesFollow
    CleanLoad
    TransferBound
PROPERTIES
    FailoverCompletes
    WaitsEnd
