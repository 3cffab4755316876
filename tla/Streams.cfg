SPECIFICATION StreamsSpec
CONSTANTS
    Addrs = {a1, a2}
    QueueMax = 2
    BufMax = 2
    FwdBacklogSize = 2
    MaxFwdWrites = 3
    MaxPeers = 2
    MaxAcks = 1
    ProxyQueueMax = 3
    BatchMax = 1
    HighMark = 2
    LowMark = 2
    CacheMax = 2
    MaxSessions = 2
    MaxWork = 5
    MaxBreaks = 1
    WriteSlots = 2
    RingSlots = 3
    MaxEvents = 5
    SnapKeys = {k1, k2}
    SnapDeleted = {k1}
    MaxSnapCmds = 3
    MaxSnapWork = 4
    BigDump = TRUE
SYMMETRY AddrSymmetry
INVARIANTS
    StreamIntact
    ForwardOnce
    NoDangling
    Accounting
    ProxyOrder
    LossReported
    PressureHasCause
    RingDelivers
    

    
CHECK_DEADLOCK FALSE
