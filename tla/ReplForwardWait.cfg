SPECIFICATION FwdLiveSpec
CONSTANTS
    Addrs = {a1}
    QueueMax = 1
    BufMax = 2
    FwdBacklogSize = 1
    MaxFwdWrites = 2
    MaxPeers = 1
    MaxAcks = 0
PROPERTIES BackpressureEnds
CHECK_DEADLOCK FALSE
