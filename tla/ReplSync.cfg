SPECIFICATION Spec
CONSTANTS
    Keys = {k1}
    BacklogSize = 2
    OutRing = 1
    MaxConns = 2
    MaxWrites = 3
    MaxUnread = 0
    MaxFaults = 1
INVARIANTS
    ReplicaConsistent
    BacklogExact
    NoReplicaNoCapture
PROPERTIES
    InOrder
CHECK_DEADLOCK FALSE
