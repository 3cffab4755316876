CONSTANTS
    Clients = {c1}
    Replicas = {r1, r2}
    Early = {c1, r1}
    Writes = {w1}
    Reads = {q}
    None = none
    ReplSyncCmd = replsync
    MaxCmds = 1
    MaxFaults = 0
SPECIFICATION LiveSpec
PROPERTY FaultEndsSession
INVARIANT BeyondMarker
CHECK_DEADLOCK FALSE
