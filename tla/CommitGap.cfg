CONSTANTS
    Clients = {c1, c2}
    Replicas = {r1}
    Early = {c1, c2, r1}
    Writes = {w1, w2}
    Reads = {}
    None = none
    ReplSyncCmd = replsync
    MaxCmds = 2
    MaxFaults = 0
SPECIFICATION GateSpec
SYMMETRY WriteSymmetry
INVARIANT Exact
CHECK_DEADLOCK FALSE
