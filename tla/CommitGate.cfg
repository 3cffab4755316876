CONSTANTS
    Clients = {c1, c2}
    Replicas = {r1}
    Early = {c1, c2, r1}
    Writes = {w1, w2}
    Reads = {}
    None = none
    ReplSyncCmd = replsync
    MaxCmds = 2
    MaxFaults = 1
SPECIFICATION GateSpec
SYMMETRY WriteSymmetry
INVARIANTS Committed NeverTwice
CHECK_DEADLOCK FALSE
