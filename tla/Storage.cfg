SPECIFICATION StorageSpec
CONSTANTS
    v1 = v1
    v2 = v2
    Values = {v1, v2}
    Absent = Absent
    Lost = Lost
    Gone = Gone
    Keys <- StorageKeys
    Inputs <- StorageInputs
    Seeds <- StorageSeeds
    Starved = {1}
    InitSize = 1
    LoadFactor = 1
    Sparse = 2
    StepBuckets = 1
    MaxLevel = 2
    ArraySize = 2
    FreeCap = 1
    TtlKeys = {1, 2}
    HeapKeys = {1, 2, 3, 4, 5, 6}
    Deadlines = {1, 2}
    Commands <- StorageCommands
    Writes <- StorageWrites
    TicksPerSecond = 2
    Budget = 1
    MaxTime = 4
    MaxWrites = 3
    MaxLag = 1
    ClassSizes = {2}
    PageChunks = 2
    MaxPages = 3
    MaxAlone = 1
    Requests = {2, 3}
    DocKeys = {1, 2, 3}
    PlainWords = {v1, v2}
    DocInputs <- StorageDocInputs
    DocHash <- StorageDocHash
    DocBuckets = 1
    FieldBuckets = 2
    MaxDocBuckets = 2
    MaxDocWrites = 5
    MaxDocLag = 1
INVARIANTS
    StructuresSound
    
    
    
PROPERTIES
    EnginesImplementMap
    KeyspaceImplementsMap
CHECK_DEADLOCK FALSE
