SPECIFICATION FairSpec
CONSTANTS
    SignBit = 64
    PageSize = 4
    Quantum = 4
    PtrSize = 1
    GlobalBase = 2
    StaticBump = 4
    TotalStack = 4
    InitialMemory = 16
    Increments <- MCIncrements
    FrameSizes <- MCFrameSizes
    Garbage <- MCGarbage
    MaxFrames = 2
INVARIANTS
    BreakIntact
    HeapIsBacked
PROPERTIES
    GrantCoversRequest
    GrowthEnds
