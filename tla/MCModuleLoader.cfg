SPECIFICATION FairSpec
CONSTANTS
    c1 = c1
    c2 = c2
    c3 = c3
    Calls <- MCCalls
    Configs <- MCConfigs
INVARIANTS
    LoadedOnce
    ReadBeforeFreed
    LeaksAreErrors
PROPERTIES
    Answered
    ImplementsEntryCalls
