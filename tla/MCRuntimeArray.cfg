SPECIFICATION Spec
CONSTANTS
    AddressSpace = 256
    ElementSize = 4
    DefaultCapacity = 2
    Bases <- MCBases
    Ints <- MCInts
    Items <- MCItems
    Values <- MCValues
    Default = 0
    Junk = 9
    MaxLength = 3
    Builds <- MCBoth
    AnyCall = FALSE
INVARIANTS
    IInv
    MemorySafe
    JunkUnseen
PROPERTIES
    ImplementsJsArray
