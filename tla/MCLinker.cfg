SPECIFICATION FairSpec
CONSTANTS
    ObjectFiles <- MCFiles
    Symbols <- MCSymbols
    EntrySymbols <- MCEntry
    SymbolTables <- MCTables
INVARIANTS
    IInv
    LinkComplete
PROPERTIES
    Terminates
    ImplementsClosure
CHECK_DEADLOCK FALSE
