SPECIFICATION Spec
CONSTANTS
    Classes <- MCClasses
    Members <- MCMembers
    Arrays <- MCArrays
    ElementOf <- MCElementOf
    Calls <- MCCalls
    NaN = 99
    MaxGrowth = 2
    StackLimit = 5
INVARIANTS
    TypesClosed
    HeapMirrorsArguments
    InsideAllocations
    ResultMirrorsHeap
    FailuresExcused
