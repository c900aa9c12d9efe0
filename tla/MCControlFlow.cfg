SPECIFICATION Spec
CONSTANTS
    a = a
    b = b
    NoLabel = NoLabel
    Labels <- MCLabels
    MaxStatements = 5
    AnyBody = FALSE
SYMMETRY MCSymmetry
INVARIANTS
    WellFormed
    ReachabilityAgrees
PROPERTIES
    AssertionsHold
    JumpsToEnclosing
