SPECIFICATION Spec
CONSTANTS
    a = a
    b = b
    NoLabel = NoLabel
    Labels <- MCLabels
    MaxStatements = 5
    AnyBody = TRUE
SYMMETRY MCSymmetry
PROPERTIES
    JumpsToEnclosing
