SPECIFICATION Spec
CONSTANTS
  Programs <- MCPrograms
  Starts <- MCStarts
INVARIANTS
  GeneratesValidCode
  OperandsComputed
  EvaluatesLikeJavaScript
