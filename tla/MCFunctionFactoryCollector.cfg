SPECIFICATION Spec
CONSTANTS
  main = main
  other = other
  helper = helper
  twin = twin
  pow = pow
  array = array
  Functions <- MCFunctions
  Programs <- MCSources
  ArrayConstructor = array
INVARIANTS CollectorWhenAllocating
