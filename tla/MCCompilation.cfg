SPECIFICATION Spec
CONSTANTS
  outer = outer
  inner = inner
  imported = imported
  Functions <- MCFunctions
  Declarations <- MCDeclarations
  FileOf <- MCFileOf
  Enclosing <- MCEnclosing
  MaxReferences = 1
  Files = {1, 2}
  OptionSets <- MCOptionSets
  Archives = 1
  Requests <- MCRequests
INVARIANTS FlagAgrees ChainFits EmittedReferencesResolve OutputsComplete
PROPERTIES DirectoriesRemovedEmpty
