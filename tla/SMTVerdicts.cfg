CONSTANTS
  Functions <- MCFunctions
  MaxDepth = 7
SPECIFICATION Spec
INVARIANTS ErrorExamplesAreErrors
