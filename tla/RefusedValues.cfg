CONSTANTS
  Functions <- RefusedFunctions
  MaxDepth = 7
SPECIFICATION Spec
INVARIANTS GetReturnsBitVectors
