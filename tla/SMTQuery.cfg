CONSTANTS
  Functions <- MCFunctions
  MaxDepth = 7
SPECIFICATION Spec
INVARIANTS TypeOK WalkInv RecursionBounded TranslationExact
PROPERTIES ImplementsAbs AllAnswered
