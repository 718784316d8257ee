CONSTANTS
  Functions <- MCFunctions
  BitWidths = {1, 2, 3, 4}
SPECIFICATION Spec
INVARIANTS TypeOK ChecksIffObservable ObservabilityKept WorklistInv ConditionsExact
PROPERTIES VisitorReturns
