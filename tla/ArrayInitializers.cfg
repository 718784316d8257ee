CONSTANTS
  Widths <- MCWidths
  Value <- MCValue
  Width <- MCWidth
  Const <- MCConst
  Global <- MCGlobal
  Function <- MCFunction
  Programs <- ArrayPrograms
  MaxIterations = 10
SPECIFICATION Spec
INVARIANTS InitializersCovered
