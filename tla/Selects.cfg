CONSTANTS
  Widths <- MCWidths
  Value <- MCValue
  Width <- MCWidth
  Const <- MCConst
  Global <- MCGlobal
  Function <- MCFunction
  Programs <- SelectPrograms
  MaxIterations = 10
SPECIFICATION Spec
INVARIANTS SelectsComputed
