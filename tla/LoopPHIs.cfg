CONSTANTS
  Widths <- MCWidths
  Value <- MCValue
  Width <- MCWidth
  Const <- MCConst
  Global <- MCGlobal
  Function <- MCFunction
  Programs <- LoopPrograms
  MaxIterations = 10
SPECIFICATION Spec
INVARIANTS PHIsCoverIncoming
