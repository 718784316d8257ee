CONSTANTS
  Widths <- MCWidths
  Value <- MCValue
  Width <- MCWidth
  Const <- MCConst
  Global <- MCGlobal
  Function <- MCFunction
  Programs <- MCPrograms
  MaxIterations = 10
SPECIFICATION Spec
INVARIANTS TypeOK RangesInv GlobalsCovered ReturnsCovered OnlyEntryRecorded ConvergesInTwo ImpossibleAreInfeasible PrintedExact
PROPERTIES RangesGrow RecordedStays Terminates
