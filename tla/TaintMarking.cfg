CONSTANTS
  Modules <- MCModules
  TaintNames = {"sys_f", "scanf"}
SPECIFICATION Spec
INVARIANTS TypeOK DeclarationsExact RecordedCallsUsed DominanceExact
PROPERTIES SecondRoundIdle MarkingTerminates
