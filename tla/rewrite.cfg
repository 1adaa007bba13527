SPECIFICATION Spec
CONSTANTS
  QTypes = {"A", "AAAA", "SVCB", "OTHER"}
  Types <- SomeTypes
  Params <- SomeParams
  Extras = {"A", "TXT"}
  MaxRecords = 3
  MaxCells = 18
CHECK_DEADLOCK FALSE
INVARIANTS TypeOK NamesKept StaysFramed OnlyHintsGo CutAtAnotherType WholeIsPassedOn NothingUnjudged
