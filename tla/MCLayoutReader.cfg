CONSTANTS
  Names <- SomeNames
  Messages = {"Part", "Row"}
  Level <- TwoLevels
  Shapes <- SomeShapes
  Files <- SomeFiles
  Main = "table"
  Homes <- TwoHomes
  MaxFields <- FewFields
SPECIFICATION Spec
INVARIANT RecordsAreStructs
CHECK_DEADLOCK FALSE
