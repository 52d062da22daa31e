CONSTANTS
  Names <- SomeNames
  Messages = {"Part", "Row"}
  Level <- TwoLevels
  Shapes <- SomeShapes
  Files <- SomeFiles
  Main = "table"
  Homes <- TwoHomes
  MaxFields <- FewFields
SPECIFICATION Spec
INVARIANTS
  TypeOK
  LookupAgrees
  RecordFitsStruct
  GapsAreClashes
  SameSheet
  MetaMatchesRecord
  SortedRecordsAreStructs
CHECK_DEADLOCK FALSE
