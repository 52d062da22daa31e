CONSTANTS
  Resources = {r1}
  Cols <- AllCols
  Key = "key"
  EnumCol = "enum"
  Enums = {e1, e2}
  NoEnum = noEnum
  Schemas <- SomeSchemas
  Sheets <- SomeSheets
  FileOf <- OneFile
  NumFiles = 1
  MaxEdits = 1
  NoCol = noCol
  NoSheet = noSheet
SPECIFICATION Spec
INVARIANT TotalSizeMatches
