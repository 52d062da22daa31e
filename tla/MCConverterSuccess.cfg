CONSTANTS
  Resources = {r1}
  Cols <- AllCols
  Key = "key"
  EnumCol = "enum"
  Enums = {e1, e2}
  NoEnum = noEnum
  Schemas <- SomeSchemas
  Sheets <- SomeSheets
  FileOf <- SecondFile
  NumFiles = 2
  MaxEdits = 0
  NoCol = noCol
  NoSheet = noSheet
SPECIFICATION Spec
INVARIANT SuccessIsComplete
