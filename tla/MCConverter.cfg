CONSTANTS
  Resources = {r1, r2}
  Cols <- AllCols
  Key = "key"
  EnumCol = "enum"
  Enums = {e1, e2}
  NoEnum = noEnum
  Schemas <- SomeSchemas
  Sheets <- SomeSheets
  FileOf <- OneFile
  NumFiles = 1
  MaxEdits = 2
  NoCol = noCol
  NoSheet = noSheet
SPECIFICATION FirstSpec
INVARIANTS
  TypeOK
  GeneratedBinIsCurrent
  UneditedIsCurrent
  ArgumentsForListed
PROPERTY ExitDamageNeedsFailure
