CONSTANTS
  Names <- SomeNames
  Messages = {"Part", "Row"}
  Level <- TwoLevels
  Files <- OneFile
  Main = "table"
  Resource = "Row"
  Drafts <- SomeDrafts
  Rows <- SomeRows
  SheetLengths = {0, 2}
  BufferSize = 40
  MaxEdits = 1
  ByteBits = 2
  EnumNumbers <- Numbers
  BlockSize = 16
  LengthSize = 2
SPECIFICATION Spec
CHECK_DEADLOCK FALSE
INVARIANT AnswerTellsLoaded
