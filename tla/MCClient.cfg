CONSTANTS
  MaxClicks = 2
  MaxEdits = 1
  Lists <- SomeLists
SPECIFICATION FairSpec
INVARIANTS
  TypeOK
  ChainKeepsKind
  FullMeansDone
  PageAgrees
PROPERTY ConversionsEnd
