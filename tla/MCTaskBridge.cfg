CONSTANTS
  MaxCalls = 2
  MaxReloads = 1
  MaxLines = 1
  PageMethods <- KindsOfMethod
SPECIFICATION FairSpec
INVARIANTS
  TypeOK
  LogAttribution
  LinesDeliveredOnce
  NoLineLost
  IdleIsClean
  OrphansHaveCause
  AnswersMatch
  TasksHaveMembers
PROPERTIES
  ServesInOrder
  EveryCallAnswered
  ExitCompletes
