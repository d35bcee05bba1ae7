SPECIFICATION FairSpec
CONSTANTS
  NULL = NULL
  Programs <- MCPrograms
  LineBuf = 2
  MaxFailures = 1
  MaxAsync = 1
INVARIANTS
  RightAnswers
  EachAnsweredOnce
  CopyDataWhole
PROPERTY
  QueriesEnd
CHECK_DEADLOCK FALSE
