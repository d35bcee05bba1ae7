SPECIFICATION FairSpec
CONSTANTS
  NULL = NULL
  Queries <- SomeQueries
  MaxQueries = 3
  MaxChunks = 1
CHECK_DEADLOCK FALSE
INVARIANTS InStep
PROPERTIES PendingRowsSurvive StoredOnlyIfEnded CallsReturn
