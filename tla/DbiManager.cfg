\* Two table sizes and one the allocator cannot provide.  A manager left
\* dangling gives its callers no defined behaviour: the model stops there.
SPECIFICATION Spec
CONSTANTS
  NULL = NULL
  MaxRes = 1
  MaxConChoices <- SomeTooLarge
  CallocLimit = 2
  MaxSessions = 3
  MaxTokens = 3
INVARIANTS
  TablesConsistent
  HandlesDenoteTheirObjects
PROPERTIES
  ClosedOnlyWhenIdle
  RefinesRegistry
CHECK_DEADLOCK FALSE
