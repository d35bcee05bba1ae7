SPECIFICATION FairSpec
CONSTANTS
  MaxRows = 6
  Requests <- SomeRequests
  DefaultRec = 2
  MaxLength = 5
  NA = NA
INVARIANTS WritesInBounds
PROPERTIES ImplementsCursor Drains
