SPECIFICATION TextSpec
CONSTANTS
  NA = NA
  Chars <- SomeChars
  MaxLen = 2
  MaxCells = 2
CHECK_DEADLOCK FALSE
INVARIANTS ServerReadsTheFrame
