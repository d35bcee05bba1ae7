SPECIFICATION Spec
CONSTANTS
  MaxRows = 11
  MaxCols = 2
  FrameCells = 6
  Lengths <- SomeLengths
  RawTexts <- SomeRawTexts
  Threshold = 4
  DefaultSize = 3
CHECK_DEADLOCK FALSE
INVARIANTS BuffersInBounds SentWholeInOrder
