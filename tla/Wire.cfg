SPECIFICATION FairSpec
CONSTANTS
  Chunk = 2
  MinRoom = 1
  InitialSize = 3
  MaxMem = 7
  Header = 1
  PipeSize = 2
  Bodies = {1, 3}
  MaxOut = 7
  Ends = {2, 7}
  Talk = 3
CHECK_DEADLOCK FALSE
INVARIANTS WithinBuffers BytesIntact
PROPERTIES SendReturns
