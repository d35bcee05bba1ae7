SPECIFICATION ResultSpec
CONSTANTS
  NULL = NULL
  x = x
  y = y
  BlockSize = 8
  Align = 2
  Pointer = 1
  FirstArray = 1
  MaxInt = 3
  Results = {x, y}
  Procs = 2
  Columns = {1, 2}
  Lengths = {0, 2}
  MaxRows = 3
  MaxPieces = 4
SYMMETRY TwoVariables
INVARIANTS
  MemoryInBounds
  EventsPaired
PROPERTY
  CopiesAgree
