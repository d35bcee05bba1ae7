SPECIFICATION Spec
CONSTANTS
  MaxWrites = 1
  MaxForeign = 0
INVARIANTS TrueMeansDone
