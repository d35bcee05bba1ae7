SPECIFICATION Spec
CONSTANTS
  MaxWrites = 2
  MaxForeign = 2
INVARIANTS WriteReportIsTrue TransactionsBeginAndEnd
PROPERTIES OnlyTheseLoseRows
