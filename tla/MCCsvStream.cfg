SPECIFICATION Spec
CONSTANTS
  Documents <- MCDocuments
  Filters <- MCFilters
  Selections <- MCSelections
  Chunks = {1, 2, 99}
  Delim <- D
  Quote <- Q
  LF = 13
  CR = 14
  NumSuffix = 15
  StrSuffix = 16
  MaxFields = 2
  RowBytes = 6
  MaxFailures = 1
  None = None
CHECK_DEADLOCK FALSE
INVARIANTS
  ResultsExact
  FilterInForce
