SPECIFICATION Spec
CONSTANTS
  Minute = 2
  Mins = 2
  Hours = 2
  MonthStarts <- MCMonthStarts
  CycleDays = 9
  MonthsPerYear = 2
  WeekDays = 2
  LongestMonth = 3
  MaxIters = 8
  MaxCount = 2
  Exprs <- MCExprs
  Anchors <- MCAnchors
  Transition = 0
  Shift = 0
CHECK_DEADLOCK FALSE
INVARIANTS
  NothingSkipped
  EarliestMatch
  StrictlyAfter
  GivesUpLate
