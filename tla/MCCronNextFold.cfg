SPECIFICATION Spec
CONSTANTS
  Minute = 2
  Mins = 2
  Hours = 2
  MonthStarts <- MCMonthStarts
  CycleDays = 9
  MonthsPerYear = 2
  WeekDays = 2
  LongestMonth = 3
  MaxIters = 20
  MaxCount = 2
  Exprs <- MCDaily
  Anchors <- MCFoldAnchors
  Transition = 8
  Shift <- MCFold
CHECK_DEADLOCK FALSE
INVARIANTS
  StrictlyAfter
