SPECIFICATION Spec
CONSTANTS
  Trees <- MCRunOnceTrees
  MaxIter = 2
  TimeMax = 4
  MaxNow = 0
  Durations <- MCDurations
INVARIANTS
  CompletesOnce
