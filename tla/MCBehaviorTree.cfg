SPECIFICATION Spec
CONSTANTS
  Trees <- MCTrees
  MaxIter = 2
  TimeMax = 4
  MaxNow = 1
  Durations <- MCDurations
INVARIANTS
  BalancedCallbacks
  NoOrphanedWork
  SingleActiveBranch
  IdleIsFresh
  DeadlineInForce
  CompletesOnce
PROPERTIES
  TickTerminates
