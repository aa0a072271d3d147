SPECIFICATION Spec
CONSTANTS
  Schedules <- MCSchedules
  Minute = 2
  LastTick = 7
INVARIANTS
  FiresOnce
  NoMissedMinute
  SingleWorker
PROPERTIES
  StopReturns
  ImplementsDuty
