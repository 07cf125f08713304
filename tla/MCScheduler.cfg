SPECIFICATION Spec
CONSTANTS
  Schedules <- Mixed
  Offset <- MinusOne
  TimerMax = 100
  MaxLate = 2
  MaxTime = 9
INVARIANTS IdsMatch TimerArmed
PROPERTIES OncePerPeriod RestartKeeps
CHECK_DEADLOCK FALSE
