SPECIFICATION Spec
CONSTANTS
  MonthDays <- MCMonthDays
  WeekLength = 2
  HoursPerDay = 2
  MinutesPerHour = 2
  SecondsPerMinute = 2
  MaxYear = 5
  Timings <- MCTimings
  Offsets = {0, 2}
  Starts = {0, 43}
  MaxInt = 5
  MaxLate = 1
  MaxTicks = 20
INVARIANTS StartsAgain
CHECK_DEADLOCK FALSE
