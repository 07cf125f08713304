SPECIFICATION Spec
CONSTANTS
  Tasks <- ServerAndToolbox
  MaxResults = 3
  MaxStarts = 2
  MaxRestarts = 1
  MaxDays = 2
  Backlog = 0
INVARIANTS DiskMirrorsMemory LostOnlyInFlight HistoryComplete
CHECK_DEADLOCK FALSE
