SPECIFICATION Spec
CONSTANTS
  Threads = 2
  RampUp = 1
  Target = 2
  SlotLengths = {1, 9}
  IntRange = 16
  MaxTime = 2
  MaxSamples = 3
INVARIANTS FinishedMeansData SlotsPartition ReportedOnce
PROPERTIES Ends
CHECK_DEADLOCK FALSE
