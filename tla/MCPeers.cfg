SPECIFICATION Spec
CONSTANTS
  Plans <- MCPlans
  MaxTasks = 2
  MaxResets = 1
  Initial = 2
  Sizes = {1, 3, 5, 9}
  Slices = 2
  UintRange = 8
  Iterations = 2
  TrainLength = 2
  MaxArrivals = 2
INVARIANTS OncePerUuid SentIsCharged FinishedHasSpeed
PROPERTIES MeasurementEnds
CHECK_DEADLOCK FALSE
