SPECIFICATION FairSpec
CONSTANTS
  Payloads = {"p"}
  Contents = {"a", "b"}
  NoContent = "none"
  MaxStarts = 4
INVARIANTS RunningIsWatched
PROPERTY RunningEnds
CHECK_DEADLOCK FALSE
