SPECIFICATION TesterSpec
CONSTANTS
  Machines <- MCMachines
  MaxTests = 2
  MaxChecks = 1
INVARIANTS OwnResult CompleteAndInOrder
PROPERTIES TestEnds
CHECK_DEADLOCK FALSE
