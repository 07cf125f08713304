SPECIFICATION BudgetSpec
CONSTANTS
  Word = 16
  Sizes = {1, 4, 12}
  Allowances = {5, 10}
  MidCall = FALSE
  Lowering = FALSE
  MaxCalls = 4
  MaxRestarts = 2
INVARIANTS BudgetRespected NothingForgotten
CHECK_DEADLOCK FALSE
