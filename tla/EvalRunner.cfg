SPECIFICATION Spec
CONSTANTS
  Runners <- AllRunners
  MaxCost = 2
  MaxLost = 1
  BUDGET_TOTAL = 6
  PRIOR_SPEND = 1
CHECK_DEADLOCK FALSE
INVARIANTS
  RowsAreExact
  FileAccountsForEveryCase
  OvershootIsOneCase
