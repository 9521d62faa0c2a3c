SPECIFICATION Spec
CONSTANTS
  Runners <- BaselineOnly
  MaxCost = 2
  MaxLost = 1
  BUDGET_TOTAL = 4
  PRIOR_SPEND = 1
CHECK_DEADLOCK FALSE
INVARIANTS
  NeverOverBudget
