SPECIFICATION Spec
CONSTANTS
  Workers = {w1}
  n = 2
  Totals = {3, 5}
  MaxCrashes = 1
  MaxEnqueues = 2
INVARIANTS
  TypeOK
  OutcomeBacked
  BudgetSplit
  ChargedSteps
PROPERTIES
  ComesToRest
CHECK_DEADLOCK FALSE
