SPECIFICATION ReadsFairSpec
CONSTANTS
  a = a
  b = b
  Path = {a, b}
  Present = {b}
  Hidden = {b}
  Batches <- MCBatches
  WriteConcurrency = 2
  MaxCalls = 2
  Budgets <- MCBudgets
  MaxSafe = 8
  MAX_TIMER_MS = 6
  BOUNDED_READ_SLACK_MS = 2
  Trip = 1
  MaxBody = 3
  CallsBeside <- MCCallsBeside
INVARIANTS WrittenWhenResolved EarlierStoredFirst CutTouchesNothing AnswerIsTrue BudgetKept GivesUpLate
PROPERTIES BoundedSettles
CHECK_DEADLOCK FALSE
