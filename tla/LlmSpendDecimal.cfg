\* The budget as production loads it: a Decimal.
CONSTANTS
  Callers = {c1, c2}
  NoBudget = NoBudget
  Budgets <- MCBudgets
  MaxCost = 1
  MaxAttempts = 2
  MaxSends = 2
  DecimalBudget = TRUE
  LastDay = 1
  MaxChats = 3
SPECIFICATION Spec
PROPERTIES ServedBelowBudget
CHECK_DEADLOCK FALSE
