\* The meter: two concurrent callers, one midnight, with and without a budget.
CONSTANTS
  Callers = {c1, c2}
  NoBudget = NoBudget
  Budgets <- MCBudgets
  MaxCost = 1
  MaxAttempts = 2
  MaxSends = 2
  DecimalBudget = FALSE
  LastDay = 1
  MaxChats = 3
SPECIFICATION FairSpec
INVARIANTS TypeOK OvershootBounded ChargesAccounted
PROPERTIES GateClosed ChatEnds
CHECK_DEADLOCK FALSE
