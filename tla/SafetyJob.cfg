\* The safety job reaches what it watches for, despite faults.
CONSTANTS
  t1 = t1
  t2 = t2
  Tenants = {t1, t2}
  Agents = {a1}
  NoBudget = NoBudget
  Budget <- MCBudget
  CallCost = 10
  MinCalls = 2
  FailureLimit = 2
  MaxCalls = 3
  MaxFaults = 1
SPECIFICATION FairSpec
INVARIANTS TypeOK
PROPERTIES OverspentPaused ErroringPaused FailingAgentDisabled
