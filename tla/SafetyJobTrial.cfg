\* A tenant on trial is outside the safety job.
CONSTANTS
  t1 = t1
  t2 = t2
  Tenants = {t1, t2}
  Agents = {a1}
  NoBudget = NoBudget
  Budget <- MCBudget
  CallCost = 10
  MinCalls = 2
  FailureLimit = 2
  MaxCalls = 3
  MaxFaults = 1
SPECIFICATION FairSpec
PROPERTIES OverspentStopped
