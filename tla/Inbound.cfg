\* Concurrent and repeated deliveries with faults.
CONSTANTS
  u1 = u1
  u2 = u2
  u3 = u3
  Updates = {u1, u2, u3}
  Handles = {"h"}
  Events <- MCEvents
  MaxTries = 2
  MaxFaults = 1
SPECIFICATION FairSpec
INVARIANTS TypeOK JobHasMessage AckedIsQueued StoredOncePerFault
PROPERTIES TelegramQueued
