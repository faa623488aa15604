\* Two first messages of one chat at once.
CONSTANTS
  u1 = u1
  u2 = u2
  u3 = u3
  Updates = {u1, u2, u3}
  Handles = {"h"}
  Events <- MCEvents
  MaxTries = 2
  MaxFaults = 1
SPECIFICATION FairSpec
PROPERTIES TelegramAnswered
