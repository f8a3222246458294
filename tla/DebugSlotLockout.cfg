CONSTANTS
  Sessions = {s1, s2}
  NoSession = NoSession
  Workers = 2
  LongWaits = TRUE
  MaxFaults = 2
SPECIFICATION FairSpec
PROPERTIES NeverLockedOut
CHECK_DEADLOCK FALSE
