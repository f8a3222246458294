CONSTANTS
  KEEP_ALL_FOR = 2
  KEEP_TEN_MINUTELY_FOR = 6
  SLOT = 2
  DAY = 6
  Files = {"f1", "f2"}
  InFolder = {"f1"}
  Edited = {"f1"}
  MaxEdits = 2
  MaxCalls = 2
  MaxFaults = 1
  MaxEvents = 4
SPECIFICATION Spec
INVARIANTS VersionsAreNumbered CreditedOnce HelpersAreExact
PROPERTIES SavesAreKept RestoreCanBeUndone
CHECK_DEADLOCK FALSE
