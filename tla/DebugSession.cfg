CONSTANTS
  MaxStops = 2
  MaxCommands = 2
  MaxChanges = 2
  MaxInputs = 2
  MaxFaults = 1
SPECIFICATION FairSpec
INVARIANTS OutcomeIsTrue FrameMatchesPause SettledViewIsTrue BreakpointsReachSession
PROPERTIES SessionEnds
CHECK_DEADLOCK FALSE
