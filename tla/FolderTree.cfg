CONSTANTS
  Folders = {a, b}
  Files = {x}
  Calls = {h1, h2}
  Root = Root
  Unset = Unset
  MaxCalls = 3
SPECIFICATION FairSpec
INVARIANTS LoopNeedsRace EveryFileIsDrawn SidebarIsCurrent
PROPERTIES UsedFilesSurvive CallsEnd
CHECK_DEADLOCK FALSE
