SPECIFICATION FairSpec
CONSTANTS
  Requests = {r1, r2}
  Reviews = {r2}
  Own = {r2}
  Editors = {r1}
  ServerKey = TRUE
  Limit = 1
  MaxSteps = 2
  MaxRetries = 1
  MaxCalls = 2
  MaxEvents = 1
 
PROPERTIES RequestEnds PanelForgets
CHECK_DEADLOCK FALSE
