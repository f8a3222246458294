CONSTANTS
  Clients = {c1, c2}
  Edits = {x}
  Base = {base}
  Nobody = Nobody
  FaultKinds = {}
  MaxFaults = 0
SPECIFICATION FairSpec
PROPERTIES SyncedIsSaved
