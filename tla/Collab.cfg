CONSTANTS
  Clients = {c1, c2}
  Edits = {x}
  Base = {base}
  Nobody = Nobody
  FaultKinds = {"net", "db", "crash", "shutdown"}
  MaxFaults = 2
SPECIFICATION FairSpec
INVARIANTS SyncedMeansServerHas AttachedRoomIsLoaded
PROPERTIES EditReachesEveryone EditIsSaved
