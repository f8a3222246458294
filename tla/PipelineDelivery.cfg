CONSTANTS
  Executions = {e1}
  Compiled = {}
  Cancellable = {e1}
  Workers = {w1, w2}
  NoWorker = NoWorker
  NoJob = NoJob
  FaultKinds = {"redis"}
  MaxFaults = 2
SPECIFICATION FairSpec
INVARIANTS WorkspaceOutlivesThread
PROPERTIES AcceptedFinishes
