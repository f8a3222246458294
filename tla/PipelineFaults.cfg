CONSTANTS
  Executions = {e1}
  Compiled = {e1}
  Cancellable = {e1}
  Workers = {w1}
  NoWorker = NoWorker
  NoJob = NoJob
  FaultKinds = {"redis", "reply", "docker", "db", "worker", "backend"}
  MaxFaults = 2
SPECIFICATION FairSpec
INVARIANTS ShownFinishedIsRecorded CancelledLeavesNoContainer
PROPERTIES ImplementsLifecycle ConsoleKeepsOutcome ClaimedFinishes LeftoversRemoved
