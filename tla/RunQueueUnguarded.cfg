\* A server that may lose the lock, run-once beside it, an operator at any moment:
\* what survives without single-worker operation.
SPECIFICATION Spec
CONSTANTS
  MaxRuns = 2
  Matches = {m1}
  Servers = {s1}
  Clis = {c1}
  WorkerID <- MCWorkerID
  LeaseTicks = 1
  GuardCanDrop = TRUE
  SerialOperator = FALSE
  TimelyHeartbeats = FALSE
  Replays = {}
  None = None
INVARIANTS OfficialImpliesCompleted CompletedHasArtifacts
PROPERTY LifecycleSpec
