SPECIFICATION Spec
CONSTANTS
  MaxRuns = 2
  Matches = {m1}
  Servers = {s1}
  Clis = {c1}
  WorkerID <- MCWorkerID
  LeaseTicks = 1
  GuardCanDrop = FALSE
  SerialOperator = TRUE
  TimelyHeartbeats = FALSE
  Replays = {}
  None = None
INVARIANT OneWorkerExecutes
