SPECIFICATION Spec
CONSTANTS
  MaxRuns = 1
  Matches = {m1}
  Servers = {s1}
  Clis = {}
  WorkerID <- MCWorkerID
  LeaseTicks = 3
  GuardCanDrop = FALSE
  SerialOperator = TRUE
  TimelyHeartbeats = TRUE
  Replays = {}
  None = None
INVARIANT LiveLeaseHeld
