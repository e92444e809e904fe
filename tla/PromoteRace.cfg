SPECIFICATION Spec
CONSTANTS
  MaxRuns = 2
  Matches = {m1}
  Servers = {s1}
  Clis = {}
  WorkerID <- MCWorkerID
  LeaseTicks = 1
  GuardCanDrop = FALSE
  SerialOperator = FALSE
  TimelyHeartbeats = FALSE
  Replays = {}
  None = None
INVARIANT AtMostOneOfficial
