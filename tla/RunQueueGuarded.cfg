\* Two servers hand the queue over, any two faults: nothing is shared or lost, and
\* every queued run gets done.
SPECIFICATION LiveSpec
CONSTANTS
  MaxRuns = 2
  Matches = {m1}
  Servers = {s1, s2}
  Clis = {}
  WorkerID <- MCWorkerID
  LeaseTicks = 1
  GuardCanDrop = FALSE
  SerialOperator = TRUE
  TimelyHeartbeats = FALSE
  Replays = {}
  None = None
  MaxFaults = 2
INVARIANTS OneWorkerPerRun AtMostOneOfficial ArtifactsMatchRecord
PROPERTIES QueuedRunsFinish CompletedIsFrozen
