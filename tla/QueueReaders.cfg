\* One server and two runs, promotions one at a time; ranking writes may be lost,
\* and a completed match has the replay a or none.
SPECIFICATION ReadersSpec
CONSTANTS
  MaxRuns = 2
  Matches = {m1, m2}
  m1 = m1
  Servers = {s1}
  Clis = {}
  WorkerID <- MCWorkerID
  LeaseTicks = 1
  GuardCanDrop = FALSE
  SerialOperator = TRUE
  TimelyHeartbeats = TRUE
  Replays = {a}
  None = None
  MaxVersion = 1
INVARIANTS RankingHoldsOfficial RankedRunsEligible FinalAnswerStands
