SPECIFICATION Spec
CONSTANTS
  NPlayers = 3
  Rounds = 2
  Turns = 2
  Reasons = {"invalid-timeout", "runtime-stopped"}
  Leavers = {{}, {1, 3}}
INVARIANTS
  HistoryRebuilds
  PlacementsFair
PROPERTY
  ResumeContinues
CHECK_DEADLOCK FALSE
