SPECIFICATION Spec
CONSTANTS
  NPlayers = 2
  Rounds = 1
  Turns = 2
  Reasons = {"invalid-timeout"}
  Leavers = {{}, {1}}
PROPERTY
  ResumeAnywhere
CHECK_DEADLOCK FALSE
