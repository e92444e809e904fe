\* The defaults: one second to shut down, three announced with game_over.
SPECIFICATION Spec
CONSTANTS
  NPlayers = 2
  MaxTurns = 0
  ShutdownTicks = 1
  GameOverTicks = 3
INVARIANT GameOverDeadlineKept
