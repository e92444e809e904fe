\* Two players, two steps of any shape, everything may fail.
SPECIFICATION Spec
CONSTANTS
  NPlayers = 2
  MaxTurns = 2
  ShutdownTicks = 2
  GameOverTicks = 1
INVARIANTS CompletedIsWhole EverySessionClosed
PROPERTIES CancellationWins AppliedWhole
