CONSTANTS
  ResumeTurn = 1
  Turns = 3
SPECIFICATION Spec
INVARIANTS SidecarInStep CaptureIsAcknowledged
PROPERTIES NothingAfterAbandon RunnerEnds
CHECK_DEADLOCK FALSE
