\* A module that stops reading its stdin: Send has no deadline.
SPECIFICATION FairSpec
CONSTANTS
  MaxCalls = 2
  Cap = 2
  PipeCap = 2
  MaxLines = 1
CHECK_DEADLOCK FALSE
PROPERTY CallReturns
