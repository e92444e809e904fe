\* A child is killed while the reader still holds one of its lines.
SPECIFICATION Spec
CONSTANTS
  MaxCalls = 2
  Cap = 2
  PipeCap = 2
  MaxLines = 2
CHECK_DEADLOCK FALSE
INVARIANT NoSendOnClosed
