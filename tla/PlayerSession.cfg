\* Either runtime and any bot, honest or not.  A module that stops reading blocks
\* the session in Send for good (SessionStuckInSend), hence no deadlock check.
SPECIFICATION FairSpec
CONSTANTS
  MaxCalls = 2
  Cap = 2
  PipeCap = 1
  MaxLines = 3
CHECK_DEADLOCK FALSE
INVARIANTS HonestPlayer AnswerSurvivesExit ClosedChildGone ModuleChannelSafe
PROPERTIES CloseReturns DeadlineEnforced
