SPECIFICATION Spec
CONSTANTS
  NumChannels = 2
  Capacity <- TwoUnbuffered
  OnlyRTCM = {1, 2}
  StopOnError = {1, 2}
  ClosedAtExit = {1}
  Reconnects = {FALSE}
  WritesFail = FALSE
  NumBytes = 2
  MaxSessions = 1
INVARIANT WrittenBeforeExit
