SPECIFICATION FairSpec
CONSTANTS
  NumChannels = 2
  Capacity <- OneBuffered
  OnlyRTCM = {1}
  StopOnError = {}
  ClosedAtExit = {1}
  Reconnects = {TRUE, FALSE}
  WritesFail = TRUE
  NumBytes = 4
  MaxSessions = 3
INVARIANTS
  TypeOK
  NothingLostAtReconnect
  NoMessageAcrossConnections
  FlushedBeforeConnect
  UnwrittenBounded
PROPERTIES
  InputEndGetsThrough
  EndsWithInput
  FanOutSpec
