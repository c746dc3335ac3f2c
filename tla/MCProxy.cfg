SPECIFICATION FairSpec
CONSTANTS
  s1 = s1
  s2 = s2
  r1 = r1
  None = None
  Sessions = {s1, s2}
  ClientBytes <- MCClientBytes
  ServerBytes <- MCServerBytes
  SlowServers = {s2}
  Readers = {r1}
  MaxItems = 1
  BufferSize = 2
  Verbose = TRUE
  LogLevels = {TRUE, FALSE}
  BreakingClients = {s2}
  BreakingServers = {s2}
  MaxEvents = 4
INVARIANTS
  TypeOK
  CopiedOnceUnlessOff
PROPERTIES
  ReportHoldsStill
  EndToEndSpec
  TrafficGetsThrough
