SPECIFICATION Spec
CONSTANTS
  Sats <- AllSats
  MAXOBS = 4
  NFREQ = 2
  NEXOBS = 1
  Half = 750
  Limit = 1171
  Plans <- LinkPlans
INVARIANTS
  TypeOK
  EpochAsSent
  EphAsSent
  CorrectionsOfTheirIssue
PROPERTIES
  EachEpochOnce
  StationsApart
  TimeRight
  PhaseContinuous
  NoFalseSlip
