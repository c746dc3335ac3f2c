SPECIFICATION FairSpec
CONSTANTS
  MaxWaiting = 3
  WaitTimes = {0, 1, 3}
  Timeouts = {0, 1, 2}
  Deadlines <- MaybeDeadline
INVARIANTS
  TypeOK
  ReturnsEmptyHanded
  GivesUpForAReason
PROPERTY
  SilenceEndsIt
