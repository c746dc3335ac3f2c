SPECIFICATION Spec
CONSTANTS
  MaxWaiting = 3
  WaitTimes = {2}
  Timeouts = {1}
  Deadlines = {2}
INVARIANT GivesUpInSilence
