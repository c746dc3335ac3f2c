SPECIFICATION Spec
CONSTANTS
  DayLength = 4
  Lead <- MCLead
  StartTimes <- WholeWeek
  Early = {0, 5}
  MaxAge = 65
INVARIANTS
  TypeOK
  RightForAWeek
  GlonassRightInItsWeek
  NeverInTheFuture
