SPECIFICATION Spec
CONSTANTS
  DayLength = 4
  Lead <- MCLead
  StartTimes <- WholeWeek
  Early = {0}
  MaxAge = 65
INVARIANT RightWeekAfterWeek
