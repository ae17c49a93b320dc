SPECIFICATION FairSpec
CONSTANTS
  v1 = v1
  k1 = k1
  Tasks = {v1}
  Vocabulary = {v1}
  PreEnforcement = {}
  Keys = {k1}
  Timezones = {"east", "west"}
  Membership = {FALSE}
  Enforcement = {TRUE}
  NextMidnight <- Calendar
  Day = 4
  Shift = 1
  MinDay = 3
  Hold = 2
  DailyLimit = 1
  ReviewLimit = 1
  MaxTime = 7
  Horizon = 16
  MaxPeriods = 3
  MaxRewards = 0
INVARIANTS PeriodsSpaced
PROPERTIES AbandonedReturns
CHECK_DEADLOCK FALSE
