SPECIFICATION Spec
CONSTANTS
  g1 = g1
  g2 = g2
  k1 = k1
  k2 = k2
  Tasks = {g1, g2}
  Vocabulary = {}
  PreEnforcement = {}
  Keys = {k1, k2}
  Timezones = {"east"}
  Membership = {FALSE, TRUE}
  Enforcement = {FALSE, TRUE}
  NextMidnight <- Calendar
  Day = 2
  Shift = 0
  MinDay = 2
  Hold = 1
  DailyLimit = 1
  ReviewLimit = 1
  MaxTime = 2
  Horizon = 6
  MaxPeriods = 3
  MaxRewards = 1
SYMMETRY LedgerSymmetry
INVARIANTS LedgerBalanced WithinAllowance SlotsMatch ReviewHoldsItsUnit
PROPERTIES OneUnitPerTask
CHECK_DEADLOCK FALSE
