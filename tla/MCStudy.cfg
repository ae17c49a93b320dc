SPECIFICATION Spec
CONSTANTS
  Sessions = {s1, s2}
  Stale = {s1}
  MaxTime = 3
  Grace = 2
  Minute = 2
  Focus = 1
  Break = 1
  DayLength = 3
  Offsets = {0, 1}
  Legacy = 1
INVARIANTS TimeCountedOnce StatsMatchLedger TimerOnSchedule
PROPERTIES ContextFrozen
CHECK_DEADLOCK FALSE
