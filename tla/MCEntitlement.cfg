SPECIFICATION TimelineSpec
CONSTANTS
  o1 = o1
  o2 = o2
  o3 = o3
  Orders = {o1, o2, o3}
  Gift = Gift
  DurationSeconds <- MCDuration
  Second = 2
  LaunchAt = 1
  MaxClock = 5
  MaxSuspensions = 1
SYMMETRY OrderSymmetry
INVARIANTS ExpiresAfterAll TimeConserved
CHECK_DEADLOCK FALSE
