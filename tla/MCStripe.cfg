SPECIFICATION Spec
CONSTANTS
  r1 = r1
  r2 = r2
  Idle = Idle
  MaxEvents = 3
  Receivers = {r1, r2}
  Amount = 2
  MaxTries = 2
  MaxMishaps = 1
SYMMETRY ReceiverSymmetry
INVARIANTS SettledMirrors GrantFollowsOrder AnsweredIsDone
PROPERTIES NoStaleCommit FinancialForward
CHECK_DEADLOCK FALSE
