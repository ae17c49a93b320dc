SPECIFICATION Spec
CONSTANTS
  w1 = w1
  w2 = w2
  None = None
  Workers = {w1, w2}
  Amount = 2
  MaxEvents = 2
  MaxRevision = 1
  MaxMishaps = 1
SYMMETRY WorkerSymmetry
INVARIANTS TablesAgree ConsumedWasServed SettledMirrors
PROPERTIES RefundsForward
CHECK_DEADLOCK FALSE
