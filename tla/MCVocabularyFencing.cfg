SPECIFICATION Spec
CONSTANTS
  k1 = k1
  w1 = w1
  w2 = w2
  None = None
  Keys = {k1}
  Workers = {w1, w2}
  MaxAttempts = 2
  ReviewLimit = 2
  MaxMishaps = 2
  MaxClaims = 6
PROPERTIES CompletedAttemptStays
CHECK_DEADLOCK FALSE
