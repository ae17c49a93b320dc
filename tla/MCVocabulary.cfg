SPECIFICATION FairSpec
CONSTANTS
  k1 = k1
  k2 = k2
  w1 = w1
  w2 = w2
  None = None
  Keys = {k1, k2}
  Workers = {w1, w2}
  MaxAttempts = 2
  ReviewLimit = 2
  MaxMishaps = 2
  MaxClaims = 6
INVARIANTS OncePerAssessment InFlightIsPaid
PROPERTIES RevisionFences PracticeRests
CHECK_DEADLOCK FALSE
