SPECIFICATION FairSpec
CONSTANTS
  j1 = j1
  j2 = j2
  w1 = w1
  w2 = w2
  NoLease = NoLease
  Jobs = {j1, j2}
  Workers = {w1, w2}
  AutomaticRounds = 2
  TotalRounds = 3
  MaxMishaps = 1
INVARIANTS BooksAgree
PROPERTIES KeepsPromise EveryReviewEnds
CHECK_DEADLOCK FALSE
