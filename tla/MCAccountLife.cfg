SPECIFICATION Spec
CONSTANTS
  r1 = r1
  r2 = r2
  w1 = w1
  w2 = w2
  d1 = d1
  c1 = c1
  c2 = c2
  t1 = t1
  t2 = t2
  e1 = e1
  e2 = e2
  v1 = v1
  v2 = v2
  p1 = p1
  p2 = p2
  None = None
  Casts <- Together
  MaxTime = 4
  Requests = {r1, r2}
  Reviews = {r1}
  Orders <- ProviderOrders
  FreeFirst = {FALSE, TRUE}
  LeaseTime = 3
  CallTimeout = 1
  ReceiptTime = 1
  Minute = 1
  FiveMinutes = 2
  Day = 4
  Losses = {"AI_TIMEOUT"}
  Statuses = {404, 429, 500}
  Delays = {None}
  Usages <- SomeUsages
  Rates <- SomeRates
  Webs = {w1, w2}
  Bindings = {d1}
  WebLife = 4
  BindingLife = 2
  CodeLife = 1
  AndroidLife = 2
  Keys = {k1}
  Products = {"DAY", "YEAR"}
  Checkouts = {c1, c2}
  Window = 1
  QuoteLife = 2
  LaunchEnds = 2
  Tickets = {t1, t2}
  TicketLife = 2
  Slack = 1
  Transactions = {x1, x2}
  Deliveries = {e1, e2}
  a = a
  b = b
  c = c
  Rows = {a, b, c}
  Phrases = {b}
  Unsound = {c}
  Documents <- SomeDocuments
  Kept <- SomeKept
  Voids = {v1, v2}
  Sweepers = {p1, p2}
  SweepLease = 1
  Overlap = 1
  Retention = 3
  MaxDelay = 1
  g1 = g1
  g2 = g2
  Drills = {g1, g2}
  DayLength = 2
  Intervals = {2}
  Assessments <- SomeAssessments
  MaxAttempts = 2
  MaxRevision = 1
INVARIANTS ProbeAlone CallsMetered HonouredOnce WithdrawnIsHidden NothingAfterDeletion WatermarkCovers
SYMMETRY PracticesAlike
CHECK_DEADLOCK FALSE
