-------------------------- MODULE QuotaProperties --------------------------
(* What the quota ledger promises: invariants, action and liveness          *)
(* properties of Quota, stated over the rows the service keeps.             *)
EXTENDS Quota

\* Conservation.  The counters on QuotaPeriod and QuotaAccount are kept by
\* increments scattered over five transactions; they always equal the number of
\* authorization rows that draw on the pool, and the reward balance equals the
\* rewards earned less the ones spent (quota.service.ts:127-140, 235-258, 373-389).
PeriodsBalanced ==
  \A p \in PeriodIds :
    /\ ledger.periods[p].reserved = Cardinality(Daily(ledger.auth, "RESERVED", p))
    /\ ledger.periods[p].consumed = Cardinality(Daily(ledger.auth, "CONSUMED", p))

RewardsBalanced ==
  /\ ledger.rewardReserved = Cardinality(Reward(ledger.auth, "RESERVED"))
  /\ ledger.rewardBalance = earned - Cardinality(Reward(ledger.auth, "CONSUMED"))

LedgerBalanced == PeriodsBalanced /\ RewardsBalanced

\* No pool is overdrawn: a period never admits more than dailyLimit tasks, held or
\* spent, however many reservations expire, lapse and are taken again; and no more
\* rewards are held than the account owns (quota.service.ts:127-140).
WithinAllowance ==
  /\ \A p \in PeriodIds :
       Cardinality(Daily(ledger.auth, "RESERVED", p))
         + Cardinality(Daily(ledger.auth, "CONSUMED", p)) <= DailyLimit
  /\ Cardinality(Reward(ledger.auth, "RESERVED") \cup Reward(ledger.auth, "CONSUMED")) <= earned

\* The review counters of an authorization are the number of its submissions in
\* flight and succeeded, through retries of failed keys and the reconciler's
\* late failures (quota.service.ts:205-216, 250-266, 278-285).
SlotsMatch ==
  \A t \in Tasks :
    /\ ledger.auth[t].pending = Cardinality(Submissions(sub, t, "PENDING"))
    /\ ledger.auth[t].successful = Cardinality(Submissions(sub, t, "SUCCEEDED"))

\* A review in flight has a unit behind it: a charged task is never released, by
\* expiry, failure of another review or reconciliation, while a review that could
\* still succeed is pending (quota.service.ts:286, 307-326).
ReviewHoldsItsUnit ==
  \A t \in Tasks :
    Submissions(sub, t, "PENDING") # {} /\ ledger.auth[t].source # "EXEMPT"
      => ledger.auth[t].status # "RELEASED"

\* A unit that a success has spent stays spent on its task: no later failure,
\* expiry, membership change or new period refunds it or charges the task again.
StaysSpent(t) ==
  ledger.auth[t].source \in {"DAILY", "REWARD"} /\ ledger.auth[t].status = "CONSUMED"
    => /\ ledger'.auth[t].source = ledger.auth[t].source
       /\ ledger'.auth[t].period = ledger.auth[t].period
       /\ ledger'.auth[t].status = "CONSUMED"

\* Without a membership and with enforcement on, a task that is not exempt never
\* gets a review beyond the limit, counting the ones in flight; reviews taken as
\* a member count against it (quota.service.ts:189-204).
StaysCapped(t) ==
  /\ enforced /\ ~member
  /\ ledger'.auth[t].source # "EXEMPT"
  /\ Cardinality(Submissions(sub', t, "PENDING")) > Cardinality(Submissions(sub, t, "PENDING"))
  => Cardinality(Submissions(sub', t, "PENDING"))
       + Cardinality(Submissions(sub', t, "SUCCEEDED")) <= ReviewLimit

\* One unit, so many reviews: a task is charged once, and without a membership its
\* unit buys ReviewLimit reviews, however its requests fail, expire, are retried and
\* cross a membership (quota.service.ts:87-217).
OneUnitPerTask == [][\A t \in Tasks : StaysSpent(t) /\ StaysCapped(t)]_vars

\* Issued allowances are spread out: the ends of successive periods are at least
\* one local day apart and a period starts no earlier than the previous one ended,
\* so no sequence of timezone changes issues an extra allowance ("never shorten
\* it into an extra issuance", quota.service.ts:38-45).
PeriodsSpaced ==
  \A p \in 1..(ledger.current - 1) :
    /\ ledger.periods[p + 1].startsAt >= ledger.periods[p].endsAt
    /\ ledger.periods[p + 1].endsAt >= ledger.periods[p].endsAt + MinDay

\* What is abandoned comes back: the minute job releases an overdue task that has no
\* review or practice in progress, and fails a review whose practice has failed,
\* unless the practice is taken up again first (quota.service.ts:302-327, 329-371).
Overdue(t) == t \in Expired(ledger)

AbandonedReturns ==
  \A t \in Tasks :
    /\ Overdue(t) ~> ~Overdue(t)
    /\ t \in Vocabulary => (Orphaned(t) # {} ~> Orphaned(t) = {})
=============================================================================
