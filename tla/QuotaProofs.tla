---------------------------- MODULE QuotaProofs ----------------------------
(* Machine-checked proofs about the quota ledger, for any finite set of      *)
(* tasks and request keys, any calendar and any limits.                      *)
EXTENDS QuotaProperties, FiniteSetTheorems, TLAPS

-----------------------------------------------------------------------------
(* The inductive invariant.  Good(l, n) is about one ledger value and n      *)
(* earned rewards, so that each step of a transaction can be shown to keep   *)
(* it; the transactions are compositions of such steps.                      *)

\* Every DAILY authorization points at an issued period.
Placed(l) ==
  \A t \in Tasks : l.auth[t].source = "DAILY" => l.auth[t].period \in 1..l.current

\* The counters agree with the rows.
Counted(l, n) ==
  /\ \A p \in PeriodIds :
       /\ l.periods[p].reserved = Cardinality(Daily(l.auth, "RESERVED", p))
       /\ l.periods[p].consumed = Cardinality(Daily(l.auth, "CONSUMED", p))
  /\ l.rewardReserved = Cardinality(Reward(l.auth, "RESERVED"))
  /\ l.rewardBalance = n - Cardinality(Reward(l.auth, "CONSUMED"))

\* No pool is overdrawn.
Capped(l) ==
  /\ \A p \in PeriodIds : l.periods[p].reserved + l.periods[p].consumed <= DailyLimit
  /\ l.rewardReserved <= l.rewardBalance

\* A task with a review in flight has not been released.
Backed(l) ==
  \A t \in Tasks :
    l.auth[t].pending # 0 => l.auth[t].source = "EXEMPT" \/ l.auth[t].status # "RELEASED"

Good(l, n) == l \in Ledger /\ Placed(l) /\ Counted(l, n) /\ Capped(l) /\ Backed(l)

\* IInv: the ledger is good and its slots are counted (SlotsMatch).
IInv == TypeOK /\ Good(ledger, earned) /\ SlotsMatch

-----------------------------------------------------------------------------
(* Pools are finite.                                                         *)

LEMMA PoolsFinite ==
  ASSUME NEW auth, NEW s
  PROVE  /\ IsFiniteSet(Reward(auth, s))
         /\ Cardinality(Reward(auth, s)) \in Nat
         /\ \A p : IsFiniteSet(Daily(auth, s, p)) /\ Cardinality(Daily(auth, s, p)) \in Nat
  <1>1. Reward(auth, s) \in SUBSET Tasks
    BY DEF Reward
  <1>2. \A p : Daily(auth, s, p) \in SUBSET Tasks
    BY DEF Daily
  <1>3. \A S \in SUBSET Tasks : IsFiniteSet(S) /\ Cardinality(S) \in Nat
    BY TasksAssumption, FS_Subset, FS_CardinalityType
  <1> QED
    BY <1>1, <1>2, <1>3

LEMMA SlotsFinite ==
  ASSUME NEW s, NEW t, NEW st
  PROVE  IsFiniteSet(Submissions(s, t, st)) /\ Cardinality(Submissions(s, t, st)) \in Nat
  <1>1. Submissions(s, t, st) \in SUBSET Keys
    BY DEF Submissions
  <1> QED
    BY <1>1, TasksAssumption, FS_Subset, FS_CardinalityType

-----------------------------------------------------------------------------
(* release(): tasks that hold a unit, with no review in flight.              *)

\* What release() leaves: r is l with the tasks of S released.
Released(l, S, r) ==
  /\ r \in Ledger
  /\ r.current = l.current
  /\ r.rewardBalance = l.rewardBalance
  /\ r.rewardReserved = l.rewardReserved - Cardinality(S \cap Reward(l.auth, "RESERVED"))
  /\ \A t \in Tasks :
       /\ r.auth[t].source = l.auth[t].source
       /\ r.auth[t].period = l.auth[t].period
       /\ r.auth[t].pending = l.auth[t].pending
       /\ r.auth[t].successful = l.auth[t].successful
       /\ t \in S => r.auth[t].status = "RELEASED"
       /\ t \notin S => r.auth[t].status = l.auth[t].status
  /\ \A p \in PeriodIds :
       /\ r.periods[p].timezone = l.periods[p].timezone
       /\ r.periods[p].startsAt = l.periods[p].startsAt
       /\ r.periods[p].endsAt = l.periods[p].endsAt
       /\ r.periods[p].consumed = l.periods[p].consumed
       /\ r.periods[p].reserved =
            l.periods[p].reserved - Cardinality(S \cap Daily(l.auth, "RESERVED", p))

LEMMA ReleaseShape ==
  ASSUME NEW l \in Ledger, NEW S \in SUBSET Tasks
  PROVE  Released(l, S, Release(l, S))
  <1>1. \A p \in PeriodIds : Cardinality(S \cap Daily(l.auth, "RESERVED", p)) \in Nat
    BY PoolsFinite, FS_Intersection, FS_CardinalityType
  <1>2. Cardinality(S \cap Reward(l.auth, "RESERVED")) \in Nat
    BY PoolsFinite, FS_Intersection, FS_CardinalityType
  <1> DEFINE A == [t \in Tasks |->
                     IF t \in S THEN [l.auth[t] EXCEPT !.status = "RELEASED"] ELSE l.auth[t]]
             P == [p \in PeriodIds |-> [l.periods[p] EXCEPT
                     !.reserved = @ - Cardinality(S \cap Daily(l.auth, "RESERVED", p))]]
             R == l.rewardReserved - Cardinality(S \cap Reward(l.auth, "RESERVED"))
  <1>3. \A t \in Tasks :
          /\ A[t] \in Authorization
          /\ A[t].source = l.auth[t].source
          /\ A[t].period = l.auth[t].period
          /\ A[t].pending = l.auth[t].pending
          /\ A[t].successful = l.auth[t].successful
          /\ t \in S => A[t].status = "RELEASED"
          /\ t \notin S => A[t].status = l.auth[t].status
    BY DEF Ledger, Authorization, Statuses
  <1>4. \A p \in PeriodIds :
          /\ P[p] \in Period
          /\ P[p].timezone = l.periods[p].timezone
          /\ P[p].startsAt = l.periods[p].startsAt
          /\ P[p].endsAt = l.periods[p].endsAt
          /\ P[p].consumed = l.periods[p].consumed
          /\ P[p].reserved =
               l.periods[p].reserved - Cardinality(S \cap Daily(l.auth, "RESERVED", p))
    BY <1>1 DEF Ledger, Period
  <1>5. A \in [Tasks -> Authorization] /\ P \in [PeriodIds -> Period]
    BY <1>3, <1>4
  <1>6. R \in Int
    BY <1>2 DEF Ledger
  <1>7. Release(l, S) = [l EXCEPT !.auth = A, !.periods = P, !.rewardReserved = R]
    BY DEF Release
  <1> HIDE DEF A, P
  <1>8. /\ Release(l, S) \in Ledger
        /\ Release(l, S).auth = A /\ Release(l, S).periods = P
        /\ Release(l, S).rewardReserved = R
        /\ Release(l, S).current = l.current
        /\ Release(l, S).rewardBalance = l.rewardBalance
    BY <1>5, <1>6, <1>7 DEF Ledger
  <1> QED
    BY <1>3, <1>4, <1>8 DEF Released

LEMMA ReleasedGood ==
  ASSUME NEW l, NEW r, NEW n \in Int, Good(l, n),
         NEW S \in SUBSET Tasks,
         \A t \in S : l.auth[t].status = "RESERVED" /\ l.auth[t].pending = 0,
         Released(l, S, r)
  PROVE  Good(r, n)
  <1> DEFINE Dr(p) == Daily(l.auth, "RESERVED", p)
             Rr    == Reward(l.auth, "RESERVED")
  <1>1. l \in Ledger /\ r \in Ledger
    BY DEF Good, Released
  <1>2. /\ \A p \in PeriodIds :
             /\ Daily(r.auth, "RESERVED", p) = Dr(p) \ S
             /\ Daily(r.auth, "CONSUMED", p) = Daily(l.auth, "CONSUMED", p)
        /\ Reward(r.auth, "RESERVED") = Rr \ S
        /\ Reward(r.auth, "CONSUMED") = Reward(l.auth, "CONSUMED")
    BY DEF Released, Daily, Reward
  <1>3. ASSUME NEW D, IsFiniteSet(D)
        PROVE  /\ Cardinality(D \ S) = Cardinality(D) - Cardinality(S \cap D)
               /\ Cardinality(S \cap D) \in Nat
    <2>1. S \cap D = D \cap S
      OBVIOUS
    <2>2. Cardinality(D \ S) = Cardinality(D) - Cardinality(D \cap S)
      BY <1>3, FS_Difference
    <2>3. IsFiniteSet(D \cap S)
      BY <1>3, FS_Intersection
    <2>4. Cardinality(D \cap S) \in Nat
      BY <2>3, FS_CardinalityType
    <2> QED
      BY <2>1, <2>2, <2>4
  <1>4. /\ \A p \in PeriodIds : IsFiniteSet(Dr(p)) /\ Cardinality(Dr(p)) \in Nat
        /\ IsFiniteSet(Rr) /\ Cardinality(Rr) \in Nat
    BY PoolsFinite
  <1>5. /\ \A p \in PeriodIds :
             l.periods[p].reserved \in Int /\ l.periods[p].consumed \in Int
        /\ l.rewardReserved \in Int /\ l.rewardBalance \in Int
    BY <1>1 DEF Ledger, Period
  <1>6. /\ \A p \in PeriodIds :
             /\ Cardinality(Dr(p) \ S) = Cardinality(Dr(p)) - Cardinality(S \cap Dr(p))
             /\ Cardinality(S \cap Dr(p)) \in Nat
        /\ Cardinality(Rr \ S) = Cardinality(Rr) - Cardinality(S \cap Rr)
        /\ Cardinality(S \cap Rr) \in Nat
    BY <1>3, <1>4
  <1>7. /\ \A p \in PeriodIds :
             /\ l.periods[p].reserved = Cardinality(Dr(p))
             /\ l.periods[p].consumed = Cardinality(Daily(l.auth, "CONSUMED", p))
             /\ l.periods[p].reserved + l.periods[p].consumed <= DailyLimit
             /\ r.periods[p].consumed = l.periods[p].consumed
             /\ r.periods[p].reserved = l.periods[p].reserved - Cardinality(S \cap Dr(p))
        /\ l.rewardReserved = Cardinality(Rr)
        /\ l.rewardBalance = n - Cardinality(Reward(l.auth, "CONSUMED"))
        /\ l.rewardReserved <= l.rewardBalance
        /\ r.rewardBalance = l.rewardBalance
        /\ r.rewardReserved = l.rewardReserved - Cardinality(S \cap Rr)
    BY DEF Good, Counted, Capped, Released
  <1> HIDE DEF Dr, Rr
  <1>8. Counted(r, n)
    BY <1>2, <1>6, <1>7 DEF Counted
  <1>10. Capped(r)
    <2>1. ASSUME NEW p \in PeriodIds
          PROVE  r.periods[p].reserved + r.periods[p].consumed <= DailyLimit
      <3>1. /\ l.periods[p].reserved \in Int /\ l.periods[p].consumed \in Int
            /\ Cardinality(S \cap Dr(p)) \in Nat
        BY <1>5, <1>6, <2>1
      <3>2. /\ l.periods[p].reserved + l.periods[p].consumed <= DailyLimit
            /\ r.periods[p].consumed = l.periods[p].consumed
            /\ r.periods[p].reserved = l.periods[p].reserved - Cardinality(S \cap Dr(p))
        BY <1>7, <2>1
      <3> QED
        BY <3>1, <3>2, BoundsAssumption
    <2>2. r.rewardReserved <= r.rewardBalance
      BY <1>4, <1>5, <1>6, <1>7
    <2> QED
      BY <2>1, <2>2 DEF Capped
  <1>11. Placed(r)
    BY DEF Good, Placed, Released
  <1>9. Backed(r)
    BY DEF Good, Backed, Released
  <1> QED
    BY <1>1, <1>8, <1>9, <1>10, <1>11 DEF Good

LEMMA ReleaseGood ==
  ASSUME NEW l, NEW n \in Int, Good(l, n),
         NEW S \in SUBSET Tasks,
         \A t \in S : l.auth[t].status = "RESERVED" /\ l.auth[t].pending = 0
  PROVE  Good(Release(l, S), n)
  BY ReleaseShape, ReleasedGood DEF Good

-----------------------------------------------------------------------------
(* period(): a new period has no units taken, since every DAILY              *)
(* authorization points at an earlier one.                                   *)

\* r is l with one more, empty, period.
Opened(l, r) ==
  /\ r \in Ledger
  /\ r.auth = l.auth
  /\ r.rewardBalance = l.rewardBalance
  /\ r.rewardReserved = l.rewardReserved
  /\ r.current = l.current + 1
  /\ r.periods[r.current].reserved = 0
  /\ r.periods[r.current].consumed = 0
  /\ \A p \in PeriodIds : p # r.current => r.periods[p] = l.periods[p]

LEMMA PeriodEndType ==
  ASSUME NEW l \in Ledger, clock \in 0..MaxTime, tz \in Timezones
  PROVE  PeriodEnd(l) \in Nat
  <1>1. NextMidnight[tz][clock] \in Instants
    BY CalendarAssumption
  <1>2. \A z \in Timezones : \A t \in Instants : NextMidnight[z][t] \in Nat
    BY CalendarAssumption
  <1>3. NextMidnight[tz][NextMidnight[tz][clock]] \in Nat
    BY <1>1, <1>2
  <1>4. NextMidnight[tz][clock] \in Nat
    BY <1>1 DEF Instants
  <1> QED
    BY <1>3, <1>4 DEF PeriodEnd

LEMMA OpenedShape ==
  ASSUME NEW l \in Ledger, clock \in 0..MaxTime, tz \in Timezones,
         NeedsPeriod(l), PeriodAvailable(l)
  PROVE  Opened(l, OpenPeriod(l))
  <1> DEFINE c == l.current + 1
             q == [timezone |-> tz, startsAt |-> clock, endsAt |-> PeriodEnd(l),
                   reserved |-> 0, consumed |-> 0]
             P == [l.periods EXCEPT ![c] = q]
  <1>1. c \in PeriodIds
    BY BoundsAssumption DEF PeriodAvailable, Ledger, PeriodIds
  <1>2. q \in Period
    BY PeriodEndType DEF Period
  <1>3. l.periods \in [PeriodIds -> Period]
    BY DEF Ledger
  <1> HIDE DEF q
  <1>4. /\ P \in [PeriodIds -> Period]
        /\ P[c] = q
        /\ \A p \in PeriodIds : p # c => P[p] = l.periods[p]
    BY <1>1, <1>2, <1>3
  <1>5. OpenPeriod(l) = [l EXCEPT !.current = c, !.periods = P]
    BY DEF OpenPeriod, OpenAt, q
  <1>6. q.reserved = 0 /\ q.consumed = 0
    BY DEF q
  <1>7. c \in 0..MaxPeriods
    BY <1>1 DEF PeriodIds
  <1> HIDE DEF P, c
  <1>8. /\ OpenPeriod(l) \in Ledger
        /\ OpenPeriod(l).auth = l.auth
        /\ OpenPeriod(l).periods = P
        /\ OpenPeriod(l).current = c
        /\ OpenPeriod(l).rewardBalance = l.rewardBalance
        /\ OpenPeriod(l).rewardReserved = l.rewardReserved
    BY <1>4, <1>5, <1>7 DEF Ledger
  <1> QED
    BY <1>4, <1>6, <1>8 DEF Opened, c

LEMMA OpenedGood ==
  ASSUME NEW l, NEW r, NEW n \in Int, Good(l, n), Opened(l, r)
  PROVE  Good(r, n) /\ r.current >= 1
  <1>1. l \in Ledger /\ r \in Ledger
    BY DEF Good, Opened
  <1>2. l.current \in Nat /\ r.current = l.current + 1
    BY <1>1 DEF Opened, Ledger
  <1>3. Placed(r)
    BY <1>2 DEF Good, Placed, Opened
  <1>4. \A st : Daily(r.auth, st, r.current) = {}
    BY <1>2 DEF Good, Placed, Opened, Daily
  <1>5. ASSUME NEW p \in PeriodIds
        PROVE  /\ r.periods[p].reserved = Cardinality(Daily(r.auth, "RESERVED", p))
               /\ r.periods[p].consumed = Cardinality(Daily(r.auth, "CONSUMED", p))
               /\ r.periods[p].reserved + r.periods[p].consumed <= DailyLimit
    <2>1. CASE p = r.current
      BY <1>4, <2>1, FS_EmptySet, BoundsAssumption DEF Opened
    <2>2. CASE p # r.current
      BY <1>5, <2>2 DEF Opened, Good, Counted, Capped
    <2> QED
      BY <2>1, <2>2
  <1>6. Counted(r, n)
    BY <1>5 DEF Counted, Opened, Good
  <1>7. Capped(r)
    BY <1>5 DEF Capped, Opened, Good
  <1>8. Backed(r)
    BY DEF Backed, Opened, Good
  <1> QED
    BY <1>1, <1>2, <1>3, <1>6, <1>7, <1>8 DEF Good

LEMMA OpenPeriodGood ==
  ASSUME NEW l, NEW n \in Int, Good(l, n), clock \in 0..MaxTime, tz \in Timezones,
         PeriodAvailable(l)
  PROVE  /\ Good(OpenPeriod(l), n)
         /\ OpenPeriod(l).current >= 1
         /\ OpenPeriod(l).auth = l.auth
  <1>1. l \in Ledger
    BY DEF Good
  <1>2. CASE NeedsPeriod(l)
    BY <1>1, <1>2, OpenedShape, OpenedGood DEF Opened
  <1>3. CASE ~NeedsPeriod(l)
    BY <1>1, <1>3 DEF NeedsPeriod, OpenPeriod, Ledger
  <1> QED
    BY <1>2, <1>3

-----------------------------------------------------------------------------
(* Reserving a unit for a task that holds none.                              *)

HoldsNoUnit(l, t) ==
  l.auth[t].source \in {"NONE", "MEMBER"} \/ l.auth[t].status = "RELEASED"

HasUnit(l, source) ==
  /\ source = "DAILY" => /\ l.current \in PeriodIds
                         /\ l.periods[l.current].consumed + l.periods[l.current].reserved
                              < DailyLimit
  /\ source = "REWARD" => l.rewardBalance > l.rewardReserved

\* r is l with t RESERVED on the given source.
ReservedFor(l, r, t, source) ==
  /\ r \in Ledger
  /\ r.current = l.current
  /\ r.rewardBalance = l.rewardBalance
  /\ source = "REWARD" => r.rewardReserved = l.rewardReserved + 1
  /\ source # "REWARD" => r.rewardReserved = l.rewardReserved
  /\ \A u \in Tasks : u # t => r.auth[u] = l.auth[u]
  /\ r.auth[t].source = source
  /\ r.auth[t].status = "RESERVED"
  /\ source = "DAILY" => r.auth[t].period = l.current
  /\ r.auth[t].pending = l.auth[t].pending
  /\ r.auth[t].successful = l.auth[t].successful
  /\ \A p \in PeriodIds :
       /\ r.periods[p].consumed = l.periods[p].consumed
       /\ source = "DAILY" /\ p = l.current => r.periods[p].reserved = l.periods[p].reserved + 1
       /\ source # "DAILY" \/ p # l.current => r.periods[p].reserved = l.periods[p].reserved

LEMMA ReserveShape ==
  ASSUME NEW l \in Ledger, NEW t \in Tasks, NEW source \in Sources,
         clock \in 0..MaxTime, HasUnit(l, source)
  PROVE  ReservedFor(l, Reserve(l, t, source), t, source)
  <1> DEFINE a == Reservation(l.auth[t], source, l.current)
             A == [l.auth EXCEPT ![t] = a]
             q == HoldUnit(l.periods[l.current])
             P == IF source = "DAILY" THEN [l.periods EXCEPT ![l.current] = q] ELSE l.periods
             R == l.rewardReserved + (IF source = "REWARD" THEN 1 ELSE 0)
  <1>1. /\ l.auth \in [Tasks -> Authorization]
        /\ l.periods \in [PeriodIds -> Period]
        /\ l.current \in 0..MaxPeriods
        /\ l.rewardReserved \in Int
    BY DEF Ledger
  <1>2. l.auth[t] \in Authorization
    BY <1>1
  <1>3. /\ a \in Authorization
        /\ a.source = source /\ a.status = "RESERVED"
        /\ source = "DAILY" => a.period = l.current
        /\ a.pending = l.auth[t].pending
        /\ a.successful = l.auth[t].successful
    <2>1. clock + Hold \in Nat
      BY BoundsAssumption
    <2>2. (IF source = "DAILY" THEN l.current ELSE 0) \in 0..MaxPeriods
      BY <1>1, BoundsAssumption
    <2> DEFINE e == clock + Hold
               q2 == IF source = "DAILY" THEN l.current ELSE 0
    <2>3. a = [l.auth[t] EXCEPT !.source = source, !.status = "RESERVED",
                 !.expiresAt = e, !.period = q2]
      BY DEF Reservation
    <2>4. e \in Nat /\ q2 \in 0..MaxPeriods /\ (source = "DAILY" => q2 = l.current)
      BY <2>1, <2>2
    <2> HIDE DEF e, q2, a
    <2> QED
      BY <1>2, <2>3, <2>4 DEF Authorization, Statuses
  <1>4. ASSUME source = "DAILY"
        PROVE  /\ q \in Period
               /\ q.reserved = l.periods[l.current].reserved + 1
               /\ q.consumed = l.periods[l.current].consumed
    <2>1. l.periods[l.current] \in Period
      BY <1>1, <1>4 DEF HasUnit
    <2> QED
      BY <2>1 DEF Period, HoldUnit
  <1>5. R \in Int
    BY <1>1
  <1>6. Reserve(l, t, source) = [l EXCEPT !.auth = A, !.periods = P, !.rewardReserved = R]
    BY DEF Reserve
  <1> HIDE DEF a, q
  <1>7. /\ A \in [Tasks -> Authorization]
        /\ A[t] = a
        /\ \A u \in Tasks : u # t => A[u] = l.auth[u]
    BY <1>1, <1>3
  <1>8. /\ P \in [PeriodIds -> Period]
        /\ \A p \in PeriodIds :
             /\ P[p].consumed = l.periods[p].consumed
             /\ source = "DAILY" /\ p = l.current => P[p].reserved = l.periods[p].reserved + 1
             /\ source # "DAILY" \/ p # l.current => P[p].reserved = l.periods[p].reserved
    <2>1. CASE source = "DAILY"
      <3>1. l.current \in PeriodIds
        BY <2>1 DEF HasUnit
      <3>2. P = [l.periods EXCEPT ![l.current] = q]
        BY <2>1
      <3>3. P \in [PeriodIds -> Period] /\ P[l.current] = q
        BY <1>1, <1>4, <2>1, <3>1, <3>2
      <3>4. \A p \in PeriodIds : p # l.current => P[p] = l.periods[p]
        BY <1>1, <3>2
      <3> QED
        BY <1>4, <2>1, <3>3, <3>4
    <2>2. CASE source # "DAILY"
      BY <1>1, <2>2
    <2> QED
      BY <2>1, <2>2
  <1>9. /\ source = "REWARD" => R = l.rewardReserved + 1
        /\ source # "REWARD" => R = l.rewardReserved
    BY <1>1
  <1> HIDE DEF A, P, R
  <1>10. LET r == Reserve(l, t, source)
         IN  /\ r \in Ledger /\ r.auth = A /\ r.periods = P /\ r.rewardReserved = R
             /\ r.current = l.current /\ r.rewardBalance = l.rewardBalance
    BY <1>5, <1>6, <1>7, <1>8 DEF Ledger
  <1> QED
    BY <1>3, <1>7, <1>8, <1>9, <1>10 DEF ReservedFor

\* The pools after one task's authorization has changed.
LEMMA PoolsAfterReserve ==
  ASSUME NEW l, NEW r, NEW t \in Tasks, NEW source \in Sources,
         HoldsNoUnit(l, t), ReservedFor(l, r, t, source)
  PROVE  /\ \A p \in PeriodIds :
              /\ Daily(r.auth, "CONSUMED", p) = Daily(l.auth, "CONSUMED", p)
              /\ t \notin Daily(l.auth, "RESERVED", p)
              /\ source = "DAILY" /\ p = l.current =>
                   Daily(r.auth, "RESERVED", p) = Daily(l.auth, "RESERVED", p) \cup {t}
              /\ source # "DAILY" \/ p # l.current =>
                   Daily(r.auth, "RESERVED", p) = Daily(l.auth, "RESERVED", p)
         /\ Reward(r.auth, "CONSUMED") = Reward(l.auth, "CONSUMED")
         /\ t \notin Reward(l.auth, "RESERVED")
         /\ source = "REWARD" =>
              Reward(r.auth, "RESERVED") = Reward(l.auth, "RESERVED") \cup {t}
         /\ source # "REWARD" => Reward(r.auth, "RESERVED") = Reward(l.auth, "RESERVED")
  BY DEF HoldsNoUnit, ReservedFor, Daily, Reward

LEMMA ReservedGood ==
  ASSUME NEW l, NEW r, NEW n \in Int, Good(l, n), NEW t \in Tasks, NEW source \in Sources,
         HoldsNoUnit(l, t), HasUnit(l, source), ReservedFor(l, r, t, source)
  PROVE  Good(r, n)
  <1>1. l \in Ledger /\ r \in Ledger
    BY DEF Good, ReservedFor
  <1>2. ASSUME NEW D, IsFiniteSet(D), t \notin D
        PROVE  Cardinality(D \cup {t}) = Cardinality(D) + 1
    BY <1>2, FS_AddElement
  <1>3. ASSUME NEW p \in PeriodIds
        PROVE  /\ r.periods[p].reserved = Cardinality(Daily(r.auth, "RESERVED", p))
               /\ r.periods[p].consumed = Cardinality(Daily(r.auth, "CONSUMED", p))
               /\ r.periods[p].reserved + r.periods[p].consumed <= DailyLimit
    <2>1. /\ l.periods[p].reserved = Cardinality(Daily(l.auth, "RESERVED", p))
          /\ l.periods[p].consumed = Cardinality(Daily(l.auth, "CONSUMED", p))
          /\ l.periods[p].reserved + l.periods[p].consumed <= DailyLimit
      BY <1>3 DEF Good, Counted, Capped
    <2>2. l.periods[p].reserved \in Int /\ l.periods[p].consumed \in Int
      BY <1>1, <1>3 DEF Ledger, Period
    <2>3. r.periods[p].consumed = l.periods[p].consumed
      BY <1>3 DEF ReservedFor
    <2>4. CASE source = "DAILY" /\ p = l.current
      <3>1. r.periods[p].reserved = l.periods[p].reserved + 1
        BY <1>3, <2>4 DEF ReservedFor
      <3>2. Cardinality(Daily(r.auth, "RESERVED", p)) =
              Cardinality(Daily(l.auth, "RESERVED", p)) + 1
        <4> DEFINE D == Daily(l.auth, "RESERVED", p)
        <4>1. IsFiniteSet(D)
          BY PoolsFinite
        <4>2. t \notin D /\ Daily(r.auth, "RESERVED", p) = D \cup {t}
          BY <1>3, <2>4, PoolsAfterReserve
        <4> HIDE DEF D
        <4>3. Cardinality(D \cup {t}) = Cardinality(D) + 1
          BY <1>2, <4>1, <4>2
        <4> QED
          BY <4>2, <4>3 DEF D
      <3>3. Daily(r.auth, "CONSUMED", p) = Daily(l.auth, "CONSUMED", p)
        BY <1>3, PoolsAfterReserve
      <3>4. l.periods[p].consumed + l.periods[p].reserved < DailyLimit
        BY <2>4 DEF HasUnit
      <3> QED
        BY <2>1, <2>2, <2>3, <3>1, <3>2, <3>3, <3>4, BoundsAssumption
    <2>5. CASE source # "DAILY" \/ p # l.current
      <3>1. r.periods[p].reserved = l.periods[p].reserved
        BY <1>3, <2>5 DEF ReservedFor
      <3>2. /\ Daily(r.auth, "RESERVED", p) = Daily(l.auth, "RESERVED", p)
            /\ Daily(r.auth, "CONSUMED", p) = Daily(l.auth, "CONSUMED", p)
        BY <1>3, <2>5, PoolsAfterReserve
      <3> QED
        BY <2>1, <2>3, <3>1, <3>2
    <2> QED
      BY <2>4, <2>5
  <1>4. /\ r.rewardReserved = Cardinality(Reward(r.auth, "RESERVED"))
        /\ r.rewardBalance = n - Cardinality(Reward(r.auth, "CONSUMED"))
        /\ r.rewardReserved <= r.rewardBalance
    <2>1. /\ l.rewardReserved = Cardinality(Reward(l.auth, "RESERVED"))
          /\ l.rewardBalance = n - Cardinality(Reward(l.auth, "CONSUMED"))
          /\ l.rewardReserved <= l.rewardBalance
      BY DEF Good, Counted, Capped
    <2>2. l.rewardReserved \in Int /\ l.rewardBalance \in Int /\ r.rewardReserved \in Int
      BY <1>1 DEF Ledger
    <2>3. /\ r.rewardBalance = l.rewardBalance
          /\ Reward(r.auth, "CONSUMED") = Reward(l.auth, "CONSUMED")
      BY PoolsAfterReserve DEF ReservedFor
    <2>4. CASE source = "REWARD"
      <3>1. /\ r.rewardReserved = l.rewardReserved + 1
            /\ l.rewardBalance > l.rewardReserved
        BY <2>4 DEF ReservedFor, HasUnit
      <3>2. Cardinality(Reward(r.auth, "RESERVED")) = Cardinality(Reward(l.auth, "RESERVED")) + 1
        BY <1>2, <2>4, PoolsAfterReserve, PoolsFinite
      <3> QED
        BY <2>1, <2>2, <2>3, <3>1, <3>2
    <2>5. CASE source # "REWARD"
      BY <2>1, <2>3, <2>5, PoolsAfterReserve DEF ReservedFor
    <2> QED
      BY <2>4, <2>5
  <1>5. Placed(r)
    <2>1. ASSUME NEW u \in Tasks, r.auth[u].source = "DAILY"
          PROVE  r.auth[u].period \in 1..r.current
      <3>1. CASE u = t
        BY <1>1, <2>1, <3>1 DEF ReservedFor, HasUnit, PeriodIds, Ledger
      <3>2. CASE u # t
        BY <2>1, <3>2 DEF ReservedFor, Good, Placed
      <3> QED
        BY <3>1, <3>2
    <2> QED
      BY <2>1 DEF Placed
  <1>6. Backed(r)
    BY DEF Backed, ReservedFor, Good
  <1> QED
    BY <1>1, <1>3, <1>4, <1>5, <1>6 DEF Good, Counted, Capped

-----------------------------------------------------------------------------
(* completeSubmission(): a review in flight succeeds.                        *)

Held(l, t, source) == l.auth[t].status = "RESERVED" /\ l.auth[t].source = source

\* r is l after a successful review of t.
Charged(l, r, t) ==
  /\ r \in Ledger
  /\ r.current = l.current
  /\ \A u \in Tasks : u # t => r.auth[u] = l.auth[u]
  /\ r.auth[t].source = l.auth[t].source
  /\ r.auth[t].period = l.auth[t].period
  /\ r.auth[t].status = "CONSUMED"
  /\ r.auth[t].pending = l.auth[t].pending - 1
  /\ r.auth[t].successful = l.auth[t].successful + 1
  /\ \A p \in PeriodIds :
       /\ Held(l, t, "DAILY") /\ p = l.auth[t].period =>
            /\ r.periods[p].reserved = l.periods[p].reserved - 1
            /\ r.periods[p].consumed = l.periods[p].consumed + 1
       /\ ~Held(l, t, "DAILY") \/ p # l.auth[t].period => r.periods[p] = l.periods[p]
  /\ Held(l, t, "REWARD") => /\ r.rewardReserved = l.rewardReserved - 1
                             /\ r.rewardBalance = l.rewardBalance - 1
  /\ ~Held(l, t, "REWARD") => /\ r.rewardReserved = l.rewardReserved
                              /\ r.rewardBalance = l.rewardBalance

LEMMA SucceededShape ==
  ASSUME NEW a \in Authorization
  PROVE  LET b == Succeeded(a)
         IN  /\ b \in Authorization
             /\ b.source = a.source /\ b.period = a.period /\ b.status = "CONSUMED"
             /\ b.pending = a.pending - 1 /\ b.successful = a.successful + 1
  <1> DEFINE x == a.successful + 1
             y == a.pending - 1
  <1>1. x \in Int /\ y \in Int
    BY DEF Authorization
  <1>2. Succeeded(a) = [a EXCEPT !.status = "CONSUMED", !.successful = x, !.pending = y]
    BY DEF Succeeded
  <1> HIDE DEF x, y
  <1>3. /\ Succeeded(a) \in Authorization
        /\ Succeeded(a).source = a.source /\ Succeeded(a).period = a.period
        /\ Succeeded(a).status = "CONSUMED"
        /\ Succeeded(a).pending = y /\ Succeeded(a).successful = x
    BY <1>1, <1>2 DEF Authorization, Statuses
  <1> QED
    BY <1>3 DEF x, y

LEMMA SpendUnitShape ==
  ASSUME NEW q \in Period
  PROVE  /\ SpendUnit(q) \in Period
         /\ SpendUnit(q).reserved = q.reserved - 1
         /\ SpendUnit(q).consumed = q.consumed + 1
  <1> DEFINE x == q.reserved - 1
             y == q.consumed + 1
  <1>1. x \in Int /\ y \in Int
    BY DEF Period
  <1>2. SpendUnit(q) = [q EXCEPT !.reserved = x, !.consumed = y]
    BY DEF SpendUnit
  <1> HIDE DEF x, y
  <1>3. /\ SpendUnit(q) \in Period
        /\ SpendUnit(q).reserved = x /\ SpendUnit(q).consumed = y
    BY <1>1, <1>2 DEF Period
  <1> QED
    BY <1>3 DEF x, y

LEMMA ChargeShape ==
  ASSUME NEW l \in Ledger, NEW t \in Tasks, Placed(l)
  PROVE  Charged(l, Charge(l, t), t)
  <1> DEFINE a == Succeeded(l.auth[t])
             A == [l.auth EXCEPT ![t] = a]
             c == l.auth[t].period
             q == SpendUnit(l.periods[c])
             P == IF Held(l, t, "DAILY") THEN [l.periods EXCEPT ![c] = q] ELSE l.periods
             w == IF Held(l, t, "REWARD") THEN 1 ELSE 0
  <1>1. /\ l.auth \in [Tasks -> Authorization]
        /\ l.periods \in [PeriodIds -> Period]
        /\ l.current \in 0..MaxPeriods
        /\ l.rewardReserved \in Int /\ l.rewardBalance \in Int
    BY DEF Ledger
  <1>2. l.auth[t] \in Authorization
    BY <1>1
  <1>3. /\ a \in Authorization
        /\ a.source = l.auth[t].source /\ a.status = "CONSUMED"
        /\ a.period = l.auth[t].period
        /\ a.pending = l.auth[t].pending - 1
        /\ a.successful = l.auth[t].successful + 1
    BY <1>2, SucceededShape
  <1>4. ASSUME Held(l, t, "DAILY")
        PROVE  /\ c \in PeriodIds
               /\ q \in Period
               /\ q.reserved = l.periods[c].reserved - 1
               /\ q.consumed = l.periods[c].consumed + 1
    <2>1. c \in PeriodIds
      BY <1>1, <1>4, BoundsAssumption DEF Held, Placed, PeriodIds
    <2>2. l.periods[c] \in Period
      BY <1>1, <2>1
    <2> QED
      BY <2>1, <2>2, SpendUnitShape
  <1>5. w \in Int
    OBVIOUS
  <1>6. Charge(l, t) = [l EXCEPT !.auth = A, !.periods = P,
                          !.rewardReserved = l.rewardReserved - w,
                          !.rewardBalance = l.rewardBalance - w]
    BY DEF Charge, Held
  <1> HIDE DEF a, q
  <1>7. /\ A \in [Tasks -> Authorization]
        /\ A[t] = a
        /\ \A u \in Tasks : u # t => A[u] = l.auth[u]
    BY <1>1, <1>3
  <1>8. /\ P \in [PeriodIds -> Period]
        /\ \A p \in PeriodIds :
             /\ Held(l, t, "DAILY") /\ p = c =>
                  /\ P[p].reserved = l.periods[p].reserved - 1
                  /\ P[p].consumed = l.periods[p].consumed + 1
             /\ ~Held(l, t, "DAILY") \/ p # c => P[p] = l.periods[p]
    <2>1. CASE Held(l, t, "DAILY")
      <3>1. P = [l.periods EXCEPT ![c] = q]
        BY <2>1
      <3>2. P \in [PeriodIds -> Period] /\ P[c] = q
        BY <1>1, <1>4, <2>1, <3>1
      <3>3. \A p \in PeriodIds : p # c => P[p] = l.periods[p]
        BY <1>1, <3>1
      <3> QED
        BY <1>4, <2>1, <3>2, <3>3
    <2>2. CASE ~Held(l, t, "DAILY")
      BY <1>1, <2>2
    <2> QED
      BY <2>1, <2>2
  <1>9. /\ Held(l, t, "REWARD") => w = 1
        /\ ~Held(l, t, "REWARD") => w = 0
    OBVIOUS
  <1> HIDE DEF A, P, w
  <1> DEFINE R == l.rewardReserved - w
             B == l.rewardBalance - w
  <1>10. R \in Int /\ B \in Int
    BY <1>1, <1>5
  <1> HIDE DEF R, B
  <1>11. LET r == Charge(l, t)
         IN  /\ r \in Ledger /\ r.auth = A /\ r.periods = P /\ r.rewardReserved = R
             /\ r.current = l.current /\ r.rewardBalance = B
    BY <1>6, <1>7, <1>8, <1>10 DEF Ledger, R, B
  <1>12. /\ Held(l, t, "REWARD") => R = l.rewardReserved - 1 /\ B = l.rewardBalance - 1
         /\ ~Held(l, t, "REWARD") => R = l.rewardReserved /\ B = l.rewardBalance
    BY <1>1, <1>9 DEF R, B
  <1> QED
    BY <1>3, <1>7, <1>8, <1>11, <1>12 DEF Charged

\* The pools after a successful review of a task that has one in flight.
LEMMA PoolsAfterCharge ==
  ASSUME NEW l \in Ledger, NEW r, NEW t \in Tasks,
         Charged(l, r, t), Backed(l), l.auth[t].pending # 0
  PROVE  /\ \A p \in PeriodIds :
              /\ Held(l, t, "DAILY") /\ p = l.auth[t].period =>
                   /\ t \in Daily(l.auth, "RESERVED", p)
                   /\ t \notin Daily(l.auth, "CONSUMED", p)
                   /\ Daily(r.auth, "RESERVED", p) = Daily(l.auth, "RESERVED", p) \ {t}
                   /\ Daily(r.auth, "CONSUMED", p) = Daily(l.auth, "CONSUMED", p) \cup {t}
              /\ ~Held(l, t, "DAILY") \/ p # l.auth[t].period =>
                   /\ Daily(r.auth, "RESERVED", p) = Daily(l.auth, "RESERVED", p)
                   /\ Daily(r.auth, "CONSUMED", p) = Daily(l.auth, "CONSUMED", p)
         /\ Held(l, t, "REWARD") =>
              /\ t \in Reward(l.auth, "RESERVED")
              /\ t \notin Reward(l.auth, "CONSUMED")
              /\ Reward(r.auth, "RESERVED") = Reward(l.auth, "RESERVED") \ {t}
              /\ Reward(r.auth, "CONSUMED") = Reward(l.auth, "CONSUMED") \cup {t}
         /\ ~Held(l, t, "REWARD") =>
              /\ Reward(r.auth, "RESERVED") = Reward(l.auth, "RESERVED")
              /\ Reward(r.auth, "CONSUMED") = Reward(l.auth, "CONSUMED")
  <1>1. l.auth[t].source = "EXEMPT" \/ l.auth[t].status \in {"RESERVED", "CONSUMED"}
    BY DEF Backed, Ledger, Authorization, Statuses
  <1>2. ASSUME NEW p \in PeriodIds, Held(l, t, "DAILY"), p = l.auth[t].period
        PROVE  /\ t \in Daily(l.auth, "RESERVED", p)
               /\ t \notin Daily(l.auth, "CONSUMED", p)
               /\ Daily(r.auth, "RESERVED", p) = Daily(l.auth, "RESERVED", p) \ {t}
               /\ Daily(r.auth, "CONSUMED", p) = Daily(l.auth, "CONSUMED", p) \cup {t}
    BY <1>2 DEF Charged, Held, Daily
  <1>3. ASSUME NEW p \in PeriodIds, ~Held(l, t, "DAILY") \/ p # l.auth[t].period
        PROVE  /\ Daily(r.auth, "RESERVED", p) = Daily(l.auth, "RESERVED", p)
               /\ Daily(r.auth, "CONSUMED", p) = Daily(l.auth, "CONSUMED", p)
    BY <1>1, <1>3 DEF Charged, Held, Daily
  <1>4. ASSUME Held(l, t, "REWARD")
        PROVE  /\ t \in Reward(l.auth, "RESERVED")
               /\ t \notin Reward(l.auth, "CONSUMED")
               /\ Reward(r.auth, "RESERVED") = Reward(l.auth, "RESERVED") \ {t}
               /\ Reward(r.auth, "CONSUMED") = Reward(l.auth, "CONSUMED") \cup {t}
    BY <1>4 DEF Charged, Held, Reward
  <1>5. ASSUME ~Held(l, t, "REWARD")
        PROVE  /\ Reward(r.auth, "RESERVED") = Reward(l.auth, "RESERVED")
               /\ Reward(r.auth, "CONSUMED") = Reward(l.auth, "CONSUMED")
    BY <1>1, <1>5 DEF Charged, Held, Reward
  <1> QED
    BY <1>2, <1>3, <1>4, <1>5

\* One task leaves a finite pool and joins another.
LEMMA MoveOne ==
  ASSUME NEW D, NEW C, NEW t, IsFiniteSet(D), IsFiniteSet(C), t \in D, t \notin C
  PROVE  /\ Cardinality(D \ {t}) = Cardinality(D) - 1
         /\ Cardinality(C \cup {t}) = Cardinality(C) + 1
  BY FS_AddElement, FS_RemoveElement

LEMMA ChargedGood ==
  ASSUME NEW l, NEW r, NEW n \in Int, Good(l, n), NEW t \in Tasks,
         l.auth[t].pending # 0, Charged(l, r, t)
  PROVE  Good(r, n)
  <1>1. l \in Ledger /\ r \in Ledger /\ Backed(l)
    BY DEF Good, Charged
  <1>2. ASSUME NEW p \in PeriodIds
        PROVE  /\ r.periods[p].reserved = Cardinality(Daily(r.auth, "RESERVED", p))
               /\ r.periods[p].consumed = Cardinality(Daily(r.auth, "CONSUMED", p))
               /\ r.periods[p].reserved + r.periods[p].consumed <= DailyLimit
    <2>1. /\ l.periods[p].reserved = Cardinality(Daily(l.auth, "RESERVED", p))
          /\ l.periods[p].consumed = Cardinality(Daily(l.auth, "CONSUMED", p))
          /\ l.periods[p].reserved + l.periods[p].consumed <= DailyLimit
      BY <1>2 DEF Good, Counted, Capped
    <2>2. l.periods[p].reserved \in Int /\ l.periods[p].consumed \in Int
      BY <1>1, <1>2 DEF Ledger, Period
    <2>3. CASE Held(l, t, "DAILY") /\ p = l.auth[t].period
      <3> DEFINE D == Daily(l.auth, "RESERVED", p)
                 C == Daily(l.auth, "CONSUMED", p)
      <3>1. /\ r.periods[p].reserved = l.periods[p].reserved - 1
            /\ r.periods[p].consumed = l.periods[p].consumed + 1
        BY <1>2, <2>3 DEF Charged
      <3>2. /\ t \in D /\ t \notin C
            /\ Daily(r.auth, "RESERVED", p) = D \ {t}
            /\ Daily(r.auth, "CONSUMED", p) = C \cup {t}
        BY <1>1, <1>2, <2>3, PoolsAfterCharge
      <3>3. IsFiniteSet(D) /\ IsFiniteSet(C)
        BY PoolsFinite
      <3>4. l.periods[p].reserved = Cardinality(D) /\ l.periods[p].consumed = Cardinality(C)
        BY <2>1
      <3> HIDE DEF D, C
      <3>5. Cardinality(D \ {t}) = Cardinality(D) - 1 /\ Cardinality(C \cup {t}) = Cardinality(C) + 1
        BY <3>2, <3>3, MoveOne
      <3>6. r.periods[p].reserved + r.periods[p].consumed
              = l.periods[p].reserved + l.periods[p].consumed
        BY <2>2, <3>1
      <3>7. /\ r.periods[p].reserved = Cardinality(D \ {t})
            /\ r.periods[p].consumed = Cardinality(C \cup {t})
        BY <3>1, <3>4, <3>5
      <3> QED
        BY <2>1, <3>2, <3>6, <3>7
    <2>4. CASE ~Held(l, t, "DAILY") \/ p # l.auth[t].period
      <3>1. r.periods[p] = l.periods[p]
        BY <1>2, <2>4 DEF Charged
      <3>2. /\ Daily(r.auth, "RESERVED", p) = Daily(l.auth, "RESERVED", p)
            /\ Daily(r.auth, "CONSUMED", p) = Daily(l.auth, "CONSUMED", p)
        BY <1>1, <1>2, <2>4, PoolsAfterCharge
      <3> QED
        BY <2>1, <3>1, <3>2
    <2> QED
      BY <2>3, <2>4
  <1>3. /\ r.rewardReserved = Cardinality(Reward(r.auth, "RESERVED"))
        /\ r.rewardBalance = n - Cardinality(Reward(r.auth, "CONSUMED"))
        /\ r.rewardReserved <= r.rewardBalance
    <2> DEFINE D == Reward(l.auth, "RESERVED")
               C == Reward(l.auth, "CONSUMED")
    <2>1. /\ l.rewardReserved = Cardinality(D)
          /\ l.rewardBalance = n - Cardinality(C)
          /\ l.rewardReserved <= l.rewardBalance
      BY DEF Good, Counted, Capped
    <2>2. l.rewardReserved \in Int /\ l.rewardBalance \in Int
      BY <1>1 DEF Ledger
    <2>3. CASE Held(l, t, "REWARD")
      <3>1. /\ r.rewardReserved = l.rewardReserved - 1
            /\ r.rewardBalance = l.rewardBalance - 1
        BY <2>3 DEF Charged
      <3>2. /\ t \in D /\ t \notin C
            /\ Reward(r.auth, "RESERVED") = D \ {t}
            /\ Reward(r.auth, "CONSUMED") = C \cup {t}
        BY <1>1, <2>3, PoolsAfterCharge
      <3>3. IsFiniteSet(D) /\ IsFiniteSet(C) /\ Cardinality(C) \in Nat
        BY PoolsFinite
      <3> HIDE DEF D, C
      <3>4. Cardinality(D \ {t}) = Cardinality(D) - 1 /\ Cardinality(C \cup {t}) = Cardinality(C) + 1
        BY <3>2, <3>3, MoveOne
      <3>5. r.rewardReserved <= r.rewardBalance
        BY <2>1, <2>2, <3>1
      <3>6. /\ r.rewardReserved = Cardinality(D \ {t})
            /\ r.rewardBalance = n - Cardinality(C \cup {t})
        BY <2>1, <3>1, <3>3, <3>4
      <3> QED
        BY <3>2, <3>5, <3>6
    <2>4. CASE ~Held(l, t, "REWARD")
      <3>1. r.rewardReserved = l.rewardReserved /\ r.rewardBalance = l.rewardBalance
        BY <2>4 DEF Charged
      <3>2. Reward(r.auth, "RESERVED") = D /\ Reward(r.auth, "CONSUMED") = C
        BY <1>1, <2>4, PoolsAfterCharge
      <3> QED
        BY <2>1, <3>1, <3>2
    <2> QED
      BY <2>3, <2>4
  <1>4. Placed(r)
    BY DEF Placed, Charged, Good
  <1>5. Backed(r)
    BY DEF Backed, Charged, Good
  <1> QED
    BY <1>1, <1>2, <1>3, <1>4, <1>5 DEF Good, Counted, Capped

-----------------------------------------------------------------------------
(* Opening and returning review slots.                                       *)

\* r is l with another number of reviews of t in flight.
Repended(l, r, t, m) ==
  /\ r \in Ledger
  /\ r.current = l.current
  /\ r.periods = l.periods
  /\ r.rewardBalance = l.rewardBalance
  /\ r.rewardReserved = l.rewardReserved
  /\ \A u \in Tasks :
       /\ r.auth[u].source = l.auth[u].source
       /\ r.auth[u].status = l.auth[u].status
       /\ r.auth[u].period = l.auth[u].period
       /\ r.auth[u].expiresAt = l.auth[u].expiresAt
       /\ r.auth[u].successful = l.auth[u].successful
       /\ u # t => r.auth[u].pending = l.auth[u].pending
  /\ r.auth[t].pending = m

LEMMA WithPendingShape ==
  ASSUME NEW l \in Ledger, NEW t \in Tasks, NEW m \in Int
  PROVE  Repended(l, WithPending(l, t, m), t, m)
  <1> DEFINE a == [l.auth[t] EXCEPT !.pending = m]
             A == [l.auth EXCEPT ![t] = a]
  <1>1. l.auth \in [Tasks -> Authorization]
    BY DEF Ledger
  <1>2. l.auth[t] \in Authorization
    BY <1>1
  <1>3. /\ a \in Authorization
        /\ a.source = l.auth[t].source /\ a.status = l.auth[t].status
        /\ a.period = l.auth[t].period /\ a.expiresAt = l.auth[t].expiresAt
        /\ a.successful = l.auth[t].successful /\ a.pending = m
    BY <1>2 DEF Authorization
  <1>4. WithPending(l, t, m) = [l EXCEPT !.auth = A]
    BY DEF WithPending
  <1> HIDE DEF a
  <1>5. /\ A \in [Tasks -> Authorization]
        /\ A[t] = a
        /\ \A u \in Tasks : u # t => A[u] = l.auth[u]
    BY <1>1, <1>3
  <1> HIDE DEF A
  <1>6. LET r == WithPending(l, t, m)
        IN  /\ r \in Ledger /\ r.auth = A /\ r.periods = l.periods
            /\ r.rewardReserved = l.rewardReserved
            /\ r.current = l.current /\ r.rewardBalance = l.rewardBalance
    BY <1>4, <1>5 DEF Ledger
  <1>7. \A u \in Tasks :
          /\ A[u].source = l.auth[u].source
          /\ A[u].status = l.auth[u].status
          /\ A[u].period = l.auth[u].period
          /\ A[u].expiresAt = l.auth[u].expiresAt
          /\ A[u].successful = l.auth[u].successful
          /\ u # t => A[u].pending = l.auth[u].pending
    BY <1>3, <1>5
  <1> QED
    BY <1>3, <1>5, <1>6, <1>7 DEF Repended

LEMMA RependedGood ==
  ASSUME NEW l, NEW r, NEW n \in Int, Good(l, n), NEW t \in Tasks, NEW m \in Int,
         Repended(l, r, t, m),
         m # 0 => \/ l.auth[t].pending # 0
                  \/ l.auth[t].source = "EXEMPT"
                  \/ l.auth[t].status # "RELEASED"
  PROVE  Good(r, n)
  <1>1. /\ \A st, p : Daily(r.auth, st, p) = Daily(l.auth, st, p)
        /\ \A st : Reward(r.auth, st) = Reward(l.auth, st)
    BY DEF Repended, Daily, Reward
  <1>2. Counted(r, n) /\ Capped(r)
    BY <1>1 DEF Repended, Good, Counted, Capped
  <1>3. Placed(r)
    BY DEF Repended, Good, Placed
  <1>4. Backed(r)
    BY DEF Repended, Good, Backed
  <1> QED
    BY <1>2, <1>3, <1>4 DEF Repended, Good

-----------------------------------------------------------------------------
(* Whole transactions.                                                       *)

\* The review counters of every task are as they were.
SameSlots(l, r) ==
  \A u \in Tasks : /\ r.auth[u].pending = l.auth[u].pending
                   /\ r.auth[u].successful = l.auth[u].successful

LEMMA ReleaseKeeps ==
  ASSUME NEW l, NEW n \in Int, Good(l, n),
         NEW S \in SUBSET Tasks,
         \A t \in S : l.auth[t].status = "RESERVED" /\ l.auth[t].pending = 0
  PROVE  Good(Release(l, S), n) /\ SameSlots(l, Release(l, S))
  <1>1. l \in Ledger
    BY DEF Good
  <1>2. Released(l, S, Release(l, S))
    BY <1>1, ReleaseShape
  <1>3. SameSlots(l, Release(l, S))
    BY <1>2 DEF Released, SameSlots
  <1> QED
    BY <1>3, ReleaseGood

LEMMA ExpireKeeps ==
  ASSUME NEW l, NEW n \in Int, Good(l, n)
  PROVE  Good(Expire(l), n) /\ SameSlots(l, Expire(l))
  <1>1. Expired(l) \in SUBSET Tasks
    BY DEF Expired
  <1>2. \A t \in Expired(l) : l.auth[t].status = "RESERVED" /\ l.auth[t].pending = 0
    BY DEF Expired
  <1> QED
    BY <1>1, <1>2, ReleaseKeeps DEF Expire

LEMMA ChooseSourceHasUnit ==
  ASSUME NEW l \in Ledger, l.current >= 1, NEW t \in Tasks, ChooseSource(l, t) # "NONE"
  PROVE  ChooseSource(l, t) \in Sources /\ HasUnit(l, ChooseSource(l, t))
  <1>1. l.current \in PeriodIds
    BY BoundsAssumption DEF Ledger, PeriodIds
  <1> DEFINE free == l.periods[l.current].consumed + l.periods[l.current].reserved < DailyLimit
  <1>2. ChooseSource(l, t) =
          IF Exempt(t) THEN "EXEMPT"
          ELSE IF member THEN "MEMBER"
          ELSE IF free THEN "DAILY"
          ELSE IF l.rewardBalance > l.rewardReserved THEN "REWARD" ELSE "NONE"
    BY DEF ChooseSource, HasRoom
  <1>3. ChooseSource(l, t) = "DAILY" => free
    BY <1>2
  <1>4. ChooseSource(l, t) = "REWARD" => l.rewardBalance > l.rewardReserved
    BY <1>2
  <1>5. ChooseSource(l, t) \in Sources
    BY <1>2 DEF Sources
  <1> QED
    BY <1>1, <1>3, <1>4, <1>5 DEF HasUnit

LEMMA AuthorizeKeeps ==
  ASSUME NEW l, NEW n \in Int, Good(l, n), NEW t \in Tasks,
         clock \in 0..MaxTime, tz \in Timezones, Admits(l, t)
  PROVE  LET r == AuthorizeTask(l, t)
         IN  /\ Good(r, n)
             /\ SameSlots(l, r)
             /\ r.auth[t].source = "EXEMPT" \/ r.auth[t].status # "RELEASED"
  <1> DEFINE e == Expire(l)
             o == OpenPeriod(e)
             s == ChooseSource(o, t)
  <1>1. Good(e, n) /\ SameSlots(l, e)
    BY ExpireKeeps
  <1>2. CASE Stands(e.auth[t])
    <2>1. AuthorizeTask(l, t) = e
      BY <1>2 DEF AuthorizeTask
    <2>2. e.auth[t].source = "EXEMPT" \/ e.auth[t].status # "RELEASED"
      BY <1>2 DEF Stands
    <2> QED
      BY <1>1, <2>1, <2>2
  <1>3. CASE ~Stands(e.auth[t])
    <2>1. AuthorizeTask(l, t) = Reserve(o, t, s)
      BY <1>3 DEF AuthorizeTask
    <2>2. PeriodAvailable(e) /\ s # "NONE"
      BY <1>3 DEF Admits
    <2> HIDE DEF e
    <2>3. Good(o, n) /\ o.current >= 1 /\ o.auth = e.auth
      BY <1>1, <2>2, OpenPeriodGood
    <2>4. HoldsNoUnit(o, t)
      <3>1. e.auth[t].source \in Sources
        BY <1>1 DEF Good, Ledger, Authorization
      <3> QED
        BY <1>3, <2>3, <3>1 DEF HoldsNoUnit, Stands, Sources
    <2> HIDE DEF o
    <2>5. o \in Ledger
      BY <2>3 DEF Good
    <2>6. s \in Sources /\ HasUnit(o, s)
      BY <2>2, <2>3, <2>5, ChooseSourceHasUnit
    <2> HIDE DEF s
    <2>7. ReservedFor(o, Reserve(o, t, s), t, s)
      BY <2>5, <2>6, ReserveShape
    <2>8. Good(Reserve(o, t, s), n)
      BY <2>3, <2>4, <2>6, <2>7, ReservedGood
    <2>9. /\ SameSlots(e, Reserve(o, t, s))
          /\ Reserve(o, t, s).auth[t].status = "RESERVED"
      BY <2>3, <2>7 DEF ReservedFor, SameSlots
    <2> QED
      BY <1>1, <2>1, <2>8, <2>9 DEF SameSlots
  <1> QED
    BY <1>2, <1>3

LEMMA FailReviewsKeeps ==
  ASSUME NEW l, NEW n \in Int, Good(l, n), NEW t \in Tasks,
         NEW K, Cardinality(K) \in Nat, Cardinality(K) <= l.auth[t].pending
  PROVE  LET r == FailReviews(l, t, K)
         IN  /\ Good(r, n)
             /\ r.auth[t].pending = l.auth[t].pending - Cardinality(K)
             /\ r.auth[t].successful = l.auth[t].successful
             /\ \A u \in Tasks \ {t} : /\ r.auth[u].pending = l.auth[u].pending
                                       /\ r.auth[u].successful = l.auth[u].successful
  <1> DEFINE m == l.auth[t].pending - Cardinality(K)
             w == WithPending(l, t, m)
             S == {u \in {t} : /\ K # {}
                               /\ w.auth[u].pending = 0
                               /\ w.auth[u].status = "RESERVED"}
  <1>1. l \in Ledger /\ l.auth[t].pending \in Int
    BY DEF Good, Ledger, Authorization
  <1>2. m \in Int /\ (m # 0 => l.auth[t].pending # 0)
    BY <1>1
  <1>3. FailReviews(l, t, K) = Release(w, S)
    BY DEF FailReviews
  <1>4. S \in SUBSET Tasks /\ \A u \in S : w.auth[u].status = "RESERVED" /\ w.auth[u].pending = 0
    OBVIOUS
  <1> HIDE DEF m, S
  <1>5. Repended(l, w, t, m)
    BY <1>1, <1>2, WithPendingShape
  <1>6. Good(w, n)
    BY <1>2, <1>5, RependedGood
  <1> HIDE DEF w
  <1>7. Good(Release(w, S), n) /\ SameSlots(w, Release(w, S))
    BY <1>4, <1>6, ReleaseKeeps
  <1> QED
    BY <1>3, <1>5, <1>7 DEF Repended, SameSlots, m

-----------------------------------------------------------------------------
(* Submissions and the counters that summarise them.                         *)

\* SlotsMatch, of one ledger and one set of submissions.
Counts(l, s) ==
  \A t \in Tasks :
    /\ l.auth[t].pending = Cardinality(Submissions(s, t, "PENDING"))
    /\ l.auth[t].successful = Cardinality(Submissions(s, t, "SUCCEEDED"))

Shelf == [Tasks -> [Keys -> SubmissionStates]]

\* One submission changes its status: v is s with s[t][k] set to x.
SetOne(s, v, t, k, x) ==
  /\ v \in Shelf
  /\ v[t][k] = x
  /\ \A j \in Keys : j # k => v[t][j] = s[t][j]
  /\ \A u \in Tasks : u # t => v[u] = s[u]

LEMMA SetOneShape ==
  ASSUME NEW s \in Shelf, NEW t \in Tasks, NEW k \in Keys, NEW x \in SubmissionStates
  PROVE  SetOne(s, [s EXCEPT ![t][k] = x], t, k, x)
  <1> DEFINE f == [s[t] EXCEPT ![k] = x]
             r == [s EXCEPT ![t] = f]
  <1>1. s[t] \in [Keys -> SubmissionStates]
    BY DEF Shelf
  <1>2. /\ f \in [Keys -> SubmissionStates]
        /\ f[k] = x
        /\ \A j \in Keys : j # k => f[j] = s[t][j]
    BY <1>1
  <1>3. [s EXCEPT ![t][k] = x] = r
    BY DEF Shelf
  <1> HIDE DEF f
  <1>4. /\ r \in Shelf
        /\ r[t] = f
        /\ \A u \in Tasks : u # t => r[u] = s[u]
    BY <1>2 DEF Shelf
  <1> HIDE DEF r
  <1> QED
    BY <1>2, <1>3, <1>4 DEF SetOne

\* Some submissions in flight fail.
LEMMA FailAllCounts ==
  ASSUME TypeOK, NEW t \in Tasks, NEW K \in SUBSET Submissions(sub, t, "PENDING"),
         FailAll(K, t)
  PROVE  /\ sub' \in Shelf
         /\ Submissions(sub', t, "PENDING") = Submissions(sub, t, "PENDING") \ K
         /\ Submissions(sub', t, "SUCCEEDED") = Submissions(sub, t, "SUCCEEDED")
         /\ \A u \in Tasks \ {t} : \A st : Submissions(sub', u, st) = Submissions(sub, u, st)
  <1> DEFINE f == [k \in Keys |-> IF k \in K THEN "FAILED" ELSE sub[t][k]]
  <1>1. sub \in [Tasks -> [Keys -> SubmissionStates]] /\ sub' = [sub EXCEPT ![t] = f]
    BY DEF TypeOK, FailAll
  <1>2. f \in [Keys -> SubmissionStates]
    BY <1>1 DEF SubmissionStates
  <1>3. \A k \in Keys : /\ k \in K => f[k] = "FAILED"
                        /\ k \notin K => f[k] = sub[t][k]
    OBVIOUS
  <1> HIDE DEF f
  <1>4. /\ sub' \in Shelf
        /\ sub'[t] = f
        /\ \A u \in Tasks : u # t => sub'[u] = sub[u]
    BY <1>1, <1>2 DEF Shelf
  <1>5. \A k \in K : k \in Keys /\ sub[t][k] = "PENDING"
    BY DEF Submissions
  <1>6. Submissions(sub', t, "PENDING") = Submissions(sub, t, "PENDING") \ K
    BY <1>3, <1>4 DEF Submissions
  <1>7. Submissions(sub', t, "SUCCEEDED") = Submissions(sub, t, "SUCCEEDED")
    BY <1>3, <1>4, <1>5 DEF Submissions
  <1> QED
    BY <1>4, <1>6, <1>7 DEF Submissions

LEMMA FailedCounts ==
  ASSUME TypeOK, NEW t \in Tasks, NEW K \in SUBSET Submissions(sub, t, "PENDING"),
         FailAll(K, t), Counts(ledger, sub), NEW r,
         r.auth[t].pending = ledger.auth[t].pending - Cardinality(K),
         r.auth[t].successful = ledger.auth[t].successful,
         \A u \in Tasks \ {t} : /\ r.auth[u].pending = ledger.auth[u].pending
                              /\ r.auth[u].successful = ledger.auth[u].successful
  PROVE  Counts(r, sub')
  <1> DEFINE P == Submissions(sub, t, "PENDING")
  <1>1. IsFiniteSet(P)
    BY SlotsFinite
  <1>2. Cardinality(P \ K) = Cardinality(P) - Cardinality(K)
    <2>1. Cardinality(P \ K) = Cardinality(P) - Cardinality(P \cap K)
      BY <1>1, FS_Difference
    <2>2. P \cap K = K
      OBVIOUS
    <2> QED
      BY <2>1, <2>2
  <1>3. /\ Submissions(sub', t, "PENDING") = P \ K
        /\ Submissions(sub', t, "SUCCEEDED") = Submissions(sub, t, "SUCCEEDED")
        /\ \A u \in Tasks \ {t} : \A st : Submissions(sub', u, st) = Submissions(sub, u, st)
    BY FailAllCounts
  <1>4. /\ ledger.auth[t].pending = Cardinality(P)
        /\ ledger.auth[t].successful = Cardinality(Submissions(sub, t, "SUCCEEDED"))
    BY DEF Counts
  <1>5. /\ r.auth[t].pending = Cardinality(Submissions(sub', t, "PENDING"))
        /\ r.auth[t].successful = Cardinality(Submissions(sub', t, "SUCCEEDED"))
    <2> HIDE DEF P
    <2> QED
      BY <1>2, <1>3, <1>4
  <1>6. ASSUME NEW u \in Tasks \ {t}
        PROVE  /\ r.auth[u].pending = Cardinality(Submissions(sub', u, "PENDING"))
               /\ r.auth[u].successful = Cardinality(Submissions(sub', u, "SUCCEEDED"))
    BY <1>3, <1>6 DEF Counts
  <1> QED
    BY <1>5, <1>6 DEF Counts

-----------------------------------------------------------------------------
(* IInv is inductive.                                                        *)

LEMMA InitIInv == Init => IInv
  <1> SUFFICES ASSUME Init PROVE IInv
    OBVIOUS
  <1>1. NoAuthorization \in Authorization
    BY BoundsAssumption DEF NoAuthorization, Authorization, Sources, Statuses
  <1>2. NoPeriod(tz) \in Period
    BY DEF NoPeriod, Period, Init
  <1>3. ledger \in Ledger
    BY <1>1, <1>2, BoundsAssumption DEF Init, Ledger
  <1>4. TypeOK
    BY <1>3, TasksAssumption, BoundsAssumption
      DEF TypeOK, Init, PracticeStates, SubmissionStates
  <1>5. /\ \A st, p : Daily(ledger.auth, st, p) = {}
        /\ \A st : Reward(ledger.auth, st) = {}
    BY DEF Init, Daily, Reward, NoAuthorization
  <1>6. /\ \A p \in PeriodIds : ledger.periods[p].reserved = 0 /\ ledger.periods[p].consumed = 0
        /\ ledger.rewardReserved = 0 /\ ledger.rewardBalance = 0 /\ earned = 0
    BY DEF Init, NoPeriod
  <1>7. Counted(ledger, earned) /\ Capped(ledger)
    <2>1. Cardinality({}) = 0
      BY FS_EmptySet
    <2>2. \A p \in PeriodIds :
            /\ ledger.periods[p].reserved = Cardinality(Daily(ledger.auth, "RESERVED", p))
            /\ ledger.periods[p].consumed = Cardinality(Daily(ledger.auth, "CONSUMED", p))
            /\ ledger.periods[p].reserved + ledger.periods[p].consumed <= DailyLimit
      <3>1. \A p \in PeriodIds :
              /\ Daily(ledger.auth, "RESERVED", p) = {} /\ Daily(ledger.auth, "CONSUMED", p) = {}
              /\ ledger.periods[p].reserved = 0 /\ ledger.periods[p].consumed = 0
        BY <1>5, <1>6
      <3>2. 0 + 0 <= DailyLimit
        BY BoundsAssumption
      <3> QED
        BY <2>1, <3>1, <3>2
    <2>3. /\ ledger.rewardReserved = Cardinality(Reward(ledger.auth, "RESERVED"))
          /\ ledger.rewardBalance = earned - Cardinality(Reward(ledger.auth, "CONSUMED"))
          /\ ledger.rewardReserved <= ledger.rewardBalance
      BY <1>5, <1>6, <2>1
    <2> QED
      BY <2>2, <2>3 DEF Counted, Capped
  <1>8. Placed(ledger) /\ Backed(ledger)
    BY DEF Init, NoAuthorization, Placed, Backed
  <1>9. \A t \in Tasks : \A st \in {"PENDING", "SUCCEEDED"} : Submissions(sub, t, st) = {}
    BY DEF Init, Submissions
  <1>10. SlotsMatch
    <2>1. \A t \in Tasks : ledger.auth[t].pending = 0 /\ ledger.auth[t].successful = 0
      BY DEF Init, NoAuthorization
    <2> QED
      BY <1>9, <2>1, FS_EmptySet DEF SlotsMatch
  <1> QED
    BY <1>3, <1>4, <1>7, <1>8, <1>10 DEF IInv, Good

LEMMA CountsSlots == SlotsMatch <=> Counts(ledger, sub)
  BY DEF SlotsMatch, Counts

\* Every action that keeps the rest of the state in range and its ledger good.
LEMMA NextIInv == IInv /\ [Next]_vars => IInv'
  <1> SUFFICES ASSUME IInv, [Next]_vars PROVE IInv'
    OBVIOUS
  <1>1. /\ TypeOK /\ Good(ledger, earned) /\ Counts(ledger, sub)
        /\ clock \in 0..MaxTime /\ tz \in Timezones /\ earned \in Int
        /\ sub \in Shelf /\ practice \in [Tasks -> PracticeStates]
    BY CountsSlots, BoundsAssumption DEF IInv, TypeOK, Shelf
  <1>2. ASSUME /\ clock' \in 0..MaxTime /\ tz' \in Timezones
               /\ member' \in BOOLEAN /\ enforced' \in BOOLEAN
               /\ practice' \in [Tasks -> PracticeStates]
               /\ sub' \in Shelf /\ earned' \in 0..MaxRewards
               /\ Good(ledger', earned')
               /\ Counts(ledger', sub')
        PROVE  IInv'
    BY <1>2 DEF IInv, TypeOK, Shelf, Good, SlotsMatch, Counts
  <1>3. ASSUME NEW t \in Tasks, StartTask(t)
        PROVE  IInv'
    <2>1. /\ Good(AuthorizeTask(ledger, t), earned)
          /\ SameSlots(ledger, AuthorizeTask(ledger, t))
      BY <1>1, <1>3, AuthorizeKeeps DEF StartTask
    <2>2. practice' \in [Tasks -> PracticeStates]
      BY <1>1, <1>3 DEF StartTask, PracticeOpened, PracticeStates
    <2>3. Counts(ledger', sub')
      BY <1>1, <1>3, <2>1 DEF StartTask, SameSlots, Counts
    <2> QED
      BY <1>1, <1>2, <1>3, <2>1, <2>2, <2>3 DEF StartTask, TypeOK
  <1>4. ASSUME NEW t \in Tasks, NEW k \in Keys, Submit(t, k)
        PROVE  IInv'
    <2> DEFINE l == AuthorizeTask(ledger, t)
               m == l.auth[t].pending + 1
               P == Submissions(sub, t, "PENDING")
    <2>1. /\ Good(l, earned) /\ SameSlots(ledger, l)
          /\ l.auth[t].source = "EXEMPT" \/ l.auth[t].status # "RELEASED"
      BY <1>1, <1>4, AuthorizeKeeps DEF Submit
    <2>2. ledger' = WithPending(l, t, m)
      BY <1>4 DEF Submit
    <2>3. sub' = [sub EXCEPT ![t][k] = "PENDING"] /\ sub[t][k] \in {"NONE", "FAILED"}
      BY <1>4 DEF Submit
    <2> HIDE DEF l
    <2>4. l \in Ledger /\ m \in Int
      BY <2>1 DEF Good, Ledger, Authorization
    <2> HIDE DEF m
    <2>5. Repended(l, ledger', t, m)
      BY <2>2, <2>4, WithPendingShape
    <2>6. Good(ledger', earned)
      BY <1>1, <2>1, <2>4, <2>5, RependedGood
    <2>7. /\ sub' \in Shelf
          /\ Submissions(sub', t, "PENDING") = P \cup {k}
          /\ Submissions(sub', t, "SUCCEEDED") = Submissions(sub, t, "SUCCEEDED") \ {k}
          /\ \A u \in Tasks \ {t} : \A st : Submissions(sub', u, st) = Submissions(sub, u, st)
      <3>1. "PENDING" \in SubmissionStates
        BY DEF SubmissionStates
      <3>2. SetOne(sub, [sub EXCEPT ![t][k] = "PENDING"], t, k, "PENDING")
        BY <1>1, <3>1, SetOneShape, Zenon
      <3>3. SetOne(sub, sub', t, k, "PENDING")
        BY <2>3, <3>2
      <3> QED
        BY <3>3 DEF SetOne, Submissions
    <2>8. k \notin P /\ k \notin Submissions(sub, t, "SUCCEEDED")
      BY <2>3 DEF Submissions
    <2>9. Submissions(sub', t, "SUCCEEDED") = Submissions(sub, t, "SUCCEEDED")
      BY <2>7, <2>8
    <2>10. IsFiniteSet(P)
      BY SlotsFinite
    <2> HIDE DEF P
    <2>11. Cardinality(P \cup {k}) = Cardinality(P) + 1
      BY <2>8, <2>10, FS_AddElement
    <2>12. m = Cardinality(P) + 1
      BY <1>1, <2>1 DEF m, P, SameSlots, Counts
    <2>13. Counts(ledger', sub')
      <3>1. /\ ledger'.auth[t].pending = Cardinality(Submissions(sub', t, "PENDING"))
            /\ ledger'.auth[t].successful = Cardinality(Submissions(sub', t, "SUCCEEDED"))
        <4>1. ledger'.auth[t].pending = m /\ ledger'.auth[t].successful = l.auth[t].successful
          BY <2>5 DEF Repended
        <4>2. l.auth[t].successful = Cardinality(Submissions(sub, t, "SUCCEEDED"))
          BY <1>1, <2>1 DEF Counts, SameSlots
        <4>3. m = Cardinality(Submissions(sub', t, "PENDING"))
          BY <2>7, <2>11, <2>12
        <4> QED
          BY <2>9, <4>1, <4>2, <4>3
      <3>2. ASSUME NEW u \in Tasks \ {t}
            PROVE  /\ ledger'.auth[u].pending = Cardinality(Submissions(sub', u, "PENDING"))
                   /\ ledger'.auth[u].successful = Cardinality(Submissions(sub', u, "SUCCEEDED"))
        <4>1. /\ ledger'.auth[u].pending = ledger.auth[u].pending
              /\ ledger'.auth[u].successful = ledger.auth[u].successful
          BY <2>1, <2>5, <3>2 DEF SameSlots, Repended
        <4> QED
          BY <1>1, <2>7, <3>2, <4>1 DEF Counts
      <3> QED
        BY <3>1, <3>2 DEF Counts
    <2>14. practice' \in [Tasks -> PracticeStates]
      BY <1>1, <1>4 DEF Submit, PracticeStates
    <2> QED
      BY <1>1, <1>2, <1>4, <2>6, <2>7, <2>13, <2>14 DEF Submit, TypeOK
  <1>5. ASSUME NEW t \in Tasks, NEW k \in Keys, Complete(t, k)
        PROVE  IInv'
    <2> DEFINE P == Submissions(sub, t, "PENDING")
               Q == Submissions(sub, t, "SUCCEEDED")
    <2>1. /\ ledger' = Charge(ledger, t)
          /\ sub' = [sub EXCEPT ![t][k] = "SUCCEEDED"] /\ sub[t][k] = "PENDING"
      BY <1>5 DEF Complete
    <2>2. Charged(ledger, ledger', t)
      BY <1>1, <2>1, ChargeShape DEF Good
    <2>3. k \in P /\ k \notin Q
      BY <2>1 DEF Submissions
    <2>4. /\ IsFiniteSet(P) /\ IsFiniteSet(Q)
          /\ Cardinality(P) \in Nat /\ Cardinality(Q) \in Nat
      BY SlotsFinite
    <2>5. /\ sub' \in Shelf
          /\ Submissions(sub', t, "PENDING") = P \ {k}
          /\ Submissions(sub', t, "SUCCEEDED") = Q \cup {k}
          /\ \A u \in Tasks \ {t} : \A st : Submissions(sub', u, st) = Submissions(sub, u, st)
      <3>1. "SUCCEEDED" \in SubmissionStates
        BY DEF SubmissionStates
      <3>2. SetOne(sub, [sub EXCEPT ![t][k] = "SUCCEEDED"], t, k, "SUCCEEDED")
        BY <1>1, <3>1, SetOneShape, Zenon
      <3>3. SetOne(sub, sub', t, k, "SUCCEEDED")
        BY <2>1, <3>2
      <3> QED
        BY <3>3 DEF SetOne, Submissions
    <2>6. ledger.auth[t].pending = Cardinality(P) /\ ledger.auth[t].successful = Cardinality(Q)
      BY <1>1 DEF Counts
    <2> HIDE DEF P, Q
    <2>7. /\ Cardinality(P \ {k}) = Cardinality(P) - 1
          /\ Cardinality(Q \cup {k}) = Cardinality(Q) + 1
      BY <2>3, <2>4, MoveOne
    <2>8. Cardinality(P) # 0
      BY <2>3, <2>4, FS_EmptySet
    <2>9. Good(ledger', earned)
      BY <1>1, <2>2, <2>6, <2>8, ChargedGood
    <2>10. Counts(ledger', sub')
      <3>1. /\ ledger'.auth[t].pending = Cardinality(Submissions(sub', t, "PENDING"))
            /\ ledger'.auth[t].successful = Cardinality(Submissions(sub', t, "SUCCEEDED"))
        BY <2>2, <2>5, <2>6, <2>7 DEF Charged
      <3>2. ASSUME NEW u \in Tasks \ {t}
            PROVE  /\ ledger'.auth[u].pending = Cardinality(Submissions(sub', u, "PENDING"))
                   /\ ledger'.auth[u].successful = Cardinality(Submissions(sub', u, "SUCCEEDED"))
        BY <1>1, <2>2, <2>5, <3>2 DEF Counts, Charged
      <3> QED
        BY <3>1, <3>2 DEF Counts
    <2>11. practice' \in [Tasks -> PracticeStates]
      BY <1>1, <1>5 DEF Complete, PracticeStates
    <2> QED
      BY <1>1, <1>2, <1>5, <2>5, <2>9, <2>10, <2>11 DEF Complete, TypeOK
  <1>6. ASSUME NEW t \in Tasks, NEW K \in SUBSET Submissions(sub, t, "PENDING")
        PROVE  LET r == FailReviews(ledger, t, K)
               IN  /\ Good(r, earned)
                   /\ FailAll(K, t) => Counts(r, sub') /\ sub' \in Shelf
    <2> DEFINE P == Submissions(sub, t, "PENDING")
    <2>1. IsFiniteSet(P) /\ ledger.auth[t].pending = Cardinality(P)
      BY <1>1, SlotsFinite DEF Counts
    <2>2. Cardinality(K) \in Nat /\ Cardinality(K) <= Cardinality(P)
      BY <1>6, <2>1, FS_Subset, FS_CardinalityType
    <2>3. Cardinality(K) <= ledger.auth[t].pending
      BY <2>1, <2>2
    <2> QED
      BY <1>1, <1>6, <2>2, <2>3, FailReviewsKeeps, FailedCounts, FailAllCounts
  <1>7. ASSUME NEW t \in Tasks, NEW k \in Keys, FailReview(t, k)
        PROVE  IInv'
    <2>1. {k} \in SUBSET Submissions(sub, t, "PENDING")
      BY <1>7 DEF FailReview, Submissions
    <2>2. ledger' = FailReviews(ledger, t, {k}) /\ FailAll({k}, t)
      BY <1>7 DEF FailReview
    <2>3. Good(ledger', earned) /\ Counts(ledger', sub') /\ sub' \in Shelf
      BY <1>6, <2>1, <2>2
    <2>4. practice' \in [Tasks -> PracticeStates]
      <3>1. CASE UNCHANGED practice
        BY <1>1, <3>1
      <3>2. CASE practice' = [practice EXCEPT ![t] = "FAILED"]
        BY <1>1, <3>2 DEF PracticeStates
      <3> QED
        BY <1>7, <3>1, <3>2 DEF FailReview
    <2> QED
      BY <1>1, <1>2, <1>7, <2>3, <2>4 DEF FailReview, TypeOK
  <1>8. ASSUME NEW t \in Tasks, FailPractice(t)
        PROVE  IInv'
    <2> DEFINE K == Submissions(sub, t, "PENDING")
               l == FailReviews(ledger, t, K)
               S == {u \in {t} : l.auth[u].pending = 0 /\ l.auth[u].status = "RESERVED"}
    <2>1. ledger' = Release(l, S) /\ FailAll(K, t)
      BY <1>8 DEF FailPractice
    <2>2. Good(l, earned) /\ Counts(l, sub') /\ sub' \in Shelf
      BY <1>6, <2>1
    <2>3. S \in SUBSET Tasks /\ \A u \in S : l.auth[u].status = "RESERVED" /\ l.auth[u].pending = 0
      OBVIOUS
    <2> HIDE DEF l, S
    <2>4. Good(ledger', earned) /\ SameSlots(l, ledger')
      BY <1>1, <2>1, <2>2, <2>3, ReleaseKeeps
    <2>5. Counts(ledger', sub')
      BY <2>2, <2>4 DEF SameSlots, Counts
    <2>6. practice' \in [Tasks -> PracticeStates]
      BY <1>1, <1>8 DEF FailPractice, PracticeStates
    <2> QED
      BY <1>1, <1>2, <1>8, <2>2, <2>4, <2>5, <2>6 DEF FailPractice, TypeOK
  <1>9. ASSUME NEW t \in Tasks, Reconcile(t)
        PROVE  IInv'
    <2> DEFINE K == Orphaned(t)
               l == FailReviews(ledger, t, K)
    <2>1. K \in SUBSET Submissions(sub, t, "PENDING")
      BY DEF Orphaned, Submissions
    <2>2. ledger' = Expire(l) /\ FailAll(K, t)
      BY <1>9 DEF Reconcile
    <2>3. Good(l, earned) /\ Counts(l, sub') /\ sub' \in Shelf
      BY <1>6, <2>1, <2>2
    <2> HIDE DEF l
    <2>4. Good(ledger', earned) /\ SameSlots(l, ledger')
      BY <1>1, <2>2, <2>3, ExpireKeeps
    <2>5. Counts(ledger', sub')
      BY <2>3, <2>4 DEF SameSlots, Counts
    <2> QED
      BY <1>1, <1>2, <1>9, <2>3, <2>4, <2>5 DEF Reconcile, TypeOK
  <1>10. ASSUME Summary PROVE IInv'
    <2>1. Good(ledger', earned) /\ ledger'.auth = ledger.auth
      BY <1>1, <1>10, OpenPeriodGood DEF Summary
    <2>2. Counts(ledger', sub')
      BY <1>1, <1>10, <2>1 DEF Summary, Counts
    <2> QED
      BY <1>1, <1>2, <1>10, <2>1, <2>2 DEF Summary, TypeOK
  <1>11. ASSUME EarnReward PROVE IInv'
    <2> DEFINE b == ledger.rewardBalance + 1
    <2>1. ledger \in Ledger /\ ledger.rewardBalance \in Int /\ ledger.rewardReserved \in Int
      BY <1>1 DEF Good, Ledger
    <2>2. b \in Int /\ ledger' = [ledger EXCEPT !.rewardBalance = b]
      BY <1>11, <2>1 DEF EarnReward
    <2>3. b = ledger.rewardBalance + 1
      OBVIOUS
    <2> HIDE DEF b
    <2>4. /\ ledger' \in Ledger /\ ledger'.rewardBalance = b
          /\ ledger'.auth = ledger.auth /\ ledger'.periods = ledger.periods
          /\ ledger'.current = ledger.current
          /\ ledger'.rewardReserved = ledger.rewardReserved
      BY <2>1, <2>2 DEF Ledger
    <2>5. Placed(ledger') /\ Backed(ledger')
      BY <1>1, <2>4 DEF Good, Placed, Backed
    <2>6. earned' = earned + 1 /\ earned' \in 0..MaxRewards
      BY <1>1, <1>11, BoundsAssumption DEF EarnReward, TypeOK
    <2>7. Cardinality(Reward(ledger.auth, "CONSUMED")) \in Nat
      BY PoolsFinite
    <2>8. /\ ledger.rewardBalance = earned - Cardinality(Reward(ledger.auth, "CONSUMED"))
          /\ ledger.rewardReserved <= ledger.rewardBalance
      BY <1>1 DEF Good, Counted, Capped
    <2>9. /\ b = earned' - Cardinality(Reward(ledger.auth, "CONSUMED"))
          /\ ledger.rewardReserved <= b
      BY <1>1, <2>1, <2>3, <2>6, <2>7, <2>8
    <2>10. Counted(ledger', earned')
      BY <1>1, <2>4, <2>9 DEF Good, Counted
    <2>11. Capped(ledger')
      BY <1>1, <2>4, <2>9 DEF Good, Capped
    <2>12. Counts(ledger', sub')
      BY <1>1, <1>11, <2>4 DEF EarnReward, Counts
    <2> QED
      BY <1>1, <1>2, <1>11, <2>4, <2>5, <2>6, <2>10, <2>11, <2>12 DEF EarnReward, TypeOK, Good
  <1>12. ASSUME Tick PROVE IInv'
    BY <1>1, <1>2, <1>12, BoundsAssumption DEF Tick, TypeOK
  <1>13. ASSUME ChangeTimezone PROVE IInv'
    BY <1>1, <1>2, <1>13 DEF ChangeTimezone, TypeOK
  <1>14. ASSUME ChangeMembership PROVE IInv'
    BY <1>1, <1>2, <1>14, TasksAssumption DEF ChangeMembership, TypeOK
  <1>15. ASSUME ChangeEnforcement PROVE IInv'
    BY <1>1, <1>2, <1>15, TasksAssumption DEF ChangeEnforcement, TypeOK
  <1>16. ASSUME NEW t \in Tasks, PracticeMoves(t) PROVE IInv'
    <2>1. practice' \in [Tasks -> PracticeStates]
      BY <1>1, <1>16 DEF PracticeMoves, PracticeStates
    <2> QED
      BY <1>1, <1>2, <1>16, <2>1 DEF PracticeMoves, TypeOK
  <1>17. ASSUME UNCHANGED vars PROVE IInv'
    BY <1>1, <1>2, <1>17 DEF vars, TypeOK
  <1> QED
    BY <1>3, <1>4, <1>5, <1>7, <1>8, <1>9, <1>10, <1>11, <1>12, <1>13, <1>14, <1>15, <1>16, <1>17
      DEF Next

-----------------------------------------------------------------------------
(* What the invariant gives.                                                 *)

LEMMA IInvGives == IInv => LedgerBalanced /\ WithinAllowance /\ ReviewHoldsItsUnit
  <1> SUFFICES ASSUME IInv PROVE LedgerBalanced /\ WithinAllowance /\ ReviewHoldsItsUnit
    OBVIOUS
  <1>1. Good(ledger, earned) /\ SlotsMatch /\ earned \in Int
    BY BoundsAssumption DEF IInv, TypeOK
  <1>2. LedgerBalanced
    BY <1>1 DEF Good, Counted, LedgerBalanced, PeriodsBalanced, RewardsBalanced
  <1>3. WithinAllowance
    <2>1. \A p \in PeriodIds :
            Cardinality(Daily(ledger.auth, "RESERVED", p))
              + Cardinality(Daily(ledger.auth, "CONSUMED", p)) <= DailyLimit
      BY <1>1 DEF Good, Counted, Capped
    <2> DEFINE D == Reward(ledger.auth, "RESERVED")
               C == Reward(ledger.auth, "CONSUMED")
    <2>2. /\ IsFiniteSet(D) /\ IsFiniteSet(C)
          /\ Cardinality(D) \in Nat /\ Cardinality(C) \in Nat
      BY PoolsFinite
    <2>3. D \cap C = {}
      BY DEF Reward
    <2>4. Cardinality(D) <= earned - Cardinality(C)
      BY <1>1 DEF Good, Counted, Capped
    <2> HIDE DEF D, C
    <2>5. Cardinality(D \cup C) = Cardinality(D) + Cardinality(C)
      <3>1. Cardinality(D \cup C) = Cardinality(D) + Cardinality(C) - Cardinality(D \cap C)
        BY <2>2, FS_Union
      <3>2. Cardinality(D \cap C) = 0
        BY <2>3, FS_EmptySet
      <3> QED
        BY <2>2, <3>1, <3>2
    <2>6. Cardinality(D \cup C) <= earned
      BY <1>1, <2>2, <2>4, <2>5
    <2> QED
      BY <2>1, <2>6 DEF WithinAllowance, D, C
  <1>4. ReviewHoldsItsUnit
    <2>1. ASSUME NEW t \in Tasks, Submissions(sub, t, "PENDING") # {}
          PROVE  ledger.auth[t].pending # 0
      BY <1>1, <2>1, SlotsFinite, FS_EmptySet DEF SlotsMatch
    <2> QED
      BY <1>1, <2>1 DEF ReviewHoldsItsUnit, Good, Backed
  <1> QED
    BY <1>2, <1>3, <1>4

LEMMA Invariance == Spec => []IInv
  BY InitIInv, NextIInv, PTL DEF Spec

\* Every reachable state is well typed.
THEOREM TypeCorrect == Spec => []TypeOK
  <1>1. IInv => TypeOK
    BY DEF IInv
  <1> QED
    BY <1>1, Invariance, PTL

\* The counters on periods and accounts never drift from the authorizations they
\* summarise, and the reward balance is what was earned less what was spent.
THEOREM Conservation == Spec => []LedgerBalanced
  BY IInvGives, Invariance, PTL

\* No sequence of reservations, expiries, membership changes and period changes
\* admits more than DailyLimit tasks in a period or spends a reward twice.
THEOREM NeverOverdrawn == Spec => []WithinAllowance
  BY IInvGives, Invariance, PTL

\* The review counters agree with the submissions.
THEOREM SlotsAgree == Spec => []SlotsMatch
  <1>1. IInv => SlotsMatch
    BY DEF IInv
  <1> QED
    BY <1>1, Invariance, PTL

\* A task with a review in flight keeps its unit.
THEOREM ReviewsAreBacked == Spec => []ReviewHoldsItsUnit
  BY IInvGives, Invariance, PTL
-----------------------------------------------------------------------------
(* The calendar.  Periods end where a local day of their own timezone does   *)
(* (Aligned), which is what keeps the next one a day away, in whatever       *)
(* timezone it is opened.                                                    *)

Spaced(l) ==
  \A p \in 1..(l.current - 1) :
    /\ l.periods[p + 1].startsAt >= l.periods[p].endsAt
    /\ l.periods[p + 1].endsAt >= l.periods[p].endsAt + MinDay

Aligned(l) ==
  l.current # 0 =>
    LET last == l.periods[l.current]
    IN  \E s \in Instants : last.endsAt = NextMidnight[last.timezone][s]

Dated(l) == Spaced(l) /\ Aligned(l)

\* r has the periods of l, with other counters perhaps.
SameDates(l, r) ==
  /\ r.current = l.current
  /\ \A p \in PeriodIds : /\ r.periods[p].timezone = l.periods[p].timezone
                          /\ r.periods[p].startsAt = l.periods[p].startsAt
                          /\ r.periods[p].endsAt = l.periods[p].endsAt

LEMMA SameDatesDated ==
  ASSUME NEW l \in Ledger, NEW r, SameDates(l, r), Dated(l)
  PROVE  Dated(r)
  <1>1. l.current \in 0..MaxPeriods /\ r.current = l.current
    BY DEF Ledger, SameDates
  <1>2. \A p \in 1..(l.current - 1) : p \in PeriodIds /\ p + 1 \in PeriodIds
    BY <1>1, BoundsAssumption DEF PeriodIds
  <1>3. Spaced(r)
    BY <1>1, <1>2 DEF SameDates, Dated, Spaced
  <1>4. l.current # 0 => l.current \in PeriodIds
    BY <1>1, BoundsAssumption DEF PeriodIds
  <1>5. Aligned(r)
    BY <1>1, <1>4 DEF SameDates, Dated, Aligned
  <1> QED
    BY <1>3, <1>5 DEF Dated

\* The arithmetic of period(): whichever zone the learner is in now, the new end is
\* a local day after the old one.
LEMMA PeriodEndLater ==
  ASSUME NEW l \in Ledger, clock \in 0..MaxTime, tz \in Timezones, Aligned(l), l.current # 0,
         clock >= l.periods[l.current].endsAt
  PROVE  PeriodEnd(l) >= l.periods[l.current].endsAt + MinDay
  <1> DEFINE last == l.periods[l.current]
             old  == last.timezone
             end  == NextMidnight[tz][clock]
  <1>1. l.current \in PeriodIds
    BY BoundsAssumption DEF Ledger, PeriodIds
  <1>2. old \in Timezones /\ last.endsAt \in Nat
    BY <1>1 DEF Ledger, Period
  <1>3. PICK s \in Instants : last.endsAt = NextMidnight[old][s]
    BY DEF Aligned
  <1>4. clock \in Instants /\ clock \in Nat /\ MinDay \in Nat
    BY BoundsAssumption DEF Instants
  <1> HIDE DEF last, old, end
  <1>5. NextMidnight[old][clock] >= last.endsAt + MinDay
    BY <1>2, <1>3, <1>4, CalendarAssumption DEF last
  <1>6. end \in Instants /\ end > clock /\ end \in Nat
    BY <1>4, CalendarAssumption DEF Instants, end
  <1>7. NextMidnight[tz][end] >= end + MinDay
    BY <1>4, <1>6, CalendarAssumption DEF end
  <1>8. NextMidnight[tz][end] \in Nat /\ NextMidnight[old][clock] \in Nat
    BY <1>2, <1>4, <1>6, CalendarAssumption
  <1>9. NextMidnight[tz][end] >= last.endsAt + MinDay
    BY <1>2, <1>4, <1>6, <1>7, <1>8 DEF last
  <1>10. PeriodEnd(l) = IF old # tz /\ end < NextMidnight[old][clock]
                        THEN NextMidnight[tz][end] ELSE end
    BY DEF PeriodEnd, last, old, end
  <1>11. CASE old # tz /\ end < NextMidnight[old][clock]
    BY <1>9, <1>10, <1>11 DEF last
  <1>12. CASE old # tz /\ ~(end < NextMidnight[old][clock])
    <2>1. end >= last.endsAt + MinDay
      BY <1>2, <1>4, <1>5, <1>6, <1>8, <1>12
    <2> QED
      BY <1>10, <1>12, <2>1 DEF last
  <1>13. CASE old = tz
    BY <1>5, <1>10, <1>13 DEF last, end
  <1> QED
    BY <1>11, <1>12, <1>13

LEMMA OpenPeriodDated ==
  ASSUME NEW l \in Ledger, clock \in 0..MaxTime, tz \in Timezones, PeriodAvailable(l), Dated(l)
  PROVE  Dated(OpenPeriod(l))
  <1>1. CASE ~NeedsPeriod(l)
    BY <1>1 DEF OpenPeriod
  <1>2. CASE NeedsPeriod(l)
    <2> DEFINE r == OpenPeriod(l)
               c == l.current + 1
               q == [timezone |-> tz, startsAt |-> clock, endsAt |-> PeriodEnd(l),
                     reserved |-> 0, consumed |-> 0]
    <2>1. l.current \in 0..MaxPeriods /\ c \in PeriodIds /\ c \in 1..MaxPeriods
          /\ l.periods \in [PeriodIds -> Period]
      BY <1>2, BoundsAssumption DEF PeriodAvailable, Ledger, PeriodIds
    <2>2. r = [l EXCEPT !.current = c, !.periods = [l.periods EXCEPT ![c] = q]]
      BY <1>2 DEF OpenPeriod, OpenAt
    <2>3. /\ q.timezone = tz /\ q.startsAt = clock /\ q.endsAt = PeriodEnd(l)
      OBVIOUS
    <2> HIDE DEF q
    <2>4. r.current = c /\ r.periods = [l.periods EXCEPT ![c] = q]
      BY <2>2 DEF Ledger
    <2>5. r.periods[c] = q /\ \A p \in PeriodIds : p # c => r.periods[p] = l.periods[p]
      BY <2>1, <2>4
    <2> HIDE DEF r
    <2>6. Aligned(r)
      <3>1. clock \in Instants /\ NextMidnight[tz][clock] \in Instants
        BY BoundsAssumption, CalendarAssumption DEF Instants
      <3>2. \E s \in Instants : PeriodEnd(l) = NextMidnight[tz][s]
        BY <3>1 DEF PeriodEnd
      <3> QED
        BY <2>3, <2>4, <2>5, <3>2 DEF Aligned
    <2>7. ASSUME NEW p \in 1..(r.current - 1)
          PROVE  /\ r.periods[p + 1].startsAt >= r.periods[p].endsAt
                 /\ r.periods[p + 1].endsAt >= r.periods[p].endsAt + MinDay
      <3>1. p \in 1..l.current /\ l.current # 0 /\ p \in PeriodIds /\ p # c
        BY <2>1, <2>4, <2>7, BoundsAssumption DEF PeriodIds
      <3>2. CASE p = l.current
        <4>1. clock >= l.periods[p].endsAt
          BY <1>2, <3>1, <3>2 DEF NeedsPeriod
        <4>2. PeriodEnd(l) >= l.periods[p].endsAt + MinDay
          BY <3>1, <3>2, <4>1, PeriodEndLater DEF Dated
        <4>3. r.periods[p + 1] = q /\ r.periods[p] = l.periods[p]
          BY <2>5, <3>1, <3>2
        <4> QED
          BY <2>3, <4>1, <4>2, <4>3
      <3>3. CASE p # l.current
        <4>1. p \in 1..(l.current - 1) /\ p + 1 \in PeriodIds /\ p + 1 # c
          BY <2>1, <3>1, <3>3, BoundsAssumption DEF PeriodIds
        <4> QED
          BY <2>5, <3>1, <4>1 DEF Dated, Spaced
      <3> QED
        BY <3>2, <3>3
    <2> QED
      BY <2>6, <2>7 DEF Dated, Spaced, r
  <1> QED
    BY <1>1, <1>2

-----------------------------------------------------------------------------
(* What no step of a transaction does: move a period, or take a spent unit  *)
(* away from its task.                                                       *)

SpentKept(l, r) ==
  \A t \in Tasks :
    l.auth[t].source \in {"DAILY", "REWARD"} /\ l.auth[t].status = "CONSUMED" =>
      /\ r.auth[t].source = l.auth[t].source
      /\ r.auth[t].period = l.auth[t].period
      /\ r.auth[t].status = "CONSUMED"

Mild(l, r) == SameDates(l, r) /\ SpentKept(l, r)

LEMMA MildTwice ==
  ASSUME NEW l, NEW m, NEW r, Mild(l, m), Mild(m, r)
  PROVE  Mild(l, r)
  BY DEF Mild, SameDates, SpentKept

LEMMA ReleaseMild ==
  ASSUME NEW l \in Ledger, NEW S \in SUBSET Tasks, \A t \in S : l.auth[t].status = "RESERVED"
  PROVE  Mild(l, Release(l, S))
  <1>1. Released(l, S, Release(l, S))
    BY ReleaseShape
  <1>2. SameDates(l, Release(l, S))
    BY <1>1 DEF Released, SameDates
  <1>3. ASSUME NEW t \in Tasks, l.auth[t].status = "CONSUMED"
        PROVE  /\ Release(l, S).auth[t].source = l.auth[t].source
               /\ Release(l, S).auth[t].period = l.auth[t].period
               /\ Release(l, S).auth[t].status = "CONSUMED"
    <2>1. t \notin S
      BY <1>3
    <2> QED
      BY <2>1, <1>1, <1>3 DEF Released
  <1>4. SpentKept(l, Release(l, S))
    BY <1>3 DEF SpentKept
  <1> QED
    BY <1>2, <1>4 DEF Mild

LEMMA ExpireMild ==
  ASSUME NEW l \in Ledger
  PROVE  Mild(l, Expire(l))
  <1>1. Expired(l) \in SUBSET Tasks /\ \A t \in Expired(l) : l.auth[t].status = "RESERVED"
    BY DEF Expired
  <1> QED
    BY <1>1, ReleaseMild DEF Expire

LEMMA RependedMild ==
  ASSUME NEW l, NEW r, NEW t, NEW m, Repended(l, r, t, m)
  PROVE  Mild(l, r)
  BY DEF Repended, Mild, SameDates, SpentKept

LEMMA ReserveDates ==
  ASSUME NEW l \in Ledger, NEW t \in Tasks, NEW source
  PROVE  SameDates(l, Reserve(l, t, source))
  <1> DEFINE A == [l.auth EXCEPT ![t] = Reservation(l.auth[t], source, l.current)]
             q == HoldUnit(l.periods[l.current])
             P == IF source = "DAILY" THEN [l.periods EXCEPT ![l.current] = q] ELSE l.periods
             R == l.rewardReserved + (IF source = "REWARD" THEN 1 ELSE 0)
  <1>1. l.periods \in [PeriodIds -> Period]
    BY DEF Ledger
  <1>2. l.current \in PeriodIds => /\ q.timezone = l.periods[l.current].timezone
                                   /\ q.startsAt = l.periods[l.current].startsAt
                                   /\ q.endsAt = l.periods[l.current].endsAt
    BY <1>1 DEF HoldUnit, Period
  <1>3. Reserve(l, t, source) = [l EXCEPT !.auth = A, !.periods = P, !.rewardReserved = R]
    BY DEF Reserve
  <1> HIDE DEF A, R, q
  <1>4. \A p \in PeriodIds : /\ P[p].timezone = l.periods[p].timezone
                            /\ P[p].startsAt = l.periods[p].startsAt
                            /\ P[p].endsAt = l.periods[p].endsAt
    BY <1>1, <1>2
  <1> HIDE DEF P
  <1>5. Reserve(l, t, source).periods = P /\ Reserve(l, t, source).current = l.current
    BY <1>3 DEF Ledger
  <1> QED
    BY <1>4, <1>5 DEF SameDates

LEMMA ChargeMild ==
  ASSUME NEW l \in Ledger, NEW t \in Tasks, Placed(l)
  PROVE  Mild(l, Charge(l, t))
  <1>1. SpentKept(l, Charge(l, t))
    BY ChargeShape DEF Charged, SpentKept
  <1> DEFINE A == [l.auth EXCEPT ![t] = Succeeded(l.auth[t])]
             c == l.auth[t].period
             q == SpendUnit(l.periods[c])
             P == IF Held(l, t, "DAILY") THEN [l.periods EXCEPT ![c] = q] ELSE l.periods
             w == IF Held(l, t, "REWARD") THEN 1 ELSE 0
  <1>2. l.periods \in [PeriodIds -> Period]
    BY DEF Ledger
  <1>3. c \in PeriodIds => /\ q.timezone = l.periods[c].timezone
                           /\ q.startsAt = l.periods[c].startsAt
                           /\ q.endsAt = l.periods[c].endsAt
    BY <1>2 DEF SpendUnit, Period
  <1>4. Charge(l, t) = [l EXCEPT !.auth = A, !.periods = P,
                          !.rewardReserved = l.rewardReserved - w,
                          !.rewardBalance = l.rewardBalance - w]
    BY DEF Charge, Held
  <1> HIDE DEF A, w, q
  <1>5. \A p \in PeriodIds : /\ P[p].timezone = l.periods[p].timezone
                            /\ P[p].startsAt = l.periods[p].startsAt
                            /\ P[p].endsAt = l.periods[p].endsAt
    BY <1>2, <1>3
  <1> HIDE DEF P
  <1>6. Charge(l, t).periods = P /\ Charge(l, t).current = l.current
    BY <1>4 DEF Ledger
  <1> QED
    BY <1>1, <1>5, <1>6 DEF Mild, SameDates

LEMMA FailReviewsMild ==
  ASSUME NEW l \in Ledger, NEW t \in Tasks, NEW K, Cardinality(K) \in Nat
  PROVE  Mild(l, FailReviews(l, t, K)) /\ FailReviews(l, t, K) \in Ledger
  <1> DEFINE m == l.auth[t].pending - Cardinality(K)
             w == WithPending(l, t, m)
             S == {u \in {t} : /\ K # {}
                               /\ w.auth[u].pending = 0
                               /\ w.auth[u].status = "RESERVED"}
  <1>1. m \in Int
    BY DEF Ledger, Authorization
  <1>2. FailReviews(l, t, K) = Release(w, S)
    BY DEF FailReviews
  <1>3. S \in SUBSET Tasks /\ \A u \in S : w.auth[u].status = "RESERVED"
    OBVIOUS
  <1> HIDE DEF m, S
  <1>4. Repended(l, w, t, m)
    BY <1>1, WithPendingShape
  <1> HIDE DEF w
  <1>5. Mild(l, w) /\ w \in Ledger
    BY <1>4, RependedMild DEF Repended
  <1>6. Mild(w, Release(w, S)) /\ Release(w, S) \in Ledger
    BY <1>3, <1>5, ReleaseMild, ReleaseShape DEF Released
  <1> QED
    BY <1>2, <1>5, <1>6, MildTwice

\* authorizeTask() may open a period; a task whose unit is spent stands.
LEMMA AuthorizeDated ==
  ASSUME NEW l, NEW n \in Int, Good(l, n), NEW t \in Tasks, Dated(l),
         clock \in 0..MaxTime, tz \in Timezones, Admits(l, t)
  PROVE  LET r == AuthorizeTask(l, t)
         IN  Dated(r) /\ SpentKept(l, r) /\ r.auth[t].source # "NONE"
  <1> DEFINE e == Expire(l)
             o == OpenPeriod(e)
             s == ChooseSource(o, t)
  <1>1. Good(e, n) /\ Mild(l, e) /\ l \in Ledger /\ e \in Ledger
    BY ExpireKeeps, ExpireMild DEF Good
  <1>2. Dated(e) /\ SpentKept(l, e)
    BY <1>1, SameDatesDated DEF Mild
  <1>3. CASE Stands(e.auth[t])
    <2>1. AuthorizeTask(l, t) = e
      BY <1>3 DEF AuthorizeTask
    <2>2. e.auth[t].source # "NONE"
      BY <1>3 DEF Stands
    <2> QED
      BY <1>2, <2>1, <2>2
  <1>4. CASE ~Stands(e.auth[t])
    <2>1. AuthorizeTask(l, t) = Reserve(o, t, s)
      BY <1>4 DEF AuthorizeTask
    <2>2. PeriodAvailable(e) /\ s # "NONE"
      BY <1>4 DEF Admits
    <2> HIDE DEF e
    <2>3. Good(o, n) /\ o.current >= 1 /\ o.auth = e.auth /\ o \in Ledger
      BY <1>1, <2>2, OpenPeriodGood DEF Good
    <2>4. Dated(o)
      BY <1>1, <1>2, <2>2, OpenPeriodDated
    <2> HIDE DEF o
    <2>5. s \in Sources /\ HasUnit(o, s)
      BY <2>2, <2>3, ChooseSourceHasUnit
    <2> HIDE DEF s
    <2> DEFINE r == Reserve(o, t, s)
    <2>6. ReservedFor(o, r, t, s) /\ SameDates(o, r)
      BY <2>3, <2>5, ReserveShape, ReserveDates
    <2> HIDE DEF r
    <2>7. Dated(r)
      BY <2>3, <2>4, <2>6, SameDatesDated
    <2>8. ~(e.auth[t].source \in {"DAILY", "REWARD"} /\ e.auth[t].status = "CONSUMED")
      BY <1>4 DEF Stands
    <2>9. SpentKept(e, r)
      BY <2>3, <2>6, <2>8 DEF SpentKept, ReservedFor
    <2>10. r.auth[t].source # "NONE"
      BY <2>2, <2>6 DEF ReservedFor
    <2>11. SpentKept(l, r)
      BY <1>2, <2>9 DEF SpentKept
    <2> QED
      BY <2>1, <2>7, <2>10, <2>11 DEF r
  <1> QED
    BY <1>3, <1>4

-----------------------------------------------------------------------------
(* The steps of the service, for the calendar and for what is spent.        *)

DatedInv == IInv /\ Dated(ledger)

LEMMA InitDated == Init => Dated(ledger)
  BY DEF Init, Dated, Spaced, Aligned

LEMMA StepDated ==
  ASSUME DatedInv, [Next]_vars
  PROVE  Dated(ledger') /\ SpentKept(ledger, ledger')
  <1>1. /\ TypeOK /\ Good(ledger, earned) /\ ledger \in Ledger /\ Placed(ledger)
        /\ Dated(ledger) /\ earned \in Int /\ clock \in 0..MaxTime /\ tz \in Timezones
    BY BoundsAssumption DEF DatedInv, IInv, TypeOK, Good
  <1>2. ASSUME Mild(ledger, ledger')
        PROVE  Dated(ledger') /\ SpentKept(ledger, ledger')
    BY <1>1, <1>2, SameDatesDated DEF Mild
  <1>3. ASSUME NEW t \in Tasks, StartTask(t)
        PROVE  Dated(ledger') /\ SpentKept(ledger, ledger')
    BY <1>1, <1>3, AuthorizeDated DEF StartTask
  <1>4. ASSUME NEW t \in Tasks, NEW k \in Keys, Submit(t, k)
        PROVE  Dated(ledger') /\ SpentKept(ledger, ledger')
    <2> DEFINE l == AuthorizeTask(ledger, t)
               m == l.auth[t].pending + 1
    <2>1. Good(l, earned) /\ Dated(l) /\ SpentKept(ledger, l)
      BY <1>1, <1>4, AuthorizeKeeps, AuthorizeDated DEF Submit
    <2>2. ledger' = WithPending(l, t, m)
      BY <1>4 DEF Submit
    <2> HIDE DEF l
    <2>3. l \in Ledger /\ m \in Int
      BY <2>1 DEF Good, Ledger, Authorization
    <2> HIDE DEF m
    <2>4. Mild(l, ledger')
      BY <2>2, <2>3, WithPendingShape, RependedMild
    <2> QED
      BY <2>1, <2>3, <2>4, SameDatesDated DEF Mild, SpentKept
  <1>5. ASSUME NEW t \in Tasks, NEW k \in Keys, Complete(t, k)
        PROVE  Mild(ledger, ledger')
    BY <1>1, <1>5, ChargeMild DEF Complete
  <1>6. ASSUME NEW t \in Tasks, NEW K \in SUBSET Keys
        PROVE  /\ Mild(ledger, FailReviews(ledger, t, K))
               /\ FailReviews(ledger, t, K) \in Ledger
    <2>1. Cardinality(K) \in Nat
      BY TasksAssumption, FS_Subset, FS_CardinalityType
    <2> QED
      BY <1>1, <2>1, FailReviewsMild
  <1>7. ASSUME NEW t \in Tasks, NEW k \in Keys, FailReview(t, k)
        PROVE  Mild(ledger, ledger')
    BY <1>6, <1>7 DEF FailReview
  <1>8. ASSUME NEW t \in Tasks, FailPractice(t)
        PROVE  Mild(ledger, ledger')
    <2> DEFINE K == Submissions(sub, t, "PENDING")
               l == FailReviews(ledger, t, K)
               S == {u \in {t} : l.auth[u].pending = 0 /\ l.auth[u].status = "RESERVED"}
    <2>1. ledger' = Release(l, S)
      BY <1>8 DEF FailPractice
    <2>2. K \in SUBSET Keys
      BY DEF Submissions
    <2>3. S \in SUBSET Tasks /\ \A u \in S : l.auth[u].status = "RESERVED"
      OBVIOUS
    <2> HIDE DEF K, S
    <2>4. Mild(ledger, l) /\ l \in Ledger
      BY <1>6, <2>2
    <2> HIDE DEF l
    <2>5. Mild(l, ledger')
      BY <2>1, <2>3, <2>4, ReleaseMild
    <2> QED
      BY <2>4, <2>5, MildTwice
  <1>9. ASSUME NEW t \in Tasks, Reconcile(t)
        PROVE  Mild(ledger, ledger')
    <2> DEFINE l == FailReviews(ledger, t, Orphaned(t))
    <2>1. Orphaned(t) \in SUBSET Keys
      BY DEF Orphaned
    <2>2. Mild(ledger, l) /\ l \in Ledger
      BY <1>6, <2>1
    <2>3. ledger' = Expire(l)
      BY <1>9 DEF Reconcile
    <2> HIDE DEF l
    <2> QED
      BY <2>2, <2>3, ExpireMild, MildTwice
  <1>10. ASSUME Summary
         PROVE  Dated(ledger') /\ SpentKept(ledger, ledger')
    <2>1. ledger' = OpenPeriod(ledger) /\ ledger'.auth = ledger.auth
      BY <1>1, <1>10, OpenPeriodGood DEF Summary
    <2>2. SpentKept(ledger, ledger')
      BY <2>1 DEF SpentKept
    <2> QED
      BY <1>1, <1>10, <2>1, <2>2, OpenPeriodDated DEF Summary
  <1>11. ASSUME EarnReward
         PROVE  Mild(ledger, ledger')
    <2>1. ledger' = [ledger EXCEPT !.rewardBalance = @ + 1]
      BY <1>11 DEF EarnReward
    <2>2. /\ ledger'.auth = ledger.auth /\ ledger'.periods = ledger.periods
          /\ ledger'.current = ledger.current
      BY <1>1, <2>1 DEF Ledger
    <2> QED
      BY <2>2 DEF Mild, SameDates, SpentKept
  <1>12. ASSUME ledger' = ledger
         PROVE  Mild(ledger, ledger')
    BY <1>12 DEF Mild, SameDates, SpentKept
  <1>13. \/ \E t \in Tasks : StartTask(t)
         \/ \E t \in Tasks, k \in Keys : Submit(t, k)
         \/ Summary
         \/ Mild(ledger, ledger')
    <2>1. \/ \E t \in Tasks : StartTask(t) \/ FailPractice(t) \/ Reconcile(t)
          \/ \E t \in Tasks, k \in Keys : Submit(t, k) \/ Complete(t, k) \/ FailReview(t, k)
          \/ Summary \/ EarnReward \/ ledger' = ledger
      BY DEF Next, PracticeMoves, Tick, ChangeTimezone, ChangeMembership, ChangeEnforcement, vars
    <2> QED
      BY <1>5, <1>7, <1>8, <1>9, <1>11, <1>12, <2>1
  <1> QED
    BY <1>2, <1>3, <1>4, <1>10, <1>13

\* The reviews of a task grow only by a request for one, which was admitted.
LEMMA SubmitCapped ==
  ASSUME IInv, NEW t \in Tasks, NEW k \in Keys, Submit(t, k), Dated(ledger), enforced, ~member,
         ledger'.auth[t].source # "EXEMPT"
  PROVE  Cardinality(Submissions(sub', t, "PENDING"))
           + Cardinality(Submissions(sub', t, "SUCCEEDED")) <= ReviewLimit
  <1> DEFINE l == AuthorizeTask(ledger, t)
             m == l.auth[t].pending + 1
  <1>1. /\ TypeOK /\ Good(ledger, earned) /\ earned \in Int /\ SlotsMatch
        /\ clock \in 0..MaxTime /\ tz \in Timezones
    BY BoundsAssumption DEF IInv, TypeOK
  <1>2. /\ Good(l, earned) /\ SameSlots(ledger, l) /\ l.auth[t].source # "NONE"
        /\ l \in Ledger
    BY <1>1, AuthorizeKeeps, AuthorizeDated DEF Submit, Good
  <1>3. /\ ~ReviewsExhausted(l.auth[t]) /\ ledger' = WithPending(l, t, m)
        /\ sub' = [sub EXCEPT ![t][k] = "PENDING"] /\ sub[t][k] \in {"NONE", "FAILED"}
    BY DEF Submit
  <1> HIDE DEF l
  <1>4. m \in Int
    BY <1>2 DEF Ledger, Authorization
  <1> HIDE DEF m
  <1>5. ledger'.auth[t].source = l.auth[t].source
    BY <1>2, <1>3, <1>4, WithPendingShape DEF Repended
  <1>6. l.auth[t].successful + l.auth[t].pending < ReviewLimit
    <2>1. ~(l.auth[t].successful + l.auth[t].pending >= ReviewLimit)
      BY <1>2, <1>3, <1>5 DEF ReviewsExhausted
    <2>2. l.auth[t].successful \in Int /\ l.auth[t].pending \in Int
      BY <1>2 DEF Ledger, Authorization
    <2> QED
      BY <2>1, <2>2, BoundsAssumption
  <1>7. /\ l.auth[t].pending = Cardinality(Submissions(sub, t, "PENDING"))
        /\ l.auth[t].successful = Cardinality(Submissions(sub, t, "SUCCEEDED"))
    BY <1>1, <1>2 DEF SlotsMatch, SameSlots
  <1>8. /\ Submissions(sub', t, "PENDING") = Submissions(sub, t, "PENDING") \cup {k}
        /\ Submissions(sub', t, "SUCCEEDED") = Submissions(sub, t, "SUCCEEDED")
        /\ k \notin Submissions(sub, t, "PENDING")
    <2>1. sub \in Shelf /\ "PENDING" \in SubmissionStates
      BY <1>1 DEF TypeOK, Shelf, SubmissionStates
    <2>2. SetOne(sub, sub', t, k, "PENDING")
      BY <1>3, <2>1, SetOneShape
    <2> QED
      BY <1>3, <2>2 DEF SetOne, Submissions
  <1>9. Cardinality(Submissions(sub', t, "PENDING"))
          = Cardinality(Submissions(sub, t, "PENDING")) + 1
    BY <1>8, SlotsFinite, FS_AddElement
  <1>10. /\ Cardinality(Submissions(sub, t, "PENDING")) \in Nat
         /\ Cardinality(Submissions(sub, t, "SUCCEEDED")) \in Nat
    BY SlotsFinite
  <1> QED
    BY <1>6, <1>7, <1>8, <1>9, <1>10, BoundsAssumption

LEMMA StepCapped ==
  ASSUME DatedInv, [Next]_vars, NEW t \in Tasks
  PROVE  StaysCapped(t)
  <1> DEFINE P(s) == Cardinality(Submissions(s, t, "PENDING"))
  <1>1. TypeOK
    BY DEF DatedInv, IInv
  <1>2. SUFFICES ASSUME enforced, ~member, ledger'.auth[t].source # "EXEMPT", P(sub') > P(sub)
                 PROVE  P(sub') + Cardinality(Submissions(sub', t, "SUCCEEDED")) <= ReviewLimit
    BY DEF StaysCapped
  <1>3. ~(Submissions(sub', t, "PENDING") \subseteq Submissions(sub, t, "PENDING"))
    <2>1. ASSUME Submissions(sub', t, "PENDING") \subseteq Submissions(sub, t, "PENDING")
          PROVE  P(sub') <= P(sub)
      BY <2>1, SlotsFinite, FS_Subset
    <2>2. P(sub') \in Nat /\ P(sub) \in Nat
      BY SlotsFinite
    <2> HIDE DEF P
    <2> QED
      BY <1>2, <2>1, <2>2
  <1>4. \E k \in Keys : Submit(t, k)
    <2>1. ASSUME NEW u \in Tasks, NEW k \in Keys, Submit(u, k), u # t PROVE sub'[t] = sub[t]
      BY <1>1, <2>1 DEF Submit, TypeOK
    <2>2. ASSUME NEW u \in Tasks, NEW k \in Keys, Complete(u, k)
          PROVE  Submissions(sub', t, "PENDING") \subseteq Submissions(sub, t, "PENDING")
      BY <1>1, <2>2 DEF Complete, TypeOK, Submissions
    <2>3. ASSUME NEW u \in Tasks, NEW K, FailAll(K, u)
          PROVE  Submissions(sub', t, "PENDING") \subseteq Submissions(sub, t, "PENDING")
      BY <1>1, <2>3 DEF FailAll, TypeOK, Submissions
    <2>4. \/ \E u \in Tasks, k \in Keys : Submit(u, k) \/ Complete(u, k)
          \/ \E u \in Tasks : \E K : FailAll(K, u)
          \/ sub' = sub
      BY DEF Next, StartTask, FailPractice, Reconcile, PracticeMoves, FailReview, Summary,
             EarnReward, Tick, ChangeTimezone, ChangeMembership, ChangeEnforcement, vars
    <2>5. sub'[t] = sub[t] =>
            Submissions(sub', t, "PENDING") \subseteq Submissions(sub, t, "PENDING")
      BY DEF Submissions
    <2> QED
      BY <1>3, <2>1, <2>2, <2>3, <2>4, <2>5
  <1> QED
    BY <1>2, <1>4, SubmitCapped DEF DatedInv

LEMMA DatedInvariance == Spec => []DatedInv
  <1>1. Init => DatedInv
    BY InitIInv, InitDated DEF DatedInv
  <1>2. DatedInv /\ [Next]_vars => DatedInv'
    BY NextIInv, StepDated DEF DatedInv
  <1> QED
    BY <1>1, <1>2, PTL DEF Spec

\* No sequence of timezone changes issues an extra allowance: the ends of successive
\* periods are a local day apart and periods do not overlap, for every calendar
\* whose midnights are (quota.service.ts:38-66).
THEOREM AllowancesSpaced == Spec => []PeriodsSpaced
  <1>1. DatedInv => PeriodsSpaced
    BY DEF DatedInv, Dated, Spaced, PeriodsSpaced
  <1> QED
    BY <1>1, DatedInvariance, PTL

\* A task is charged once, and its unit buys no more than ReviewLimit reviews,
\* however its requests fail, expire, are retried and cross a membership
\* (quota.service.ts:87-217).
THEOREM ChargedOnce == Spec => OneUnitPerTask
  <1>1. DatedInv /\ [Next]_vars => [\A t \in Tasks : StaysSpent(t) /\ StaysCapped(t)]_vars
    BY StepDated, StepCapped DEF SpentKept, StaysSpent
  <1> QED
    BY <1>1, DatedInvariance, PTL DEF Spec, OneUnitPerTask
=============================================================================
