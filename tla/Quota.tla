------------------------------- MODULE Quota -------------------------------
(***************************************************************************)
(* The task-quota ledger of one account (src/src/billing/quota.service.ts).*)
(*                                                                         *)
(* A learner is admitted to a bounded number of tasks per quota period;    *)
(* a task is first RESERVED, and CONSUMED by its first successful review.  *)
(* Every operation of the service runs in one database transaction under   *)
(* the account's row lock (lockBillingUser), so each is one action here;   *)
(* a thrown billingError rolls the whole transaction back and is therefore *)
(* a disabled action.  What the service reads but does not own (the local  *)
(* calendar, the membership, the enforcement switch, the state of a        *)
(* vocabulary practice) is environment.                                    *)
(***************************************************************************)
EXTENDS Integers, FiniteSets

CONSTANTS
  Tasks,            \* taskKeys of the account: study sessions and practices
  Vocabulary,       \* the tasks of kind VOCABULARY; the rest are GRAMMAR
  PreEnforcement,   \* the tasks created before BillingConfig.enforcementAt
  Keys,             \* requestKeys of submissions
  Timezones,        \* the timezones the account can be in
  Membership,       \* values the membership may take, a subset of BOOLEAN
  Enforcement,      \* values enforcementEnabled may take
  NextMidnight,     \* [tz -> [t -> first local midnight after t]]
  MinDay,           \* length of the shortest local day
  Hold,             \* lifetime of a reservation (24 hours)
  DailyLimit,       \* tasks per period (5 in the code)
  ReviewLimit,      \* reviews per task (3 in the code)
  MaxTime, Horizon, \* bounds of the clock and of the calendar
  MaxPeriods,       \* bound on the issued periods
  MaxRewards        \* bound on the earned rewards

Instants  == 0..Horizon
PeriodIds == 1..MaxPeriods

ASSUME TasksAssumption ==
  /\ IsFiniteSet(Tasks) /\ IsFiniteSet(Keys)
  /\ Vocabulary \subseteq Tasks /\ PreEnforcement \subseteq Tasks
  /\ Membership \subseteq BOOLEAN /\ Membership # {}
  /\ Enforcement \subseteq BOOLEAN /\ Enforcement # {}
  /\ Timezones # {}

ASSUME BoundsAssumption ==
  /\ DailyLimit \in Nat /\ ReviewLimit \in Nat /\ Hold \in Nat
  /\ MaxTime \in Nat /\ Horizon \in Nat /\ MaxTime <= Horizon
  /\ MaxPeriods \in Nat /\ MaxRewards \in Nat /\ MinDay \in Nat

\* Local midnights lie strictly ahead and at least one local day apart.
ASSUME CalendarAssumption ==
  /\ NextMidnight \in [Timezones -> [Instants -> Nat]]
  /\ \A z \in Timezones : \A t \in 0..MaxTime : NextMidnight[z][t] \in Instants
  /\ \A z \in Timezones : \A t \in Instants : NextMidnight[z][t] > t
  /\ \A z \in Timezones : \A s, t \in Instants :
       t >= NextMidnight[z][s] => NextMidnight[z][t] >= NextMidnight[z][s] + MinDay

VARIABLES
  clock,        \* now
  tz,           \* User.timezone
  member,       \* EntitlementService.membership(now).isMember
  enforced,     \* BillingConfig.enforcementEnabled
  practice,     \* status class of the practice behind a vocabulary task
  ledger,       \* TaskAuthorization, QuotaPeriod and QuotaAccount rows
  sub,          \* TaskSubmission.status by task and requestKey
  earned        \* history: rewards ever credited to the account

vars == <<clock, tz, member, enforced, practice, ledger, sub, earned>>

Sources  == {"NONE", "EXEMPT", "MEMBER", "DAILY", "REWARD"}
Statuses == {"RESERVED", "CONSUMED", "RELEASED"}

Authorization ==
  [source : Sources, status : Statuses, period : 0..MaxPeriods,
   expiresAt : Nat, successful : Int, pending : Int]

Period ==
  [timezone : Timezones, startsAt : Nat, endsAt : Nat, reserved : Int, consumed : Int]

Ledger ==
  [auth : [Tasks -> Authorization], periods : [PeriodIds -> Period],
   current : 0..MaxPeriods, rewardBalance : Int, rewardReserved : Int]

\* A practice is BUSY while it is QUEUED, GENERATING or ASSESSING.
PracticeStates   == {"NONE", "BUSY", "IDLE", "FAILED"}
SubmissionStates == {"NONE", "PENDING", "SUCCEEDED", "FAILED"}

TypeOK ==
  /\ clock \in 0..MaxTime
  /\ tz \in Timezones
  /\ member \in BOOLEAN
  /\ enforced \in BOOLEAN
  /\ practice \in [Tasks -> PracticeStates]
  /\ ledger \in Ledger
  /\ sub \in [Tasks -> [Keys -> SubmissionStates]]
  /\ earned \in 0..MaxRewards

\* No authorization row yet / a period that has not been issued.
NoAuthorization ==
  [source |-> "NONE", status |-> "RELEASED", period |-> 0, expiresAt |-> 0,
   successful |-> 0, pending |-> 0]

NoPeriod(z) ==
  [timezone |-> z, startsAt |-> 0, endsAt |-> 0, reserved |-> 0, consumed |-> 0]

Init ==
  /\ clock = 0
  /\ tz \in Timezones
  /\ member \in Membership
  /\ enforced \in Enforcement
  /\ practice = [t \in Tasks |-> "NONE"]
  /\ ledger = [auth |-> [t \in Tasks |-> NoAuthorization],
               periods |-> [p \in PeriodIds |-> NoPeriod(tz)],
               current |-> 0, rewardBalance |-> 0, rewardReserved |-> 0]
  /\ sub = [t \in Tasks |-> [k \in Keys |-> "NONE"]]
  /\ earned = 0

-----------------------------------------------------------------------------
(* The pools a task may draw on: a unit of a period, or a reward.          *)

\* Tasks whose DAILY unit of period p is in the given status.
Daily(auth, status, p) ==
  {t \in Tasks : /\ auth[t].source = "DAILY"
                 /\ auth[t].status = status
                 /\ auth[t].period = p}

\* Tasks whose REWARD unit is in the given status.
Reward(auth, status) ==
  {t \in Tasks : auth[t].source = "REWARD" /\ auth[t].status = status}

Submissions(s, t, status) == {k \in Keys : s[t][k] = status}

-----------------------------------------------------------------------------
(* Steps of the transactions, as functions on the ledger.                  *)

\* release(): each RESERVED task of S gives its unit back to its pool.
Release(l, S) ==
  [l EXCEPT
     !.auth = [t \in Tasks |->
                 IF t \in S THEN [l.auth[t] EXCEPT !.status = "RELEASED"] ELSE l.auth[t]],
     !.periods = [p \in PeriodIds |->
                    [l.periods[p] EXCEPT
                       !.reserved = @ - Cardinality(S \cap Daily(l.auth, "RESERVED", p))]],
     !.rewardReserved = @ - Cardinality(S \cap Reward(l.auth, "RESERVED"))]

\* What expireReservations() releases: overdue tasks with no review in flight.
\* (mutant ExpiredInFlight: reviews in flight do not protect a reservation)
ExpiredInFlight(l) ==
  {t \in Tasks : /\ l.auth[t].status = "RESERVED"
                 /\ l.auth[t].expiresAt <= clock
                 /\ ~(t \in Vocabulary /\ practice[t] = "BUSY")}

Expired(l) ==
  {t \in Tasks : /\ l.auth[t].status = "RESERVED"
                 /\ l.auth[t].pending = 0
                 /\ l.auth[t].expiresAt <= clock
                 /\ ~(t \in Vocabulary /\ practice[t] = "BUSY")}

Expire(l) == Release(l, Expired(l))

\* period(): the end of a period opened now.  When the timezone has changed and
\* its midnight comes before the old zone's, the period runs one day longer.
NeedsPeriod(l) == l.current # 0 => clock >= l.periods[l.current].endsAt

\* (mutant PeriodEndPlain: the new zone's midnight, whatever the old zone's)
PeriodEndPlain(l) == NextMidnight[tz][clock]

PeriodEnd(l) ==
  LET end == NextMidnight[tz][clock]
  IN  IF /\ l.current # 0
         /\ l.periods[l.current].timezone # tz
         /\ end < NextMidnight[l.periods[l.current].timezone][clock]
      THEN NextMidnight[tz][end]
      ELSE end

OpenAt(l, c) ==
  [l EXCEPT
     !.current = c,
     !.periods = [l.periods EXCEPT ![c] =
        [timezone |-> tz, startsAt |-> clock, endsAt |-> PeriodEnd(l),
         reserved |-> 0, consumed |-> 0]]]

OpenPeriod(l) == IF NeedsPeriod(l) THEN OpenAt(l, l.current + 1) ELSE l

\* Named bound: an operation that would open one period too many is cut off.
PeriodAvailable(l) == NeedsPeriod(l) => l.current < MaxPeriods

\* The source authorizeTask() picks, after period(); "NONE" is DAILY_TASK_LIMIT.
Exempt(t) == ~enforced \/ t \in PreEnforcement

\* (mutant HasRoomUnspent: held units are not counted)
HasRoomUnspent(period) == period.consumed < DailyLimit

HasRoom(period) == period.consumed + period.reserved < DailyLimit

ChooseSource(l, t) ==
  CASE Exempt(t)            -> "EXEMPT"
    [] ~Exempt(t) /\ member -> "MEMBER"
    [] ~Exempt(t) /\ ~member /\ HasRoom(l.periods[l.current]) -> "DAILY"
    [] OTHER -> IF l.rewardBalance > l.rewardReserved THEN "REWARD" ELSE "NONE"

\* The task takes a unit of the given source and is RESERVED for Hold.
Reservation(a, source, p) ==
  [a EXCEPT !.source = source, !.status = "RESERVED", !.expiresAt = clock + Hold,
            !.period = IF source = "DAILY" THEN p ELSE 0]

HoldUnit(period) == [period EXCEPT !.reserved = @ + 1]

Reserve(l, t, source) ==
  [l EXCEPT
     !.auth = [l.auth EXCEPT ![t] = Reservation(l.auth[t], source, l.current)],
     !.periods = IF source = "DAILY"
                 THEN [l.periods EXCEPT ![l.current] = HoldUnit(l.periods[l.current])]
                 ELSE l.periods,
     !.rewardReserved = l.rewardReserved + (IF source = "REWARD" THEN 1 ELSE 0)]

\* An authorization that authorizeTask() returns as it is.
\* (mutant StandsForKind: a daily unit is dropped when a membership starts)
StandsForKind(a) ==
  \/ a.source = "EXEMPT"
  \/ a.source # "NONE" /\ a.status # "RELEASED" /\ (a.source = "MEMBER" <=> member)

Stands(a) ==
  \/ a.source = "EXEMPT"
  \/ /\ a.source # "NONE" /\ a.status # "RELEASED"
     /\ a.source = "MEMBER" => member

AuthorizeTask(l, t) ==
  LET e == Expire(l)
      o == OpenPeriod(e)
  IN  IF Stands(e.auth[t]) THEN e ELSE Reserve(o, t, ChooseSource(o, t))

\* authorizeTask() does not throw DAILY_TASK_LIMIT.
Admits(l, t) ==
  LET e == Expire(l)
  IN  ~Stands(e.auth[t]) => /\ PeriodAvailable(e)
                            /\ ChooseSource(OpenPeriod(e), t) # "NONE"

\* The check authorizeSubmission() makes twice: TASK_REVIEW_LIMIT.
\* (mutant ReviewsSpent: reviews in flight are not counted)
ReviewsSpent(a) ==
  /\ enforced /\ ~member
  /\ a.source \notin {"NONE", "EXEMPT"}
  /\ a.successful >= ReviewLimit

ReviewsExhausted(a) ==
  /\ enforced /\ ~member
  /\ a.source \notin {"NONE", "EXEMPT"}
  /\ a.successful + a.pending >= ReviewLimit

\* completeSubmission(): the first success turns the reserved unit into a spent one.
\* (mutant SucceededPending: the slot is not returned)
SucceededPending(a) == [a EXCEPT !.status = "CONSUMED", !.successful = @ + 1]

Succeeded(a) == [a EXCEPT !.status = "CONSUMED", !.successful = @ + 1, !.pending = @ - 1]

SpendUnit(period) == [period EXCEPT !.reserved = @ - 1, !.consumed = @ + 1]

Charge(l, t) ==
  LET a      == l.auth[t]
      held   == a.status = "RESERVED"
      reward == IF held /\ a.source = "REWARD" THEN 1 ELSE 0
  IN  [l EXCEPT
         !.auth = [l.auth EXCEPT ![t] = Succeeded(a)],
         !.periods = IF held /\ a.source = "DAILY"
                     THEN [l.periods EXCEPT ![a.period] = SpendUnit(l.periods[a.period])]
                     ELSE l.periods,
         !.rewardReserved = l.rewardReserved - reward,
         !.rewardBalance  = l.rewardBalance - reward]

\* failSubmission() for each review of K: the slots are returned and the last
\* one in flight also releases an unspent task.
WithPending(l, t, n) ==
  [l EXCEPT !.auth = [l.auth EXCEPT ![t] = [l.auth[t] EXCEPT !.pending = n]]]

FailReviews(l, t, K) ==
  LET returned == WithPending(l, t, l.auth[t].pending - Cardinality(K))
      unspent  == {u \in {t} : /\ K # {}
                               /\ returned.auth[u].pending = 0
                               /\ returned.auth[u].status = "RESERVED"}
  IN  Release(returned, unspent)

-----------------------------------------------------------------------------
(* Operations.                                                             *)

\* A practice starts when it is created or manually retried.
PracticeOpened(t) ==
  IF t \in Vocabulary /\ practice[t] \in {"NONE", "FAILED"}
  THEN [practice EXCEPT ![t] = "BUSY"] ELSE practice

\* Starting (or resuming) a study session or a practice: authorizeTask().
StartTask(t) ==
  /\ Admits(ledger, t)
  /\ ledger' = AuthorizeTask(ledger, t)
  /\ practice' = PracticeOpened(t)
  /\ UNCHANGED <<clock, tz, member, enforced, sub, earned>>

\* Asking for a review: authorizeSubmission().  A key that is PENDING or
\* SUCCEEDED returns its row and changes nothing.
Submit(t, k) ==
  /\ sub[t][k] \in {"NONE", "FAILED"}
  /\ t \in Vocabulary => practice[t] = "FAILED" \/ (practice[t] = "IDLE" /\ sub[t][k] = "NONE")
  /\ ~ReviewsExhausted(ledger.auth[t])
  /\ Admits(ledger, t)
  /\ LET l == AuthorizeTask(ledger, t)
     IN  /\ ~ReviewsExhausted(l.auth[t])
         /\ ledger' = WithPending(l, t, l.auth[t].pending + 1)
  /\ sub' = [sub EXCEPT ![t][k] = "PENDING"]
  /\ practice' = IF t \in Vocabulary THEN [practice EXCEPT ![t] = "BUSY"] ELSE practice
  /\ UNCHANGED <<clock, tz, member, enforced, earned>>

\* A worker commits a result under its lease: completeSubmission().
Complete(t, k) ==
  /\ sub[t][k] = "PENDING"
  /\ t \in Vocabulary => practice[t] = "BUSY"
  /\ ledger' = Charge(ledger, t)
  /\ sub' = [sub EXCEPT ![t][k] = "SUCCEEDED"]
  /\ practice' = IF t \in Vocabulary THEN [practice EXCEPT ![t] = "IDLE"] ELSE practice
  /\ UNCHANGED <<clock, tz, member, enforced, earned>>

FailAll(K, t) ==
  sub' = [sub EXCEPT ![t] = [k \in Keys |-> IF k \in K THEN "FAILED" ELSE sub[t][k]]]

\* A review is given up: failSubmission().  (A grammar job; or the one answer of a
\* practice whose learning changed under its worker, which fails the practice with
\* it when the worker's lease still holds.)
FailReview(t, k) ==
  /\ sub[t][k] = "PENDING"
  /\ ledger' = FailReviews(ledger, t, {k})
  /\ FailAll({k}, t)
  /\ \/ UNCHANGED practice
     \/ /\ t \in Vocabulary /\ practice[t] = "BUSY"
        /\ practice' = [practice EXCEPT ![t] = "FAILED"]
  /\ UNCHANGED <<clock, tz, member, enforced, earned>>

\* A worker gives up on a practice under its lease: every review in flight fails,
\* then releaseTask() returns the unit even when there was none.
FailPractice(t) ==
  /\ t \in Vocabulary /\ practice[t] = "BUSY"
  /\ LET K == Submissions(sub, t, "PENDING")
         l == FailReviews(ledger, t, K)
     IN  /\ ledger' = Release(l, {u \in {t} : /\ l.auth[u].pending = 0
                                              /\ l.auth[u].status = "RESERVED"})
         /\ FailAll(K, t)
  /\ practice' = [practice EXCEPT ![t] = "FAILED"]
  /\ UNCHANGED <<clock, tz, member, enforced, earned>>

\* One candidate of reconcileReservations(): reviews of a failed practice are
\* failed, then the account's overdue reservations are released.
\* (mutant CandidateInFlight: one of the two reasons is missed)
CandidateInFlight(t) == ledger.auth[t].pending > 0

Candidate(t) ==
  \/ ledger.auth[t].status = "RESERVED" /\ ledger.auth[t].expiresAt <= clock
  \/ ledger.auth[t].pending > 0

Orphaned(t) ==
  {k \in Keys : sub[t][k] = "PENDING" /\ t \in Vocabulary /\ practice[t] = "FAILED"}

Reconcile(t) ==
  /\ Candidate(t)
  /\ ledger' = Expire(FailReviews(ledger, t, Orphaned(t)))
  /\ FailAll(Orphaned(t), t)
  /\ UNCHANGED <<clock, tz, member, enforced, practice, earned>>

\* Reading the membership summary opens a due period.
Summary ==
  /\ NeedsPeriod(ledger) /\ PeriodAvailable(ledger)
  /\ ledger' = OpenPeriod(ledger)
  /\ UNCHANGED <<clock, tz, member, enforced, practice, sub, earned>>

\* A verified rewarded advertisement is credited (AdmobRewardService.receive).
EarnReward ==
  /\ earned < MaxRewards
  /\ earned' = earned + 1
  /\ ledger' = [ledger EXCEPT !.rewardBalance = @ + 1]
  /\ UNCHANGED <<clock, tz, member, enforced, practice, sub>>

-----------------------------------------------------------------------------
(* Environment.                                                            *)

Tick ==
  /\ clock < MaxTime
  /\ clock' = clock + 1
  /\ UNCHANGED <<tz, member, enforced, practice, ledger, sub, earned>>

ChangeTimezone ==
  /\ tz' \in Timezones \ {tz}
  /\ UNCHANGED <<clock, member, enforced, practice, ledger, sub, earned>>

ChangeMembership ==
  /\ member' \in Membership \ {member}
  /\ UNCHANGED <<clock, tz, enforced, practice, ledger, sub, earned>>

ChangeEnforcement ==
  /\ enforced' \in Enforcement \ {enforced}
  /\ UNCHANGED <<clock, tz, member, practice, ledger, sub, earned>>

\* A generated challenge makes a practice READY.  A changed learning record, or a
\* process that dies on its last attempt (RETRY_LIMIT), leaves it FAILED without
\* touching the quota.
PracticeMoves(t) ==
  /\ t \in Vocabulary
  /\ \/ practice[t] = "BUSY" /\ ledger.auth[t].pending = 0
        /\ practice' = [practice EXCEPT ![t] = "IDLE"]
     \/ practice[t] \in {"BUSY", "IDLE"}
        /\ practice' = [practice EXCEPT ![t] = "FAILED"]
  /\ UNCHANGED <<clock, tz, member, enforced, ledger, sub, earned>>

Next ==
  \/ \E t \in Tasks : StartTask(t) \/ FailPractice(t) \/ Reconcile(t) \/ PracticeMoves(t)
  \/ \E t \in Tasks, k \in Keys : Submit(t, k) \/ Complete(t, k) \/ FailReview(t, k)
  \/ Summary \/ EarnReward
  \/ Tick \/ ChangeTimezone \/ ChangeMembership \/ ChangeEnforcement

Spec == Init /\ [][Next]_vars

\* reconcileReservations runs every minute; nothing else is owed.
FairSpec == Spec /\ \A t \in Tasks : WF_vars(Reconcile(t))
=============================================================================
