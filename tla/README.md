# Verification of the JLPT Sentence Lab API

TLA+ models of the stateful core of this NestJS/Prisma/PostgreSQL service,
TLC runs on small instances, and TLAPS proofs about the quota ledger, the review
pipeline, the vocabulary practice, the payment webhook, the Play purchase queue,
study time, the learner's day and mastery, and the life of an account. Paths such as `billing/quota.service.ts` are relative to `src/src/` of the repository
unless they start with `docs/` or `prisma/`.

## 1. The system

The server keeps all state in PostgreSQL. Several identical processes may run
against it: HTTP requests, timers (`@Interval`) and the calls to AI providers
and payment providers interleave freely. Two mechanisms order them.

* **The account lock.** A transaction that touches an account's money or tasks
  starts with `lockBillingUser` (`billing/entitlement.service.ts:6`), a
  `SELECT ... FOR UPDATE` on the user row. Such transactions of one account are
  serial, so each is one atomic action of a model. A thrown error rolls the
  whole transaction back, which makes the action disabled, not half done.
* **Leases.** A transaction is never held across a provider call. Workers claim a
  row (`lockedAt`, an attempt counter), await the provider, and commit with an
  `updateMany` whose `where` repeats what they claimed. If another process has
  taken the row over, the update matches nothing.

What is hard is what lies between: state read before an await and used after it,
leases that expire under a slow worker, processes that die, retries of requests
that were already answered, and counters kept next to the rows they count.

### Components

| Component | Code | State | Operations | Model |
|---|---|---|---|---|
| Task quota | `billing/quota.service.ts` | `TaskAuthorization`, `TaskSubmission`, `QuotaPeriod`, `QuotaAccount` | `period`, `summary`, `authorizeTask`, `authorizeSubmission`, `completeSubmission`, `failSubmission`, `releaseTask`, `reconcileReservations` | `Quota` |
| Grammar review pipeline | `ai/review-job-lease.ts`, `ai/ai-worker.service.ts`, `ai/review-job-failure.ts`, `sentence-reviews/` | `AiReviewJob`, `AiReviewResult`, the submission | `create`, `retry`, `claimReview`, `process`, `failReview` | `ReviewPipeline` |
| Vocabulary practices | `vocabulary-learning/` | `VocabularyPractice`, `VocabularyPracticeAttempt`, `VocabularyLearning` | `create`, `answer`, `retry`, `setLearning`, worker `process`/`complete`/`fail` | `VocabularyPractice` |
| Entitlements | `billing/entitlement.service.ts` | `EntitlementGrant` | `grantOrder`, `changeOrderGrant`, `membership`, `ensureGift` | `Entitlement` |
| Stripe payments | `billing/stripe-webhook.service.ts`, `billing/billing.service.ts` | `PaymentOrder`, `BillingEvent` | `receive`, `checkout` | `StripeWebhook`; checkout in `Shop` |
| Google Play and AdMob | `android-commerce/google-*.ts`, `admob-*.ts` | `GooglePlayPurchase`, `RewardTicket`, `RewardEvent` | verify, reconcile, refund, consume; issue and redeem a ticket | `GooglePurchase`; the sweep in `VoidedSweep`, tickets in `Shop`, the spending of a reward in `Quota` |
| AI providers | `ai/ai-routing.ts`, `ai/bounded-ai-attempts.ts`, `ai/gemini-free-circuit.ts`, `ai/metered-ai-client.ts` | `AiProviderCircuit`, `AiUsageRecord` | choose a route, two bounded attempts, open, probe and close the circuit of the free tier, record before and after each call | `AiRouting` |
| Study sessions | `study-sessions/` | `StudySession`, `StudyActivityDay`, `DailyStudyStat` | start, timer, heartbeat, hint, complete, refresh the training | `StudySession` (time), `Learning` (evidence) |
| Adaptive reviews | `review/`, `study-sessions/review-*.ts`, `scenes/scenario-selection.ts` | `ReviewSchedule`, `ReviewEvent`, `UserGrammarProgress` | first evidence of a day, rating, scheduling, mastery | `Scheduling`, used by `Learning` |
| Daily tasks and plans | `dashboard/daily-task-generation.ts`, `dashboard/dashboard.service.ts`, `study-plans/`, `grammar/grammar.service.ts` | `StudyTask`, `StudyPlan` | generate a day, lock new grammar, edit a plan, mark a grammar | `Learning` (partly: settings are constant) |
| Android sessions | `android-commerce/android-auth.service.ts` | `AndroidBindingRequest`, `AndroidSession` | bind, approve, exchange, log out | `AndroidAccess` |
| Account deletion | `prisma/migrations/20260913063000_account_deletion_guard`, `scripts/deletion/` | `User.deletedAt`, every row an account owns | dry run, reviewed plan, deletion; reject, scrub or revoke late writes | `Subject`, `AccountLife` (partly: not the study tables) |
| Web accounts | `auth/`, `users/` | `AuthSession`, `User` | login, logout, guard, preferences | `AndroidAccess`; the timezone in `StudySession` (partly) |
| Private content and catalogue | `content/`, `grammar/`, `scenes/`, `imports/`, `content-localization/` | `ContentImport`, `ContentCandidate`, `VocabularyEntry`, bookmarks, exposures | preview, confirm, withdraw, commit, bookmark, keep a sentence | `PrivateContent`; the shared catalogue is not modelled |
| Statistics and forecasts | `dashboard/dashboard-statistics.ts`, `study-plans/study-plan-*.ts`, `history/` | none of its own | read | `StudySession`, `Learning`: minutes, completed tasks, the first day of the forecast |
| Process shell, operator scripts | `main.ts`, `config/`, `common/`, `health/`, `src/scripts/` | none between actors | start, configure; run by hand | not modelled |

How they interact: starting a study session or a vocabulary practice calls
`authorizeTask`; asking for an assessment calls `authorizeSubmission` in the same
transaction that queues the job; the worker's commit calls `completeSubmission` or
`failSubmission` in the transaction that closes the job; the minute job of the
quota repairs what a dead worker left. Membership is derived from entitlement
grants, which the payment components create, suspend and revoke. Rewards are
credited by the AdMob callback. Every worker asks the AI through one routed, metered
and bounded round. A study session serves a daily task; completing it credits time,
leaves the evidence that moves the schedule, and so decides what the next day plans.
Deleting an account races all of this, and the triggers of its migration decide what a
late write may still do.

What makes each correct: counters equal the rows they count and no pool is
overdrawn (quota); one result and one charge per request, bounded rounds,
termination (reviews); one charge per assessment, one memory update per practice,
the revision fence (vocabulary); purchased time neither lost nor doubled
(entitlements); the order mirrors the provider (payments); time counted once, mastery
earned on three days, tasks and sessions in step (study); one probe of the free tier
and no call without a record (AI); what is given once honoured once, what is withdrawn
hidden, nothing left after deletion (the account).

## 2. Modules

`X.tla` is a component, `XProperties.tla` its properties, `MCX.tla` with
`MCX*.cfg` the instances for TLC, `XProofs.tla` its proofs (those of
`StudySession` and `Entitlement` are in `TimeProofs.tla`). A definition with a
comment "(mutant ...)" is a plausible mistake in the code next to the definition
it would replace; it shows that a property notices it.

### Quota

One account. `ledger` holds the authorization rows by task, the issued periods,
the pointer to the current one, and the reward counters; `sub` the submissions by
task and `requestKey`. The service's transactions are functions on the ledger
(`AuthorizeTask`, `Charge`, `FailReviews`, `Release`, `Expire`, `OpenPeriod`), so
an action such as `Submit` composes them in the order of the code:
expiry first, then the row that stands, then the new period, then the source. The
calendar is a constant function from instants to the next local midnight, assumed
only to be ahead and to have days of at least `MinDay`. The membership, the
enforcement switch, the timezone and the status of a practice change at any time.
`Reconcile(t)` is one candidate of the minute job. The job's loop over at most 100
candidates is not modelled: fairness per task assumes that each is served in the
end. The code does not guarantee that: the job always begins with the oldest rows and
stops at one that throws, so a single row that keeps throwing starves all behind it.

### ReviewPipeline and ReviewPromise

Jobs with the fields of the claim query. `Claim` is the SQL statement (oldest
first, one more round unless exhausted); `CallProvider`, `Succeed` and `Fail` are
the stretches of `process` between its awaits. Time is two facts per job: `due`
(the backoff has elapsed) and `expired` (the lease is older than two minutes).
A worker that is alive holds its lease unless it stalls, which `MaxMishaps` bounds
together with deaths. `lockedAt` is the number of the claim. The database clock is
taken to be monotone, so the clause for leases from the future is not exercised.
`ReviewPromise` is what the learner sees; the pipeline implements it under
`request <- Outcome(job.status)`, with the rows of results and the charges as they
are. Whether the quota admits a request is `Quota`'s business; here it does.

### VocabularyPractice

One practice of an account without a membership. The learner's requests, the
learning record's changes and the workers are separate actors; a worker's
`process` is cut at every await: `Load` (the leased read), `ReadAnswer` (the read
of the queued attempt, outside the lease), `Generated`, `Complete`, `Fail`. A worker
refuses when the record has changed or the entry is not visible (`Refused`); the owner of
an imported entry withdraws and confirms it at any time (`Validate`). A refusal fails the
answer and returns its slot with or without the lease, so a worker that lost it can take
the charge from under its successor: `late` counts these, and `OncePerAssessment` and
`InFlightIsPaid` say that nothing else is had for nothing. Of the quota it keeps the slots and the unit of this one task, with the same rules as
`Quota`.

### Entitlement

The grants of one account in one billing environment (rows of the other are filtered
out of every read). `Relay` is the loop of `changeOrderGrant` and `MemberUntil` that of
`membership`, both as recursive functions over the sets of unfinished grants: what a set
comes to is what it comes to without its last grant (`Latest`, the order of the query),
and then that one (`Lay`, `Reach`). `ChangeOrderGrant` composes the change of the target
and the re-laying, `GrantOrder` the gift and the new grant behind the tail. Time is counted in ticks, `Second` ticks to a second, because a suspended
grant's time is kept in milliseconds by the row's interval and in whole seconds,
rounded up, by `remainingSeconds`. `consumedSeconds` is the duration less
`remainingSeconds`, nobody reads it, and it is left out. The rows are matched by
their source, one order or the gift. `used` and `suspensions` are history. A grant laid
out from a payment in the past counts as used since then: a late notification costs
the time that passed ("startsAt=max(paidAt,current valid entitlement tail)",
`docs/contracts/sentence-lab-v1.md:13`). A grant of a deleted account is revoked
already, so `grantOrder`'s own revocation changes nothing and is not an action.

### StripeWebhook

One order. `stripe` is the provider's truth with a version, `receipt` the
`BillingEvent` rows, `request` what each `receive` call holds in memory. The call is
cut where it awaits: `Receive` (the receipt), `Snapshot` (order and revision),
`ReadPayment`, `ListDisputes`, and the transaction (`Commit`, `Duplicate`,
`TryAgain`, `GiveUp`); `Throw` and `Die` may strike anywhere, also between the commit
and the answer. `Acknowledge` answers a repeated delivery of a processed event, and
`answered` records what Stripe got a 2xx for. The first provider
reads only find the order and are read again, so they are part of `Snapshot`.
`Stripe` announces every change by an event and delivers it until it is answered, to
any process. The grant is its status here; its interval is `Entitlement`'s business.
Assumed of the environment: a dispute is not opened between the two reads of one
request that found the payment missing (`NoneBetween`): disputes come days after a
payment and a request is bounded by the gateway's timeouts
(`billing/stripe.gateway.ts:18`). Without it the order can read DISPUTED without a
grant until the next event. Not modelled: events of other applications (answered
and dropped), `checkout.session.async_payment_failed`, identity checks of `verifyOrder` (they throw: `Throw`), refunds that
fail after they were reported (`refundedAmount` never goes down by design), and
sessions created for the order later.

### GooglePurchase

One purchase token. `row` is its `GooglePlayPurchase` row, `receipt` the `BillingEvent`
rows of its notifications and voided records, `order` and `grant` what `commit` writes,
`request` what each process holds between its awaits: `held`, the row as it was re-read
after the claim (`reconcile` goes on using it after every await), and what the two requests to Google
returned. `play` is Google's truth and `before` what it was before its last change; a
read may return either (`Answers`), so purchase and order may be of different moments.
`lagged` and `shared` are history. `Record` covers the notifications, the drain of the event table and
the voided records, `Verify` the client. A claim's read and conditional update are one
action: a revision that moves between them makes the update match nothing, and the next
poll claims the row. The row is then read once more (`Reread`, line 78), and the fence uses
the token found there: a process that stalled past its lease before this read finds its
successor's token, and both hold one fence. A token is not named but known by its
`carriers`, the processes that hold a copy of the row with it; a claim, a release or an
expiry leaves none. `shared` becomes true when a process re-reads a row whose token a
living process carries already. `FenceHolds` is the `where` of every write; `Overtaken` is a write
that matches no row. `Commit` is one transaction under the account lock with the fence
in its last statement. `CheckFence` and `Consume` are two steps because the code awaits
between them. `Fail` stands for every error that the code catches (identity and price
checks, timeouts), `Refuse` for evidence that contradicts the row, `Die` for a process that
ends. Kinds of a purchase are a pass, a licence test in the live environment and a
foreign product. Not modelled: the times of the next attempt (a free row may be claimed
at any moment, so the backoff is abstracted away), the branch for a missing order (what
gets there was completed and has one), the amount's currency arithmetic (`google-money.ts`).

### StudySession

One learner's sessions and the time they are credited. A heartbeat credits the units
since the session's last activity, at most `Grace` back, and after the cursor all
credited sessions share; `Split` gives each unit to the local day it begins in, and
the statistics of a day grow by the minutes its ledger rounds up to. `Complete` uses
the timezone the request was authenticated with, which the row may have left since.
Every handler locks the learner's row first, so it is one action; `get` reads before
it locks and is two (`Get`, `RefreshTrainingContext`). `covered` is history. One unit
of the clock stands for the seconds of the code. `Legacy` are minutes of the first day
from before the ledger existed.

### Scheduling and Learning

`Scheduling` holds the pure rules: what an answer is worth given the assessment and
hints (`ResolveEvidenceRating`), whether the review was due (`IsDueReview`), when the
grammar comes back (`EvidenceSchedule`) and whether it is mastered (`EvidenceStatus`,
and `LegacyStatus` for an account with V2 off). An assessment is one of the
four classes that the rules tell apart, the memory model an interval and whether it
has matured, both left open. `Learning` is the learner around them: opening the day
(`Opened`, the whole of `generateDailyTasks`: reviews due, checks, new grammar, reuse,
carry-over and dropped tasks), creating a session with its gate and its training,
hints, completion by both rules, plans, marks, the rollout in either direction, the next day.
A completion under the old rule keeps the version of the rule that judged the grammar
last, and its event has no review date, as in `completeStudySession`; turning V2 off is
the first step of the documented rollback, so both orders of the rules are explored. `Shown`,
`Locked`, `ForecastReviews` and `ForecastNew` are what the dashboard and the forecast
compute by queries of their own. Events are kept in order, so the rules read the same
history as the code. There is no time budget; allocation then selects every candidate.

### AccountLife

The life of one account, composed of parts that share `Subject`: the account's row,
the clock, and the triggers of the deletion migration (`MayWrite`, `Retained`,
`GrantStatus`), through which every late write of a part passes.

* `AiRouting`: a round of a worker. `route` picks the provider and, for the free tier,
  takes the lease on the circuit's row; each of at most two calls is cut into the
  record inserted, the call sent, the answer, the record settled, the circuit
  released; repair, repetition and fallback follow the classes of a failure. A process
  may die and the database may fail in between.
* `AndroidAccess`: a login in two transactions, the binding request, approval under
  the locks of the account and the web session, the exchange of the code, logout.
* `Shop`: checkout (`Begin` under the lock, the price and the page without it, the
  write of the page afterwards) and ad tickets with their callbacks.
* `PrivateContent`: rows of documents are known by their fingerprint, so two documents
  share a candidate; confirmation, withdrawal, commit, exposure, bookmarks in two steps.
* `WordMemory`: one word over several practices: marks by hand, the due list, the
  evidence of a day and the next date. A round of the worker is one step here; its
  lease and its unit are `VocabularyPractice`'s.
* `VoidedSweep`: claim, the pages, the records, the watermark, with processes that die
  or outlive their lease, and a Google that lists late and forgets.

`DryRun` and `DeleteAccount` are the operator: a plan is the number of rows of each
table, and applying it requires that the plan is still the reviewed one. The parts
write disjoint variables and meet in `Subject`; `Casts` names which actors are
explored together, so that two rounds, or a checkout and a deletion, interleave fully
without the product of everything with everything.


## 3. Runs

Every configuration disables the deadlock check: time, periods, keys and claims
are bounded, so a bounded instance legitimately stops.

| Run | What it asks | Instance and why it is enough |
|---|---|---|
| `quota_ledger` | counters equal rows (`LedgerBalanced`), no pool overdrawn (`WithinAllowance`), slots match the submissions (`SlotsMatch`), a review in flight keeps its unit (`ReviewHoldsItsUnit`), a task costs at most one unit and its review limit holds (`OneUnitPerTask`) | two grammar tasks, one daily unit, one reward, two keys, a limit of one review, clock 0..2 with days of 2 and holds of 1: expiry, retaking, a second period, a reward, a lapse of membership and of enforcement all happen; tasks and keys are symmetric. Vocabulary tasks are in `quota_clock` and, for all values, in the proofs |
| `quota_clock` | no extra allowance by moving between timezones (`PeriodsSpaced`); overdue reservations and orphaned reviews come back (`AbandonedReturns`) | one vocabulary task, two zones one instant apart with a short and a long day, three periods, the minute job fair |
| `review` | job, result, submission and slot agree (`BooksAgree`), `ReviewPromise` is implemented (`KeepsPromise`: a completed review is final), every review ends | two jobs, two processes, limits 2 and 3 (the code: 3 and 4), one process dying or stalling, which is enough for a take-over; no symmetry because of liveness |
| `vocabulary` | one charge per assessment but for the slots a late worker returned, one memory update (`OncePerAssessment`), work in flight is paid for (`InFlightIsPaid`), the revision fence, a practice comes to rest | two answers, two processes, two attempts, two mishaps; six claims are all that two attempts per phase (one generation, two answers) can make |
| `entitlement` | no gap, no overlap, no time lost or doubled | three orders of 2 s, 1 s, 1 s with and without the gift, two ticks to a second, launch at tick 1, five ticks, one suspension each: every half second of the timeline can be hit; equal orders are symmetric |
| `stripe` | settled orders mirror Stripe, no stale commit, no regress, grant agrees, no answer without a commit | two receivers, three events, amount 2 (so a partial refund exists), two tries, one mishap; receivers are symmetric |
| `google` | row, order and grant agree, settled orders mirror Google, refunds only grow, nothing ungranted is consumed; what the row says of the order only while no lease was shared | two processes, amount 2, two events, one verification, one mishap (a lagging read, an error, a death or a stall): an event can overtake a round, a payment and its refund can be read in either order, and one stall lets two processes share a lease; processes are symmetric |
| `study_time` | no time counted twice (`TimeCountedOnce`), ledger, sessions and statistics agree (`StatsMatchLedger`), the timer keeps its rhythm, an answered training is not exchanged (`ContextFrozen`) | two sessions, one possibly from an earlier release; clock 3, grace 2, minutes of 2 units, phases of 1, days of 3, two timezones, one legacy minute: overlapping windows, a day boundary inside a window, rounding and a timer left for several phases all occur |
| `learning` | mastery is earned (`MasteryEarned`), one due review a day but for a review of the old rule between (`DueOncePerDay`), tasks follow sessions, server and dashboard lock the same (`GateAgrees`), forecast and generation agree | one grammar under review (two qualifying reviews and one that does not, so the next decides) and one new; two sessions, two days, one edit, three kinds of answer, an account with V2, one without, one whose plan is completed, one taken back from V2 on the day of a due review (an answer may then master the grammar by the old rule, and V2 be turned on again) and one with V2 on again after a review of the old rule that day (a mark then makes it due twice); sessions are symmetric |
| `account_life` | one probe, metered calls, once is once, withdrawn is hidden, nothing after deletion, the watermark covers | casts: two rounds; a round against the operator; two logins with a binding; two checkouts; two tickets with two callbacks; content against the operator; two sweeps of a record or one of two; two practices of a word with the clock and with the operator. Clock 4, where leases are 3 and calls 1, a day of the providers 4, of the learner 2: leases, codes, quotes and tickets run out within it. Three deployments (both providers, the first only, none); practices are symmetric |
| `vocabulary_stranded` | violation: a failed practice keeps its slot | two answers |
| `vocabulary_fencing` | violation: a completed attempt is undone | one answer |


Bounds: `MaxTime`/`Horizon`, `MaxPeriods`, `MaxRewards` (clock, calendar, periods,
rewards), `MaxMishaps` (processes that die or stall), `MaxClaims` (claims of a
practice), `MaxClock` and `MaxSuspensions` (timeline), `MaxEvents` (events of an order
or a purchase), `MaxRevision` (verifications the client asks for; manual marks of a word),
`MaxEdits` (edits of plans and marks), `MaxInterval` (days the memory model may
choose), `MaxAttempts` (claims of a word's practice), `Accounts` and `Casts` (which
accounts, with their reviews so far, and which sets of actors are explored). The safety properties quantify over tasks and keys pairwise at most, so
two of each exhibit every interaction; where section 4 has a theorem, the bounds are
gone. Only the liveness properties rest on the instances alone.

### Fairness

`FairSpec` of each model assumes weak fairness of what timers drive: the polls of a
live process (`@Interval(500)`, `@Interval(1000)`), the end of a provider call
(bounded by 40 s in `ai/`), the ageing of a lease, and the minute job. Only the
quota, the review pipeline and the practice carry liveness claims; the other models
assume no fairness. Nothing is assumed of the learner, and a process may die or stall
at any point.

### Disagreements with the documents

Two runs expect a violation; each quotes a contract of the repository.

* `vocabulary_stranded`: the `RETRY_LIMIT` sweep
  (`vocabulary-practice.lease.ts:20`) marks a practice FAILED and touches neither
  its queued answer, nor the review slot, nor the reserved unit, while
  `docs/contracts/sentence-lab-v1.md:28` says "Failure releases unsuccessful
  submission slots and unconsumed task reservation". The minute job repairs the slot
  only while the practice is still FAILED; the unit comes back after a day.
* `vocabulary_fencing`: `complete()` fails the attempt without looking at its
  lease guard (`vocabulary-practice.worker.ts:163`), so an overtaken worker undoes a
  completed attempt; `docs/vocabulary-learning-contract.md:18` promises "lease
  fencing". The same missing guard makes an assessment free of charge when an entry is
  withdrawn and confirmed again while its answer is assessed for the second time
  (`late`), although `sentence-lab-v1.md:28` lets the first successful assessment consume
  the reservation.

## 4. Proofs

`QuotaProofs` proves, for every set of tasks and keys, every limit, calendar and
bound that satisfies the assumptions of `Quota`: `TypeCorrect`, `Conservation`
(`LedgerBalanced`), `NeverOverdrawn` (`WithinAllowance`), `SlotsAgree`
(`SlotsMatch`) and `ReviewsAreBacked` (`ReviewHoldsItsUnit`).

None of these is inductive alone. The invariant `IInv` is the type invariant, the
agreement of slots and submissions, and `Good(ledger, earned)`, whose parts are
`Counted` (counters equal rows), `Capped` (no pool overdrawn, stated on the
counters, as the guard of `authorizeTask` reads them), `Backed` (a task with reviews
in flight is not released) and `Placed`: a DAILY authorization names a period that
has been issued, which the code relies on silently when it decrements
`auth.periodId!`. Each function on the
ledger has a lemma that it keeps `Good` (`ReleaseKeeps`, `AuthorizeKeeps`,
`FailReviewsKeeps`, ...), by how it moves one task between the sets `Daily` and
`Reward` and what that does to their cardinalities; the theorem that a step keeps
`IInv` has one step per action and cites them. The assumptions are
`TasksAssumption`, `BoundsAssumption` and `CalendarAssumption` of `Quota`.

Two more theorems follow. `AllowancesSpaced` (`PeriodsSpaced`) needs that a period ends at
a midnight of the zone it was opened in, and that the next one is opened once it has
ended: two ends are then a day of some zone apart. `ChargedOnce` (`OneUnitPerTask`) is an
action property; one lemma for each function of the ledger says which way a task may move.

`StripeProofs` proves, for any number of events, receivers, tries and mishaps and any
amount: `StripeTypeCorrect` (`TypeOK`), `GrantAgrees` (`GrantFollowsOrder`),
`CommitsAreFresh` (`NoStaleCommit`), `AnswersAreKept` (`AnsweredIsDone`),
`MoneyForward` (`FinancialForward`) and `OrdersMirror` (`SettledMirrors`). The
invariant `IInv` adds three parts. `Fence` says what the revision is worth: a request
that still holds the current revision read the payment, and listed the disputes, no
earlier than the last commit did. A commit raises the revision (`RevisionGrows`, by
the cardinality of the processed events), so after it no request in flight is
current, and that is why `Fence` survives. `Readings` says what a reading cannot
contain (a refund or a dispute of an unpaid charge), `Truthful` ties the order's own
fields and says that the order knows no more than Stripe. `CommitReads` states what a
commit may rely on, `CommitWrites` what it writes; both action properties follow from
them, since no other step writes the order (`OnlyCommitWrites`). `SettledMirrors` follows
the last event: a change at Stripe appends its events, so the last event announced is of the
last change, and whoever handles it reads after it (`Faithful`). Its commit is therefore of
the present truth (`CaughtUp`), by `NoStaleCommit` no later commit is of an older one, and
what is read from the present truth is written as such (`Written`). The only assumption is
`WebhookAssumption`.

`GoogleProofs` proves, for any number of processes, events, verifications and mishaps
and any amount: `GoogleTypeCorrect` (`TypeOK`), `TablesStayAgreed` (`TablesAgree`),
`ConsumedIsServed` (`ConsumedWasServed`), `RefundsOnlyGrow` (`RefundsForward`) and
`OrdersMirrorGoogle` (`SettledMirrors`). The
invariant `IInv` adds what a process may rely on (`Requests`): as long as its fence
holds and nobody has shared it, the row is as it re-read it, since whoever changes a row
either holds its fence too, and then the lease was shared (`OneFence`, from `OneCarrier`), or
raises its revision, after which the fence never holds again (`Outdated`). That is why the
code may judge a refund by the row it read before its awaits. Under a shared fence it may
not; what is left then is what the commit decides by the order, under its lock
(`CommitWrites`), and what no write takes back: a linked row stays linked. `Truthful` says what late answers of Google still have in
common, `Bounded` bounds the revision by the events stored (`StoredGrows`, a count of
a finite set), `RowFacts` ties the row's fields. A write of the row that ends a round is
one lemma (`ReleaseKeeps`), so is any step that writes nothing (`ProceedKeeps`).
For `SettledMirrors`, recording an event raises the row's revision; so as long as a process
holds its fence and the last event is stored, what it read was read after that event, and is
the truth unless Google lags (`Knows`); whoever shares the fence has read it, too. Nobody knows of money or events Google has not
announced (`Known`), and the commit that closes the last event writes what Google says
(`Mirrored`). The only assumption is `PurchaseAssumption`.

`TimeProofs` has the proofs of the study sessions and of the entitlements, which share what
they need of recursions over finite sets. It proves `CreditedOnce` (`TimeCountedOnce`) for any number of sessions, any
timezones and any lengths of heartbeat, minute, phase and day. `TimeCountedOnce` alone
is not inductive: `CreditedIsPast` adds that a credited unit lies before the last
activity of a session with rows in the ledger, which is the cursor every later
heartbeat respects. It needs that a window which is not empty adds rows
(`SplitCounts`), since only such sessions move the cursor. Of a session this proof
assumes only what the credit reads (`Sound`), and sums over days are left opaque.

`TimerKeepsRhythm` (`TimerOnSchedule`) and `TrainingStays` (`ContextFrozen`): the stored timer
is what the schedule gave at some earlier moment (`KInv`), and whole cycles of focus and
break do not matter, so a timer left for any time is resolved to the phase it should be in.
`StatisticsAreTheLedger` (`StatsMatchLedger`) needs what a sum is: `Total` is a fold over a
finite set. That such a recursion defines a function is one lemma (`FoldExists`), by a
smallest counterexample in the order of the subsets (`SubsetsGrow`); that `Total` adds up
element by element, in any order, follows (`TotalIs`, `SumAdd`). A heartbeat then adds the same
amount to the session, to its rows, to the covered units and, rounded once a day, to the
statistics (`Ledger`, `Tasks`). The assumptions are `SessionsAssumption` and
`ClockAssumption`.

Of the timeline of grants it proves `PurchasedTimeKept` (`TimeConserved`) and
`MembershipEndsOnTime` (`ExpiresAfterAll`), for any finite set of orders, any durations and
any second. Neither is inductive. The invariant `TimeInv` is the balance of every grant
(`Balanced`) and a `Timetable`: rows are typed and no longer than their duration
(`Sane`), rows have different numbers (`Numbered`), the gift comes before everything and
does not move (`GiftFirst`), and the grants that are not finished have a length
(`Lasting`), begin now or where another ends (`Unbroken`) and do not overlap (`Apart`).
`GrantsFollowEachOther` states these parts as a result of their own. `GiftFirst` is what
makes re-laying safe: the loop leaves the gift where it is, so an order
in front of it would overlap it. The argument has three steps.

1. The numbers order the unfinished grants, so every set of them has a last one
   (`LatestIs`), and the two loops are functions (`RelayIs`, `MemberUntilIs`, both from
   `FoldExists`).
2. One turn of the loop of `changeOrderGrant` takes no time from any grant (`LayKeeps`) and
   puts its grant where the tail is (`LayTiles`); over all sets that are closed towards the
   past this gives the timetable again (`RelayLays`). `Seconds` rounds a suspension up by
   less than a second (`SecondsRound`), and a restored grant gets that back and no more
   (`ChangedIs`). A new grant starts where the last one ends or when it was paid
   (`StartOfIs`), and what of it lies in the past counts as used (`NewIsBalanced`).
3. In a timetable, the last grant of a closed set begins where the chain of the others
   stands (`ChainMeets`), so the chain grows by what remains of it (`ChainAdds`), and the
   whole chain ends after the sum.

The assumption is `EntitlementAssumption`. TLC found `TimeInv` true on the instance of the
run `entitlement` before it was proved.

`LearningProofs` proves all five properties of `learning`, for any grammars, levels, plans,
sessions, answers, days and histories:

* `TasksKeepTheirSession` (`TasksFollowSessions`). A task is planned for a grammar that no
  task of the day holds, under a key that is free or waits unstarted (`KeyForIs`): a key
  names the day it was made, so a completed task with the key of today was completed today
  and holds its grammar (`Dated`). `TInv` is the property with that and the types.
* `LockIsTheGate` (`GateAgrees`) from `TInv`: what is open once the day is opened is shown
  (`OpenIsShown`), and what runs under an active plan is dated today (`RunsToday`).
* `OneDueReviewADay` (`DueOncePerDay`). A review that was due today is the last that counts
  or a counted one of the old rule came after it (`Kept`), whatever rule is on. What
  `RecentDue` gains from one more review is proved over the numbers (`OneMoreReview`).
* `MasteryIsEarned` (`MasteryEarned`). `Judged` says that the V2 rule is claimed only
  where one of its reviews has been, and that who is mastered under it is proven by its
  evidence (`Proven`) or by the old rule (`ProvenByOldRule`). `ThreeConfirm` proves the one,
  three clean reviews of which the last is of the old rule the other (`OldRuleProves`), and
  a review that is not counted or not assessed leaves both (`ProvenStays`, `OldRuleStays`).
* `ForecastIsThePlan` (`ForecastMatchesPlan`). A level has one current plan (`PlansApart`), so
  the plan of a task is the one plan of its level; the first `n` of a finite set of
  numbers are `n` or all of it (`FirstOfCount`), which is the minimum the forecast takes.

The assumptions are `IntervalAssumption`, `SceneAssumption`, `LearningAssumption` and
`HistoryAssumption`: what went before in the accounts (`Accounts`) happened on earlier days
or earlier on the first day, under either rule, and `Kept` holds of it.

`ReviewProofs` proves, for any number of jobs, processes, rounds and mishaps:
`ReviewBooksAgree` (`BooksAgree`) and `ReviewKeepsPromise` (`KeepsPromise`). A claim writes
a number that no lease has yet, so a worker whose lease holds has counted the round it is
in (`LeaseFacts`). Every counted round pays for one call, those made and those a lease
still allows (`CallsPaid`, by the cardinality of the workers that may still call), so an
overtaken worker cannot make one call too many. The refinement has one lemma per kind of
step: asking, succeeding, failing, and everything the learner does not see. The assumptions
are `TablesAssumption` and `RoundsAssumption`.

`VocabularyProofs` proves, for any number of answers and workers: `VocabularyOncePerAssessment`,
`VocabularyInFlightIsPaid` and `VocabularyRevisionFences`. A worker reads the practice and
the queued answer at two moments, so the invariant follows the latest answer
(`PracticeFacts`): while the practice is assessed, its slot is in flight or was returned
by a late worker (`Unbacked`), and after a failure it is not paid, so a retry queues nothing
that was charged. `Balance` sets one late return aside for an unbacked practice. `LeaseFacts` is what a lease is
worth while it holds; the answers are numbered without gaps (`OrdinalFacts`). The assumption
is `LimitsAssumption`.

`AccountLifeProofs` proves all six properties of `account_life` for any number of rounds,
sessions, orders, tickets, rows, practices and sweepers: `FreeTierAlone` (`ProbeAlone`),
`EveryCallMetered` (`CallsMetered`), `AccountHonours` (`HonouredOnce`), `AccountWithdrawals`
(`WithdrawnIsHidden`), `AccountStaysEmpty` (`NothingAfterDeletion`) and `AccountSweeps`
(`WatermarkCovers`). The parts share the account's row and the clock, and nothing else:
each has an invariant, kept by its own steps, by those of the others (`...Frame`), by the
clock (`...Tick`) and by the deletion (`...Delete`), whose remains are a conjunct of it. `IInv`
is their conjunction; TLC agrees with it on the instance of the run.

* `AiInv`: the round, its records and its calls are advanced together (`Recorded`), and a
  round that probes the free tier holds the row for longer than its call may last
  (`Leased`, from `ProbeFits`), so no other round is admitted before it is over. The
  price of a record covers its tokens by arithmetic alone (`CostCovers`).
* `SweepInv`: a window is opened under the lease and starts `Overlap` before the watermark;
  what is older than the longest delay was listed or is among the pages still to read.
* `WordInv`: one practice is open at a time, and the evidence of a day came from the first
  assessment of that day.
* `SaleInv`, `RewardInv`, `AccessInv`: the order is committed before the page exists; a
  ticket, a transaction of the network and a code are spent by the row that names them.

The assumptions are those of the modules: `NullAssumption`, `DayAssumption`, `DecisionsAssumption`,
`LivesAssumption`, `ShopAssumption`, `DelayCovered`, `DeploymentsAssumption`, `PricesAssumption` and
`ProbeFits`.


Every safety property that a passing run checks is proved. The type invariants of the review
pipeline, the practice and the timeline are conjuncts of `BooksAgree`, `InFlightIsPaid` and
`ExpiresAfterAll`. Only model-checked are the liveness properties (`AbandonedReturns`,
`EveryReviewEnds`, `PracticeRests`): liveness under fairness is out of the prover's reach.

Inductions, over numbers and over finite sets, are done by a smallest counterexample in
a well-founded order; the induction theorems of the library take an operator as a
parameter, which the provers cannot instantiate.

## 5. Not modelled, and what the models assume

Left out, because no property tells them apart or no second actor is involved: texts,
prompts, scores and their validation; localisation; catalogue imports; the numeric
formulas of FSRS (a library) and the forecast beyond its first day; HTTP, cookies and
signatures; read-only endpoints; the shell and the scripts run by hand.
Stripe's `checkout.session.async_payment_failed`, which marks an order like the failed
payment that is modelled. `submissionHash`: equal payloads for equal keys are assumed, a mismatch is an error
before any write. Cached tokens written (`cacheWrite`), the text fed back to a
provider, payloads of billing events, notes of kept expressions, and the hints of a
word practice (they only change the interval the memory model chooses, which is open).
The deletion's blockers that read study or gift tables are left out with those tables.

Assumptions, named where they are used:

* `ProbeFits`: the insert of a usage record and a call together are shorter than the
  lease of a probe (below 10 s and 20 s, against 30 s). Without it two probes could be
  under way.
* `DelayCovered`: Google lists a voided record at most a day after it was voided.
* Learning: the timezone, the daily limit and the target level stay as they are.
  `HistoryAssumption`: the reviews an account begins with obeyed the rules of the model.

Behaviour the models show, and that is worth knowing:

* `claim` reads the row again after its update (`google-purchase.service.ts:78`) and
  fences with the token it finds. A process that stalls past its two minutes between the
  two shares the lease of its successor, and then what
  `docs/contracts/android-commerce-v1.md:20-21` says of the row may fail: a paid order
  beside a row that awaits its owner, a refund marked as consumed, an order time that
  goes back, a tombstone that is overwritten. The order and the grant are decided under
  the account's lock and stay right ("A stale successful result cannot resurrect a
  refunded grant"). The properties of `GooglePurchase` say which part holds always and
  which only while `shared` is false; fencing with the token the process drew itself
  would make all of it hold.
* Turning V2 off, the first step of the rollback in `docs/learning-v2-release.md:107-112`,
  leaves `masteryRuleVersion` as it is, so a grammar that the old rule then masters is
  recorded as mastered under `mastery-v2` without the evidence that
  `docs/learning-v2-implementation.md:32-33` asks for, and keeps that after V2 is on
  again, until a counted review is assessed. A review of the old rule has no review date; if it is the
  last that counts, `isDueReview` no longer knows of the due review of today, and a grammar
  marked to come back may be due twice that day. `MasteryEarned` and `DueOncePerDay` say
  that nothing else leads there.
* The gap check of the sweep compares thirty days with the watermark, not with the
  watermark less the overlap that it lists from, so after nearly thirty days of
  failures a record shown late may be missed. `opened` excludes it from
  `WatermarkCovers`.
* The minute job stops at a candidate that throws and always starts with the oldest
  hundred, so one row that keeps throwing starves the ones behind it (`AbandonedReturns`
  is claimed under fairness for each task, which excludes this).
* A usage record that cannot be inserted, for instance because the account was deleted,
  closes the free tier's circuit for five minutes for everybody.
* Stripe may still create a page for an account deleted during the call. Its address
  is not stored, and a payment is granted nothing.
* A phrase brought by two documents is offered only once the first of them is
  committed; an exposure of a confirmed phrase is recorded before its commit.
* A failed practice keeps the `dueAtStart` of its day. Retried on a later day it counts
  as evidence, although another practice may have moved the word's date since.
* A session opened within another's heartbeat interval moves the shared cursor with
  its first credit: time may be counted short, never twice.
* Practising a new grammar without an assessment gives it a schedule while it is still
  NOT_STARTED, so it may be both a review and a new task. A LEARN session without a
  task passes no review gate. The forecast counts what was begun today by plan, the
  generation by level; `ForecastMatchesPlan` therefore speaks of days where nothing
  was begun.

## 6. Plan

Modelled and checked: everything in the table of section 1 except the shell and the
scripts. What would add most next:

1. The study tables in the account's deletion, with their blockers.
2. Preferences that change the daily limit and the target level under a running plan.
3. The minute job as a loop over a hundred candidates with rows that throw.
