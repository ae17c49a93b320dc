--------------------------- MODULE ReviewPipeline ---------------------------
(***************************************************************************)
(* The asynchronous review of sentences: jobs in the database, claimed     *)
(* under a lease by worker processes, retried in rounds, and settled       *)
(* together with the submission that paid for them.                        *)
(*                                                                         *)
(* Several processes poll the same table.  Between its claim and its commit *)
(* a worker awaits the provider and holds nothing but its lease, so it may  *)
(* be overtaken, stall or die.  The database clock is reduced to two facts  *)
(* per job that time makes true: a backoff has elapsed (due), a lease is    *)
(* older than two minutes (expired).  lockedAt is reduced to the number of  *)
(* the claim that wrote it.                                                 *)
(***************************************************************************)
EXTENDS Integers, FiniteSets

CONSTANTS
  Jobs,             \* review jobs of an account, one per requestKey
  Workers,          \* worker processes
  AutomaticRounds,  \* AUTOMATIC_REVIEW_ROUNDS (3)
  TotalRounds,      \* TOTAL_REVIEW_ROUNDS (4)
  MaxMishaps,       \* bound on the workers that die or stall past a lease
  NoLease           \* a worker without a lease

ASSUME TablesAssumption == IsFiniteSet(Jobs) /\ IsFiniteSet(Workers)

ASSUME RoundsAssumption ==
  /\ AutomaticRounds \in Nat \ {0}
  /\ TotalRounds \in Nat /\ AutomaticRounds < TotalRounds
  /\ MaxMishaps \in Nat

VARIABLES
  job,       \* AiReviewJob rows
  sub,       \* status of the TaskSubmission whose resultId is the job
  lease,     \* the ReviewLease a worker holds in memory, and its progress
  results,   \* history: AiReviewResult rows per job
  charges,   \* history: completeSubmission() calls that charged
  calls,     \* history: rounds in which the provider was called
  retries,   \* history: manual retries per job
  claims,    \* history: claims made, the source of lockedAt
  mishaps

vars == <<job, sub, lease, results, charges, calls, retries, claims, mishaps>>

JobStatuses == {"NONE", "QUEUED", "PROCESSING", "COMPLETED", "FAILED"}

Job == [status : JobStatuses, retryCount : 0..TotalRounds, lockedAt : Nat,
        createdAt : Nat, due : BOOLEAN, expired : BOOLEAN]

ReviewLease == [id : Jobs, lockedAt : Nat, exhausted : BOOLEAN, round : Nat, called : BOOLEAN]

TypeOK ==
  /\ job \in [Jobs -> Job]
  /\ sub \in [Jobs -> {"NONE", "PENDING", "SUCCEEDED", "FAILED"}]
  /\ lease \in [Workers -> ReviewLease \cup {NoLease}]
  /\ results \in [Jobs -> Nat] /\ charges \in [Jobs -> Nat]
  /\ calls \in [Jobs -> Nat] /\ retries \in [Jobs -> Nat]
  /\ claims \in Nat /\ mishaps \in 0..MaxMishaps

Unlocked == 0

Init ==
  /\ job = [j \in Jobs |-> [status |-> "NONE", retryCount |-> 0, lockedAt |-> Unlocked,
                            createdAt |-> 0, due |-> FALSE, expired |-> FALSE]]
  /\ sub = [j \in Jobs |-> "NONE"]
  /\ lease = [w \in Workers |-> NoLease]
  /\ results = [j \in Jobs |-> 0] /\ charges = [j \in Jobs |-> 0]
  /\ calls = [j \in Jobs |-> 0] /\ retries = [j \in Jobs |-> 0]
  /\ claims = 0 /\ mishaps = 0

-----------------------------------------------------------------------------
(* The learner.                                                            *)

Created == {j \in Jobs : job[j].status # "NONE"}

\* create(): the row, its attempt and its submission in one transaction.  A
\* requestKey that already has a job returns that job and changes nothing.
Create(j) ==
  /\ job[j].status = "NONE"
  /\ job' = [job EXCEPT ![j] = [status |-> "QUEUED", retryCount |-> 0, lockedAt |-> Unlocked,
                                createdAt |-> Cardinality(Created) + 1,
                                due |-> TRUE, expired |-> FALSE]]
  /\ sub' = [sub EXCEPT ![j] = "PENDING"]
  /\ UNCHANGED <<lease, results, charges, calls, retries, claims, mishaps>>

\* retry(): a failed job with rounds left is authorized and queued again.
Retry(j) ==
  /\ job[j].status = "FAILED" /\ job[j].retryCount < TotalRounds
  /\ job' = [job EXCEPT ![j].status = "QUEUED", ![j].due = TRUE]
  /\ sub' = [sub EXCEPT ![j] = "PENDING"]
  /\ retries' = [retries EXCEPT ![j] = @ + 1]
  /\ UNCHANGED <<lease, results, charges, calls, claims, mishaps>>

-----------------------------------------------------------------------------
(* The workers.                                                            *)

\* (mutant ClaimableQueued: an interrupted job is never recovered)
ClaimableQueued(j) == job[j].status = "QUEUED" /\ job[j].due

Claimable(j) ==
  \/ job[j].status = "QUEUED" /\ job[j].due
  \/ job[j].status = "PROCESSING" /\ job[j].expired

\* (mutant ExhaustedAtTotal: an interrupted round is simply run again)
ExhaustedAtTotal(j) == job[j].retryCount >= TotalRounds

Exhausted(j) ==
  \/ job[j].retryCount >= TotalRounds
  \/ job[j].status = "PROCESSING" /\ job[j].retryCount >= AutomaticRounds

\* claimReview(): the oldest claimable job, one round on unless it is exhausted.
Claim(w) ==
  /\ lease[w] = NoLease
  /\ \E j \in Jobs :
       LET round == job[j].retryCount + (IF Exhausted(j) THEN 0 ELSE 1)
       IN  /\ Claimable(j)
           /\ \A i \in Jobs : Claimable(i) => job[j].createdAt <= job[i].createdAt
           /\ job' = [job EXCEPT ![j].status = "PROCESSING", ![j].lockedAt = claims + 1,
                                 ![j].retryCount = round, ![j].expired = FALSE]
           /\ lease' = [lease EXCEPT ![w] =
                [id |-> j, lockedAt |-> claims + 1, exhausted |-> Exhausted(j),
                 round |-> round, called |-> FALSE]]
  /\ claims' = claims + 1
  /\ UNCHANGED <<sub, results, charges, calls, retries, mishaps>>

\* process() calls the provider; an exhausted lease never does.
CallProvider(w) ==
  /\ lease[w] # NoLease /\ ~lease[w].exhausted /\ ~lease[w].called
  /\ lease' = [lease EXCEPT ![w].called = TRUE]
  /\ calls' = [calls EXCEPT ![lease[w].id] = @ + 1]
  /\ UNCHANGED <<job, sub, results, charges, retries, claims, mishaps>>

\* (mutant LeaseIgnored: whoever finishes writes)
LeaseIgnored(l) == TRUE

\* leaseWhere(): the row is still the one this worker claimed.
LeaseHolds(l) == job[l.id].status = "PROCESSING" /\ job[l.id].lockedAt = l.lockedAt

\* (mutant SettleNothing: the job is closed and its submission forgotten)
SettleNothing(j, outcome) == UNCHANGED <<sub, charges>>

\* The submission is looked up with status PENDING and settled with the job.
Settle(j, outcome) ==
  IF sub[j] = "PENDING"
  THEN /\ sub' = [sub EXCEPT ![j] = outcome]
       /\ charges' = IF outcome = "SUCCEEDED" THEN [charges EXCEPT ![j] = @ + 1] ELSE charges
  ELSE UNCHANGED <<sub, charges>>

\* The commit of process(): result, charge and status, or nothing at all.
Succeed(w) ==
  /\ lease[w] # NoLease /\ lease[w].called
  /\ LET j == lease[w].id
     IN  IF LeaseHolds(lease[w])
         THEN /\ job' = [job EXCEPT ![j].status = "COMPLETED"]
              /\ results' = [results EXCEPT ![j] = @ + 1]
              /\ Settle(j, "SUCCEEDED")
         ELSE UNCHANGED <<job, results, sub, charges>>
  /\ lease' = [lease EXCEPT ![w] = NoLease]
  /\ UNCHANGED <<calls, retries, claims, mishaps>>

\* failReview(): another automatic round after a backoff, or the end of the job.
RetriesLater(l, retryable) == retryable /\ ~l.exhausted /\ l.round < AutomaticRounds

Fail(w) ==
  /\ lease[w] # NoLease
  /\ \E retryable \in IF lease[w].exhausted THEN {FALSE} ELSE BOOLEAN :
       LET j     == lease[w].id
           later == RetriesLater(lease[w], retryable)
       IN  IF LeaseHolds(lease[w])
           THEN /\ job' = [job EXCEPT ![j].status = IF later THEN "QUEUED" ELSE "FAILED",
                                      ![j].due = ~later, ![j].lockedAt = Unlocked]
                /\ IF later THEN UNCHANGED <<sub, charges>> ELSE Settle(j, "FAILED")
           ELSE UNCHANGED <<job, sub, charges>>
  /\ lease' = [lease EXCEPT ![w] = NoLease]
  /\ UNCHANGED <<results, calls, retries, claims, mishaps>>

\* The process dies, or a database error escapes process(): the lease is forgotten.
Die(w) ==
  /\ lease[w] # NoLease /\ mishaps < MaxMishaps
  /\ lease' = [lease EXCEPT ![w] = NoLease]
  /\ mishaps' = mishaps + 1
  /\ UNCHANGED <<job, sub, results, charges, calls, retries, claims>>

-----------------------------------------------------------------------------
(* Time.                                                                   *)

Held(j) == \E w \in Workers : lease[w] # NoLease /\ lease[w].id = j /\ LeaseHolds(lease[w])

BackoffElapses(j) ==
  /\ job[j].status = "QUEUED" /\ ~job[j].due
  /\ job' = [job EXCEPT ![j].due = TRUE]
  /\ UNCHANGED <<sub, lease, results, charges, calls, retries, claims, mishaps>>

\* A lease nobody holds any more grows old.
LeaseExpires(j) ==
  /\ job[j].status = "PROCESSING" /\ ~job[j].expired /\ ~Held(j)
  /\ job' = [job EXCEPT ![j].expired = TRUE]
  /\ UNCHANGED <<sub, lease, results, charges, calls, retries, claims, mishaps>>

\* A worker stalls for longer than its lease (it may still wake up and commit).
Stall(j) ==
  /\ job[j].status = "PROCESSING" /\ ~job[j].expired /\ Held(j) /\ mishaps < MaxMishaps
  /\ job' = [job EXCEPT ![j].expired = TRUE]
  /\ mishaps' = mishaps + 1
  /\ UNCHANGED <<sub, lease, results, charges, calls, retries, claims>>

-----------------------------------------------------------------------------
Next ==
  \/ \E j \in Jobs : Create(j) \/ Retry(j) \/ BackoffElapses(j) \/ LeaseExpires(j) \/ Stall(j)
  \/ \E w \in Workers : Claim(w) \/ CallProvider(w) \/ Succeed(w) \/ Fail(w) \/ Die(w)

Spec == Init /\ [][Next]_vars

\* The poll timer of every process fires (poll, 500 ms), a worker that has not died
\* comes to an end (the provider call is bounded by 40 s), and time passes.
Fairness ==
  /\ \A w \in Workers : /\ WF_vars(Claim(w))
                        /\ WF_vars(CallProvider(w) \/ Succeed(w) \/ Fail(w))
  /\ \A j \in Jobs : WF_vars(BackoffElapses(j)) /\ WF_vars(LeaseExpires(j))

FairSpec == Spec /\ Fairness
=============================================================================
