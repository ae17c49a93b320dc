-------------------------- MODULE ReviewProperties --------------------------
(* What the review pipeline promises, and the abstract promise it keeps.    *)
EXTENDS ReviewPipeline

\* The books of a job agree.  Its slot is in flight exactly while it is queued or
\* processed, spent exactly when it is completed, and free exactly when it has failed:
\* two tables, written by five transactions of three services.  And "at most 4 rounds":
\* over its whole life, through crashes, overtaken leases and manual retries, the
\* provider is called in at most TotalRounds rounds, and beyond AutomaticRounds only
\* after the learner asked again (ai-worker.service.ts:73-142,
\* review-job-failure.ts:64-67, 85-98, review-job-lease.ts:23-27).
SlotFollows(j) ==
  /\ sub[j] = "PENDING"   <=> job[j].status \in {"QUEUED", "PROCESSING"}
  /\ sub[j] = "SUCCEEDED" <=> job[j].status = "COMPLETED"
  /\ sub[j] = "FAILED"    <=> job[j].status = "FAILED"

RoundsBounded(j) ==
  /\ calls[j] <= TotalRounds
  /\ calls[j] > AutomaticRounds => retries[j] > 0

BooksAgree == TypeOK /\ \A j \in Jobs : SlotFollows(j) /\ RoundsBounded(j)

\* The pipeline keeps the learner's promise: seen from outside, crashes, stale
\* workers and automatic rounds are steps that change nothing, so that nothing
\* reopens a completed review or charges it twice (review-job-lease.ts:33-37,
\* ai-worker.service.ts:73-142).
Outcome(status) ==
  CASE status = "NONE" -> "NONE"
    [] status \in {"QUEUED", "PROCESSING"} -> "WAITING"
    [] status = "COMPLETED" -> "REVIEWED"
    [] status = "FAILED" -> "REFUSED"

Promise ==
  INSTANCE ReviewPromise
    WITH request <- [j \in Jobs |-> Outcome(job[j].status)],
         reviewed <- results, charged <- charges

KeepsPromise == Promise!PromiseSpec

\* Every review that is asked for ends, in a result or a failure, even if the
\* workers that hold it die.
EveryReviewEnds ==
  \A j \in Jobs :
    job[j].status \in {"QUEUED", "PROCESSING"} ~> job[j].status \in {"COMPLETED", "FAILED"}
=============================================================================
