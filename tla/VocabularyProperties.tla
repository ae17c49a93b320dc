------------------------ MODULE VocabularyProperties ------------------------
(* What a vocabulary practice promises, and two promises of the             *)
(* repository's documents that the code does not keep.                      *)
EXTENDS VocabularyPractice

Spent == Cardinality(With(sub, "SUCCEEDED"))

\* No review is spent without an assessment, and no assessment is had without spending
\* one, but for a single cause: a worker that lost its lease, and finds the entry
\* withdrawn, returns the slot of the answer its successor is assessing; the successor,
\* if the entry is confirmed again, then charges nothing.  A practice is evidence for
\* the memory schedule at most once, whichever workers die, stall or are overtaken and
\* however many of its answers are assessed
\* (vocabulary-practice.worker.ts:150-181, 216-234, 238-259).
OncePerAssessment ==
  /\ Spent <= assessed /\ assessed <= Spent + late
  /\ evidence <= 1 /\ (evidence = 1 => practice.assessment)

\* An answer in flight is paid for, in four tables written by five services: its
\* attempt is QUEUED exactly while its slot is PENDING; an assessment that can still
\* be accepted has such a slot to spend, or is one of those whose slot was returned
\* under the worker (worker.ts:108-125, where attempt?.id may be undefined); and the
\* unit behind it is not returned, by an overdue reservation or by the failure of
\* another answer.  No row ever counts an attempt too many (TypeOK).
InFlightIsPaid ==
  /\ TypeOK
  /\ \A k \in Keys : /\ attempt[k] = "QUEUED" <=> sub[k] = "PENDING"
                     /\ attempt[k] = "COMPLETED" /\ late = 0 => sub[k] = "SUCCEEDED"
  /\ practice.status = "ASSESSING" /\ ~changed /\ With(sub, "PENDING") = {} =>
       assessed < Spent + late
  /\ With(sub, "PENDING") # {} => unit \in {"RESERVED", "CONSUMED"}

\* "Revisions fence in-flight practices": once the learner has changed the learning
\* record, no worker's assessment is accepted or scheduled, even one that loaded the
\* practice before the change (worker.ts:150-172).
RevisionFences == [][changed => assessed' = assessed /\ evidence' = evidence]_vars

\* A practice in progress comes to rest, if workers that live finish and time passes.
PracticeRests == practice.status \in Busy ~> practice.status \notin Busy

-----------------------------------------------------------------------------
(* Promises that are not kept.                                             *)

\* "Failure releases unsuccessful submission slots": a practice that has come to a
\* successful end has no slot in flight.  Broken by GiveUp, which fails a practice
\* without failing its answer: a new answer before the minute job runs hides it.
NoSlotStranded == practice.status = "COMPLETED" => With(sub, "PENDING") = {}

\* "Lease fencing": an overtaken worker cannot undo what its successor committed.
\* Broken by RejectAnswer, which fails the attempt without looking at the lease.
CompletedAttemptStays ==
  [][\A k \in Keys : attempt[k] = "COMPLETED" => attempt'[k] = "COMPLETED"]_vars
=============================================================================
