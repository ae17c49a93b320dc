------------------------- MODULE VocabularyPractice -------------------------
(***************************************************************************)
(* One vocabulary practice of an account without a membership: a challenge *)
(* is generated, answers to it are assessed, and each answer pays with a   *)
(* review slot of the practice's task.                                     *)
(*                                                                         *)
(* The row is moved by three uncoordinated parties: the learner's requests *)
(* (under the account lock), the workers (under a lease they may have lost *)
(* by the time they commit), and the learning record, whose manual changes *)
(* end an open practice without touching its answers or its task.  A       *)
(* fourth, the validation of an imported entry, never touches the practice *)
(* but makes the workers refuse it while it is withdrawn.  Of the quota    *)
(* ledger this module keeps the slots and the unit of this one task.       *)
(***************************************************************************)
EXTENDS Integers, FiniteSets

CONSTANTS
  Keys,          \* requestKeys of answers
  Workers,       \* worker processes
  MaxAttempts,   \* MAX_ATTEMPTS (3)
  ReviewLimit,   \* reviews per task (3)
  MaxMishaps,    \* bound on the workers that die or stall past a lease
  MaxClaims,     \* bound on the claims
  None           \* no lease, no answer

ASSUME LimitsAssumption ==
  /\ IsFiniteSet(Keys) /\ None \notin Keys
  /\ MaxAttempts \in Nat \ {0} /\ ReviewLimit \in Nat \ {0}
  /\ MaxMishaps \in Nat /\ MaxClaims \in Nat

VARIABLES
  practice,   \* the VocabularyPractice row
  changed,    \* learningRevision # manualRevision, or learning disabled
  visible,    \* visibleVocabulary(): the entry is validated
  attempt,    \* VocabularyPracticeAttempt.status by requestKey
  ordinal,    \* VocabularyPracticeAttempt.ordinal (0 before it exists)
  sub,        \* TaskSubmission.status by requestKey
  unit,       \* the practice's TaskAuthorization.status
  lease,      \* what each worker remembers
  assessed,   \* history: assessments the learner received
  evidence,   \* history: updates of the learning record's memory
  late,       \* history: slots returned under a worker that was assessing them
  claims, mishaps

vars == <<practice, changed, visible, attempt, ordinal, sub, unit, lease, assessed,
          evidence, late, claims, mishaps>>

learner == <<attempt, ordinal, sub, unit>>
record  == <<changed, visible>>
history == <<assessed, evidence, late>>

Statuses == {"NONE", "QUEUED", "GENERATING", "READY", "ASSESSING", "COMPLETED", "FAILED"}
Open     == {"QUEUED", "GENERATING", "READY", "ASSESSING"}
Busy     == {"QUEUED", "GENERATING", "ASSESSING"}

Unlocked == 0

Practice ==
  [status : Statuses, challenge : BOOLEAN, answered : BOOLEAN, assessment : BOOLEAN,
   attempts : 0..MaxAttempts, lockedAt : 0..MaxClaims, expired : BOOLEAN]

\* stage: LOADED has read the row, GENERATES and ASSESSES await the provider,
\* REFUSES has found the learning changed or the entry withdrawn.
Lease ==
  [status : {"GENERATING", "ASSESSING"}, lockedAt : 1..MaxClaims, attempts : 1..MaxAttempts,
   stage : {"CLAIMED", "LOADED", "GENERATES", "ASSESSES", "REFUSES"},
   first : BOOLEAN, key : Keys \cup {None}]

TypeOK ==
  /\ practice \in Practice
  /\ changed \in BOOLEAN /\ visible \in BOOLEAN
  /\ attempt \in [Keys -> {"NONE", "QUEUED", "COMPLETED", "FAILED"}]
  /\ ordinal \in [Keys -> 0..Cardinality(Keys)]
  /\ sub \in [Keys -> {"NONE", "PENDING", "SUCCEEDED", "FAILED"}]
  /\ unit \in {"NONE", "RESERVED", "CONSUMED", "RELEASED"}
  /\ lease \in [Workers -> Lease \cup {None}]
  /\ assessed \in Nat /\ evidence \in Nat /\ late \in Nat
  /\ claims \in 0..MaxClaims /\ mishaps \in 0..MaxMishaps

Init ==
  /\ practice = [status |-> "NONE", challenge |-> FALSE, answered |-> FALSE,
                 assessment |-> FALSE, attempts |-> 0, lockedAt |-> Unlocked, expired |-> FALSE]
  /\ changed = FALSE /\ visible = TRUE
  /\ attempt = [k \in Keys |-> "NONE"] /\ ordinal = [k \in Keys |-> 0]
  /\ sub = [k \in Keys |-> "NONE"] /\ unit = "NONE"
  /\ lease = [w \in Workers |-> None]
  /\ assessed = 0 /\ evidence = 0 /\ late = 0 /\ claims = 0 /\ mishaps = 0

-----------------------------------------------------------------------------
(* The slots and the unit of the task (Quota, seen from one practice).     *)

With(s, status) == {k \in Keys : s[k] = status}

\* authorizeTask(): a released or missing reservation is taken (again).
Authorized(u) == IF u \in {"NONE", "RELEASED"} THEN "RESERVED" ELSE u

SlotFree == Cardinality(With(sub, "PENDING")) + Cardinality(With(sub, "SUCCEEDED")) < ReviewLimit

\* failSubmission() for the PENDING submissions of K: the last slot in flight that
\* is returned also releases an unspent unit.
FailSlots(K) == [k \in Keys |-> IF k \in K /\ sub[k] = "PENDING" THEN "FAILED" ELSE sub[k]]

UnitAfter(s, K) ==
  IF /\ unit = "RESERVED" /\ With(s, "PENDING") = {}
     /\ K \cap With(sub, "PENDING") # {}
  THEN "RELEASED" ELSE unit

-----------------------------------------------------------------------------
AttemptsLeft == practice.attempts < MaxAttempts

\* The last claim is gone (mutant ExhaustedPast: off by one).
ExhaustedPast == practice.attempts > MaxAttempts

Exhausted == practice.attempts >= MaxAttempts

\* The practice was created for a learning record that has moved on since.
\* (mutant LearningSame: the revision is not compared)
LearningSame == FALSE

LearningChanged == changed

\* What a worker refuses.
Refused == LearningChanged \/ ~visible

(* The learner's requests, each a transaction under the account lock.  That  *)
(* the entry is visible is read inside it by create() and setLearning(), and *)
(* before it by answer() and retry(), for which it may have been withdrawn.  *)

\* create(): a practice of one learning record, or the open one again.
Start ==
  /\ visible /\ (practice.status = "NONE" \/ practice.status \in Open)
  /\ practice' = IF practice.status = "NONE" THEN [practice EXCEPT !.status = "QUEUED"]
                                             ELSE practice
  /\ unit' = Authorized(unit)
  /\ UNCHANGED <<record, attempt, ordinal, sub, lease, history, claims, mishaps>>

\* answer(): a new requestKey (a known one only returns the practice).
Answer(k) ==
  /\ attempt[k] = "NONE"
  /\ practice.status \in {"READY", "COMPLETED", "FAILED"} /\ practice.challenge
  /\ SlotFree
  /\ sub' = [sub EXCEPT ![k] = "PENDING"]
  /\ unit' = Authorized(unit)
  /\ attempt' = [attempt EXCEPT ![k] = "QUEUED"]
  /\ ordinal' = [ordinal EXCEPT ![k] = Cardinality({i \in Keys : ordinal[i] > 0}) + 1]
  /\ practice' = [practice EXCEPT !.status = "ASSESSING", !.answered = TRUE, !.attempts = 0,
                                  !.lockedAt = Unlocked, !.expired = TRUE]
  /\ UNCHANGED <<record, lease, history, claims, mishaps>>

Latest(k) == ordinal[k] > 0 /\ \A i \in Keys : ordinal[i] <= ordinal[k]

\* retry(): the latest answer is authorized and queued again, or the generation is.
Retry ==
  /\ practice.status = "FAILED" /\ AttemptsLeft /\ ~LearningChanged
  /\ \/ \E k \in Keys :
          /\ Latest(k)
          /\ IF sub[k] = "FAILED"
             THEN SlotFree /\ sub' = [sub EXCEPT ![k] = "PENDING"] /\ unit' = Authorized(unit)
             ELSE UNCHANGED <<sub, unit>>
          /\ attempt' = [attempt EXCEPT ![k] = "QUEUED"]
     \/ /\ \A k \in Keys : ordinal[k] = 0
        /\ unit' = Authorized(unit)
        /\ UNCHANGED <<sub, attempt>>
  /\ practice' = [practice EXCEPT !.status = IF practice.answered THEN "ASSESSING" ELSE "QUEUED",
                                  !.lockedAt = Unlocked, !.expired = TRUE]
  /\ UNCHANGED <<record, ordinal, lease, history, claims, mishaps>>

\* setLearning(): the revision moves on and an open practice is closed.
SetLearning ==
  /\ visible /\ practice.status # "NONE"
  /\ changed' = TRUE
  /\ practice' = IF practice.status \in Open
                 THEN [practice EXCEPT !.status = "FAILED", !.lockedAt = Unlocked]
                 ELSE practice
  /\ UNCHANGED <<visible, learner, lease, history, claims, mishaps>>

\* ContentImportService.validate(): the owner of an imported entry withdraws it, or
\* confirms it again.
Validate ==
  /\ visible' = ~visible
  /\ UNCHANGED <<practice, changed, learner, lease, history, claims, mishaps>>

-----------------------------------------------------------------------------
(* The workers.                                                            *)

\* claimVocabularyPractice(), first statement: a practice whose last worker died is
\* given up.
GiveUp ==
  /\ practice.status \in {"GENERATING", "ASSESSING"}
  /\ Exhausted /\ practice.expired
  /\ practice' = [practice EXCEPT !.status = "FAILED", !.lockedAt = Unlocked]
  /\ UNCHANGED <<record, learner, lease, history, claims, mishaps>>

\* Second statement: claim it.
Claim(w) ==
  /\ lease[w] = None /\ claims < MaxClaims
  /\ AttemptsLeft
  /\ \/ practice.status = "QUEUED"
     \/ practice.status \in {"GENERATING", "ASSESSING"} /\ practice.expired
  /\ LET status == IF practice.answered THEN "ASSESSING" ELSE "GENERATING"
     IN  /\ practice' = [practice EXCEPT !.status = status, !.lockedAt = claims + 1,
                           !.attempts = practice.attempts + 1, !.expired = FALSE]
         /\ lease' = [lease EXCEPT ![w] =
              [status |-> status, lockedAt |-> claims + 1, attempts |-> practice.attempts + 1,
               stage |-> "CLAIMED", first |-> FALSE, key |-> None]]
  /\ claims' = claims + 1
  /\ UNCHANGED <<record, learner, history, mishaps>>

At(w, stages) == lease[w] # None /\ lease[w].stage \in stages

\* (mutant LeaseByStatus: the claim is not compared)
LeaseByStatus(l) == practice.status = l.status

\* vocabularyLeaseWhere(): the row is still as this worker claimed it.
LeaseHolds(l) ==
  /\ practice.status = l.status
  /\ practice.lockedAt = l.lockedAt
  /\ practice.attempts = l.attempts

Forget(w) == lease' = [lease EXCEPT ![w] = None]

\* process() reads the row under its lease; the answer decides what it will do.
Load(w) ==
  /\ At(w, {"CLAIMED"})
  /\ IF LeaseHolds(lease[w])
     THEN lease' = [lease EXCEPT
            ![w].stage = IF Refused THEN "REFUSES"
                         ELSE IF practice.answered THEN "LOADED" ELSE "GENERATES",
            ![w].first = ~practice.assessment]
     ELSE Forget(w)
  /\ UNCHANGED <<practice, record, learner, history, claims, mishaps>>

\* The latest QUEUED answer is read later, by itself, and not under the lease.
ReadAnswer(w) ==
  /\ At(w, {"LOADED"})
  /\ LET queued == With(attempt, "QUEUED")
         key    == IF queued = {} THEN None
                   ELSE CHOOSE k \in queued : \A i \in queued : ordinal[i] <= ordinal[k]
     IN  lease' = [lease EXCEPT ![w].stage = "ASSESSES", ![w].key = key]
  /\ UNCHANGED <<practice, record, learner, history, claims, mishaps>>

\* The generated challenge is stored under the lease.
Generated(w) ==
  /\ At(w, {"GENERATES"})
  /\ practice' = IF LeaseHolds(lease[w])
                 THEN [practice EXCEPT !.status = "READY", !.challenge = TRUE,
                                       !.lockedAt = Unlocked, !.attempts = 0]
                 ELSE practice
  /\ Forget(w)
  /\ UNCHANGED <<record, learner, history, claims, mishaps>>

\* completeAttempt() and completeSubmission().
CompleteAttempt(k) ==
  IF k = None THEN UNCHANGED <<attempt, sub, unit>>
  ELSE /\ attempt' = [attempt EXCEPT ![k] = "COMPLETED"]
       /\ sub' = IF sub[k] = "PENDING" THEN [sub EXCEPT ![k] = "SUCCEEDED"] ELSE sub
       /\ unit' = IF sub[k] = "PENDING" THEN "CONSUMED" ELSE unit

\* A worker that lost its lease refuses the answer the practice is assessed for.
Undercut(w) ==
  /\ ~LeaseHolds(lease[w]) /\ practice.status = "ASSESSING" /\ ~changed
  /\ lease[w].key \in Keys /\ Latest(lease[w].key) /\ sub[lease[w].key] = "PENDING"

\* complete() when the worker refuses: the practice fails under the lease, the answer
\* the worker read fails in any case, even if another worker is assessing it by now.
RejectAnswer(w) ==
  LET k == lease[w].key
  IN  /\ practice' = IF LeaseHolds(lease[w])
                     THEN [practice EXCEPT !.status = "FAILED", !.lockedAt = Unlocked]
                     ELSE practice
      /\ IF k = None THEN UNCHANGED <<attempt, sub, unit>>
         ELSE /\ attempt' = [attempt EXCEPT ![k] = "FAILED"]
              /\ sub' = FailSlots({k})
              /\ unit' = UnitAfter(sub', {k})
      /\ late' = IF Undercut(w) THEN late + 1 ELSE late
      /\ UNCHANGED <<assessed, evidence>>

\* complete() otherwise.  The first assessment is evidence for the learning record,
\* later ones (of a practice already assessed when it was read) only correct.
AcceptAnswer(w) ==
  IF LeaseHolds(lease[w])
  THEN /\ practice' = [practice EXCEPT !.status = "COMPLETED", !.lockedAt = Unlocked,
                                       !.assessment = TRUE]
       /\ CompleteAttempt(lease[w].key)
       /\ assessed' = assessed + 1
       /\ evidence' = IF lease[w].first THEN evidence + 1 ELSE evidence
       /\ UNCHANGED late
  ELSE UNCHANGED <<practice, attempt, sub, unit, history>>

Complete(w) ==
  /\ At(w, {"ASSESSES"})
  /\ IF Refused THEN RejectAnswer(w) ELSE AcceptAnswer(w)
  /\ Forget(w)
  /\ UNCHANGED <<record, ordinal, claims, mishaps>>

\* fail(): under the lease the practice fails, with every answer in flight, and an
\* unspent unit is returned.
Fail(w) ==
  /\ At(w, {"LOADED", "GENERATES", "ASSESSES", "REFUSES"})
  /\ IF LeaseHolds(lease[w])
     THEN LET K == With(attempt, "QUEUED")
          IN  /\ practice' = [practice EXCEPT !.status = "FAILED", !.lockedAt = Unlocked]
              /\ attempt' = [k \in Keys |-> IF k \in K THEN "FAILED" ELSE attempt[k]]
              /\ sub' = FailSlots(K)
              /\ unit' = IF unit = "RESERVED" /\ With(sub', "PENDING") = {}
                         THEN "RELEASED" ELSE unit
     ELSE UNCHANGED <<practice, attempt, sub, unit>>
  /\ Forget(w)
  /\ UNCHANGED <<record, ordinal, history, claims, mishaps>>

Die(w) ==
  /\ lease[w] # None /\ mishaps < MaxMishaps
  /\ Forget(w)
  /\ mishaps' = mishaps + 1
  /\ UNCHANGED <<practice, record, learner, history, claims>>

-----------------------------------------------------------------------------
(* The minute job and time.                                                *)

\* Answers whose assessment has failed for good.
\* (mutant OrphansUnlocked: nobody working on the practice is taken for a failure)
OrphansUnlocked == IF practice.lockedAt = Unlocked THEN With(sub, "PENDING") ELSE {}

Orphans == IF practice.status = "FAILED" THEN With(sub, "PENDING") ELSE {}

\* reconcileReservations(): submissions of a failed practice are failed.  A
\* reservation that is a day old is returned when nothing is in progress.
Reconcile(overdue) ==
  /\ With(sub, "PENDING") # {} \/ (overdue /\ unit = "RESERVED")
  /\ LET K == Orphans
         s == FailSlots(K)
         u == UnitAfter(s, K)
     IN  /\ sub' = s
         /\ attempt' = [k \in Keys |-> IF k \in K /\ attempt[k] = "QUEUED"
                                       THEN "FAILED" ELSE attempt[k]]
         /\ unit' = IF /\ overdue /\ u = "RESERVED" /\ With(s, "PENDING") = {}
                       /\ practice.status \notin Busy
                    THEN "RELEASED" ELSE u
  /\ UNCHANGED <<practice, record, ordinal, lease, history, claims, mishaps>>

Held == \E w \in Workers : lease[w] # None /\ LeaseHolds(lease[w])

\* Two minutes pass: a lease nobody holds any more is expired, or a worker stalls.
LeaseExpires ==
  /\ practice.status \in {"GENERATING", "ASSESSING"} /\ ~practice.expired /\ ~Held
  /\ practice' = [practice EXCEPT !.expired = TRUE]
  /\ UNCHANGED <<record, learner, lease, history, claims, mishaps>>

Stall ==
  /\ practice.status \in {"GENERATING", "ASSESSING"} /\ ~practice.expired /\ Held
  /\ mishaps < MaxMishaps
  /\ practice' = [practice EXCEPT !.expired = TRUE]
  /\ mishaps' = mishaps + 1
  /\ UNCHANGED <<record, learner, lease, history, claims>>

-----------------------------------------------------------------------------
Next ==
  \/ Start \/ Retry \/ SetLearning \/ Validate \/ GiveUp \/ LeaseExpires \/ Stall
  \/ \E k \in Keys : Answer(k)
  \/ \E w \in Workers :
       Claim(w) \/ Load(w) \/ ReadAnswer(w) \/ Generated(w) \/ Complete(w) \/ Fail(w) \/ Die(w)
  \/ \E overdue \in BOOLEAN : Reconcile(overdue)

Spec == Init /\ [][Next]_vars

\* Polls fire, workers that live come to an end, leases grow old, the minute job runs.
Fairness ==
  /\ \A w \in Workers :
       /\ WF_vars(Claim(w))
       /\ WF_vars(Load(w) \/ ReadAnswer(w) \/ Generated(w) \/ Complete(w) \/ Fail(w))
  /\ WF_vars(GiveUp) /\ WF_vars(LeaseExpires) /\ WF_vars(Reconcile(FALSE))

FairSpec == Spec /\ Fairness
=============================================================================
