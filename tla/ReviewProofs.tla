---------------------------- MODULE ReviewProofs ----------------------------
(***************************************************************************)
(* For any number of jobs, worker processes, rounds and mishaps: the books *)
(* of a review agree (BooksAgree), and the pipeline implements             *)
(* ReviewPromise (KeepsPromise).                                           *)
(*                                                                         *)
(* What carries the proof is what a lease is worth.  A worker whose lease  *)
(* holds has counted the round it is in (LeaseFacts), because a claim      *)
(* writes a number that no lease has yet.  And every round counted pays    *)
(* for one call, those already made and those that a lease still allows    *)
(* (CallsPaid), so a worker that was overtaken cannot call once too often. *)
(***************************************************************************)
EXTENDS ReviewProperties, FiniteSetTheorems, TLAPS

(* A completed job has its one result and its one charge. *)
Booked(j) ==
  /\ results[j] = IF job[j].status = "COMPLETED" THEN 1 ELSE 0
  /\ charges[j] = IF job[j].status = "COMPLETED" THEN 1 ELSE 0

(* Only a learner that asked again takes a job past the automatic rounds. *)
AskedAgain(j) ==
  \/ retries[j] > 0
  \/ job[j].retryCount < AutomaticRounds
  \/ job[j].retryCount = AutomaticRounds /\ job[j].status # "QUEUED"

(* No round is counted of a job that does not exist. *)
NoRounds(j) == job[j].status = "NONE" => job[j].retryCount = 0

(* The workers that may still call the provider for a job. *)
MayCall(w, j) ==
  lease[w] # NoLease /\ lease[w].id = j /\ ~lease[w].exhausted /\ ~lease[w].called
Callers(j) == {w \in Workers : MayCall(w, j)}

CallsPaid(j) == calls[j] + Cardinality(Callers(j)) <= job[j].retryCount

LeaseFacts(w) ==
  lease[w] # NoLease =>
    /\ lease[w].lockedAt <= claims
    /\ LeaseHolds(lease[w]) => lease[w].round = job[lease[w].id].retryCount

(* What the invariant says of one job. *)
JobFacts(j) == SlotFollows(j) /\ Booked(j) /\ AskedAgain(j) /\ NoRounds(j) /\ CallsPaid(j)

IInv ==
  /\ TypeOK
  /\ \A j \in Jobs : JobFacts(j)
  /\ \A w \in Workers : LeaseFacts(w)
-----------------------------------------------------------------------------
LEMMA CallersFinite ==
  ASSUME NEW j \in Jobs
  PROVE  IsFiniteSet(Callers(j)) /\ Cardinality(Callers(j)) \in Nat
BY TablesAssumption, FS_Subset, FS_CardinalityType DEF Callers

(* The invariant says all that BooksAgree does. *)
LEMMA BooksFollow == IInv => BooksAgree
<1> SUFFICES ASSUME IInv PROVE BooksAgree
  OBVIOUS
<1>1. TypeOK  BY DEF IInv
<1>2. ASSUME NEW j \in Jobs PROVE SlotFollows(j) /\ RoundsBounded(j)
  <2>1. SlotFollows(j) /\ AskedAgain(j) /\ CallsPaid(j)  BY DEF IInv, JobFacts
  <2>2. Cardinality(Callers(j)) \in Nat  BY CallersFinite
  <2>3. /\ calls[j] \in Nat /\ retries[j] \in Nat /\ job[j].retryCount \in 0..TotalRounds
        /\ AutomaticRounds \in Nat /\ TotalRounds \in Nat
    BY <1>1, RoundsAssumption DEF TypeOK, Job
  <2>4. calls[j] <= job[j].retryCount  BY <2>1, <2>2, <2>3 DEF CallsPaid
  <2> QED  BY <2>1, <2>3, <2>4 DEF RoundsBounded, AskedAgain
<1> QED  BY <1>1, <1>2 DEF BooksAgree

LEMMA InitKeeps == Init => IInv
<1> SUFFICES ASSUME Init PROVE IInv
  OBVIOUS
<1>1. TypeOK  BY RoundsAssumption DEF Init, TypeOK, Job, JobStatuses, Unlocked
<1>2. ASSUME NEW j \in Jobs PROVE CallsPaid(j)
  <2>1. Callers(j) = {}  BY DEF Init, Callers, MayCall
  <2>2. Cardinality(Callers(j)) = 0  BY <2>1, FS_EmptySet
  <2> QED  BY <2>2 DEF Init, CallsPaid
<1>3. ASSUME NEW j \in Jobs PROVE SlotFollows(j) /\ Booked(j) /\ AskedAgain(j) /\ NoRounds(j)
  BY RoundsAssumption DEF Init, SlotFollows, Booked, AskedAgain, NoRounds
<1>4. ASSUME NEW w \in Workers PROVE LeaseFacts(w)
  BY DEF Init, LeaseFacts
<1> QED  BY <1>1, <1>2, <1>3, <1>4 DEF IInv, JobFacts
-----------------------------------------------------------------------------
(* A job nobody touched keeps its facts when no worker may newly call.     *)
LEMMA JobRests ==
  ASSUME IInv, TypeOK', NEW j \in Jobs,
         job'[j] = job[j], sub'[j] = sub[j], results'[j] = results[j],
         charges'[j] = charges[j], retries'[j] = retries[j], calls'[j] = calls[j],
         Callers(j)' \subseteq Callers(j)
  PROVE  JobFacts(j)'
<1>1. SlotFollows(j) /\ Booked(j) /\ AskedAgain(j) /\ NoRounds(j) /\ CallsPaid(j)
  BY DEF IInv, JobFacts
<1>2. CallsPaid(j)'
  <2>1. Cardinality(Callers(j)') <= Cardinality(Callers(j))
    BY CallersFinite, FS_Subset
  <2>2. Cardinality(Callers(j)') \in Nat /\ Cardinality(Callers(j)) \in Nat
    BY CallersFinite, FS_Subset, FS_CardinalityType
  <2>3. calls[j] \in Nat /\ job[j].retryCount \in Int
    BY DEF IInv, TypeOK, Job
  <2> HIDE DEF Callers
  <2> QED  BY <1>1, <2>1, <2>2, <2>3 DEF CallsPaid
<1> QED  BY <1>1, <1>2 DEF JobFacts, SlotFollows, Booked, AskedAgain, NoRounds

(* A worker's step ends its own lease or leaves it: no new caller.         *)
LEMMA CallersShrink ==
  ASSUME NEW w \in Workers, NEW j \in Jobs, IInv,
         lease' = [lease EXCEPT ![w] = NoLease] \/ lease' = lease
  PROVE  Callers(j)' \subseteq Callers(j)
BY DEF Callers, MayCall, IInv, TypeOK

(* A lease that is kept goes on saying what it said, as long as its job    *)
(* keeps its round and is not locked anew.                                 *)
LEMMA LeaseRests ==
  ASSUME IInv, NEW w \in Workers, lease'[w] = lease[w], claims' = claims,
         lease[w] # NoLease =>
           LET j == lease[w].id IN
           job'[j].status = "PROCESSING" /\ job'[j].lockedAt = lease[w].lockedAt
             => LeaseHolds(lease[w]) /\ job'[j].retryCount = job[j].retryCount
  PROVE  LeaseFacts(w)'
BY DEF IInv, LeaseFacts, LeaseHolds
-----------------------------------------------------------------------------
(* The learner's requests and the passing of time touch one row and no     *)
(* lease.                                                                  *)
LEMMA RowKeeps ==
  ASSUME IInv, NEW j \in Jobs, TypeOK', JobFacts(j)',
         \A i \in Jobs \ {j} : job'[i] = job[i] /\ sub'[i] = sub[i] /\ retries'[i] = retries[i],
         results' = results, charges' = charges, calls' = calls, claims' = claims, lease' = lease,
         job'[j].status = "PROCESSING" => job[j].status = "PROCESSING",
         job'[j].lockedAt = job[j].lockedAt \/ job'[j].status # "PROCESSING",
         job'[j].retryCount = job[j].retryCount \/ job'[j].status # "PROCESSING"
  PROVE  IInv'
<1>1. ASSUME NEW i \in Jobs \ {j} PROVE JobFacts(i)'
  <2>1. Callers(i)' \subseteq Callers(i)  BY DEF Callers, MayCall
  <2> QED  BY <2>1, JobRests
<1>2. ASSUME NEW w \in Workers PROVE LeaseFacts(w)'
  <2>1. lease[w] # NoLease => lease[w].id \in Jobs
    BY DEF IInv, TypeOK, ReviewLease
  <2> QED  BY <2>1, LeaseRests DEF LeaseHolds
<1> QED  BY <1>1, <1>2 DEF IInv, JobFacts

LEMMA CreateKeeps ==
  ASSUME IInv, NEW j \in Jobs, Create(j)
  PROVE  IInv'
<1>1. Cardinality(Created) + 1 \in Nat
  BY TablesAssumption, FS_Subset, FS_CardinalityType DEF Created
<1>2. TypeOK'  BY <1>1, RoundsAssumption DEF Create, IInv, TypeOK, Job, JobStatuses, Unlocked
<1>3. JobFacts(j)'
  <2>1. SlotFollows(j) /\ Booked(j) /\ NoRounds(j) /\ CallsPaid(j)  BY DEF IInv, JobFacts
  <2>2. Callers(j)' = Callers(j)  BY DEF Callers, MayCall, Create
  <2>3. job[j].retryCount = 0 /\ job'[j].retryCount = 0 /\ job'[j].status = "QUEUED"
        /\ job[j].status = "NONE" /\ sub'[j] = "PENDING"
    BY <2>1 DEF NoRounds, Create, IInv, TypeOK
  <2>4. calls[j] + Cardinality(Callers(j)) <= 0  BY <2>1, <2>3 DEF CallsPaid
  <2>5. CallsPaid(j)'  BY <2>2, <2>3, <2>4 DEF CallsPaid, Create
  <2>6. SlotFollows(j)' /\ Booked(j)' /\ NoRounds(j)'
    BY <2>1, <2>3 DEF SlotFollows, Booked, NoRounds, Create
  <2>7. AskedAgain(j)'  BY <2>3, RoundsAssumption DEF AskedAgain
  <2> QED  BY <2>5, <2>6, <2>7 DEF JobFacts
<1>4. \A i \in Jobs \ {j} : job'[i] = job[i] /\ sub'[i] = sub[i] /\ retries'[i] = retries[i]
  BY DEF Create, IInv, TypeOK
<1>5. job'[j].status = "QUEUED"  BY DEF Create, IInv, TypeOK
<1> QED  BY <1>2, <1>3, <1>4, <1>5, RowKeeps DEF Create

LEMMA RetryKeeps ==
  ASSUME IInv, NEW j \in Jobs, Retry(j)
  PROVE  IInv'
<1>1. TypeOK'
  <2>1. job' = [job EXCEPT ![j] = [job[j] EXCEPT !.status = "QUEUED", !.due = TRUE]]
    BY DEF Retry, IInv, TypeOK
  <2>2. [job[j] EXCEPT !.status = "QUEUED", !.due = TRUE] \in Job
    BY DEF IInv, TypeOK, Job, JobStatuses
  <2>3. job' \in [Jobs -> Job]  BY <2>1, <2>2 DEF IInv, TypeOK
  <2> QED  BY <2>3 DEF Retry, IInv, TypeOK
<1>2. /\ job[j].status = "FAILED" /\ job'[j].status = "QUEUED"
      /\ job'[j].retryCount = job[j].retryCount /\ sub'[j] = "PENDING"
      /\ retries'[j] = retries[j] + 1 /\ retries[j] \in Nat
  BY DEF Retry, IInv, TypeOK, Job
<1>3. JobFacts(j)'
  <2>1. SlotFollows(j) /\ Booked(j) /\ CallsPaid(j)  BY DEF IInv, JobFacts
  <2>2. Callers(j)' = Callers(j)  BY DEF Callers, MayCall, Retry
  <2>3. CallsPaid(j)'  BY <1>2, <2>1, <2>2 DEF CallsPaid, Retry
  <2>4. SlotFollows(j)' /\ Booked(j)' /\ NoRounds(j)' /\ AskedAgain(j)'
    BY <1>2, <2>1 DEF SlotFollows, Booked, NoRounds, AskedAgain, Retry
  <2> QED  BY <2>3, <2>4 DEF JobFacts
<1>4. \A i \in Jobs \ {j} : job'[i] = job[i] /\ sub'[i] = sub[i] /\ retries'[i] = retries[i]
  BY DEF Retry, IInv, TypeOK
<1> QED  BY <1>1, <1>2, <1>3, <1>4, RowKeeps DEF Retry

(* Time changes only what is due or expired. *)
LEMMA TimeKeeps ==
  ASSUME IInv, NEW j \in Jobs, BackoffElapses(j) \/ LeaseExpires(j) \/ Stall(j)
  PROVE  IInv'
<1>1. TypeOK'
  <2>1. \/ job' = [job EXCEPT ![j] = [job[j] EXCEPT !.due = TRUE]]
        \/ job' = [job EXCEPT ![j] = [job[j] EXCEPT !.expired = TRUE]]
    BY DEF BackoffElapses, LeaseExpires, Stall, IInv, TypeOK
  <2>2. [job[j] EXCEPT !.due = TRUE] \in Job /\ [job[j] EXCEPT !.expired = TRUE] \in Job
    BY DEF IInv, TypeOK, Job
  <2>3. job' \in [Jobs -> Job]  BY <2>1, <2>2 DEF IInv, TypeOK
  <2>4. mishaps' \in 0..MaxMishaps
    BY RoundsAssumption DEF BackoffElapses, LeaseExpires, Stall, IInv, TypeOK
  <2> QED  BY <2>3, <2>4 DEF BackoffElapses, LeaseExpires, Stall, IInv, TypeOK
<1>2. /\ job'[j].status = job[j].status /\ job'[j].retryCount = job[j].retryCount
      /\ job'[j].lockedAt = job[j].lockedAt
      /\ \A i \in Jobs \ {j} : job'[i] = job[i]
  BY DEF BackoffElapses, LeaseExpires, Stall, IInv, TypeOK, Job
<1>3. UNCHANGED <<sub, lease, results, charges, calls, retries, claims>>
  BY DEF BackoffElapses, LeaseExpires, Stall
<1>4. JobFacts(j)'
  <2>1. JobFacts(j)  BY DEF IInv
  <2>2. Callers(j)' = Callers(j)  BY <1>3 DEF Callers, MayCall
  <2>3. CallsPaid(j)'  BY <1>2, <1>3, <2>1, <2>2 DEF CallsPaid, JobFacts
  <2> QED
    BY <1>2, <1>3, <2>1, <2>3 DEF JobFacts, SlotFollows, Booked, NoRounds, AskedAgain
<1> QED  BY <1>1, <1>2, <1>3, <1>4, RowKeeps
-----------------------------------------------------------------------------
(* A claim writes a number of its own: no lease held before it holds on    *)
(* this job after it, and the round it counts is worth one call.           *)
LEMMA ClaimedRow ==
  ASSUME NEW row \in Job, NEW locked \in Nat, NEW round \in 0..TotalRounds
  PROVE  [row EXCEPT !.status = "PROCESSING", !.lockedAt = locked,
                     !.retryCount = round, !.expired = FALSE] \in Job
<1>1. "PROCESSING" \in JobStatuses  BY DEF JobStatuses
<1> QED  BY <1>1 DEF Job

LEMMA ClaimKeeps ==
  ASSUME IInv, NEW w \in Workers, Claim(w)
  PROVE  IInv'
<1> PICK j \in Jobs :
      LET round == job[j].retryCount + (IF Exhausted(j) THEN 0 ELSE 1)
      IN  /\ Claimable(j)
          /\ job' = [job EXCEPT ![j].status = "PROCESSING", ![j].lockedAt = claims + 1,
                                ![j].retryCount = round, ![j].expired = FALSE]
          /\ lease' = [lease EXCEPT ![w] =
               [id |-> j, lockedAt |-> claims + 1, exhausted |-> Exhausted(j),
                round |-> round, called |-> FALSE]]
  BY DEF Claim
<1> DEFINE round == job[j].retryCount + (IF Exhausted(j) THEN 0 ELSE 1)
<1>1. JobFacts(j) /\ TypeOK  BY DEF IInv
<1>2. /\ lease[w] = NoLease /\ claims' = claims + 1 /\ claims \in Nat
      /\ UNCHANGED <<sub, results, charges, calls, retries, mishaps>>
  BY <1>1 DEF Claim, TypeOK
<1>3. job[j] \in Job /\ job[j].retryCount \in 0..TotalRounds /\ Exhausted(j) \in BOOLEAN
  BY <1>1 DEF TypeOK, Job, Exhausted
<1>4. round \in 0..TotalRounds
  BY <1>3, RoundsAssumption DEF Exhausted
<1>5. /\ job'[j].status = "PROCESSING" /\ job'[j].lockedAt = claims + 1
      /\ job'[j].retryCount = round
      /\ \A i \in Jobs \ {j} : job'[i] = job[i]
  BY <1>1, <1>3 DEF TypeOK, Job
<1>6. TypeOK'
  <2>1. job' \in [Jobs -> Job]
    <3> DEFINE row == [job[j] EXCEPT !.status = "PROCESSING", !.lockedAt = claims + 1,
                                     !.retryCount = round, !.expired = FALSE]
    <3>1. job' = [job EXCEPT ![j] = row]  BY <1>1 DEF TypeOK
    <3>2. row \in Job
      <4> HIDE DEF round
      <4>1. claims + 1 \in Nat  BY <1>2
      <4> QED  BY <1>3, <1>4, <4>1, ClaimedRow
    <3> HIDE DEF row
    <3> QED  BY <1>1, <3>1, <3>2 DEF TypeOK
  <2>2. lease' \in [Workers -> ReviewLease \cup {NoLease}]
    <3>1. [id |-> j, lockedAt |-> claims + 1, exhausted |-> Exhausted(j),
           round |-> round, called |-> FALSE] \in ReviewLease
      BY <1>2, <1>3, <1>4 DEF ReviewLease
    <3> QED  BY <1>1, <3>1 DEF TypeOK
  <2> QED  BY <1>1, <1>2, <2>1, <2>2 DEF TypeOK
<1>7. job[j].status \in {"QUEUED", "PROCESSING"}  BY DEF Claimable
<1>8. CallsPaid(j)'
  <2>1. CASE Exhausted(j)
    <3>1. Callers(j)' \subseteq Callers(j)
      BY <2>1, <1>1, <1>2 DEF Callers, MayCall, TypeOK
    <3>2. Cardinality(Callers(j)') <= Cardinality(Callers(j))
      BY <3>1, CallersFinite, FS_Subset
    <3>3. Cardinality(Callers(j)') \in Nat /\ Cardinality(Callers(j)) \in Nat
      BY <3>1, CallersFinite, FS_Subset, FS_CardinalityType
    <3>4. calls[j] \in Nat /\ round = job[j].retryCount  BY <2>1, <1>1, <1>3 DEF TypeOK
    <3> HIDE DEF round, Callers
    <3> QED  BY <1>1, <1>2, <1>3, <1>5, <3>2, <3>3, <3>4 DEF CallsPaid, JobFacts
  <2>2. CASE ~Exhausted(j)
    <3> DEFINE S == Callers(j) \cup {w}
    <3>1. Callers(j)' \subseteq S
      BY <1>1, <1>2 DEF Callers, MayCall, TypeOK
    <3>2. IsFiniteSet(S) /\ Cardinality(S) <= Cardinality(Callers(j)) + 1
      <4>1. IsFiniteSet(Callers(j)) /\ Cardinality(Callers(j)) \in Nat  BY CallersFinite
      <4> HIDE DEF Callers
      <4>2. /\ IsFiniteSet(S)
            /\ Cardinality(S) = Cardinality(Callers(j)) \/ Cardinality(S) = Cardinality(Callers(j)) + 1
        BY <4>1, FS_AddElement
      <4> QED  BY <4>1, <4>2
    <3>3. IsFiniteSet(Callers(j)') /\ Cardinality(Callers(j)') <= Cardinality(S)
      BY <3>1, <3>2, FS_Subset
    <3>4. /\ Cardinality(Callers(j)') \in Nat /\ Cardinality(Callers(j)) \in Nat
          /\ Cardinality(S) \in Nat
      BY <3>2, <3>3, CallersFinite, FS_CardinalityType
    <3>5. calls[j] \in Nat /\ round = job[j].retryCount + 1  BY <2>2, <1>1, <1>3 DEF TypeOK
    <3> HIDE DEF round, Callers, S
    <3> QED  BY <1>1, <1>2, <1>3, <1>5, <3>2, <3>3, <3>4, <3>5 DEF CallsPaid, JobFacts
  <2> QED  BY <2>1, <2>2
<1>9. AskedAgain(j)'
  <2>1. AskedAgain(j)  BY <1>1 DEF JobFacts
  <2>2. retries' = retries /\ retries[j] \in Nat  BY <1>1, <1>2 DEF TypeOK
  <2>3. CASE Exhausted(j)
    <3>1. round = job[j].retryCount  BY <2>3, <1>3
    <3> HIDE DEF round
    <3> QED  BY <2>1, <2>2, <3>1, <1>3, <1>5, RoundsAssumption DEF AskedAgain
  <2>4. CASE ~Exhausted(j)
    <3>1. round = job[j].retryCount + 1  BY <2>4, <1>3
    <3>2. job[j].status = "PROCESSING" => job[j].retryCount < AutomaticRounds
      BY <2>4, <1>3, RoundsAssumption DEF Exhausted
    <3> HIDE DEF round
    <3> QED  BY <1>7, <2>1, <2>2, <3>1, <3>2, <1>3, <1>5, RoundsAssumption DEF AskedAgain
  <2> QED  BY <2>3, <2>4
<1>10. JobFacts(j)'
  <2> HIDE DEF round
  <2>1. SlotFollows(j)' /\ Booked(j)' /\ NoRounds(j)'
    BY <1>1, <1>2, <1>5, <1>7 DEF JobFacts, SlotFollows, Booked, NoRounds
  <2> QED  BY <2>1, <1>8, <1>9 DEF JobFacts
<1>11. ASSUME NEW i \in Jobs \ {j} PROVE JobFacts(i)'
  <2>1. Callers(i)' \subseteq Callers(i)
    BY <1>1, <1>2 DEF Callers, MayCall, TypeOK
  <2> QED  BY <2>1, <1>2, <1>5, <1>6, JobRests
<1>12. ASSUME NEW v \in Workers PROVE LeaseFacts(v)'
  <2>1. CASE v = w
    <3>1. lease'[w] = [id |-> j, lockedAt |-> claims + 1, exhausted |-> Exhausted(j),
                       round |-> round, called |-> FALSE]
      BY <1>1 DEF TypeOK
    <3> HIDE DEF round
    <3>2. /\ lease'[w].id = j /\ lease'[w].lockedAt = claims + 1 /\ lease'[w].round = round
      BY <3>1
    <3>3. lease'[w].lockedAt <= claims'  BY <3>2, <1>2
    <3>4. lease'[w].round = job'[lease'[w].id].retryCount  BY <3>2, <1>5
    <3>5. LeaseFacts(w)'  BY <3>3, <3>4, Zenon DEF LeaseFacts
    <3> QED  BY <2>1, <3>5
  <2>2. CASE v # w
    <3>1. lease'[v] = lease[v] /\ LeaseFacts(v)  BY <2>2, <1>1 DEF TypeOK, IInv
    <3>2. CASE lease[v] = NoLease  BY <3>1, <3>2 DEF LeaseFacts
    <3>3. CASE lease[v] # NoLease
      <4>1. lease[v].lockedAt <= claims /\ lease[v].lockedAt \in Nat /\ lease[v].id \in Jobs
        BY <3>1, <3>3, <1>1 DEF LeaseFacts, TypeOK, ReviewLease
      <4>2. lease[v].lockedAt <= claims' /\ lease[v].lockedAt # claims + 1  BY <4>1, <1>2
      <4>3. LeaseHolds(lease[v])' => lease[v].id # j /\ LeaseHolds(lease[v])
        BY <3>1, <4>1, <4>2, <1>5 DEF LeaseHolds
      <4> QED  BY <3>1, <3>3, <4>1, <4>2, <4>3, <1>5 DEF LeaseFacts
    <3> QED  BY <3>2, <3>3
  <2> QED  BY <2>1, <2>2
<1> QED  BY <1>6, <1>10, <1>11, <1>12 DEF IInv
-----------------------------------------------------------------------------
(* A call is one that the round had already paid for. *)
LEMMA CallKeeps ==
  ASSUME IInv, NEW w \in Workers, CallProvider(w)
  PROVE  IInv'
<1>1. TypeOK /\ (\A i \in Jobs : JobFacts(i)) /\ (\A v \in Workers : LeaseFacts(v))
  BY DEF IInv
<1> PICK j \in Jobs : j = lease[w].id
  BY <1>1 DEF CallProvider, TypeOK, ReviewLease
<1>2. lease[w] \in ReviewLease
  BY <1>1 DEF CallProvider, TypeOK
<1>3. /\ lease' = [lease EXCEPT ![w] = [lease[w] EXCEPT !.called = TRUE]]
      /\ calls' = [calls EXCEPT ![j] = @ + 1]
      /\ UNCHANGED <<job, sub, results, charges, retries, claims, mishaps>>
  BY <1>1 DEF CallProvider, TypeOK
<1>4. [lease[w] EXCEPT !.called = TRUE] \in ReviewLease  BY <1>2 DEF ReviewLease
<1>5. TypeOK'
  <2>1. lease' \in [Workers -> ReviewLease \cup {NoLease}]  BY <1>1, <1>3, <1>4 DEF TypeOK
  <2>2. calls' \in [Jobs -> Nat]
    <3>1. calls[j] + 1 \in Nat  BY <1>1, <1>2 DEF TypeOK
    <3> QED  BY <1>1, <1>2, <1>3, <3>1 DEF TypeOK
  <2> QED  BY <1>1, <1>3, <2>1, <2>2 DEF TypeOK
<1>6. /\ lease'[w].id = j /\ lease'[w].lockedAt = lease[w].lockedAt
      /\ lease'[w].round = lease[w].round /\ lease'[w].called = TRUE
      /\ \A v \in Workers \ {w} : lease'[v] = lease[v]
  BY <1>1, <1>2, <1>3 DEF TypeOK, ReviewLease
<1>7. ASSUME NEW i \in Jobs PROVE Callers(i)' \subseteq Callers(i) \ {w}
  BY <1>6 DEF Callers, MayCall
<1>8. JobFacts(j)'
  <2>1. w \in Callers(j)  BY DEF Callers, MayCall, CallProvider
  <2>2. IsFiniteSet(Callers(j)) /\ Cardinality(Callers(j)) \in Nat  BY <1>2, CallersFinite
  <2>3. Callers(j)' \subseteq Callers(j) \ {w}  BY <1>2, <1>7
  <2>4. calls[j] \in Nat /\ calls'[j] = calls[j] + 1 /\ job[j].retryCount \in Int
    BY <1>1, <1>2, <1>3 DEF TypeOK, Job
  <2>5. CallsPaid(j) /\ SlotFollows(j) /\ Booked(j) /\ AskedAgain(j) /\ NoRounds(j)
    BY <1>1, <1>2 DEF JobFacts
  <2>6. CallsPaid(j)'
    <3> HIDE DEF Callers
    <3>1. /\ IsFiniteSet(Callers(j) \ {w})
          /\ Cardinality(Callers(j) \ {w}) = Cardinality(Callers(j)) - 1
      BY <2>1, <2>2, FS_RemoveElement
    <3>2. /\ Cardinality(Callers(j)') <= Cardinality(Callers(j) \ {w})
          /\ Cardinality(Callers(j)') \in Nat
      BY <2>3, <3>1, FS_Subset, FS_CardinalityType
    <3>3. calls'[j] + Cardinality(Callers(j)') <= job[j].retryCount
      BY <2>2, <2>4, <2>5, <3>1, <3>2 DEF CallsPaid
    <3> QED  BY <1>3, <3>3 DEF CallsPaid
  <2> QED
    BY <1>3, <2>5, <2>6 DEF JobFacts, SlotFollows, Booked, AskedAgain, NoRounds
<1>9. ASSUME NEW i \in Jobs \ {j} PROVE JobFacts(i)'
  <2>1. Callers(i)' \subseteq Callers(i)  BY <1>7
  <2>2. calls'[i] = calls[i]  BY <1>1, <1>3 DEF TypeOK
  <2> QED  BY <1>3, <1>5, <2>1, <2>2, JobRests
<1>10. ASSUME NEW v \in Workers PROVE LeaseFacts(v)'
  BY <1>1, <1>2, <1>3, <1>6 DEF LeaseFacts, LeaseHolds, CallProvider
<1> QED  BY <1>5, <1>8, <1>9, <1>10 DEF IInv
-----------------------------------------------------------------------------
(* A worker that ends leaves no caller and no lease; the row it may write  *)
(* is its own, and nobody else's lease comes to hold on it.                *)
LEMMA EndKeeps ==
  ASSUME IInv, NEW w \in Workers, NEW j \in Jobs, TypeOK',
         lease[w] # NoLease, j = lease[w].id, lease' = [lease EXCEPT ![w] = NoLease],
         calls' = calls, retries' = retries, claims' = claims,
         \A i \in Jobs \ {j} : /\ job'[i] = job[i] /\ sub'[i] = sub[i]
                               /\ results'[i] = results[i] /\ charges'[i] = charges[i],
         job'[j] = job[j] \/ job'[j].status # "PROCESSING",
         job'[j].retryCount = job[j].retryCount,
         SlotFollows(j)' /\ Booked(j)' /\ AskedAgain(j)',
         job'[j].status = "NONE" => job[j].status = "NONE"
  PROVE  IInv'
<1>1. TypeOK /\ JobFacts(j) /\ (\A v \in Workers : LeaseFacts(v))  BY DEF IInv
<1>2. ASSUME NEW i \in Jobs PROVE Callers(i)' \subseteq Callers(i)  BY CallersShrink
<1>3. JobFacts(j)'
  <2>1. Cardinality(Callers(j)') <= Cardinality(Callers(j))
    BY <1>2, CallersFinite, FS_Subset
  <2>2. Cardinality(Callers(j)') \in Nat /\ Cardinality(Callers(j)) \in Nat
    BY <1>2, CallersFinite, FS_Subset, FS_CardinalityType
  <2>3. calls[j] \in Nat /\ job[j].retryCount \in Int  BY <1>1 DEF TypeOK, Job
  <2>4. CallsPaid(j)'
    <3> HIDE DEF Callers
    <3> QED  BY <1>1, <2>1, <2>2, <2>3 DEF CallsPaid, JobFacts
  <2> QED  BY <1>1, <2>4 DEF JobFacts, NoRounds
<1>4. ASSUME NEW i \in Jobs \ {j} PROVE JobFacts(i)'
  BY <1>2, JobRests
<1>5. ASSUME NEW v \in Workers PROVE LeaseFacts(v)'
  <2>1. CASE v = w  BY <2>1, <1>1 DEF LeaseFacts, TypeOK
  <2>2. CASE v # w
    <3>1. lease'[v] = lease[v] /\ LeaseFacts(v)  BY <2>2, <1>1 DEF TypeOK
    <3>2. lease[v] # NoLease => lease[v].id \in Jobs  BY <1>1 DEF TypeOK, ReviewLease
    <3> QED  BY <3>1, <3>2 DEF LeaseFacts, LeaseHolds
  <2> QED  BY <2>1, <2>2
<1> QED  BY <1>3, <1>4, <1>5 DEF IInv

LEMMA DieKeeps ==
  ASSUME IInv, NEW w \in Workers, Die(w)
  PROVE  IInv'
<1>1. TypeOK  BY DEF IInv
<1> PICK j \in Jobs : j = lease[w].id  BY <1>1 DEF TypeOK, ReviewLease, Die
<1>2. TypeOK'  BY <1>1, RoundsAssumption DEF Die, TypeOK
<1>3. JobFacts(j)  BY DEF IInv
<1>4. SlotFollows(j)' /\ Booked(j)' /\ AskedAgain(j)'
  BY <1>3 DEF Die, JobFacts, SlotFollows, Booked, AskedAgain
<1> QED  BY <1>1, <1>2, <1>4, EndKeeps DEF Die

LEMMA SucceedKeeps ==
  ASSUME IInv, NEW w \in Workers, Succeed(w)
  PROVE  IInv'
<1>1. TypeOK  BY DEF IInv
<1> PICK j \in Jobs : j = lease[w].id  BY <1>1 DEF TypeOK, ReviewLease, Succeed
<1>2. JobFacts(j)  BY DEF IInv
<1>3. /\ lease[w] # NoLease /\ lease' = [lease EXCEPT ![w] = NoLease]
      /\ UNCHANGED <<calls, retries, claims, mishaps>>
  BY DEF Succeed
<1>4. lease' \in [Workers -> ReviewLease \cup {NoLease}]  BY <1>1, <1>3 DEF TypeOK
<1>5. CASE ~LeaseHolds(lease[w])
  <2>1. UNCHANGED <<job, sub, results, charges>>  BY <1>5 DEF Succeed
  <2>2. TypeOK'  BY <1>1, <1>3, <1>4, <2>1 DEF TypeOK
  <2>3. SlotFollows(j)' /\ Booked(j)' /\ AskedAgain(j)'
    BY <1>2, <1>3, <2>1 DEF JobFacts, SlotFollows, Booked, AskedAgain
  <2> QED  BY <1>3, <2>1, <2>2, <2>3, EndKeeps
<1>6. CASE LeaseHolds(lease[w])
  <2>1. job[j].status = "PROCESSING" /\ sub[j] = "PENDING"
    BY <1>2, <1>6 DEF LeaseHolds, JobFacts, SlotFollows
  <2>2. /\ job' = [job EXCEPT ![j] = [job[j] EXCEPT !.status = "COMPLETED"]]
        /\ results' = [results EXCEPT ![j] = results[j] + 1]
        /\ sub' = [sub EXCEPT ![j] = "SUCCEEDED"]
        /\ charges' = [charges EXCEPT ![j] = charges[j] + 1]
    BY <1>1, <1>6, <2>1 DEF Succeed, Settle, TypeOK
  <2>3. results[j] = 0 /\ charges[j] = 0  BY <1>2, <2>1 DEF JobFacts, Booked
  <2>4. [job[j] EXCEPT !.status = "COMPLETED"] \in Job
    <3>1. "COMPLETED" \in JobStatuses  BY DEF JobStatuses
    <3> QED  BY <1>1, <3>1 DEF TypeOK, Job
  <2>5. TypeOK'
    <3>1. job' \in [Jobs -> Job]  BY <1>1, <2>2, <2>4 DEF TypeOK
    <3>2. results' \in [Jobs -> Nat] /\ charges' \in [Jobs -> Nat]
      BY <1>1, <2>2, <2>3 DEF TypeOK
    <3> QED  BY <1>1, <1>3, <1>4, <2>2, <3>1, <3>2 DEF TypeOK
  <2>6. /\ job'[j].status = "COMPLETED" /\ job'[j].retryCount = job[j].retryCount
        /\ sub'[j] = "SUCCEEDED" /\ results'[j] = 1 /\ charges'[j] = 1
        /\ \A i \in Jobs \ {j} : /\ job'[i] = job[i] /\ sub'[i] = sub[i]
                                 /\ results'[i] = results[i] /\ charges'[i] = charges[i]
    BY <1>1, <2>2, <2>3 DEF TypeOK, Job
  <2>7. SlotFollows(j)' /\ Booked(j)' /\ AskedAgain(j)'
    BY <1>2, <1>3, <2>1, <2>6 DEF JobFacts, SlotFollows, Booked, AskedAgain
  <2> QED  BY <1>3, <2>5, <2>6, <2>7, EndKeeps
<1> QED  BY <1>5, <1>6

(* A round that comes again is an automatic one, of a lease that holds.    *)
LEMMA FailKeeps ==
  ASSUME IInv, NEW w \in Workers, Fail(w)
  PROVE  IInv'
<1>1. TypeOK /\ LeaseFacts(w)  BY DEF IInv
<1> PICK j \in Jobs : j = lease[w].id  BY <1>1 DEF TypeOK, ReviewLease, Fail
<1>2. JobFacts(j)  BY DEF IInv
<1>3. /\ lease[w] # NoLease /\ lease' = [lease EXCEPT ![w] = NoLease]
      /\ UNCHANGED <<results, calls, retries, claims, mishaps>>
  BY DEF Fail
<1>4. lease' \in [Workers -> ReviewLease \cup {NoLease}]  BY <1>1, <1>3 DEF TypeOK
<1>5. CASE ~LeaseHolds(lease[w])
  <2>1. UNCHANGED <<job, sub, charges>>  BY <1>5 DEF Fail
  <2>2. TypeOK'  BY <1>1, <1>3, <1>4, <2>1 DEF TypeOK
  <2>3. SlotFollows(j)' /\ Booked(j)' /\ AskedAgain(j)'
    BY <1>2, <1>3, <2>1 DEF JobFacts, SlotFollows, Booked, AskedAgain
  <2> QED  BY <1>3, <2>1, <2>2, <2>3, EndKeeps
<1>6. CASE LeaseHolds(lease[w])
  <2> PICK retryable \in BOOLEAN :
        LET later == RetriesLater(lease[w], retryable)
        IN  /\ job' = [job EXCEPT ![j].status = IF later THEN "QUEUED" ELSE "FAILED",
                                  ![j].due = ~later, ![j].lockedAt = Unlocked]
            /\ IF later THEN UNCHANGED <<sub, charges>> ELSE Settle(j, "FAILED")
    BY <1>6 DEF Fail
  <2> DEFINE later  == RetriesLater(lease[w], retryable)
             status == IF later THEN "QUEUED" ELSE "FAILED"
             row    == [job[j] EXCEPT !.status = status, !.due = ~later, !.lockedAt = Unlocked]
  <2>1. job[j].status = "PROCESSING" /\ sub[j] = "PENDING"
    BY <1>2, <1>6 DEF LeaseHolds, JobFacts, SlotFollows
  <2>2. job' = [job EXCEPT ![j] = row]  BY <1>1 DEF TypeOK
  <2>3. row \in Job
    <3>1. job[j] \in Job /\ status \in JobStatuses /\ later \in BOOLEAN /\ Unlocked \in Nat
      BY <1>1 DEF TypeOK, JobStatuses, RetriesLater, Unlocked
    <3> HIDE DEF later, status
    <3> QED  BY <3>1 DEF Job
  <2>4. row.status = status /\ row.retryCount = job[j].retryCount
    <3>1. job[j] \in Job  BY <1>1 DEF TypeOK
    <3> HIDE DEF later, status
    <3> QED  BY <3>1 DEF Job
  <2>5. /\ sub' = [sub EXCEPT ![j] = IF later THEN "PENDING" ELSE "FAILED"]
        /\ charges' = charges
    <3>1. CASE later  BY <1>1, <2>1, <3>1 DEF TypeOK
    <3>2. CASE ~later
      <4>1. Settle(j, "FAILED")  BY <3>2
      <4> HIDE DEF later
      <4> QED  BY <2>1, <3>2, <4>1 DEF Settle
    <3> QED  BY <3>1, <3>2
  <2>6. later => job[j].retryCount < AutomaticRounds
    BY <1>1, <1>3, <1>6 DEF LeaseFacts, RetriesLater
  <2> HIDE DEF later, status, row
  <2>7. TypeOK'
    <3>1. job' \in [Jobs -> Job]  BY <1>1, <2>2, <2>3 DEF TypeOK
    <3> QED  BY <1>1, <1>3, <1>4, <2>5, <3>1 DEF TypeOK
  <2>8. /\ job'[j].status = status /\ job'[j].retryCount = job[j].retryCount
        /\ sub'[j] = (IF later THEN "PENDING" ELSE "FAILED")
        /\ \A i \in Jobs \ {j} : job'[i] = job[i] /\ sub'[i] = sub[i]
    BY <1>1, <2>2, <2>4, <2>5 DEF TypeOK
  <2>9. SlotFollows(j)' /\ Booked(j)'
    BY <1>2, <1>3, <2>1, <2>5, <2>8, SMTT(30) DEF JobFacts, SlotFollows, Booked, status
  <2>10. AskedAgain(j)'
    BY <1>2, <1>3, <2>1, <2>6, <2>8 DEF JobFacts, AskedAgain, status
  <2>11. job'[j].status \in {"QUEUED", "FAILED"}  BY <2>8 DEF status
  <2> QED  BY <1>3, <2>5, <2>7, <2>8, <2>9, <2>10, <2>11, EndKeeps
<1> QED  BY <1>5, <1>6
-----------------------------------------------------------------------------
LEMMA RestKeeps == IInv /\ UNCHANGED vars => IInv'
<1> SUFFICES ASSUME IInv, UNCHANGED vars PROVE IInv'
  OBVIOUS
<1>1. TypeOK'  BY DEF IInv, TypeOK, vars
<1>2. ASSUME NEW j \in Jobs PROVE JobFacts(j)'
  <2>1. Callers(j)' \subseteq Callers(j)  BY DEF Callers, MayCall, vars
  <2> QED  BY <1>1, <2>1, JobRests DEF vars
<1>3. ASSUME NEW w \in Workers PROVE LeaseFacts(w)'
  BY DEF IInv, LeaseFacts, LeaseHolds, vars
<1> QED  BY <1>1, <1>2, <1>3 DEF IInv

LEMMA StepKeeps == IInv /\ [Next]_vars => IInv'
<1> SUFFICES ASSUME IInv, [Next]_vars PROVE IInv'
  OBVIOUS
<1>1. ASSUME NEW j \in Jobs, Create(j) PROVE IInv'  BY <1>1, CreateKeeps
<1>2. ASSUME NEW j \in Jobs, Retry(j) PROVE IInv'  BY <1>2, RetryKeeps
<1>3. ASSUME NEW j \in Jobs, BackoffElapses(j) \/ LeaseExpires(j) \/ Stall(j) PROVE IInv'
  BY <1>3, TimeKeeps
<1>4. ASSUME NEW w \in Workers, Claim(w) PROVE IInv'  BY <1>4, ClaimKeeps
<1>5. ASSUME NEW w \in Workers, CallProvider(w) PROVE IInv'  BY <1>5, CallKeeps
<1>6. ASSUME NEW w \in Workers, Succeed(w) PROVE IInv'  BY <1>6, SucceedKeeps
<1>7. ASSUME NEW w \in Workers, Fail(w) PROVE IInv'  BY <1>7, FailKeeps
<1>8. ASSUME NEW w \in Workers, Die(w) PROVE IInv'  BY <1>8, DieKeeps
<1>9. CASE UNCHANGED vars  BY <1>9, RestKeeps
<1> QED  BY <1>1, <1>2, <1>3, <1>4, <1>5, <1>6, <1>7, <1>8, <1>9 DEF Next

LEMMA Invariant == Spec => []IInv
<1> QED  BY InitKeeps, StepKeeps, PTL DEF Spec

(* For any number of jobs, processes, rounds and crashes, the slot of a     *)
(* review follows its job through every interleaving of create, retry,      *)
(* claim, commit and failure, and the provider is called in at most         *)
(* TotalRounds rounds, past AutomaticRounds only if the learner asked again *)
(* (ai-worker.service.ts:73-142, review-job-lease.ts:23-37).                *)
THEOREM ReviewBooksAgree == Spec => []BooksAgree
<1> QED  BY Invariant, BooksFollow, PTL
-----------------------------------------------------------------------------
(* The refinement.  What the learner sees of a job is its outcome: a step   *)
(* that leaves every outcome alone is a stutter of the promise, and one     *)
(* that moves the outcome of one job is the promise's Ask, Answer or        *)
(* Refuse.                                                                  *)
Request == [j \in Jobs |-> Outcome(job[j].status)]

LEMMA Outcomes ==
  /\ Outcome("NONE") = "NONE" /\ Outcome("QUEUED") = "WAITING"
  /\ Outcome("PROCESSING") = "WAITING" /\ Outcome("COMPLETED") = "REVIEWED"
  /\ Outcome("FAILED") = "REFUSED"
BY DEF Outcome

LEMMA PromiseBegins == Init => Promise!PromiseInit
<1> SUFFICES ASSUME Init PROVE Promise!PromiseInit
  OBVIOUS
<1>1. \A j \in Jobs : Outcome(job[j].status) = "NONE"  BY Outcomes DEF Init
<1> QED  BY <1>1 DEF Init, Promise!PromiseInit

LEMMA SameOutcome ==
  ASSUME \A j \in Jobs : Outcome(job[j].status)' = Outcome(job[j].status),
         results' = results, charges' = charges
  PROVE  UNCHANGED Promise!promise
<1>1. Request' = Request  BY DEF Request
<1> QED  BY <1>1 DEF Request, Promise!promise

LEMMA OneOutcome ==
  ASSUME NEW j \in Jobs, \A i \in Jobs \ {j} : job'[i] = job[i]
  PROVE  Request' = [Request EXCEPT ![j] = Outcome(job'[j].status)]
BY DEF Request

(* Asking, for the first time or again. *)
LEMMA AskRefines ==
  ASSUME IInv, NEW j \in Jobs, Create(j) \/ Retry(j)
  PROVE  Promise!PromiseNext
<1>1. /\ job[j].status \in {"NONE", "FAILED"} /\ job'[j].status = "QUEUED"
      /\ \A i \in Jobs \ {j} : job'[i] = job[i]
      /\ results' = results /\ charges' = charges
  BY DEF Create, Retry, IInv, TypeOK, Job
<1>2. Request[j] \in {"NONE", "REFUSED"}  BY <1>1, Outcomes DEF Request
<1>3. Request' = [Request EXCEPT ![j] = "WAITING"]  BY <1>1, OneOutcome, Outcomes
<1>4. Promise!Ask(j)  BY <1>1, <1>2, <1>3 DEF Request, Promise!Ask
<1> QED  BY <1>4 DEF Promise!PromiseNext

(* Answering, or nothing at all when the lease no longer holds. *)
LEMMA SucceedRefines ==
  ASSUME IInv, NEW w \in Workers, Succeed(w)
  PROVE  Promise!PromiseNext \/ UNCHANGED Promise!promise
<1>1. TypeOK  BY DEF IInv
<1> PICK j \in Jobs : j = lease[w].id  BY <1>1 DEF TypeOK, ReviewLease, Succeed
<1>2. CASE ~LeaseHolds(lease[w])
  <2>1. job' = job /\ results' = results /\ charges' = charges  BY <1>2 DEF Succeed
  <2> QED  BY <2>1, SameOutcome
<1>3. CASE LeaseHolds(lease[w])
  <2>1. job[j].status = "PROCESSING"  BY <1>3 DEF LeaseHolds
  <2>2. sub[j] = "PENDING" /\ results[j] = 0 /\ charges[j] = 0
    BY <2>1 DEF IInv, JobFacts, SlotFollows, Booked
  <2>3. /\ job' = [job EXCEPT ![j].status = "COMPLETED"]
        /\ results' = [results EXCEPT ![j] = 1] /\ charges' = [charges EXCEPT ![j] = 1]
    BY <1>1, <1>3, <2>2 DEF Succeed, Settle, TypeOK
  <2>4. job'[j].status = "COMPLETED" /\ \A i \in Jobs \ {j} : job'[i] = job[i]
    BY <1>1, <2>3 DEF TypeOK, Job
  <2>5. Request[j] = "WAITING"  BY <2>1, Outcomes DEF Request
  <2>6. Request' = [Request EXCEPT ![j] = "REVIEWED"]  BY <2>4, OneOutcome, Outcomes
  <2>7. Promise!Answer(j)  BY <2>3, <2>5, <2>6 DEF Request, Promise!Answer
  <2> QED  BY <2>7 DEF Promise!PromiseNext
<1> QED  BY <1>2, <1>3

(* Refusing at the end of the rounds; a round that comes again shows nothing. *)
LEMMA FailRefines ==
  ASSUME IInv, NEW w \in Workers, Fail(w)
  PROVE  Promise!PromiseNext \/ UNCHANGED Promise!promise
<1>1. TypeOK  BY DEF IInv
<1> PICK j \in Jobs : j = lease[w].id  BY <1>1 DEF TypeOK, ReviewLease, Fail
<1>2. results' = results /\ charges' = charges  BY DEF Fail, Settle
<1>3. CASE ~LeaseHolds(lease[w])
  <2>1. job' = job  BY <1>3 DEF Fail
  <2> QED  BY <1>2, <2>1, SameOutcome
<1>4. CASE LeaseHolds(lease[w])
  <2>1. job[j].status = "PROCESSING"  BY <1>4 DEF LeaseHolds
  <2>2. /\ job'[j].status \in {"QUEUED", "FAILED"}
        /\ \A i \in Jobs \ {j} : job'[i] = job[i]
    BY <1>1, <1>4 DEF Fail, TypeOK, Job
  <2>3. CASE job'[j].status = "QUEUED"
    <3>1. \A i \in Jobs : Outcome(job[i].status)' = Outcome(job[i].status)
      BY <2>1, <2>2, <2>3, Outcomes
    <3> QED  BY <1>2, <3>1, SameOutcome
  <2>4. CASE job'[j].status = "FAILED"
    <3>1. Request[j] = "WAITING"  BY <2>1, Outcomes DEF Request
    <3>2. Request' = [Request EXCEPT ![j] = "REFUSED"]  BY <2>2, <2>4, OneOutcome, Outcomes
    <3>3. Promise!Refuse(j)  BY <1>2, <3>1, <3>2 DEF Request, Promise!Refuse
    <3> QED  BY <3>3 DEF Promise!PromiseNext
  <2> QED  BY <2>2, <2>3, <2>4
<1> QED  BY <1>3, <1>4

(* Nothing else that a worker or the clock does is seen. *)
LEMMA UnseenRefines ==
  ASSUME IInv,
         \/ \E w \in Workers : Claim(w) \/ CallProvider(w) \/ Die(w)
         \/ \E j \in Jobs : BackoffElapses(j) \/ LeaseExpires(j) \/ Stall(j)
         \/ UNCHANGED vars
  PROVE  UNCHANGED Promise!promise
<1>1. TypeOK  BY DEF IInv
<1>2. results' = results /\ charges' = charges
  BY DEF Claim, CallProvider, Die, BackoffElapses, LeaseExpires, Stall, vars
<1>3. CASE \E w \in Workers : Claim(w)
  <2> PICK j \in Jobs :
        /\ Claimable(j)
        /\ job' = [job EXCEPT ![j].status = "PROCESSING", ![j].lockedAt = claims + 1,
                    ![j].retryCount = job[j].retryCount + (IF Exhausted(j) THEN 0 ELSE 1),
                    ![j].expired = FALSE]
    BY <1>3 DEF Claim
  <2>1. /\ job[j].status \in {"QUEUED", "PROCESSING"} /\ job'[j].status = "PROCESSING"
        /\ \A i \in Jobs \ {j} : job'[i] = job[i]
    BY <1>1 DEF Claimable, TypeOK, Job
  <2>2. \A i \in Jobs : Outcome(job[i].status)' = Outcome(job[i].status)
    BY <2>1, Outcomes
  <2> QED  BY <1>2, <2>2, SameOutcome
<1>4. CASE ~\E w \in Workers : Claim(w)
  <2> DEFINE Same == \A j \in Jobs : job'[j].status = job[j].status
  <2>2. ASSUME NEW w \in Workers, CallProvider(w) \/ Die(w) PROVE Same
    BY <2>2 DEF CallProvider, Die
  <2>3. ASSUME NEW i \in Jobs, BackoffElapses(i) \/ LeaseExpires(i) \/ Stall(i) PROVE Same
    <3>1. \/ job' = [job EXCEPT ![i].due = TRUE]
          \/ job' = [job EXCEPT ![i].expired = TRUE]
      BY <2>3 DEF BackoffElapses, LeaseExpires, Stall
    <3> QED  BY <1>1, <3>1, SMTT(30) DEF TypeOK, Job
  <2>4. ASSUME UNCHANGED vars PROVE Same  BY <2>4 DEF vars
  <2>1. Same  BY <1>4, <2>2, <2>3, <2>4
  <2> QED  BY <1>2, <2>1, SameOutcome
<1> QED  BY <1>3, <1>4

LEMMA StepRefines == IInv /\ [Next]_vars => [Promise!PromiseNext]_(Promise!promise)
<1> SUFFICES ASSUME IInv, [Next]_vars
             PROVE  Promise!PromiseNext \/ UNCHANGED Promise!promise
  OBVIOUS
<1>1. ASSUME NEW j \in Jobs, Create(j) \/ Retry(j) PROVE Promise!PromiseNext
  BY <1>1, AskRefines
<1>2. ASSUME NEW w \in Workers, Succeed(w)
      PROVE  Promise!PromiseNext \/ UNCHANGED Promise!promise
  BY <1>2, SucceedRefines
<1>3. ASSUME NEW w \in Workers, Fail(w)
      PROVE  Promise!PromiseNext \/ UNCHANGED Promise!promise
  BY <1>3, FailRefines
<1>4. ASSUME \/ \E w \in Workers : Claim(w) \/ CallProvider(w) \/ Die(w)
             \/ \E j \in Jobs : BackoffElapses(j) \/ LeaseExpires(j) \/ Stall(j)
             \/ UNCHANGED vars
      PROVE  UNCHANGED Promise!promise
  BY <1>4, UnseenRefines
<1> QED  BY <1>1, <1>2, <1>3, <1>4 DEF Next

(* Crashes, stalls, overtaken leases and automatic rounds are invisible to  *)
(* the learner: every behaviour of the pipeline is one of ReviewPromise, in *)
(* which a request in flight ends in one result and one charge, or in a     *)
(* refusal that costs nothing (ai-worker.service.ts:73-142).                *)
THEOREM ReviewKeepsPromise == Spec => KeepsPromise
<1> QED
  BY Invariant, PromiseBegins, StepRefines, PTL DEF Spec, KeepsPromise, Promise!PromiseSpec
=============================================================================
