-------------------------- MODULE VocabularyProofs --------------------------
(***************************************************************************)
(* For any number of answers and workers, and whatever the limits are:     *)
(* every assessment spends one review, but for those whose slot a late     *)
(* worker returned (OncePerAssessment), an answer in flight is paid for    *)
(* (InFlightIsPaid), and no worker schedules for a record that has changed *)
(* (RevisionFences).                                                       *)
(*                                                                         *)
(* The practice and the answers are read at different moments, so the      *)
(* proof follows the latest answer.  While the practice is assessed, its   *)
(* slot is in flight or was returned under the worker (Unbacked), which    *)
(* each late return makes possible once (Balance); when the practice has   *)
(* failed it is in flight or returned (PracticeFacts), so a retry never    *)
(* queues an answer that is paid.  A worker that reads the answers under a *)
(* lease that holds finds the latest, if it is backed, and keeps it for as *)
(* long as its lease holds and it is backed (LeaseFacts).                  *)
(***************************************************************************)
EXTENDS VocabularyProperties, FiniteSetTheorems, WellFoundedInduction, NaturalsInduction, TLAPS

(* The practice is being assessed for an answer whose slot has been returned. *)
Unbacked ==
  /\ practice.status = "ASSESSING" /\ ~changed
  /\ \E k \in Keys : Latest(k) /\ sub[k] # "PENDING"

(* What has been spent, and what may still be had for nothing. *)
Balance ==
  /\ Spent <= assessed /\ assessed <= Spent + late
  /\ Unbacked => assessed < Spent + late

(* The answer, its slot and its number are written together. *)
KeyFacts(k) ==
  /\ attempt[k] = "QUEUED" <=> sub[k] = "PENDING"
  /\ attempt[k] = "COMPLETED" => sub[k] = "SUCCEEDED" \/ late > 0
  /\ attempt[k] = "NONE" => sub[k] = "NONE" /\ ordinal[k] = 0

Numbered == {k \in Keys : ordinal[k] > 0}

(* Answers are numbered from one on, each with a number of its own. *)
OrdinalFacts ==
  /\ \A k \in Keys : ordinal[k] <= Cardinality(Numbered)
  /\ \A i, k \in Keys : ordinal[i] = ordinal[k] /\ ordinal[i] > 0 => i = k

PracticeFacts ==
  /\ practice.answered <=> Numbered # {}
  /\ practice.status \in {"NONE", "QUEUED", "GENERATING", "READY"} => ~practice.answered
  /\ practice.status = "ASSESSING" => practice.answered
  /\ ~changed => \A k \in Keys :
       Latest(k) /\ practice.status \in {"ASSESSING", "FAILED"} =>
         sub[k] \in {"PENDING", "FAILED"}

(* What a lease is worth while it holds. *)
HeldFacts(l) ==
  /\ l.stage = "GENERATES" => ~practice.answered
  /\ l.first => ~practice.assessment
  /\ l.stage = "ASSESSES" /\ ~changed =>
       Unbacked \/ (l.key \in Keys /\ Latest(l.key) /\ attempt[l.key] = "QUEUED")

LeaseFacts(l) ==
  /\ l.lockedAt <= claims
  /\ l.stage \in {"LOADED", "ASSESSES"} => practice.answered
  /\ LeaseHolds(l) => HeldFacts(l)

LeasesFacts == \A w \in Workers : lease[w] # None => LeaseFacts(lease[w])

(* The books of the task. *)
Evidence == evidence <= 1 /\ (evidence = 1 => practice.assessment)

UnitBacks == With(sub, "PENDING") # {} => unit \in {"RESERVED", "CONSUMED"}

IInv ==
  /\ TypeOK
  /\ \A k \in Keys : KeyFacts(k)
  /\ OrdinalFacts
  /\ PracticeFacts
  /\ LeasesFacts
  /\ Balance
  /\ Evidence
  /\ UnitBacks
-----------------------------------------------------------------------------
(* The latest answer: there is one as soon as any is numbered, and only one. *)
LEMMA LatestExists ==
  ASSUME TypeOK, NEW S, S \subseteq Keys, S # {}
  PROVE  \E k \in S : \A i \in S : ordinal[i] <= ordinal[k]
<1> DEFINE N == Cardinality(Keys)
           D == {N - ordinal[k] : k \in S}
<1>1. N \in Nat /\ \A k \in S : ordinal[k] \in 0..N
  BY LimitsAssumption, FS_CardinalityType DEF TypeOK
<1> HIDE DEF N
<1>2. D \subseteq Nat /\ D # {}  BY <1>1
<1>3. PICK d \in D : \A e \in D : ~(<<e, d>> \in OpToRel(<, Nat))
  <2> HIDE DEF D
  <2> QED  BY <1>2, WFMin, NatLessThanWellFounded
<1>4. PICK k \in S : d = N - ordinal[k]  OBVIOUS
<1>5. ASSUME NEW i \in S PROVE ordinal[i] <= ordinal[k]
  <2>1. N - ordinal[i] \in D  OBVIOUS
  <2>2. ~(<<N - ordinal[i], d>> \in OpToRel(<, Nat))  BY <1>3, <2>1
  <2>3. ~(N - ordinal[i] < d)  BY <1>2, <2>1, <2>2 DEF OpToRel
  <2> QED  BY <1>1, <1>4, <2>3
<1> QED  BY <1>5

LEMMA LatestUnique ==
  ASSUME TypeOK, OrdinalFacts, NEW i \in Keys, NEW k \in Keys, Latest(i), Latest(k)
  PROVE  i = k
<1>1. ordinal[i] \in Int /\ ordinal[k] \in Int  BY DEF TypeOK
<1>2. ordinal[i] = ordinal[k] /\ ordinal[i] > 0  BY <1>1 DEF Latest
<1> QED  BY <1>2 DEF OrdinalFacts

(* An assessed practice that is backed has its latest answer in flight, and  *)
(* that answer is the one a worker reads.                                    *)
LEMMA LatestInFlight ==
  ASSUME IInv, practice.answered, practice.status = "ASSESSING", ~changed, ~Unbacked
  PROVE  \E k \in Keys : Latest(k) /\ sub[k] = "PENDING" /\ attempt[k] = "QUEUED"
<1>1. TypeOK /\ PracticeFacts /\ (\A k \in Keys : KeyFacts(k))  BY DEF IInv
<1>2. Numbered # {} /\ Numbered \subseteq Keys  BY <1>1 DEF PracticeFacts, Numbered
<1>3. PICK k \in Numbered : \A i \in Numbered : ordinal[i] <= ordinal[k]
  BY <1>1, <1>2, LatestExists
<1>4. Latest(k)
  <2>1. \A i \in Keys : ordinal[i] \in 0..Cardinality(Keys) /\ Cardinality(Keys) \in Nat
    BY <1>1, LimitsAssumption, FS_CardinalityType DEF TypeOK
  <2> QED  BY <1>3, <2>1 DEF Latest, Numbered
<1>5. k \in Keys  BY DEF Numbered
<1>6. sub[k] = "PENDING"  BY <1>4, <1>5 DEF Unbacked
<1> QED  BY <1>1, <1>4, <1>5, <1>6 DEF KeyFacts

LEMMA PaidFollows == IInv => InFlightIsPaid
<1> SUFFICES ASSUME IInv PROVE InFlightIsPaid
  OBVIOUS
<1>1. practice.status = "ASSESSING" /\ ~changed /\ With(sub, "PENDING") = {} => Unbacked
  BY LatestInFlight DEF IInv, PracticeFacts, With
<1>2. practice.status = "ASSESSING" /\ ~changed /\ With(sub, "PENDING") = {} =>
        assessed < Spent + late
  BY <1>1 DEF IInv, Balance
<1>3. \A k \in Keys : /\ attempt[k] = "QUEUED" <=> sub[k] = "PENDING"
                      /\ attempt[k] = "COMPLETED" /\ late = 0 => sub[k] = "SUCCEEDED"
  BY DEF IInv, KeyFacts
<1> QED  BY <1>2, <1>3 DEF IInv, UnitBacks, InFlightIsPaid
-----------------------------------------------------------------------------
(* Slots.                                                                  *)
LEMMA SlotsFail ==
  ASSUME TypeOK, NEW K
  PROVE  /\ FailSlots(K) \in [Keys -> {"NONE", "PENDING", "SUCCEEDED", "FAILED"}]
         /\ \A k \in Keys : FailSlots(K)[k] = IF k \in K /\ sub[k] = "PENDING" THEN "FAILED"
                                              ELSE sub[k]
BY DEF FailSlots, TypeOK

LEMMA SpentType == Spent \in Nat
<1>1. IsFiniteSet(With(sub, "SUCCEEDED"))  BY LimitsAssumption, FS_Subset DEF With
<1> QED  BY <1>1, FS_CardinalityType DEF Spent

(* A practice loses its backing only when the slot of its answer goes. *)
LEMMA BackingStays ==
  ASSUME practice'.status \in {practice.status, "QUEUED", "READY", "GENERATING", "FAILED",
                               "COMPLETED"},
         changed => changed', ordinal' = ordinal,
         \A k \in Keys : sub[k] = "PENDING" => sub'[k] = "PENDING"
  PROVE  Unbacked' => Unbacked
BY DEF Unbacked, Latest

(* Spending nothing and assessing nothing leaves the count of reviews; the *)
(* slot of a practice that is assessed goes only with the late history.    *)
LEMMA BooksRest ==
  ASSUME Balance, Evidence, assessed' = assessed, evidence' = evidence,
         assessed \in Nat, late \in Nat,
         practice.assessment => practice'.assessment,
         \A k \in Keys : sub'[k] = "SUCCEEDED" <=> sub[k] = "SUCCEEDED",
         \/ late' = late /\ (Unbacked' => Unbacked)
         \/ late' = late + 1
  PROVE  Balance' /\ Evidence'
<1>1. With(sub, "SUCCEEDED")' = With(sub, "SUCCEEDED")  BY DEF With
<1>2. Spent' = Spent /\ Spent \in Nat  BY <1>1, SpentType DEF Spent
<1>3. Balance'  BY <1>2 DEF Balance
<1> QED  BY <1>3 DEF Evidence

LEMMA UnitRests ==
  ASSUME UnitBacks, \A k \in Keys : sub'[k] = "PENDING" => sub[k] = "PENDING",
         unit' = unit \/ unit' = Authorized(unit) \/ With(sub', "PENDING") = {}
                      \/ unit' \in {"RESERVED", "CONSUMED"}
  PROVE  UnitBacks'
<1>1. With(sub', "PENDING") \subseteq With(sub, "PENDING")  BY DEF With
<1>2. With(sub, "PENDING")' = With(sub', "PENDING")  BY DEF With
<1> QED  BY <1>1, <1>2 DEF UnitBacks, Authorized

LEMMA UnitType ==
  ASSUME TypeOK, NEW s, NEW K
  PROVE  /\ Authorized(unit) \in {"RESERVED", "CONSUMED"}
         /\ UnitAfter(s, K) \in {"NONE", "RESERVED", "CONSUMED", "RELEASED"}
         /\ UnitAfter(s, K) = unit \/ With(s, "PENDING") = {}
BY DEF TypeOK, Authorized, UnitAfter

(* Leases.                                                                 *)
LEMMA LeasesDrop ==
  ASSUME IInv, \A w \in Workers : lease'[w] \in {lease[w], None}, claims' = claims,
         practice.answered => practice'.answered,
         practice'.lockedAt = Unlocked \/ practice'.status \notin {"GENERATING", "ASSESSING"}
  PROVE  LeasesFacts'
<1> SUFFICES ASSUME NEW w \in Workers, lease'[w] # None
             PROVE  LeaseFacts(lease[w])'
  BY DEF LeasesFacts
<1>1. lease'[w] = lease[w] /\ lease[w] \in Lease /\ LeaseFacts(lease[w])
  BY DEF IInv, TypeOK, LeasesFacts
<1>2. lease[w].lockedAt # Unlocked /\ lease[w].status \in {"GENERATING", "ASSESSING"}
  BY <1>1 DEF Lease, Unlocked
<1>3. ~LeaseHolds(lease[w])'  BY <1>1, <1>2 DEF LeaseHolds
<1> QED  BY <1>1, <1>3 DEF LeaseFacts

LEMMA HolderAssesses ==
  ASSUME IInv, NEW l \in Lease, LeaseFacts(l), LeaseHolds(l), l.stage \in {"LOADED", "ASSESSES"}
  PROVE  practice.answered /\ practice.status = "ASSESSING"
BY DEF LeaseFacts, LeaseHolds, Lease, IInv, PracticeFacts

LEMMA LeasesStay ==
  ASSUME IInv, \A w \in Workers : lease'[w] \in {lease[w], None}, claims' = claims,
         practice'.status = practice.status, practice'.lockedAt = practice.lockedAt,
         practice'.attempts = practice.attempts, practice'.answered = practice.answered,
         practice'.assessment = practice.assessment, changed => changed',
         \/ changed' \/ Unbacked'
         \/ /\ ~Unbacked /\ ordinal' = ordinal
            /\ \A k \in Keys : practice.status = "ASSESSING" /\ Latest(k)
                             /\ attempt[k] = "QUEUED" => attempt'[k] = "QUEUED"
  PROVE  LeasesFacts'
<1> SUFFICES ASSUME NEW w \in Workers, lease'[w] # None
             PROVE  LeaseFacts(lease[w])'
  BY DEF LeasesFacts
<1>1. lease'[w] = lease[w] /\ lease[w] \in Lease /\ LeaseFacts(lease[w])
  BY DEF IInv, TypeOK, LeasesFacts
<1>2. LeaseHolds(lease[w])' <=> LeaseHolds(lease[w])  BY <1>1 DEF LeaseHolds
<1>3. LeaseHolds(lease[w]) /\ lease[w].stage = "ASSESSES" => practice.status = "ASSESSING"
  BY <1>1, HolderAssesses
<1>4. LeaseHolds(lease[w]) => HeldFacts(lease[w])'
  BY <1>1, <1>3 DEF LeaseFacts, HeldFacts, Latest
<1> QED  BY <1>1, <1>2, <1>4 DEF LeaseFacts

(* Whether a practice is backed does not change with what Unbacked does not *)
(* mention.                                                                 *)
LEMMA BackingSame ==
  ASSUME practice'.status = practice.status, changed' = changed, ordinal' = ordinal, sub' = sub
  PROVE  Unbacked' <=> Unbacked
BY DEF Unbacked, Latest

LEMMA Forgets ==
  ASSUME TypeOK, NEW w \in Workers, Forget(w)
  PROVE  /\ lease' \in [Workers -> Lease \cup {None}]
         /\ \A v \in Workers : lease'[v] \in {lease[v], None}
BY DEF TypeOK, Forget
-----------------------------------------------------------------------------
(* The learner's requests.                                                 *)

(* What a row becomes, in the forms the actions write it. *)
LEMMA Rows ==
  ASSUME NEW p \in Practice, NEW s \in Statuses, NEW n \in 0..MaxClaims,
         NEW a \in 0..MaxAttempts, NEW b \in BOOLEAN
  PROVE  /\ [p EXCEPT !.status = s] \in Practice
         /\ [p EXCEPT !.status = s, !.lockedAt = n] \in Practice
         /\ [p EXCEPT !.status = s, !.lockedAt = n, !.expired = b] \in Practice
         /\ [p EXCEPT !.status = s, !.lockedAt = n, !.assessment = b] \in Practice
         /\ [p EXCEPT !.status = s, !.challenge = b, !.lockedAt = n, !.attempts = a] \in Practice
         /\ [p EXCEPT !.status = s, !.lockedAt = n, !.attempts = a, !.expired = b] \in Practice
         /\ [p EXCEPT !.status = s, !.answered = TRUE, !.attempts = a, !.lockedAt = n,
                      !.expired = TRUE] \in Practice
         /\ [p EXCEPT !.expired = b] \in Practice
BY DEF Practice

LEMMA Unlock == Unlocked \in 0..MaxClaims /\ 0 \in 0..MaxAttempts
BY LimitsAssumption DEF Unlocked

LEMMA StartKeeps ==
  ASSUME IInv, Start
  PROVE  IInv'
<1>1. TypeOK /\ PracticeFacts  BY DEF IInv
<1>2. UNCHANGED <<changed, visible, attempt, ordinal, sub, lease, assessed, evidence, late, claims,
               mishaps>>
  BY DEF Start, record, history
<1>3. /\ practice' \in Practice /\ practice'.answered = practice.answered
      /\ practice'.assessment = practice.assessment
      /\ \/ practice' = practice
         \/ practice.status = "NONE" /\ practice'.status = "QUEUED"
  <2>1. "QUEUED" \in Statuses /\ practice \in Practice  BY <1>1 DEF Statuses, TypeOK
  <2>2. [practice EXCEPT !.status = "QUEUED"] \in Practice
    BY <2>1, Unlock, Rows
  <2> QED  BY <2>1, <2>2 DEF Start, Practice
<1>4. unit' = Authorized(unit) /\ unit' \in {"RESERVED", "CONSUMED"}
  BY <1>1, UnitType DEF Start
<1>5. TypeOK'  BY <1>1, <1>2, <1>3, <1>4 DEF TypeOK
<1>6. (\A k \in Keys : KeyFacts(k)') /\ OrdinalFacts' /\ UnitBacks'
  BY <1>2, <1>4 DEF IInv, KeyFacts, OrdinalFacts, Numbered, UnitBacks
<1>7. PracticeFacts'
  <2>1. Numbered' = Numbered  BY <1>2 DEF Numbered
  <2> QED  BY <1>1, <1>2, <1>3, <2>1 DEF PracticeFacts, Latest
<1>8. LeasesFacts'
  <2>1. \A w \in Workers : lease'[w] \in {lease[w], None}  BY <1>2
  <2>2. CASE practice' = practice  BY <1>2, <2>1, <2>2, BackingSame, LeasesStay
  <2>3. CASE practice'.status = "QUEUED"  BY <1>2, <1>3, <2>1, <2>3, LeasesDrop
  <2> QED  BY <1>3, <2>2, <2>3
<1>9. Unbacked' => Unbacked  BY <1>2, <1>3, BackingStays
<1>10. Balance' /\ Evidence'  BY <1>1, <1>2, <1>3, <1>9, BooksRest DEF IInv, TypeOK
<1> QED  BY <1>5, <1>6, <1>7, <1>8, <1>10 DEF IInv

(* A new answer takes a number above all others: it is the latest.         *)
LEMMA AnswerKeeps ==
  ASSUME IInv, NEW k \in Keys, Answer(k)
  PROVE  IInv'
<1>1. TypeOK /\ PracticeFacts /\ OrdinalFacts /\ (\A i \in Keys : KeyFacts(i))
  BY DEF IInv
<1>2. UNCHANGED <<changed, visible, lease, assessed, evidence, late, claims, mishaps>>
  BY DEF Answer, record, history
<1>3. attempt[k] = "NONE" /\ ordinal[k] = 0 /\ sub[k] = "NONE"
  BY <1>1 DEF Answer, KeyFacts
<1> DEFINE n == Cardinality(Numbered)
<1>4. n \in 0..Cardinality(Keys) - 1 /\ IsFiniteSet(Numbered) /\ Cardinality(Keys) \in Nat
  <2>1. IsFiniteSet(Keys) /\ Numbered \subseteq Keys \ {k}
    BY <1>3, LimitsAssumption DEF Numbered
  <2>2. /\ IsFiniteSet(Keys \ {k}) /\ Cardinality(Keys \ {k}) = Cardinality(Keys) - 1
    BY <2>1, FS_RemoveElement
  <2>3. IsFiniteSet(Numbered) /\ n <= Cardinality(Keys \ {k})  BY <2>1, <2>2, FS_Subset
  <2> QED  BY <2>1, <2>2, <2>3, FS_CardinalityType
<1>5. /\ sub' = [sub EXCEPT ![k] = "PENDING"] /\ attempt' = [attempt EXCEPT ![k] = "QUEUED"]
      /\ ordinal' = [ordinal EXCEPT ![k] = n + 1]
      /\ unit' = Authorized(unit)
  BY DEF Answer, Numbered
<1> HIDE DEF n
<1>6. /\ practice' \in Practice /\ practice'.status = "ASSESSING" /\ practice'.answered
      /\ practice'.lockedAt = Unlocked /\ practice'.assessment = practice.assessment
  <2>1. "ASSESSING" \in Statuses /\ practice \in Practice  BY <1>1 DEF Statuses, TypeOK
  <2>2. [practice EXCEPT !.status = "ASSESSING", !.answered = TRUE, !.attempts = 0,
                         !.lockedAt = Unlocked, !.expired = TRUE] \in Practice
    BY <2>1, Unlock, Rows
  <2> QED  BY <2>1, <2>2 DEF Answer, Practice
<1>7. unit' \in {"RESERVED", "CONSUMED"}  BY <1>1, <1>5, UnitType
<1>8. TypeOK'
  <2>1. ordinal' \in [Keys -> 0..Cardinality(Keys)]
    <3>1. n + 1 \in 0..Cardinality(Keys)  BY <1>4
    <3> QED  BY <1>1, <1>5, <3>1 DEF TypeOK
  <2> QED  BY <1>1, <1>2, <1>5, <1>6, <1>7, <2>1 DEF TypeOK
<1>9. \A i \in Keys : KeyFacts(i)'  BY <1>1, <1>2, <1>5 DEF KeyFacts, TypeOK
<1>10. /\ ordinal'[k] = n + 1
       /\ \A i \in Keys \ {k} : ordinal'[i] = ordinal[i] /\ ordinal[i] \in 0..n
  BY <1>1, <1>4, <1>5 DEF TypeOK, OrdinalFacts, n
<1>11. Numbered' = Numbered \cup {k} /\ k \notin Numbered
  BY <1>3, <1>4, <1>10 DEF Numbered
<1>12. OrdinalFacts'
  <2>1. Cardinality(Numbered') = n + 1  BY <1>4, <1>11, FS_AddElement DEF n
  <2>2. \A i \in Keys : ordinal'[i] <= n + 1  BY <1>4, <1>10
  <2>3. \A i, h \in Keys : ordinal'[i] = ordinal'[h] /\ ordinal'[i] > 0 => i = h
    BY <1>1, <1>4, <1>10 DEF OrdinalFacts
  <2> QED  BY <2>1, <2>2, <2>3 DEF OrdinalFacts
<1>13. PracticeFacts'
  <2>1. \A i \in Keys : Latest(i)' => i = k  BY <1>4, <1>10 DEF Latest
  <2>2. sub'[k] = "PENDING"  BY <1>1, <1>5 DEF TypeOK
  <2> QED  BY <1>6, <1>11, <2>1, <2>2 DEF PracticeFacts
<1>14. LeasesFacts'
  <2>1. \A w \in Workers : lease'[w] \in {lease[w], None}  BY <1>2
  <2> QED  BY <1>2, <1>6, <2>1, LeasesDrop
<1>15. Balance' /\ Evidence'
  <2>1. \A i \in Keys : sub'[i] = "SUCCEEDED" <=> sub[i] = "SUCCEEDED"
    BY <1>1, <1>3, <1>5 DEF TypeOK
  <2>2. ~Unbacked'
    <3>1. sub'[k] = "PENDING"  BY <1>1, <1>5 DEF TypeOK
    <3>2. \A i \in Keys : Latest(i)' => i = k  BY <1>4, <1>10 DEF Latest
    <3> QED  BY <3>1, <3>2 DEF Unbacked
  <2> QED  BY <1>1, <1>2, <1>6, <2>1, <2>2, BooksRest DEF IInv, TypeOK
<1>16. UnitBacks'  BY <1>7 DEF UnitBacks
<1> QED  BY <1>8, <1>9, <1>12, <1>13, <1>14, <1>15, <1>16 DEF IInv

(* A retry queues the latest answer, whose slot is in flight or has failed. *)
LEMMA RetryKeeps ==
  ASSUME IInv, Retry
  PROVE  IInv'
<1>1. TypeOK /\ PracticeFacts /\ OrdinalFacts /\ (\A i \in Keys : KeyFacts(i))
  BY DEF IInv
<1>2. UNCHANGED <<changed, visible, ordinal, lease, assessed, evidence, late, claims, mishaps>>
  BY DEF Retry, record, history
<1>3. practice.status = "FAILED" /\ ~changed  BY DEF Retry, LearningChanged
<1>4. /\ practice' \in Practice
      /\ practice'.status = (IF practice.answered THEN "ASSESSING" ELSE "QUEUED")
      /\ practice'.answered = practice.answered /\ practice'.lockedAt = Unlocked
      /\ practice'.assessment = practice.assessment
  <2> DEFINE s == IF practice.answered THEN "ASSESSING" ELSE "QUEUED"
  <2>1. s \in Statuses /\ practice \in Practice  BY <1>1 DEF Statuses, TypeOK
  <2> HIDE DEF s
  <2>2. [practice EXCEPT !.status = s, !.lockedAt = Unlocked, !.expired = TRUE] \in Practice
    BY <2>1, Unlock, Rows
  <2>3. practice' = [practice EXCEPT !.status = s, !.lockedAt = Unlocked, !.expired = TRUE]
    BY DEF Retry, s
  <2>4. practice'.status = s  BY <2>1, <2>3 DEF Practice
  <2> QED  BY <2>1, <2>2, <2>3, <2>4 DEF Practice, s
<1>5. Numbered' = Numbered /\ (\A i \in Keys : Latest(i)' <=> Latest(i))
  BY <1>2 DEF Numbered, Latest
<1>6. OrdinalFacts'  BY <1>1, <1>2, <1>5 DEF OrdinalFacts
<1>7. LeasesFacts'
  <2>1. \A w \in Workers : lease'[w] \in {lease[w], None}  BY <1>2
  <2> QED  BY <1>2, <1>4, <2>1, LeasesDrop
<1>8. ASSUME NEW k \in Keys, Latest(k),
             IF sub[k] = "FAILED"
             THEN sub' = [sub EXCEPT ![k] = "PENDING"] /\ unit' = Authorized(unit)
             ELSE UNCHANGED <<sub, unit>>,
             attempt' = [attempt EXCEPT ![k] = "QUEUED"]
      PROVE  IInv'
  <2>1. sub[k] \in {"PENDING", "FAILED"}  BY <1>1, <1>3, <1>8 DEF PracticeFacts
  <2>2. sub' = [sub EXCEPT ![k] = "PENDING"]  BY <1>1, <1>8, <2>1 DEF TypeOK
  <2>3. TypeOK'  BY <1>1, <1>2, <1>4, <1>8, <2>2, UnitType DEF TypeOK
  <2>4. \A i \in Keys : KeyFacts(i)'
    <3>1. attempt[k] # "NONE"  BY <1>1, <2>1 DEF KeyFacts
    <3> QED  BY <1>1, <1>2, <1>8, <2>2, <3>1 DEF KeyFacts, TypeOK
  <2>5. practice.answered  BY <1>1, <1>8 DEF PracticeFacts, Numbered, Latest
  <2>6. \A i \in Keys : Latest(i) => i = k  BY <1>1, <1>8, LatestUnique
  <2>7. sub'[k] = "PENDING"  BY <1>1, <2>2 DEF TypeOK
  <2>8. PracticeFacts'
    BY <1>1, <1>4, <1>5, <2>5, <2>6, <2>7 DEF PracticeFacts
  <2>9. Balance' /\ Evidence'
    <3>1. \A i \in Keys : sub'[i] = "SUCCEEDED" <=> sub[i] = "SUCCEEDED"
      BY <1>1, <2>1, <2>2 DEF TypeOK
    <3>2. ~Unbacked'  BY <1>5, <2>6, <2>7 DEF Unbacked
    <3> QED  BY <1>1, <1>2, <1>4, <3>1, <3>2, BooksRest DEF IInv, TypeOK
  <2>10. UnitBacks'
    <3>1. CASE sub[k] = "FAILED"  BY <1>1, <1>8, <3>1, UnitType DEF UnitBacks
    <3>2. CASE sub[k] # "FAILED"  BY <1>8, <3>2 DEF UnitBacks, IInv, With
    <3> QED  BY <3>1, <3>2
  <2> QED  BY <1>6, <1>7, <2>3, <2>4, <2>8, <2>9, <2>10 DEF IInv
<1>9. ASSUME \A k \in Keys : ordinal[k] = 0, unit' = Authorized(unit), UNCHANGED <<sub, attempt>>
      PROVE  IInv'
  <2>1. TypeOK'  BY <1>1, <1>2, <1>4, <1>9, UnitType DEF TypeOK
  <2>2. \A i \in Keys : KeyFacts(i)'  BY <1>1, <1>2, <1>9 DEF KeyFacts
  <2>3. \A i \in Keys : ~Latest(i)  BY <1>9 DEF Latest
  <2>4. ~practice.answered  BY <1>1, <1>9 DEF PracticeFacts, Numbered
  <2>5. PracticeFacts'  BY <1>1, <1>4, <1>5, <2>3, <2>4 DEF PracticeFacts
  <2>6. Balance' /\ Evidence'
    <3>1. ~Unbacked'  BY <1>5, <2>3 DEF Unbacked
    <3> QED  BY <1>1, <1>2, <1>4, <1>9, <3>1, BooksRest DEF IInv, TypeOK
  <2>7. UnitBacks'  BY <1>1, <1>9, UnitType DEF UnitBacks
  <2> QED  BY <1>6, <1>7, <2>1, <2>2, <2>5, <2>6, <2>7 DEF IInv
<1> QED  BY <1>8, <1>9 DEF Retry

(* Steps that move only the practice row: none of them ends an assessment  *)
(* that is counted, and a practice that fails keeps its slot as it was.    *)
LEMMA RowKeeps ==
  ASSUME IInv, practice' \in Practice, changed' \in BOOLEAN, mishaps' \in 0..MaxMishaps,
         visible' \in BOOLEAN,
         UNCHANGED <<attempt, ordinal, sub, unit, assessed, evidence, late>>,
         lease' \in [Workers -> Lease \cup {None}], claims' \in 0..MaxClaims, LeasesFacts',
         practice'.answered = practice.answered,
         practice'.assessment = practice.assessment,
         changed => changed',
         \/ practice'.status = practice.status
         \/ practice'.status = "FAILED" /\ practice.status \in {"GENERATING", "ASSESSING"}
         \/ practice'.status = "FAILED" /\ changed'
         \/ practice'.status \in {"GENERATING", "READY"} /\ ~practice.answered
         \/ practice'.status = "ASSESSING" /\ practice.answered
              /\ practice.status \in {"QUEUED", "GENERATING", "ASSESSING"}
  PROVE  IInv'
<1>1. TypeOK /\ PracticeFacts /\ (\A i \in Keys : KeyFacts(i))
  BY DEF IInv
<1>2. TypeOK'  BY <1>1 DEF TypeOK
<1>3. Numbered' = Numbered /\ (\A i \in Keys : Latest(i)' <=> Latest(i))
  BY DEF Numbered, Latest
<1>4. (\A i \in Keys : KeyFacts(i)') /\ OrdinalFacts' /\ UnitBacks'
  BY <1>3 DEF IInv, KeyFacts, OrdinalFacts, UnitBacks, With
<1>5. \A k \in Keys : Latest(k) => practice.answered
  BY <1>1 DEF PracticeFacts, Numbered, Latest
<1>6. PracticeFacts'  BY <1>1, <1>3, <1>5 DEF PracticeFacts
<1>7. practice'.status \in {practice.status, "GENERATING", "READY", "FAILED"}
  BY <1>1 DEF PracticeFacts
<1>8. Unbacked' => Unbacked  BY <1>7, BackingStays
<1>9. Balance' /\ Evidence'  BY <1>1, <1>8, BooksRest DEF IInv, TypeOK
<1> QED  BY <1>2, <1>4, <1>6, <1>9 DEF IInv

LEMMA FailedRow ==
  ASSUME TypeOK, practice' = [practice EXCEPT !.status = "FAILED", !.lockedAt = Unlocked]
  PROVE  /\ practice' \in Practice /\ practice'.status = "FAILED"
         /\ practice'.answered = practice.answered /\ practice'.lockedAt = Unlocked
         /\ practice'.assessment = practice.assessment
<1>1. "FAILED" \in Statuses /\ practice \in Practice  BY DEF Statuses, TypeOK
<1>2. [practice EXCEPT !.status = "FAILED", !.lockedAt = Unlocked] \in Practice
  BY <1>1, Unlock, Rows
<1> QED  BY <1>1, <1>2 DEF Practice

LEMMA ClosingKeeps ==
  ASSUME IInv, SetLearning \/ GiveUp \/ Validate
  PROVE  IInv'
<1>1. TypeOK  BY DEF IInv
<1>2. UNCHANGED <<attempt, ordinal, sub, unit, lease, assessed, evidence, late, claims, mishaps>>
      /\ (changed' \/ changed' = changed)
  BY DEF SetLearning, GiveUp, Validate, learner, record, history
<1>3. \A w \in Workers : lease'[w] \in {lease[w], None}  BY <1>2
<1>4. changed' \in BOOLEAN /\ visible' \in BOOLEAN
  BY <1>1 DEF SetLearning, GiveUp, Validate, record, TypeOK
<1>5. CASE practice' = practice
  <2>1. LeasesFacts'  BY <1>2, <1>3, <1>5, BackingSame, LeasesStay
  <2> QED  BY <1>1, <1>2, <1>4, <1>5, <2>1, RowKeeps DEF TypeOK
<1>6. CASE practice' # practice
  <2>1. practice' = [practice EXCEPT !.status = "FAILED", !.lockedAt = Unlocked]
    BY <1>6 DEF SetLearning, GiveUp, Validate
  <2>2. LeasesFacts'  BY <1>1, <1>2, <1>3, <2>1, FailedRow, LeasesDrop
  <2>3. changed' \/ practice.status \in {"GENERATING", "ASSESSING"}
    BY <1>6 DEF SetLearning, GiveUp, Validate
  <2> QED  BY <1>1, <1>2, <1>4, <2>1, <2>2, <2>3, FailedRow, RowKeeps DEF TypeOK
<1> QED  BY <1>5, <1>6

LEMMA TimeKeeps ==
  ASSUME IInv, LeaseExpires \/ Stall
  PROVE  IInv'
<1>1. TypeOK  BY DEF IInv
<1>2. /\ UNCHANGED <<changed, visible, attempt, ordinal, sub, unit, lease, assessed, evidence,
                     late, claims>>
      /\ practice' = [practice EXCEPT !.expired = TRUE]
  BY DEF LeaseExpires, Stall, learner, record, history
<1>3. mishaps' \in 0..MaxMishaps
  BY <1>1, LimitsAssumption DEF LeaseExpires, Stall, TypeOK
<1>4. /\ practice' \in Practice /\ practice'.status = practice.status
      /\ practice'.lockedAt = practice.lockedAt /\ practice'.attempts = practice.attempts
      /\ practice'.answered = practice.answered /\ practice'.assessment = practice.assessment
  BY <1>1, <1>2 DEF TypeOK, Practice
<1>5. LeasesFacts'
  <2>1. \A w \in Workers : lease'[w] \in {lease[w], None}  BY <1>2
  <2> QED  BY <1>2, <1>4, <2>1, BackingSame, LeasesStay
<1> QED  BY <1>1, <1>2, <1>3, <1>4, <1>5, RowKeeps DEF TypeOK
-----------------------------------------------------------------------------
(* The workers.                                                            *)

(* A claim has a number that no lease has: every other lease ends here.    *)
LEMMA ClaimKeeps ==
  ASSUME IInv, NEW w \in Workers, Claim(w)
  PROVE  IInv'
<1> DEFINE status   == IF practice.answered THEN "ASSESSING" ELSE "GENERATING"
           attempts == practice.attempts + 1
           number   == claims + 1
<1>1. TypeOK  BY DEF IInv
<1>2. /\ UNCHANGED <<changed, visible, attempt, ordinal, sub, unit, assessed, evidence, late,
                     mishaps>>
      /\ claims' = number /\ lease[w] = None
      /\ practice.status \in {"QUEUED", "GENERATING", "ASSESSING"}
  BY DEF Claim, learner, record, history
<1>3. /\ status \in {"GENERATING", "ASSESSING"} /\ practice \in Practice
      /\ attempts \in 1..MaxAttempts /\ number \in 1..MaxClaims
      /\ claims \in 0..MaxClaims /\ number = claims + 1
  BY <1>1, LimitsAssumption DEF Claim, AttemptsLeft, TypeOK, Practice
<1>4. /\ practice' = [practice EXCEPT !.status = status, !.lockedAt = number,
                                      !.attempts = attempts, !.expired = FALSE]
      /\ lease' = [lease EXCEPT ![w] =
           [status |-> status, lockedAt |-> number, attempts |-> attempts,
            stage |-> "CLAIMED", first |-> FALSE, key |-> None]]
  BY DEF Claim
<1>5. practice.answered <=> status = "ASSESSING"  BY <1>1 DEF TypeOK, Practice
<1> HIDE DEF status, attempts, number
<1>6. /\ practice' \in Practice /\ practice'.status = status /\ practice'.lockedAt = number
      /\ practice'.answered = practice.answered /\ practice'.assessment = practice.assessment
  <2>1. status \in Statuses  BY <1>3 DEF Statuses
  <2>2. attempts \in 0..MaxAttempts /\ number \in 0..MaxClaims /\ FALSE \in BOOLEAN
    BY <1>3, LimitsAssumption
  <2>3. practice' \in Practice  BY <1>3, <1>4, <2>1, <2>2, Rows
  <2> QED  BY <1>3, <1>4, <2>3 DEF Practice
<1>7. lease' \in [Workers -> Lease \cup {None}]
  <2>1. [status |-> status, lockedAt |-> number, attempts |-> attempts,
         stage |-> "CLAIMED", first |-> FALSE, key |-> None] \in Lease
    BY <1>3 DEF Lease
  <2> QED  BY <1>1, <1>4, <2>1 DEF TypeOK
<1>8. LeasesFacts'
  <2> SUFFICES ASSUME NEW v \in Workers, lease'[v] # None PROVE LeaseFacts(lease[v])'
    BY DEF LeasesFacts
  <2>1. CASE v = w
    <3>1. lease'[v] = [status |-> status, lockedAt |-> number, attempts |-> attempts,
                       stage |-> "CLAIMED", first |-> FALSE, key |-> None]
      BY <1>1, <1>4, <2>1 DEF TypeOK
    <3>2. /\ lease'[v].stage = "CLAIMED" /\ lease'[v].first = FALSE
          /\ lease'[v].lockedAt = number
      BY <3>1
    <3> QED  BY <1>2, <1>3, <3>2 DEF LeaseFacts, HeldFacts
  <2>2. CASE v # w
    <3>1. lease'[v] = lease[v] /\ LeaseFacts(lease[v]) /\ lease[v] \in Lease
      BY <1>1, <1>4, <2>2 DEF TypeOK, IInv, LeasesFacts
    <3>2. lease[v].lockedAt <= claims /\ lease[v].lockedAt \in 1..MaxClaims
      BY <3>1 DEF LeaseFacts, Lease
    <3>3. lease[v].lockedAt <= claims' /\ lease[v].lockedAt # practice'.lockedAt
      BY <1>2, <1>3, <1>6, <3>2
    <3> QED  BY <1>6, <3>1, <3>3 DEF LeaseFacts, LeaseHolds
  <2> QED  BY <2>1, <2>2
<1>9. /\ claims' \in 0..MaxClaims /\ mishaps' \in 0..MaxMishaps
      /\ changed' \in BOOLEAN /\ visible' \in BOOLEAN
  BY <1>1, <1>2, <1>3 DEF TypeOK
<1> QED  BY <1>1, <1>2, <1>3, <1>5, <1>6, <1>7, <1>8, <1>9, RowKeeps DEF Practice, TypeOK

(* Steps of one worker that change its lease and nothing else. *)
LEMMA LeaseKeeps ==
  ASSUME IInv, NEW w \in Workers, NEW l, l \in Lease \cup {None},
         lease' = [lease EXCEPT ![w] = l], l # None => LeaseFacts(l),
         UNCHANGED <<practice, changed, visible, attempt, ordinal, sub, unit, assessed, evidence,
                     late, claims>>,
         mishaps' \in 0..MaxMishaps
  PROVE  IInv'
<1>1. TypeOK  BY DEF IInv
<1>2. lease' \in [Workers -> Lease \cup {None}]  BY <1>1 DEF TypeOK
<1>3. \A v \in Workers : lease'[v] # None => LeaseFacts(lease'[v])
  BY <1>1 DEF TypeOK, IInv, LeasesFacts
<1>4. LeasesFacts'
  BY <1>3, BackingSame DEF LeasesFacts, LeaseFacts, LeaseHolds, HeldFacts, Latest
<1> QED  BY <1>1, <1>2, <1>4, RowKeeps DEF TypeOK

LEMMA LoadKeeps ==
  ASSUME IInv, NEW w \in Workers, Load(w)
  PROVE  IInv'
<1>1. TypeOK /\ UNCHANGED <<practice, changed, visible, attempt, ordinal, sub, unit, assessed,
                           evidence, late, claims, mishaps>>
  BY DEF IInv, Load, learner, record, history
<1>2. lease[w] \in Lease /\ LeaseFacts(lease[w])
  BY <1>1 DEF Load, At, TypeOK, IInv, LeasesFacts
<1>3. CASE ~LeaseHolds(lease[w])
  <2>1. lease' = [lease EXCEPT ![w] = None]  BY <1>3 DEF Load, Forget
  <2> QED  BY <1>1, <2>1, LeaseKeeps DEF TypeOK
<1>4. CASE LeaseHolds(lease[w])
  <2> DEFINE stage == IF Refused THEN "REFUSES"
                      ELSE IF practice.answered THEN "LOADED" ELSE "GENERATES"
             l == [lease[w] EXCEPT !.stage = stage, !.first = ~practice.assessment]
  <2>1. lease' = [lease EXCEPT ![w] = l]  BY <1>1, <1>4 DEF Load, TypeOK
  <2>2. stage \in {"LOADED", "GENERATES", "REFUSES"}  OBVIOUS
  <2>3. /\ stage = "LOADED" => practice.answered
        /\ stage = "GENERATES" => ~practice.answered
    OBVIOUS
  <2> HIDE DEF stage
  <2>4. l \in Lease
    <3>1. (~practice.assessment) \in BOOLEAN  OBVIOUS
    <3> QED  BY <1>2, <2>2, <3>1 DEF Lease
  <2>5. /\ l.stage = stage /\ l.first = ~practice.assessment /\ l.lockedAt = lease[w].lockedAt
    BY <1>2 DEF Lease
  <2> HIDE DEF l
  <2>6. LeaseFacts(l)
    BY <1>2, <2>2, <2>3, <2>5 DEF LeaseFacts, HeldFacts
  <2> QED  BY <1>1, <2>1, <2>4, <2>6, LeaseKeeps DEF TypeOK
<1> QED  BY <1>3, <1>4

(* The answer a worker reads is in flight, if its lease still holds. *)
LEMMA ReadAnswerKeeps ==
  ASSUME IInv, NEW w \in Workers, ReadAnswer(w)
  PROVE  IInv'
<1>1. TypeOK /\ UNCHANGED <<practice, changed, visible, attempt, ordinal, sub, unit, assessed,
                           evidence, late, claims, mishaps>>
  BY DEF IInv, ReadAnswer, learner, record, history
<1>2. lease[w] \in Lease /\ LeaseFacts(lease[w]) /\ lease[w].stage = "LOADED"
  BY <1>1 DEF ReadAnswer, At, TypeOK, IInv, LeasesFacts
<1> DEFINE queued == With(attempt, "QUEUED")
           key    == IF queued = {} THEN None
                     ELSE CHOOSE k \in queued : \A i \in queued : ordinal[i] <= ordinal[k]
           l      == [lease[w] EXCEPT !.stage = "ASSESSES", !.key = key]
<1>3. lease' = [lease EXCEPT ![w].stage = "ASSESSES", ![w].key = key]  BY DEF ReadAnswer
<1>4. queued # {} => key \in queued
  <2>1. queued # {} => \E k \in queued : \A i \in queued : ordinal[i] <= ordinal[k]
    BY <1>1, LatestExists DEF With
  <2> QED  BY <2>1
<1>5. key \in Keys \cup {None}  BY <1>4 DEF With
<1>6. LeaseHolds(lease[w]) /\ ~changed /\ ~Unbacked =>
        key \in Keys /\ Latest(key) /\ attempt[key] = "QUEUED"
  <2> SUFFICES ASSUME LeaseHolds(lease[w]), ~changed, ~Unbacked
               PROVE  key \in Keys /\ Latest(key) /\ attempt[key] = "QUEUED"
    OBVIOUS
  <2>1. practice.answered  BY <1>2 DEF LeaseFacts
  <2>2. practice.status = "ASSESSING"
    BY <1>2, <2>1 DEF LeaseHolds, Lease, IInv, PracticeFacts
  <2>3. PICK k \in Keys : Latest(k) /\ attempt[k] = "QUEUED"
    BY <2>1, <2>2, LatestInFlight
  <2>4. k \in queued  BY <2>3 DEF With
  <2>5. key \in queued /\ ordinal[k] <= ordinal[key]
    <3>1. \E j \in queued : \A i \in queued : ordinal[i] <= ordinal[j]
      BY <1>1, <2>4, LatestExists DEF With
    <3> QED  BY <2>4, <3>1
  <2>6. key \in Keys /\ attempt[key] = "QUEUED"  BY <2>5 DEF With
  <2> HIDE DEF key, queued
  <2>7. \A i \in Keys : ordinal[i] \in Int  BY <1>1, LimitsAssumption DEF TypeOK
  <2>8. Latest(key)  BY <2>3, <2>5, <2>6, <2>7 DEF Latest
  <2> QED  BY <2>6, <2>8
<1> HIDE DEF key
<1>7. l \in Lease /\ lease' = [lease EXCEPT ![w] = l]
  BY <1>1, <1>2, <1>3, <1>5 DEF Lease, TypeOK
<1>8. /\ l.stage = "ASSESSES" /\ l.key = key /\ l.first = lease[w].first
      /\ l.status = lease[w].status /\ l.lockedAt = lease[w].lockedAt
      /\ l.attempts = lease[w].attempts
  BY <1>2 DEF Lease
<1> HIDE DEF l
<1>9. LeaseHolds(l) <=> LeaseHolds(lease[w])  BY <1>8 DEF LeaseHolds
<1>10. LeaseFacts(l)
  BY <1>2, <1>6, <1>8, <1>9 DEF LeaseFacts, HeldFacts
<1> QED  BY <1>1, <1>7, <1>10, LeaseKeeps DEF TypeOK

LEMMA DieKeeps ==
  ASSUME IInv, NEW w \in Workers, Die(w)
  PROVE  IInv'
<1>1. TypeOK /\ UNCHANGED <<practice, changed, visible, attempt, ordinal, sub, unit, assessed,
                           evidence, late, claims>>
  BY DEF IInv, Die, learner, record, history
<1>2. mishaps' \in 0..MaxMishaps  BY <1>1, LimitsAssumption DEF Die, TypeOK
<1> QED  BY <1>1, <1>2, LeaseKeeps DEF Die, Forget

LEMMA GeneratedKeeps ==
  ASSUME IInv, NEW w \in Workers, Generated(w)
  PROVE  IInv'
<1>1. TypeOK /\ UNCHANGED <<changed, visible, attempt, ordinal, sub, unit, assessed,
                           evidence, late, claims, mishaps>>
  BY DEF IInv, Generated, learner, record, history
<1>2. CASE ~LeaseHolds(lease[w])
  BY <1>1, <1>2, LeaseKeeps DEF Generated, Forget, TypeOK
<1>3. CASE LeaseHolds(lease[w])
  <2>1. ~practice.answered
    BY <1>1, <1>3 DEF Generated, At, IInv, LeasesFacts, LeaseFacts, HeldFacts
  <2>2. /\ practice' \in Practice /\ practice'.status = "READY"
        /\ practice'.answered = practice.answered /\ practice'.lockedAt = Unlocked
        /\ practice'.assessment = practice.assessment
    <3>1. "READY" \in Statuses /\ practice \in Practice  BY <1>1 DEF Statuses, TypeOK
    <3>2. [practice EXCEPT !.status = "READY", !.challenge = TRUE, !.lockedAt = Unlocked,
                           !.attempts = 0] \in Practice
      BY <3>1, Unlock, Rows
    <3> QED  BY <1>3, <3>1, <3>2 DEF Generated, Practice
  <2>3. /\ lease' \in [Workers -> Lease \cup {None}]
        /\ \A v \in Workers : lease'[v] \in {lease[v], None}
    BY <1>1, Forgets DEF Generated
  <2>4. LeasesFacts'  BY <1>1, <2>2, <2>3, LeasesDrop
  <2> QED  BY <1>1, <2>1, <2>2, <2>3, <2>4, RowKeeps DEF TypeOK
<1> QED  BY <1>2, <1>3
-----------------------------------------------------------------------------
(* The ends of answers.                                                    *)

(* Answers that end unsuccessfully return their slots and count nothing.   *)
LEMMA EndingKeeps ==
  ASSUME IInv, NEW K, practice' \in Practice, PracticeFacts', LeasesFacts',
         UNCHANGED <<changed, visible, ordinal, assessed, evidence, claims, mishaps>>,
         \/ late' = late /\ (Unbacked' => Unbacked)
         \/ late' = late + 1,
         practice'.assessment = practice.assessment,
         lease' \in [Workers -> Lease \cup {None}],
         sub' = FailSlots(K),
         attempt' \in [Keys -> {"NONE", "QUEUED", "COMPLETED", "FAILED"}],
         \A k \in Keys : /\ attempt'[k] \in {attempt[k], "FAILED"}
                         /\ attempt'[k] = "FAILED" => k \in K \/ attempt[k] = "FAILED"
                         /\ k \in K /\ attempt[k] = "QUEUED" => attempt'[k] = "FAILED",
         unit' \in {"NONE", "RESERVED", "CONSUMED", "RELEASED"},
         unit' = unit \/ With(sub', "PENDING") = {}
  PROVE  IInv'
<1>1. TypeOK /\ (\A k \in Keys : KeyFacts(k)) /\ OrdinalFacts  BY DEF IInv
<1>2. /\ sub' \in [Keys -> {"NONE", "PENDING", "SUCCEEDED", "FAILED"}]
      /\ \A k \in Keys : sub'[k] = IF k \in K /\ sub[k] = "PENDING" THEN "FAILED" ELSE sub[k]
  BY <1>1, SlotsFail
<1>3. TypeOK'
  <2>1. late' \in Nat  BY <1>1 DEF TypeOK
  <2> QED  BY <1>1, <1>2, <2>1 DEF TypeOK
<1>4. \A k \in Keys : KeyFacts(k)'
  <2>1. late > 0 => late' > 0  BY <1>1 DEF TypeOK
  <2> QED  BY <1>1, <1>2, <2>1 DEF KeyFacts
<1>5. OrdinalFacts'  BY <1>1 DEF OrdinalFacts, Numbered
<1>6. Balance' /\ Evidence'  BY <1>1, <1>2, BooksRest DEF IInv, TypeOK
<1>7. UnitBacks'  BY <1>2, UnitRests DEF IInv
<1> QED  BY <1>3, <1>4, <1>5, <1>6, <1>7 DEF IInv

(* A worker that refuses fails its answer with or without a lease.  Only    *)
(* without one does the practice lose its backing, and that is counted.     *)
LEMMA RejectKeeps ==
  ASSUME IInv, NEW w \in Workers, At(w, {"ASSESSES"}), RejectAnswer(w), Forget(w),
         UNCHANGED <<record, ordinal, claims, mishaps>>
  PROVE  IInv'
<1>1. /\ TypeOK /\ PracticeFacts /\ (\A i \in Keys : KeyFacts(i))
      /\ UNCHANGED <<changed, visible, assessed, evidence>>
  BY DEF IInv, RejectAnswer, record
<1> PICK k : k = lease[w].key  OBVIOUS
<1>2. k \in Keys \cup {None}  BY <1>1 DEF At, TypeOK, Lease
<1>3. /\ lease' \in [Workers -> Lease \cup {None}]
      /\ \A v \in Workers : lease'[v] \in {lease[v], None}
  BY <1>1, Forgets
<1>4. /\ practice' \in Practice /\ practice'.answered = practice.answered
      /\ practice'.assessment = practice.assessment
      /\ \/ practice' = practice /\ ~LeaseHolds(lease[w])
         \/ /\ practice'.status = "FAILED" /\ practice'.lockedAt = Unlocked
            /\ practice.status \in {"GENERATING", "ASSESSING"}
  <2>1. lease[w] \in Lease  BY <1>1 DEF At, TypeOK
  <2>2. CASE LeaseHolds(lease[w])
    <3>1. practice.status \in {"GENERATING", "ASSESSING"}
      BY <2>1, <2>2 DEF LeaseHolds, Lease
    <3> QED  BY <1>1, <2>2, <3>1, FailedRow DEF RejectAnswer
  <2>3. CASE ~LeaseHolds(lease[w])  BY <1>1, <2>3 DEF RejectAnswer, TypeOK
  <2> QED  BY <2>2, <2>3
<1> DEFINE K == {k} \ {None}
<1>5. /\ sub' = FailSlots(K)
      /\ attempt' = [i \in Keys |-> IF i \in K THEN "FAILED" ELSE attempt[i]]
      /\ unit' = unit \/ unit' = UnitAfter(sub', K)
  <2>1. CASE k = None
    <3>1. UNCHANGED <<attempt, sub, unit>>  BY <2>1 DEF RejectAnswer
    <3> QED  BY <1>1, <2>1, <3>1 DEF FailSlots, TypeOK
  <2>2. CASE k # None
    <3>1. K = {k}  BY <2>2
    <3>2. /\ attempt' = [attempt EXCEPT ![k] = "FAILED"] /\ sub' = FailSlots({k})
          /\ unit' = UnitAfter(sub', {k})
      BY <2>2 DEF RejectAnswer
    <3> QED  BY <1>1, <3>1, <3>2 DEF TypeOK
  <2> QED  BY <2>1, <2>2
<1>6. \A i \in Keys : i \in K <=> i = lease[w].key  BY LimitsAssumption
<1> HIDE DEF K
<1>7. \A i \in Keys : sub'[i] = IF i \in K /\ sub[i] = "PENDING" THEN "FAILED" ELSE sub[i]
  BY <1>1, <1>5, SlotsFail
<1>8. (\A i \in Keys : Latest(i)' <=> Latest(i)) /\ Numbered' = Numbered
  BY DEF Latest, Numbered
<1>9. \/ late' = late /\ (Unbacked' => Unbacked)
      \/ late' = late + 1
  <2>1. CASE Undercut(w)  BY <2>1 DEF RejectAnswer
  <2>2. CASE ~Undercut(w)
    <3>1. late' = late  BY <2>2 DEF RejectAnswer
    <3>2. ASSUME Unbacked', ~Unbacked PROVE FALSE
      <4>1. practice'.status = "ASSESSING" /\ ~changed'  BY <3>2 DEF Unbacked
      <4>2. practice' = practice /\ ~LeaseHolds(lease[w]) /\ ~changed  BY <1>1, <1>4, <4>1
      <4>3. PICK i \in Keys : Latest(i)' /\ sub'[i] # "PENDING"  BY <3>2 DEF Unbacked
      <4>4. Latest(i)  BY <1>8, <4>3
      <4>5. sub[i] = "PENDING"  BY <3>2, <4>1, <4>2, <4>4 DEF Unbacked
      <4>6. i = lease[w].key  BY <1>6, <1>7, <4>3, <4>5
      <4> QED  BY <2>2, <4>1, <4>2, <4>4, <4>5, <4>6 DEF Undercut
    <3> QED  BY <3>1, <3>2
  <2> QED  BY <2>1, <2>2
<1>10. PracticeFacts'
  <2>1. \A i \in Keys : Latest(i) => practice.answered
    BY <1>1 DEF PracticeFacts, Numbered, Latest
  <2>2. practice'.status \in {"ASSESSING", "FAILED"} /\ ~changed =>
          \A i \in Keys : Latest(i) => sub[i] \in {"PENDING", "FAILED"}
    BY <1>1, <1>4, <2>1 DEF PracticeFacts
  <2>3. practice'.status \in {"ASSESSING", "FAILED"} /\ ~changed' =>
          \A i \in Keys : Latest(i)' => sub'[i] \in {"PENDING", "FAILED"}
    BY <1>1, <1>7, <1>8, <2>2
  <2> QED  BY <1>1, <1>4, <1>8, <2>3 DEF PracticeFacts
<1>11. LeasesFacts'
  <2>1. CASE practice'.status = "FAILED" /\ practice'.lockedAt = Unlocked
    BY <1>3, <1>4, <2>1, LeasesDrop
  <2>2. CASE practice' = practice
    <3>1. CASE Unbacked' \/ changed'  BY <1>1, <1>3, <2>2, <3>1, LeasesStay
    <3>2. CASE ~Unbacked' /\ ~changed'
      <4>1. ~Unbacked  BY <1>1, <1>7, <1>8, <2>2, <3>2 DEF Unbacked
      <4>2. ASSUME NEW i \in Keys, practice.status = "ASSESSING", Latest(i),
                   attempt[i] = "QUEUED"
            PROVE  attempt'[i] = "QUEUED"
        <5>1. Latest(i)'  BY <1>8, <4>2
        <5>2. sub'[i] = "PENDING"  BY <2>2, <3>2, <4>2, <5>1 DEF Unbacked
        <5>3. i \notin K  BY <1>7, <5>2
        <5> QED  BY <1>5, <4>2, <5>3
      <4> QED  BY <1>1, <1>3, <2>2, <4>1, <4>2, LeasesStay
    <3> QED  BY <3>1, <3>2
  <2> QED  BY <1>4, <2>1, <2>2
<1>12. /\ unit' \in {"NONE", "RESERVED", "CONSUMED", "RELEASED"}
       /\ unit' = unit \/ With(sub', "PENDING") = {}
  <2>1. unit \in {"NONE", "RESERVED", "CONSUMED", "RELEASED"}  BY <1>1 DEF TypeOK
  <2> QED  BY <1>1, <1>5, <2>1, UnitType
<1>13. attempt' \in [Keys -> {"NONE", "QUEUED", "COMPLETED", "FAILED"}]
  BY <1>1, <1>5 DEF TypeOK
<1>14. \A i \in Keys : /\ attempt'[i] \in {attempt[i], "FAILED"}
                       /\ attempt'[i] = "FAILED" => i \in K \/ attempt[i] = "FAILED"
                       /\ i \in K /\ attempt[i] = "QUEUED" => attempt'[i] = "FAILED"
  BY <1>5
<1> QED
  BY <1>1, <1>3, <1>4, <1>5, <1>9, <1>10, <1>11, <1>12, <1>13, <1>14, EndingKeeps

(* An assessment is accepted under a lease that holds: the slot of the      *)
(* answer it was read for is spent now, or was returned and counted.        *)
LEMMA AcceptKeeps ==
  ASSUME IInv, NEW w \in Workers, At(w, {"ASSESSES"}), ~changed, AcceptAnswer(w), Forget(w),
         UNCHANGED <<record, ordinal, claims, mishaps>>
  PROVE  IInv'
<1>1. /\ TypeOK /\ (\A k \in Keys : KeyFacts(k)) /\ OrdinalFacts /\ PracticeFacts
      /\ Balance /\ Evidence /\ UnitBacks
      /\ UNCHANGED <<changed, visible>>
  BY DEF IInv, record
<1>2. CASE ~LeaseHolds(lease[w])
  <2>1. UNCHANGED <<practice, attempt, sub, unit, assessed, evidence, late>>
    BY <1>2 DEF AcceptAnswer, history
  <2> QED  BY <1>1, <2>1, LeaseKeeps DEF Forget, TypeOK
<1>3. CASE LeaseHolds(lease[w])
  <2> PICK k : k = lease[w].key  OBVIOUS
  <2>1. /\ lease[w] \in Lease /\ LeaseFacts(lease[w]) /\ HeldFacts(lease[w])
        /\ lease[w].stage = "ASSESSES"
    BY <1>1, <1>3 DEF At, IInv, TypeOK, LeasesFacts, LeaseFacts
  <2>2. k \in Keys \cup {None}  BY <2>1 DEF Lease
  <2>3. Unbacked \/ (k \in Keys /\ sub[k] = "PENDING")
    BY <1>1, <2>1 DEF HeldFacts, KeyFacts
  <2> DEFINE charged == k \in Keys /\ sub[k] = "PENDING"
  <2>4. /\ attempt' = [i \in Keys |-> IF i = k THEN "COMPLETED" ELSE attempt[i]]
        /\ sub' = [i \in Keys |-> IF i = k /\ charged THEN "SUCCEEDED" ELSE sub[i]]
        /\ unit' = IF charged THEN "CONSUMED" ELSE unit
    <3>1. CASE k = None
      <4>1. UNCHANGED <<attempt, sub, unit>>
        BY <1>3, <3>1 DEF AcceptAnswer, CompleteAttempt
      <4> QED  BY <1>1, <3>1, <4>1, LimitsAssumption DEF TypeOK
    <3>2. CASE k # None
      <4>1. /\ attempt' = [attempt EXCEPT ![k] = "COMPLETED"]
            /\ sub' = IF sub[k] = "PENDING" THEN [sub EXCEPT ![k] = "SUCCEEDED"] ELSE sub
            /\ unit' = IF sub[k] = "PENDING" THEN "CONSUMED" ELSE unit
        BY <1>3, <3>2 DEF AcceptAnswer, CompleteAttempt
      <4> QED  BY <1>1, <2>2, <3>2, <4>1 DEF TypeOK
    <3> QED  BY <3>1, <3>2
  <2>5. /\ assessed' = assessed + 1 /\ late' = late
        /\ evidence' = IF lease[w].first THEN evidence + 1 ELSE evidence
        /\ practice' = [practice EXCEPT !.status = "COMPLETED", !.lockedAt = Unlocked,
                                        !.assessment = TRUE]
    BY <1>3 DEF AcceptAnswer
  <2>6. /\ practice' \in Practice /\ practice'.status = "COMPLETED"
        /\ practice'.answered = practice.answered /\ practice'.lockedAt = Unlocked
        /\ practice'.assessment
    <3>1. "COMPLETED" \in Statuses /\ practice \in Practice  BY <1>1 DEF Statuses, TypeOK
    <3>2. [practice EXCEPT !.status = "COMPLETED", !.lockedAt = Unlocked,
                           !.assessment = TRUE] \in Practice
      BY <3>1, Unlock, Rows
    <3> QED  BY <2>5, <3>1, <3>2 DEF Practice
  <2>7. /\ lease' \in [Workers -> Lease \cup {None}]
        /\ \A v \in Workers : lease'[v] \in {lease[v], None}
    BY <1>1, Forgets
  <2>8. /\ assessed' \in Nat /\ evidence' \in Nat /\ late' \in Nat
        /\ assessed \in Nat /\ late \in Nat /\ Spent \in Nat
    <3>1. assessed \in Nat /\ evidence \in Nat /\ late \in Nat  BY <1>1 DEF TypeOK
    <3> QED  BY <2>5, <3>1, SpentType
  <2>9. TypeOK'
    <3>1. attempt' \in [Keys -> {"NONE", "QUEUED", "COMPLETED", "FAILED"}]
      BY <1>1, <2>4 DEF TypeOK
    <3>2. sub' \in [Keys -> {"NONE", "PENDING", "SUCCEEDED", "FAILED"}]
      BY <1>1, <2>4 DEF TypeOK
    <3>3. unit' \in {"NONE", "RESERVED", "CONSUMED", "RELEASED"}
      BY <1>1, <2>4 DEF TypeOK
    <3> HIDE DEF charged
    <3> QED  BY <1>1, <2>6, <2>7, <2>8, <3>1, <3>2, <3>3 DEF TypeOK
  <2>10. Unbacked => late > 0  BY <1>1, <2>8 DEF Balance
  <2>11. \A i \in Keys : KeyFacts(i)'
    <3> SUFFICES ASSUME NEW i \in Keys PROVE KeyFacts(i)'
      OBVIOUS
    <3>1. CASE i = k  BY <1>1, <2>3, <2>4, <2>5, <2>10, <3>1 DEF KeyFacts
    <3>2. CASE i # k  BY <1>1, <2>4, <2>5, <3>2 DEF KeyFacts
    <3> QED  BY <3>1, <3>2
  <2>12. OrdinalFacts'  BY <1>1 DEF OrdinalFacts, Numbered
  <2>13. PracticeFacts'  BY <1>1, <2>6 DEF PracticeFacts, Numbered
  <2>14. LeasesFacts'  BY <2>6, <2>7, LeasesDrop
  <2>15. Spent' = IF charged THEN Spent + 1 ELSE Spent
    <3>1. CASE charged
      <4>1. With(sub, "SUCCEEDED")' = With(sub, "SUCCEEDED") \cup {k}
        BY <2>4, <3>1 DEF With
      <4>2. k \notin With(sub, "SUCCEEDED") /\ IsFiniteSet(With(sub, "SUCCEEDED"))
        BY <3>1, LimitsAssumption, FS_Subset DEF With
      <4> QED  BY <3>1, <4>1, <4>2, FS_AddElement DEF Spent
    <3>2. CASE ~charged
      <4>1. With(sub, "SUCCEEDED")' = With(sub, "SUCCEEDED")  BY <2>4, <3>2 DEF With
      <4> QED  BY <3>2, <4>1 DEF Spent
    <3> QED  BY <3>1, <3>2
  <2>16. Balance'
    <3>1. ~Unbacked'  BY <2>6 DEF Unbacked
    <3>2. Unbacked \/ charged  BY <2>3
    <3>3. /\ Spent <= assessed /\ assessed <= Spent + late
          /\ Unbacked => assessed < Spent + late
      BY <1>1 DEF Balance
    <3> HIDE DEF charged
    <3>4. Spent' <= assessed' /\ assessed' <= Spent' + late'
      BY <2>5, <2>8, <2>15, <3>2, <3>3
    <3> QED  BY <3>1, <3>4 DEF Balance
  <2>17. Evidence'
    <3>1. evidence \in Nat  BY <1>1 DEF TypeOK
    <3>2. lease[w].first => evidence = 0  BY <1>1, <2>1, <3>1 DEF HeldFacts, Evidence
    <3>3. evidence' <= 1  BY <1>1, <2>5, <3>1, <3>2 DEF Evidence
    <3> QED  BY <2>6, <3>3 DEF Evidence
  <2>18. UnitBacks'
    <3>1. \A i \in Keys : sub'[i] = "PENDING" => sub[i] = "PENDING"  BY <2>4
    <3>2. unit' = unit \/ unit' \in {"RESERVED", "CONSUMED"}  BY <2>4
    <3> QED  BY <1>1, <3>1, <3>2, UnitRests
  <2> QED  BY <2>9, <2>11, <2>12, <2>13, <2>14, <2>16, <2>17, <2>18 DEF IInv
<1> QED  BY <1>2, <1>3

LEMMA CompleteKeeps ==
  ASSUME IInv, NEW w \in Workers, Complete(w)
  PROVE  IInv'
BY RejectKeeps, AcceptKeeps DEF Complete, Refused, LearningChanged

(* A failing worker takes every answer in flight with it, if it may write. *)
LEMMA FailKeeps ==
  ASSUME IInv, NEW w \in Workers, Fail(w)
  PROVE  IInv'
<1>1. TypeOK /\ PracticeFacts /\ Forget(w)
      /\ UNCHANGED <<changed, visible, ordinal, assessed, evidence, late, claims, mishaps>>
  BY DEF IInv, Fail, record, history
<1>2. CASE ~LeaseHolds(lease[w])
  BY <1>1, <1>2, LeaseKeeps DEF Fail, Forget, TypeOK
<1>3. CASE LeaseHolds(lease[w])
  <2> DEFINE K == With(attempt, "QUEUED")
  <2>1. /\ practice' = [practice EXCEPT !.status = "FAILED", !.lockedAt = Unlocked]
        /\ attempt' = [k \in Keys |-> IF k \in K THEN "FAILED" ELSE attempt[k]]
        /\ sub' = FailSlots(K)
        /\ unit' = IF unit = "RESERVED" /\ With(sub', "PENDING") = {}
                   THEN "RELEASED" ELSE unit
    BY <1>3 DEF Fail
  <2>2. /\ practice' \in Practice /\ practice'.status = "FAILED"
        /\ practice'.answered = practice.answered /\ practice'.lockedAt = Unlocked
        /\ practice'.assessment = practice.assessment
    BY <1>1, <2>1, FailedRow
  <2>3. /\ lease' \in [Workers -> Lease \cup {None}]
        /\ \A v \in Workers : lease'[v] \in {lease[v], None}
    BY <1>1, Forgets
  <2>4. LeasesFacts'  BY <1>1, <2>2, <2>3, LeasesDrop
  <2>5. PracticeFacts'
    <3>1. practice.status \in {"GENERATING", "ASSESSING"}
      BY <1>1, <1>3 DEF Fail, At, TypeOK, Lease, LeaseHolds
    <3>2. Numbered' = Numbered /\ (\A k \in Keys : Latest(k)' <=> Latest(k))
      BY <1>1 DEF Numbered, Latest
    <3>3. \A k \in Keys : Latest(k) => practice.answered
      BY <1>1 DEF PracticeFacts, Numbered, Latest
    <3>4. \A k \in Keys : sub'[k] = IF k \in K /\ sub[k] = "PENDING" THEN "FAILED" ELSE sub[k]
      BY <1>1, <2>1, SlotsFail
    <3>5. \A k \in Keys : Latest(k) /\ ~changed => sub'[k] \in {"PENDING", "FAILED"}
      BY <1>1, <3>1, <3>3, <3>4 DEF PracticeFacts
    <3> QED  BY <1>1, <2>2, <3>2, <3>5 DEF PracticeFacts
  <2>6. \A k \in Keys : /\ attempt'[k] \in {attempt[k], "FAILED"}
                        /\ attempt'[k] = "FAILED" => k \in K \/ attempt[k] = "FAILED"
                        /\ k \in K /\ attempt[k] = "QUEUED" => attempt'[k] = "FAILED"
    BY <2>1
  <2>7. attempt' \in [Keys -> {"NONE", "QUEUED", "COMPLETED", "FAILED"}]
    BY <1>1, <2>1 DEF TypeOK
  <2>8. /\ unit' \in {"NONE", "RESERVED", "CONSUMED", "RELEASED"}
        /\ unit' = unit \/ With(sub', "PENDING") = {}
    BY <1>1, <2>1 DEF TypeOK
  <2> HIDE DEF K
  <2>9. ~Unbacked'  BY <2>2 DEF Unbacked
  <2> QED  BY <1>1, <2>1, <2>2, <2>3, <2>4, <2>5, <2>6, <2>7, <2>8, <2>9, EndingKeeps
<1> QED  BY <1>2, <1>3

(* The minute job fails the slots of a failed practice, which nobody holds. *)
LEMMA ReconcileKeeps ==
  ASSUME IInv, NEW overdue \in BOOLEAN, Reconcile(overdue)
  PROVE  IInv'
<1>1. TypeOK /\ PracticeFacts /\ (\A k \in Keys : KeyFacts(k))
      /\ UNCHANGED <<practice, changed, visible, ordinal, lease, assessed, evidence, late,
                     claims, mishaps>>
  BY DEF IInv, Reconcile, record, history
<1> DEFINE K == Orphans
           u == UnitAfter(FailSlots(K), K)
<1>2. /\ sub' = FailSlots(K)
      /\ attempt' = [k \in Keys |-> IF k \in K /\ attempt[k] = "QUEUED"
                                    THEN "FAILED" ELSE attempt[k]]
  BY DEF Reconcile
<1>3. /\ unit' \in {"NONE", "RESERVED", "CONSUMED", "RELEASED"}
      /\ unit' = unit \/ With(sub', "PENDING") = {}
  <2>1. /\ u \in {"NONE", "RESERVED", "CONSUMED", "RELEASED"}
        /\ u = unit \/ With(FailSlots(K), "PENDING") = {}
    BY <1>1, UnitType
  <2>2. unit' = u \/ (unit' = "RELEASED" /\ With(FailSlots(K), "PENDING") = {})
    BY DEF Reconcile
  <2> HIDE DEF u, K
  <2> QED  BY <1>2, <2>1, <2>2
<1>4. K = {} \/ practice.status = "FAILED"  BY DEF Orphans
<1>5. \A k \in Keys : sub'[k] = IF k \in K /\ sub[k] = "PENDING" THEN "FAILED" ELSE sub[k]
  BY <1>1, <1>2, SlotsFail
<1> HIDE DEF K
<1>6. LeasesFacts'
  <2>1. \A w \in Workers : lease'[w] \in {lease[w], None}  BY <1>1
  <2>2. CASE K = {}
    <3>1. \A k \in Keys : attempt[k] = "QUEUED" => attempt'[k] = "QUEUED"  BY <1>2, <2>2
    <3>2. sub' = sub  BY <1>1, <1>2, <2>2 DEF FailSlots, TypeOK
    <3>3. Unbacked' <=> Unbacked  BY <1>1, <3>2, BackingSame
    <3> QED  BY <1>1, <2>1, <3>1, <3>3, LeasesStay
  <2>3. CASE practice.status = "FAILED"  BY <1>1, <2>1, <2>3, LeasesDrop
  <2> QED  BY <1>4, <2>2, <2>3
<1>7. PracticeFacts'
  <2>1. Numbered' = Numbered /\ (\A k \in Keys : Latest(k)' <=> Latest(k))
    BY <1>1 DEF Numbered, Latest
  <2> QED  BY <1>1, <1>4, <1>5, <2>1 DEF PracticeFacts
<1>8. \A k \in Keys : /\ attempt'[k] \in {attempt[k], "FAILED"}
                      /\ attempt'[k] = "FAILED" => k \in K \/ attempt[k] = "FAILED"
                      /\ k \in K /\ attempt[k] = "QUEUED" => attempt'[k] = "FAILED"
  BY <1>2
<1>9. attempt' \in [Keys -> {"NONE", "QUEUED", "COMPLETED", "FAILED"}]
  BY <1>1, <1>2 DEF TypeOK
<1>10. lease' \in [Workers -> Lease \cup {None}] /\ practice' \in Practice
  BY <1>1 DEF TypeOK
<1>11. Unbacked' => Unbacked
  <2>1. CASE K = {}
    <3>1. sub' = sub  BY <1>1, <1>2, <2>1 DEF FailSlots, TypeOK
    <3> QED  BY <1>1, <3>1, BackingSame
  <2>2. CASE practice.status = "FAILED"  BY <1>1, <2>2 DEF Unbacked
  <2> QED  BY <1>4, <2>1, <2>2
<1> QED
  BY <1>1, <1>2, <1>3, <1>6, <1>7, <1>8, <1>9, <1>10, <1>11, EndingKeeps
-----------------------------------------------------------------------------
LEMMA InitKeeps == Init => IInv
<1> SUFFICES ASSUME Init PROVE IInv
  OBVIOUS
<1>1. TypeOK
  <2>1. practice \in Practice
    BY LimitsAssumption DEF Init, Practice, Statuses, Unlocked
  <2>2. ordinal \in [Keys -> 0..Cardinality(Keys)]
    <3>1. 0 \in 0..Cardinality(Keys)  BY LimitsAssumption, FS_CardinalityType
    <3> QED  BY <3>1 DEF Init
  <2>3. claims \in 0..MaxClaims /\ mishaps \in 0..MaxMishaps  BY LimitsAssumption DEF Init
  <2> QED  BY <2>1, <2>2, <2>3 DEF Init, TypeOK
<1>2. (\A k \in Keys : KeyFacts(k)) /\ LeasesFacts  BY DEF Init, KeyFacts, LeasesFacts
<1>3. Numbered = {}  BY DEF Init, Numbered
<1>4. OrdinalFacts
  <2>1. Cardinality(Numbered) = 0  BY <1>3, FS_EmptySet
  <2> QED  BY <2>1 DEF Init, OrdinalFacts
<1>5. PracticeFacts  BY <1>3 DEF Init, PracticeFacts, Latest
<1>6. With(sub, "SUCCEEDED") = {} /\ With(sub, "PENDING") = {}  BY DEF Init, With
<1>7. Balance /\ Evidence
  <2>1. Spent = 0  BY <1>6, FS_EmptySet DEF Spent
  <2>2. ~Unbacked  BY DEF Init, Unbacked
  <2> QED  BY <2>1, <2>2 DEF Init, Balance, Evidence
<1> QED  BY <1>1, <1>2, <1>4, <1>5, <1>6, <1>7 DEF IInv, UnitBacks

LEMMA RestKeeps == IInv /\ UNCHANGED vars => IInv'
<1> SUFFICES ASSUME IInv, UNCHANGED vars PROVE IInv'
  OBVIOUS
<1>1. \A w \in Workers : lease'[w] \in {lease[w], None}  BY DEF vars
<1>2. LeasesFacts'  BY <1>1, BackingSame, LeasesStay DEF vars
<1> QED  BY <1>2, RowKeeps DEF vars, IInv, TypeOK

LEMMA StepKeeps == IInv /\ [Next]_vars => IInv'
<1> SUFFICES ASSUME IInv, [Next]_vars PROVE IInv'
  OBVIOUS
<1>1. CASE Start  BY <1>1, StartKeeps
<1>2. CASE Retry  BY <1>2, RetryKeeps
<1>3. CASE SetLearning \/ GiveUp \/ Validate  BY <1>3, ClosingKeeps
<1>4. CASE LeaseExpires \/ Stall  BY <1>4, TimeKeeps
<1>5. ASSUME NEW k \in Keys, Answer(k) PROVE IInv'  BY <1>5, AnswerKeeps
<1>6. ASSUME NEW w \in Workers, Claim(w) PROVE IInv'  BY <1>6, ClaimKeeps
<1>7. ASSUME NEW w \in Workers, Load(w) PROVE IInv'  BY <1>7, LoadKeeps
<1>8. ASSUME NEW w \in Workers, ReadAnswer(w) PROVE IInv'  BY <1>8, ReadAnswerKeeps
<1>9. ASSUME NEW w \in Workers, Generated(w) PROVE IInv'  BY <1>9, GeneratedKeeps
<1>10. ASSUME NEW w \in Workers, Complete(w) PROVE IInv'  BY <1>10, CompleteKeeps
<1>11. ASSUME NEW w \in Workers, Fail(w) PROVE IInv'  BY <1>11, FailKeeps
<1>12. ASSUME NEW w \in Workers, Die(w) PROVE IInv'  BY <1>12, DieKeeps
<1>13. ASSUME NEW overdue \in BOOLEAN, Reconcile(overdue) PROVE IInv'
  BY <1>13, ReconcileKeeps
<1>14. CASE UNCHANGED vars  BY <1>14, RestKeeps
<1> QED
  BY <1>1, <1>2, <1>3, <1>4, <1>5, <1>6, <1>7, <1>8, <1>9, <1>10, <1>11, <1>12, <1>13, <1>14
  DEF Next

LEMMA Invariant == Spec => []IInv
<1> QED  BY InitKeeps, StepKeeps, PTL DEF Spec
-----------------------------------------------------------------------------
(* Whichever workers die, stall or are overtaken, and however many answers *)
(* are assessed, no review is spent without an assessment, no assessment   *)
(* is had for nothing but one whose slot a late worker returned, and a     *)
(* practice is evidence for the memory at most once                        *)
(* (vocabulary-practice.worker.ts:150-181, 216-234, 238-259).              *)
THEOREM VocabularyOncePerAssessment == Spec => []OncePerAssessment
<1>1. IInv => OncePerAssessment  BY DEF IInv, Balance, Evidence, OncePerAssessment
<1> QED  BY <1>1, Invariant, PTL

(* An answer in flight has its slot, a practice being assessed has an      *)
(* answer to charge or is one whose slot a late worker returned, and the   *)
(* unit behind it is not returned                                          *)
(* (vocabulary-practice.worker.ts:108-125, 146-165, quota.service.ts).     *)
THEOREM VocabularyInFlightIsPaid == Spec => []InFlightIsPaid
<1> QED  BY Invariant, PaidFollows, PTL

(* Once the learner has changed the record, no worker's assessment counts, *)
(* even one that loaded the practice before (worker.ts:150-172).           *)
THEOREM VocabularyRevisionFences == Spec => RevisionFences
<1>1. [Next]_vars => [changed => assessed' = assessed /\ evidence' = evidence]_vars
  BY DEF Next, vars, Start, Retry, SetLearning, GiveUp, LeaseExpires, Stall, Answer, Claim, Load,
         ReadAnswer, Generated, Complete, RejectAnswer, Fail, Die, Reconcile, record, history,
         Validate, Refused, LearningChanged
<1> QED  BY <1>1, PTL DEF Spec, RevisionFences
=============================================================================
