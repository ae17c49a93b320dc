---------------------------- MODULE StripeProofs ----------------------------
(* Machine-checked proofs about the reconciliation of an order, for any      *)
(* number of events, receivers, tries and mishaps.                           *)
EXTENDS StripeProperties, FiniteSetTheorems, SequenceTheorems, TLAPS

-----------------------------------------------------------------------------
(* The inductive invariant.  It says what a request knows that still holds   *)
(* the current revision: that what it read is not older than what the last   *)
(* commit was read from.                                                     *)

\* A request that would pass the revision check if it committed now.
Current(q) == q.revision = Revision

\* What was read of the charge, and what was listed of its disputes.
HasPayment(q) == q.step \in {"DISPUTES", "COMMIT"}
HasDisputes(q) == q.step = "COMMIT"

Fenced(q) ==
  /\ q.revision <= Revision
  /\ q.payment.version <= stripe.version /\ q.listed <= stripe.version
  /\ HasPayment(q) /\ Current(q) =>
       /\ committed.payment <= q.payment.version
       /\ order.paidAt => q.payment.paid
  /\ HasDisputes(q) /\ Current(q) => committed.listed <= q.listed

Fence == \A r \in Receivers : request[r] # Idle => Fenced(request[r])

\* What cannot be true of a charge that was not paid.
Sound(charge) == ~charge.paid => charge.refunded = 0 /\ charge.dispute = "NONE"

Honest(q) ==
  /\ Sound(q.payment)
  /\ q.payment.paid => stripe.paid
  /\ q.step = "DISPUTES" /\ stripe.dispute # "NONE" => q.payment.paid
  /\ HasDisputes(q) /\ q.disputed => q.payment.paid

Readings == \A r \in Receivers : request[r] # Idle => Honest(request[r])

\* The order knows no more than Stripe.
Truthful ==
  /\ Sound(stripe)
  /\ committed.payment <= stripe.version /\ committed.listed <= stripe.version
  /\ order.paidAt => stripe.paid
  /\ order.paidAt <=> order.status \notin {"PENDING", "FAILED", "EXPIRED"}
  /\ order.refundedAmount > 0 => order.paidAt
  /\ order.refundedAmount >= Amount <=> order.status = "REFUNDED"

IInv == TypeOK /\ Fence /\ Readings /\ Truthful /\ GrantFollowsOrder /\ AnsweredIsDone

-----------------------------------------------------------------------------
(* The revision of the order.                                                *)

Processed == {e \in Events : receipt[e] = "PROCESSED"}

LEMMA RevisionCounts ==
  /\ IsFiniteSet(Processed) /\ Revision \in Nat /\ Revision <= MaxEvents
  <1>1. IsFiniteSet(Events) /\ Cardinality(Events) = MaxEvents
    <2>1. MaxEvents \in Nat \ {0}
      BY WebhookAssumption
    <2> QED
      BY <2>1, FS_Interval DEF Events
  <1>2. Processed \in SUBSET Events
    BY DEF Processed
  <1>3. IsFiniteSet(Processed) /\ Cardinality(Processed) <= MaxEvents
    BY <1>1, <1>2, FS_Subset
  <1>4. Cardinality(Processed) \in Nat
    BY <1>3, FS_CardinalityType
  <1> QED
    BY <1>3, <1>4 DEF Revision, Processed

\* A step that processes no event leaves the revision as it is.
LEMMA RevisionStays ==
  ASSUME \A e \in Events : receipt'[e] = "PROCESSED" <=> receipt[e] = "PROCESSED"
  PROVE  Revision' = Revision
  <1>1. Processed' = Processed
    BY DEF Processed, Events
  <1> QED
    BY <1>1 DEF Revision, Processed

\* A step that processes one event more raises it by one.
LEMMA RevisionGrows ==
  ASSUME NEW e \in Events, receipt[e] # "PROCESSED", TypeOK,
         receipt' = [receipt EXCEPT ![e] = "PROCESSED"]
  PROVE  Revision' = Revision + 1
  <1>1. Processed' = Processed \cup {e}
    BY DEF Processed, Events, TypeOK
  <1>2. e \notin Processed
    BY DEF Processed
  <1>3. Cardinality(Processed \cup {e}) = Cardinality(Processed) + 1
    BY <1>2, RevisionCounts, FS_AddElement
  <1> QED
    BY <1>1, <1>3 DEF Revision, Processed

-----------------------------------------------------------------------------
(* The environment.                                                          *)

LEMMA VersionOnly ==
  ASSUME NEW truth \in Stripe, NEW n \in Nat,
         NEW next, next = [truth EXCEPT !.version = n]
  PROVE  next \in Stripe /\ next.version = n /\ next.paid = truth.paid
         /\ next.dispute = truth.dispute /\ next.refunded = truth.refunded
  BY DEF Stripe

LEMMA AnnounceKeeps ==
  ASSUME IInv, NEW new \in Seq(Kinds), NEW truth \in Stripe, Announce(new, truth),
         stripe.paid => truth.paid, Sound(truth),
         truth.dispute # "NONE" => stripe.dispute # "NONE" \/ NoneBetween
  PROVE  IInv'
  <1> USE DEF Announce
  <1>1. stripe' \in Stripe /\ stripe'.version = stripe.version + 1 /\ stripe.version \in Nat
        /\ stripe'.paid = truth.paid /\ stripe'.dispute = truth.dispute /\ stripe'.refunded = truth.refunded
    <2>1. stripe.version \in Nat
      BY DEF IInv, TypeOK, Stripe
    <2>2. stripe' = [truth EXCEPT !.version = stripe.version + 1]
      OBVIOUS
    <2>3. stripe.version + 1 \in Nat
      BY <2>1
    <2> QED
      BY <2>1, <2>2, <2>3, VersionOnly
  <1>2. kinds' \in Seq(Kinds) /\ Len(kinds') <= MaxEvents
    BY ConcatProperties DEF IInv, TypeOK
  <1>3. TypeOK'
    BY <1>1, <1>2 DEF IInv, TypeOK, Events
  <1>4. Revision' = Revision
    BY RevisionStays
  <1>5. Fence'
    <2> SUFFICES ASSUME NEW r \in Receivers, request[r] # Idle
                 PROVE  Fenced(request[r])'
      BY DEF Fence
    <2>1. Fenced(request[r]) /\ request[r] \in Request
      BY DEF IInv, Fence, TypeOK
    <2>2. request[r].payment.version \in Nat /\ request[r].listed \in Nat
      BY <2>1 DEF Request, Stripe
    <2> QED
      BY <1>1, <1>4, <2>1, <2>2 DEF Fenced, Current, HasPayment, HasDisputes
  <1>6. Readings'
    BY <1>1 DEF IInv, Readings, Honest, HasDisputes, NoneBetween, At, Sound
  <1>7. Truthful'
    <2>1. committed.payment \in Nat /\ committed.listed \in Nat
      BY DEF IInv, TypeOK
    <2> QED
      BY <1>1, <2>1 DEF IInv, Truthful, Sound
  <1>8. GrantFollowsOrder' /\ AnsweredIsDone'
    BY DEF IInv, GrantFollowsOrder, AnsweredIsDone
  <1> QED
    BY <1>3, <1>5, <1>6, <1>7, <1>8 DEF IInv

LEMMA EnvironmentKeeps ==
  ASSUME IInv,
         \/ DeclineCard \/ Expire \/ Pay \/ OpenDispute \/ DeleteAccount
         \/ \E total \in 1..Amount : Refund(total)
         \/ \E verdict \in {"WON", "LOST"} : CloseDispute(verdict)
         \/ \E e \in Events : Acknowledge(e)
  PROVE  IInv'
  <1> DEFINE Change(new, truth) ==
        /\ new \in Seq(Kinds) /\ truth \in Stripe
        /\ stripe.paid => truth.paid
        /\ Sound(truth)
        /\ truth.dispute # "NONE" => stripe.dispute # "NONE" \/ NoneBetween
  <1>1. stripe \in Stripe /\ Sound(stripe)
    BY DEF IInv, TypeOK, Truthful
  <1>2. <<"FAILURE">> \in Seq(Kinds) /\ <<"SESSION">> \in Seq(Kinds) /\ <<"OTHER">> \in Seq(Kinds)
        /\ <<"SESSION", "OTHER">> \in Seq(Kinds)
    BY DEF Kinds
  <1>3. CASE DeclineCard
    <2>1. Change(<<"FAILURE">>, stripe)
      BY <1>1, <1>2
    <2> QED
      BY <1>3, <2>1, AnnounceKeeps DEF DeclineCard
  <1>4. CASE Expire
    <2>1. Change(<<"SESSION">>, [stripe EXCEPT !.expired = TRUE])
      BY <1>1, <1>2 DEF Stripe, Sound
    <2> QED
      BY <1>4, <2>1, AnnounceKeeps DEF Expire
  <1>5. CASE Pay
    <2> PICK new \in {<<"SESSION">>, <<"SESSION", "OTHER">>} : Announce(new, [stripe EXCEPT !.paid = TRUE])
      BY <1>5 DEF Pay
    <2>1. Change(new, [stripe EXCEPT !.paid = TRUE])
      BY <1>1, <1>2 DEF Stripe, Sound
    <2> QED
      BY <2>1, AnnounceKeeps
  <1>6. CASE OpenDispute
    <2>1. Change(<<"OTHER">>, [stripe EXCEPT !.dispute = "OPEN"])
      BY <1>1, <1>2, <1>6 DEF Stripe, Sound, OpenDispute
    <2> QED
      BY <1>6, <2>1, AnnounceKeeps DEF OpenDispute
  <1>7. ASSUME NEW total \in 1..Amount, Refund(total)
        PROVE  IInv'
    <2>1. Change(<<"OTHER">>, [stripe EXCEPT !.refunded = total])
      BY <1>1, <1>2, <1>7, WebhookAssumption DEF Stripe, Sound, Refund
    <2> QED
      BY <1>7, <2>1, AnnounceKeeps DEF Refund
  <1>8. ASSUME NEW verdict \in {"WON", "LOST"}, CloseDispute(verdict)
        PROVE  IInv'
    <2>1. Change(<<"OTHER">>, [stripe EXCEPT !.dispute = verdict])
      BY <1>1, <1>2, <1>8 DEF Stripe, Sound, CloseDispute
    <2> QED
      BY <1>8, <2>1, AnnounceKeeps DEF CloseDispute
  <1>9. CASE DeleteAccount
    <2>1. Revision' = Revision
      BY <1>9, RevisionStays DEF DeleteAccount
    <2>2. TypeOK'
      BY <1>9 DEF DeleteAccount, Revoked, IInv, TypeOK, Events
    <2>3. Fence'
      BY <1>9, <2>1 DEF DeleteAccount, IInv, Fence, Fenced, Current, HasPayment, HasDisputes
    <2>4. Readings' /\ Truthful'
      BY <1>9 DEF DeleteAccount, IInv, Readings, Honest, HasDisputes, Truthful, Sound
    <2>5. GrantFollowsOrder'
      BY <1>9 DEF DeleteAccount, Revoked, IInv, GrantFollowsOrder, TypeOK, Order, Statuses, Truthful
    <2>6. AnsweredIsDone'
      BY <1>9 DEF DeleteAccount, IInv, AnsweredIsDone
    <2> QED
      BY <2>2, <2>3, <2>4, <2>5, <2>6 DEF IInv
  <1>10. ASSUME NEW e \in Events, Acknowledge(e)
         PROVE  IInv'
    <2>1. Revision' = Revision
      BY <1>10, RevisionStays DEF Acknowledge
    <2>2. TypeOK' /\ AnsweredIsDone'
      BY <1>10 DEF Acknowledge, Answer, ProcessedBefore, IInv, TypeOK, Events, AnsweredIsDone
    <2>3. Fence'
      BY <1>10, <2>1 DEF Acknowledge, IInv, Fence, Fenced, Current, HasPayment, HasDisputes
    <2>4. Readings' /\ Truthful' /\ GrantFollowsOrder'
      BY <1>10 DEF Acknowledge, IInv, Readings, Honest, HasDisputes, Truthful, Sound, GrantFollowsOrder
    <2> QED
      BY <2>2, <2>3, <2>4 DEF IInv
  <1> QED
    BY <1>3, <1>4, <1>5, <1>6, <1>7, <1>8, <1>9, <1>10

-----------------------------------------------------------------------------
(* The receiver.                                                             *)

\* A step of one request that writes nothing else.
LEMMA ProceedKeeps ==
  ASSUME IInv, NEW r \in Receivers, NEW held \in Request \cup {Idle}, Proceed(r, held),
         held # Idle => Fenced(held) /\ Honest(held)
  PROVE  IInv'
  <1> USE DEF Proceed
  <1>1. TypeOK'
    BY DEF IInv, TypeOK, Events
  <1>2. Revision' = Revision
    BY RevisionStays
  <1>3. \A s \in Receivers : request'[s] = IF s = r THEN held ELSE request[s]
    BY DEF IInv, TypeOK
  <1>4. \A s \in Receivers : request'[s] # Idle => Fenced(request'[s]) /\ Honest(request'[s])
    BY <1>3 DEF IInv, Fence, Readings
  <1>5. Fence'
    BY <1>2, <1>4 DEF Fence, Fenced, Current, HasPayment, HasDisputes
  <1>6. Readings'
    BY <1>4 DEF Readings, Honest, HasDisputes, Sound
  <1>7. Truthful' /\ GrantFollowsOrder' /\ AnsweredIsDone'
    BY DEF IInv, Truthful, GrantFollowsOrder, Sound, AnsweredIsDone
  <1> QED
    BY <1>1, <1>5, <1>6, <1>7 DEF IInv

\* A request that ends without processing its event.
LEMMA QuitKeeps ==
  ASSUME IInv, NEW r \in Receivers, mishaps' \in 0..MaxMishaps,
         request' = [request EXCEPT ![r] = Idle],
         receipt' \in [Events -> {"NONE", "RECEIVED", "FAILED", "PROCESSED"}],
         \A e \in Events : receipt'[e] = "PROCESSED" <=> receipt[e] = "PROCESSED",
         answered' = answered \/ \E e \in Events : ProcessedBefore(e) /\ Answer(e),
         UNCHANGED <<stripe, kinds, order, grant, deleted, committed>>
  PROVE  IInv'
  <1>0. answered' \in SUBSET Events /\ AnsweredIsDone'
    BY DEF IInv, TypeOK, AnsweredIsDone, Answer, ProcessedBefore
  <1>1. TypeOK'
    BY <1>0 DEF IInv, TypeOK, Events
  <1>2. Revision' = Revision
    BY RevisionStays
  <1>3. \A s \in Receivers : request'[s] # Idle => request'[s] = request[s]
    BY DEF IInv, TypeOK
  <1>4. Fence'
    BY <1>2, <1>3 DEF IInv, Fence, Fenced, Current, HasPayment, HasDisputes
  <1>5. Readings'
    BY <1>3 DEF IInv, Readings, Honest, HasDisputes, Sound
  <1>6. Truthful' /\ GrantFollowsOrder'
    BY DEF IInv, Truthful, GrantFollowsOrder, Sound
  <1> QED
    BY <1>0, <1>1, <1>4, <1>5, <1>6 DEF IInv

\* A try that has read nothing claims nothing.
LEMMA TryKnowsNothing ==
  ASSUME IInv, NEW e \in Events, NEW n \in 1..MaxTries
  PROVE  Try(e, n) \in Request /\ Fenced(Try(e, n)) /\ Honest(Try(e, n))
  <1>1. Unread \in Stripe
    BY WebhookAssumption DEF Stripe, Unread
  <1>2. Try(e, n) \in Request
    BY <1>1, WebhookAssumption DEF Try, Request
  <1> QED
    BY <1>2, RevisionCounts DEF Try, Fenced, Honest, HasPayment, HasDisputes, Sound, Unread, IInv, TypeOK, Stripe

LEMMA ReceiveKeeps ==
  ASSUME IInv, NEW r \in Receivers, NEW e \in Events, Receive(r, e)
  PROVE  IInv'
  <1> DEFINE fresh == Try(e, 1)
  <1>1. fresh \in Request /\ Fenced(fresh) /\ Honest(fresh)
    BY TryKnowsNothing, WebhookAssumption
  <1>2. TypeOK'
    BY <1>1 DEF Receive, IInv, TypeOK, Events
  <1>3. Revision' = Revision
    BY RevisionStays DEF Receive, IInv, TypeOK, ProcessedBefore
  <1>5. \A s \in Receivers : request'[s] = IF s = r THEN fresh ELSE request[s]
    BY DEF Receive, IInv, TypeOK
  <1>6. \A s \in Receivers : request'[s] # Idle => Fenced(request'[s]) /\ Honest(request'[s])
    BY <1>1, <1>5 DEF IInv, Fence, Readings
  <1>7. Fence'
    BY <1>3, <1>6 DEF Receive, Fence, Fenced, Current, HasPayment, HasDisputes
  <1>8. Readings' /\ Truthful' /\ GrantFollowsOrder'
    BY <1>6 DEF Receive, IInv, Readings, Honest, HasDisputes, Truthful, GrantFollowsOrder, Sound
  <1>9. AnsweredIsDone'
    BY DEF Receive, IInv, TypeOK, AnsweredIsDone
  <1> QED
    BY <1>2, <1>7, <1>8, <1>9 DEF IInv

\* What a commit may rely on: its own reading is not older than the one before.
LEMMA CommitReads ==
  ASSUME IInv, NEW r \in Receivers, Commit(r)
  PROVE  LET q == request[r] IN
         /\ q \in Request /\ q.payment \in Stripe /\ q.listed \in Nat
         /\ Sound(q.payment)
         /\ q.payment.paid => stripe.paid
         /\ q.disputed => q.payment.paid
         /\ order.paidAt => q.payment.paid
         /\ committed.payment <= q.payment.version /\ q.payment.version <= stripe.version
         /\ committed.listed <= q.listed /\ q.listed <= stripe.version
  <1>1. request[r] # Idle /\ request[r].step = "COMMIT" /\ request[r].revision = Revision
    BY DEF Commit, At, RevisionHolds
  <1>2. request[r] \in Request
    BY <1>1 DEF IInv, TypeOK
  <1>3. Fenced(request[r]) /\ Honest(request[r])
    BY <1>1 DEF IInv, Fence, Readings
  <1> QED
    BY <1>1, <1>2, <1>3 DEF Fenced, Honest, HasPayment, HasDisputes, Current, Request

\* The row that is written, and its grant.  A reading of an unpaid charge finds an
\* order that was not paid before, and leaves it so.
LEMMA CommitWrites ==
  ASSUME IInv, NEW r \in Receivers, Commit(r)
  PROVE  /\ order' \in Order /\ grant' \in {"NONE", "ACTIVE", "SUSPENDED", "REVOKED"}
         /\ order'.refundedAmount >= order.refundedAmount
         /\ order.status = "REFUNDED" => order'.status = "REFUNDED"
         /\ order.paidAt => order'.paidAt
         /\ order'.paidAt => stripe.paid
         /\ order'.paidAt <=> order'.status \notin {"PENDING", "FAILED", "EXPIRED"}
         /\ order'.refundedAmount > 0 => order'.paidAt
         /\ order'.refundedAmount >= Amount <=> order'.status = "REFUNDED"
         /\ GrantFollowsOrder'
  <1> DEFINE q == request[r]
  <1>1. /\ q \in Request /\ Sound(q.payment) /\ q.payment \in Stripe
        /\ q.payment.paid => stripe.paid
        /\ q.disputed => q.payment.paid
        /\ order.paidAt => q.payment.paid
    BY CommitReads
  <1>2. /\ order.status \in Statuses /\ order.refundedAmount \in 0..Amount /\ order.paidAt \in BOOLEAN
        /\ grant \in {"NONE", "ACTIVE", "SUSPENDED", "REVOKED"} /\ deleted \in BOOLEAN
        /\ Amount \in Nat \ {0} /\ q.payment.refunded \in 0..Amount /\ q.disputed \in BOOLEAN
    BY <1>1, WebhookAssumption DEF IInv, TypeOK, Order, Request, Stripe
  <1>3. /\ order.paidAt <=> order.status \notin {"PENDING", "FAILED", "EXPIRED"}
        /\ order.refundedAmount > 0 => order.paidAt
        /\ order.refundedAmount >= Amount <=> order.status = "REFUNDED"
        /\ order.paidAt => stripe.paid
        /\ GrantFollowsOrder
    BY DEF IInv, Truthful
  <1>4. /\ order' = [status |-> NewStatus(q), refundedAmount |-> Refunded(q),
                    paidAt |-> order.paidAt \/ q.payment.paid]
        /\ grant' = NewGrant(q) /\ deleted' = deleted
    BY DEF Commit
  <1>5. /\ Refunded(q) \in 0..Amount /\ Refunded(q) >= order.refundedAmount
        /\ FullRefund(q) <=> Refunded(q) = Amount
    BY <1>2, <1>3 DEF Refunded, FullRefund
  <1>6. CASE ~q.payment.paid
    <2>1. ~order.paidAt /\ ~q.disputed /\ Refunded(q) = 0 /\ ~FullRefund(q)
      BY <1>1, <1>2, <1>3, <1>5, <1>6 DEF Sound, Refunded
    <2>2. NewStatus(q) \in {"PENDING", "FAILED", "EXPIRED"}
      BY <2>1, <1>6 DEF NewStatus, UnpaidStatus
    <2>3. NewGrant(q) = grant
      BY <1>6 DEF NewGrant
    <2>4. IF deleted THEN grant \in {"NONE", "REVOKED"} ELSE grant = "NONE"
      BY <1>2, <1>3, <2>1 DEF GrantFollowsOrder, Statuses
    <2> QED
      BY <1>2, <1>3, <1>4, <1>5, <1>6, <2>1, <2>2, <2>3, <2>4 DEF Order, Statuses, GrantFollowsOrder
  <1>7. CASE q.payment.paid
    <2>1. NewStatus(q) = IF FullRefund(q) THEN "REFUNDED"
                         ELSE IF q.disputed THEN "DISPUTED"
                         ELSE IF Refunded(q) > 0 THEN "PARTIALLY_REFUNDED" ELSE "PAID"
      BY <1>7 DEF NewStatus
    <2>2. deleted => grant \in {"NONE", "REVOKED"}
      BY <1>3 DEF GrantFollowsOrder
    <2>3. ~deleted /\ grant = "REVOKED" => FullRefund(q)
      BY <1>2, <1>3 DEF GrantFollowsOrder, Statuses, FullRefund
    <2>4. IF deleted THEN NewGrant(q) \in {"NONE", "REVOKED"}
          ELSE NewGrant(q) = IF FullRefund(q) THEN "REVOKED"
                             ELSE IF q.disputed THEN "SUSPENDED" ELSE "ACTIVE"
      BY <1>2, <1>7, <2>2, <2>3 DEF NewGrant, Granted, Revoked
    <2>5. stripe.paid
      BY <1>1, <1>7
    <2>6. order'.status = NewStatus(q) /\ order'.refundedAmount = Refunded(q) /\ order'.paidAt = TRUE
      BY <1>4, <1>7
    <2>7. order' \in Order
      BY <1>2, <1>4, <1>5, <1>7, <2>1 DEF Order, Statuses
    <2>8. GrantFollowsOrder'
      BY <1>4, <2>1, <2>4, <2>6 DEF GrantFollowsOrder
    <2>9. grant' \in {"NONE", "ACTIVE", "SUSPENDED", "REVOKED"}
      BY <1>4, <2>4
    <2>10. order.status = "REFUNDED" => FullRefund(q)
      BY DEF FullRefund
    <2> QED
      BY <1>2, <1>5, <2>1, <2>5, <2>6, <2>7, <2>8, <2>9, <2>10
  <1> QED
    BY <1>6, <1>7

LEMMA CommitKeeps ==
  ASSUME IInv, NEW r \in Receivers, Commit(r)
  PROVE  IInv'
  <1> DEFINE q == request[r]
  <1>1. /\ q \in Request /\ q.event \in Events /\ receipt[q.event] # "PROCESSED"
        /\ q.payment.version \in Nat /\ q.listed \in Nat
    BY CommitReads DEF Commit, ProcessedBefore, Request, Stripe
  <1>2. /\ receipt' = [receipt EXCEPT ![q.event] = "PROCESSED"]
        /\ request' = [request EXCEPT ![r] = Idle]
        /\ committed' = [payment |-> q.payment.version, listed |-> q.listed]
        /\ UNCHANGED <<stripe, kinds, deleted>>
    BY <1>1 DEF Commit, Mark, IInv, TypeOK
  <1>3. Revision' = Revision + 1
    BY <1>1, <1>2, RevisionGrows DEF IInv
  <1>4. TypeOK'
    <2>1. mishaps' \in 0..MaxMishaps
      BY WebhookAssumption DEF Commit, Mishap, IInv, TypeOK
    <2>2. answered' \in SUBSET Events
      BY <1>1 DEF Commit, Answer, IInv, TypeOK
    <2> QED
      BY <1>1, <1>2, <2>1, <2>2, CommitWrites DEF IInv, TypeOK, Events
  <1>5. \A s \in Receivers : request'[s] # Idle => request'[s] = request[s] /\ request[s] \in Request
    BY <1>2 DEF IInv, TypeOK
  <1>6. Fence'
    <2> SUFFICES ASSUME NEW s \in Receivers, request'[s] # Idle
                 PROVE  Fenced(request[s])'
      BY <1>5 DEF Fence
    <2>1. request'[s] = request[s] /\ request[s] \in Request /\ Fenced(request[s])
      BY <1>5 DEF IInv, Fence
    <2>2. request[s].revision \in Nat
      BY <2>1 DEF Request
    <2>3. request[s].revision <= Revision /\ Revision \in Nat
      BY <2>1, RevisionCounts DEF Fenced
    <2>4. request'[s].revision <= Revision' /\ ~Current(request[s])'
      BY <1>3, <2>1, <2>2, <2>3 DEF Current
    <2> QED
      BY <1>2, <2>1, <2>4 DEF Fenced
  <1>7. Readings'
    BY <1>2, <1>5 DEF IInv, Readings, Honest, HasDisputes, Sound
  <1>8. Truthful'
    BY <1>2, CommitReads, CommitWrites DEF IInv, Truthful, Sound
  <1>9. GrantFollowsOrder'
    BY CommitWrites
  <1>10. AnsweredIsDone'
    BY <1>1, <1>2 DEF Commit, Answer, IInv, TypeOK, AnsweredIsDone
  <1> QED
    BY <1>4, <1>6, <1>7, <1>8, <1>9, <1>10 DEF IInv

\* Fields of a request, written one by one.
LEMMA SnapshotTyped ==
  ASSUME NEW q \in Request, NEW revision \in 0..MaxEvents
  PROVE  [q EXCEPT !.step = "PAYMENT", !.revision = revision] \in Request
  BY DEF Request

LEMMA DisputesTyped ==
  ASSUME NEW q \in Request, NEW disputed \in BOOLEAN, NEW listed \in Nat
  PROVE  [q EXCEPT !.step = "COMMIT", !.disputed = disputed, !.listed = listed] \in Request
  BY DEF Request

LEMMA ReceiverKeeps ==
  ASSUME IInv, NEW r \in Receivers, Step(r) \/ Throw(r) \/ Die(r)
  PROVE  IInv'
  <1> DEFINE q == request[r]
  <1>0. q # Idle => q \in Request /\ Fenced(q) /\ Honest(q)
    BY DEF IInv, TypeOK, Fence, Readings
  <1>1. CASE Snapshot(r)
    <2> DEFINE held == [q EXCEPT !.step = "PAYMENT", !.revision = Revision]
    <2>1. Revision \in 0..MaxEvents /\ q \in Request
      BY <1>0, <1>1, RevisionCounts, WebhookAssumption DEF Snapshot, At
    <2>2. held \in Request
      <3> HIDE DEF q
      <3> QED
        BY <2>1, SnapshotTyped
    <2>3. Fenced(held) /\ Honest(held)
      BY <1>0, <1>1, RevisionCounts DEF Snapshot, At, Request, Fenced, Honest, HasPayment, HasDisputes, Sound
    <2> QED
      BY <1>1, <2>2, <2>3, ProceedKeeps DEF Snapshot
  <1>2. CASE ReadPayment(r)
    <2> DEFINE held == [q EXCEPT !.step = "DISPUTES", !.payment = stripe]
    <2>1. held \in Request
      BY <1>0, <1>2 DEF ReadPayment, At, Request, IInv, TypeOK
    <2>2. Fenced(held)
      BY <1>0, <1>2 DEF ReadPayment, At, Request, Fenced, Current, HasPayment, HasDisputes, IInv, TypeOK, Stripe, Truthful
    <2>3. Honest(held)
      BY <1>0, <1>2 DEF ReadPayment, At, Request, Honest, HasDisputes, IInv, Truthful, Sound, TypeOK, Stripe
    <2> QED
      BY <1>2, <2>1, <2>2, <2>3, ProceedKeeps DEF ReadPayment
  <1>3. CASE ListDisputes(r)
    <2> DEFINE verdict == stripe.dispute \in {"OPEN", "LOST"}
               held == [q EXCEPT !.step = "COMMIT", !.disputed = verdict, !.listed = stripe.version]
    <2>1. q \in Request /\ q # Idle /\ q.step = "DISPUTES" /\ Fenced(q) /\ Honest(q)
      BY <1>0, <1>3 DEF ListDisputes, At
    <2>2. stripe.version \in Nat /\ verdict \in BOOLEAN
      BY DEF IInv, TypeOK, Stripe
    <2>3. held \in Request
      <3> HIDE DEF q, verdict
      <3> QED
        BY <2>1, <2>2, DisputesTyped
    <2>4. /\ held.step = "COMMIT" /\ held.revision = q.revision /\ held.payment = q.payment
          /\ held.disputed = verdict /\ held.listed = stripe.version
      BY <2>1 DEF Request
    <2>5. Fenced(held)
      BY <2>1, <2>2, <2>4 DEF Fenced, Current, HasPayment, HasDisputes, IInv, Truthful
    <2>6. Honest(held)
      BY <2>1, <2>4 DEF Honest, HasDisputes
    <2>7. Proceed(r, held)
      BY <1>3 DEF ListDisputes
    <2> HIDE DEF held
    <2> QED
      BY <2>3, <2>5, <2>6, <2>7, ProceedKeeps
  <1>4. CASE Commit(r)
    BY <1>4, CommitKeeps
  <1>5. CASE Duplicate(r)
    <2>1. q.event \in Events /\ ProcessedBefore(q.event) /\ Answer(q.event) /\ mishaps' \in 0..MaxMishaps
      BY <1>0, <1>5 DEF Duplicate, At, Request, IInv, TypeOK
    <2> QED
      BY <1>5, <2>1, QuitKeeps DEF Duplicate, IInv, TypeOK
  <1>6. CASE TryAgain(r)
    <2>1. q \in Request /\ q.tries < MaxTries
      BY <1>0, <1>6 DEF TryAgain, TriesLeft, At
    <2>2. q.event \in Events /\ q.tries + 1 \in 1..MaxTries
      BY <2>1, WebhookAssumption DEF Request
    <2>3. Proceed(r, Try(q.event, q.tries + 1))
      BY <1>6 DEF TryAgain
    <2> QED
      BY <2>2, <2>3, TryKnowsNothing, ProceedKeeps
  <1>7. ASSUME Mark(r, "FAILED"), q # Idle
        PROVE  /\ receipt' \in [Events -> {"NONE", "RECEIVED", "FAILED", "PROCESSED"}]
               /\ \A e \in Events : receipt'[e] = "PROCESSED" <=> receipt[e] = "PROCESSED"
    <2>1. q.event \in Events
      BY <1>0, <1>7 DEF Request
    <2> QED
      BY <1>7, <2>1 DEF Mark, IInv, TypeOK
  <1>8. CASE GiveUp(r)
    <2>1. q # Idle /\ Mark(r, "FAILED") /\ mishaps' \in 0..MaxMishaps
      BY <1>8 DEF GiveUp, At, IInv, TypeOK
    <2> QED
      BY <1>7, <1>8, <2>1, QuitKeeps DEF GiveUp, Mark
  <1>9. Mishap => mishaps' \in 0..MaxMishaps
    BY WebhookAssumption DEF Mishap, IInv, TypeOK
  <1>10. CASE Throw(r)
    <2>1. q # Idle /\ Mark(r, "FAILED") /\ mishaps' \in 0..MaxMishaps
      BY <1>9, <1>10 DEF Throw
    <2> QED
      BY <1>7, <1>10, <2>1, QuitKeeps DEF Throw, Mark
  <1>11. CASE Die(r)
    <2>1. mishaps' \in 0..MaxMishaps
      BY <1>9, <1>11 DEF Die
    <2> QED
      BY <1>11, <2>1, QuitKeeps DEF Die, IInv, TypeOK
  <1> QED
    BY <1>1, <1>2, <1>3, <1>4, <1>5, <1>6, <1>8, <1>10, <1>11 DEF Step

-----------------------------------------------------------------------------
(* The specification.                                                        *)

LEMMA InitKeeps == Init => IInv
  <1> SUFFICES ASSUME Init PROVE IInv
    OBVIOUS
  <1>1. TypeOK
    <2>1. stripe \in Stripe /\ order \in Order
      BY WebhookAssumption DEF Init, Stripe, Unread, Order, Statuses
    <2>2. kinds \in Seq(Kinds) /\ Len(kinds) <= MaxEvents
      BY WebhookAssumption DEF Init
    <2>3. mishaps \in 0..MaxMishaps
      BY WebhookAssumption DEF Init
    <2> QED
      BY <2>1, <2>2, <2>3 DEF Init, TypeOK
  <1>2. Fence /\ Readings
    BY DEF Init, Fence, Readings
  <1>3. Truthful
    BY WebhookAssumption DEF Init, Truthful, Sound, Unread
  <1>4. GrantFollowsOrder /\ AnsweredIsDone
    BY DEF Init, GrantFollowsOrder, AnsweredIsDone
  <1> QED
    BY <1>1, <1>2, <1>3, <1>4 DEF IInv

LEMMA NextKeeps == IInv /\ [Next]_vars => IInv'
  <1> SUFFICES ASSUME IInv, [Next]_vars PROVE IInv'
    OBVIOUS
  <1>1. ASSUME NEW r \in Receivers, NEW e \in Events, Receive(r, e)
        PROVE  IInv'
    BY <1>1, ReceiveKeeps
  <1>2. ASSUME NEW r \in Receivers, Step(r) \/ Throw(r) \/ Die(r)
        PROVE  IInv'
    BY <1>2, ReceiverKeeps
  <1>3. CASE UNCHANGED vars
    <2>1. Revision' = Revision
      BY <1>3, RevisionStays DEF vars
    <2>2. TypeOK' /\ Readings' /\ Truthful'
      BY <1>3 DEF vars, IInv, TypeOK, Readings, Honest, HasDisputes, Truthful, Sound, Events
    <2>4. GrantFollowsOrder' /\ AnsweredIsDone'
      BY <1>3 DEF vars, IInv, GrantFollowsOrder, AnsweredIsDone
    <2>3. Fence'
      BY <1>3, <2>1 DEF vars, IInv, Fence, Fenced, Current, HasPayment, HasDisputes
    <2> QED
      BY <2>2, <2>3, <2>4 DEF IInv
  <1> QED
    BY <1>1, <1>2, <1>3, EnvironmentKeeps DEF Next

THEOREM StripeInvariant == Spec => []IInv
  BY InitKeeps, NextKeeps, PTL DEF Spec

\* Every state has the types of the schema and of the receiver's variables, whatever
\* the number of events, receivers, tries and mishaps (schema.prisma, PaymentOrder,
\* BillingEvent and EntitlementGrant).
THEOREM StripeTypeCorrect == Spec => []TypeOK
  <1>1. IInv => TypeOK
    BY DEF IInv
  <1> QED
    BY <1>1, StripeInvariant, PTL

\* The order and its grant agree at every moment, although two services write them and
\* deliveries overtake each other (stripe-webhook.service.ts:54-132).
THEOREM GrantAgrees == Spec => []GrantFollowsOrder
  <1>1. IInv => GrantFollowsOrder
    BY DEF IInv
  <1> QED
    BY <1>1, StripeInvariant, PTL

\* Whatever Stripe was told is received is committed, although processes store receipts
\* and die (stripe-webhook.service.ts:29-43).
THEOREM AnswersAreKept == Spec => []AnsweredIsDone
  <1>1. IInv => AnsweredIsDone
    BY DEF IInv
  <1> QED
    BY <1>1, StripeInvariant, PTL

\* Only a commit writes the order and remembers what it was read from.
LEMMA OnlyCommitWrites ==
  ASSUME [Next]_vars, \A r \in Receivers : ~Commit(r)
  PROVE  UNCHANGED <<order, committed>>
  BY DEF Next, Step, vars, DeclineCard, Expire, Pay, OpenDispute, Refund, CloseDispute, Announce, DeleteAccount,
         Acknowledge, Receive, Snapshot, ReadPayment, ListDisputes, Proceed, Duplicate, TryAgain, GiveUp, Throw, Die

\* The revision that is checked under the lock keeps every commit from resting on an
\* older reading than the commit before it, however long the reads take
\* (stripe-webhook.service.ts:68-71 with 185-210).
THEOREM CommitsAreFresh == Spec => NoStaleCommit
  <1>1. IInv /\ [Next]_vars =>
          [committed'.payment >= committed.payment /\ committed'.listed >= committed.listed]_vars
    <2> SUFFICES ASSUME IInv, [Next]_vars
                 PROVE  committed'.payment >= committed.payment /\ committed'.listed >= committed.listed
      OBVIOUS
    <2>1. committed.payment \in Nat /\ committed.listed \in Nat
      BY DEF IInv, TypeOK
    <2>2. CASE \E r \in Receivers : Commit(r)
      <3> PICK r \in Receivers : Commit(r)
        BY <2>2
      <3>1. committed' = [payment |-> request[r].payment.version, listed |-> request[r].listed]
        BY DEF Commit
      <3>2. request[r].payment.version \in Nat /\ request[r].listed \in Nat
        BY CommitReads DEF Stripe
      <3> QED
        BY <2>1, <3>1, <3>2, CommitReads
    <2>3. CASE \A r \in Receivers : ~Commit(r)
      BY <2>1, <2>3, OnlyCommitWrites
    <2> QED
      BY <2>2, <2>3
  <1> QED
    BY <1>1, StripeInvariant, PTL DEF Spec, NoStaleCommit

\* No delayed event takes the order back: a refund is final, refunded money only grows
\* and a paid order stays paid (stripe-webhook.service.ts:73-89).
THEOREM MoneyForward == Spec => FinancialForward
  <1>1. IInv /\ [Next]_vars =>
          [/\ order.status = "REFUNDED" => order'.status = "REFUNDED"
           /\ order'.refundedAmount >= order.refundedAmount
           /\ order.paidAt => order'.paidAt /\ order'.status \notin {"PENDING", "FAILED", "EXPIRED"}]_vars
    <2> SUFFICES ASSUME IInv, [Next]_vars
                 PROVE  /\ order.status = "REFUNDED" => order'.status = "REFUNDED"
                        /\ order'.refundedAmount >= order.refundedAmount
                        /\ order.paidAt => order'.paidAt /\ order'.status \notin {"PENDING", "FAILED", "EXPIRED"}
      OBVIOUS
    <2>1. CASE \E r \in Receivers : Commit(r)
      BY <2>1, CommitWrites
    <2>2. CASE \A r \in Receivers : ~Commit(r)
      <3>1. order' = order
        BY <2>2, OnlyCommitWrites
      <3>2. order.refundedAmount \in Nat
        BY WebhookAssumption DEF IInv, TypeOK, Order
      <3> QED
        BY <3>1, <3>2 DEF IInv, Truthful
    <2> QED
      BY <2>1, <2>2
  <1> QED
    BY <1>1, StripeInvariant, PTL DEF Spec, FinancialForward

-----------------------------------------------------------------------------
(* The mirror.  A change at Stripe appends its events, so the last event     *)
(* belongs to the last change.  Whoever handles that event reads after the   *)
(* change and so reads the truth of now; and once it is committed, no        *)
(* request that read less can commit any more.                               *)

\* What was read at the present version is the present truth, and who handles the
\* last event has read no other.
Faithful(q) ==
  /\ q.event <= Len(kinds)
  /\ q.payment.refunded <= stripe.refunded
  /\ HasPayment(q) /\ q.payment.version = stripe.version => q.payment = stripe
  /\ HasDisputes(q) /\ q.listed = stripe.version => q.disputed = (stripe.dispute \in {"OPEN", "LOST"})
  /\ q.event = Len(kinds) =>
       /\ HasPayment(q) => q.payment.version = stripe.version
       /\ HasDisputes(q) => q.listed = stripe.version

Latest == committed.payment = stripe.version /\ committed.listed = stripe.version

\* A commit that was read from the present truth wrote it.
Written ==
  Latest /\ stripe.paid =>
    order.paidAt /\ order.status = Mirror /\ order.refundedAmount = stripe.refunded

CaughtUp == \A e \in Events : e = Len(kinds) /\ receipt[e] = "PROCESSED" => Latest

MInv ==
  /\ IInv
  /\ stripe.paid => Len(kinds) > 0
  /\ order.refundedAmount <= stripe.refunded
  /\ \A e \in Events : e > Len(kinds) => receipt[e] = "NONE"
  /\ \A r \in Receivers : request[r] # Idle => Faithful(request[r])
  /\ Written /\ CaughtUp

\* A step that changes neither the truth nor the order, and processes no event.
LEMMA MirrorRests ==
  ASSUME MInv, IInv', UNCHANGED <<stripe, kinds, order, committed>>,
         \A e \in Events : receipt'[e] = "PROCESSED" <=> receipt[e] = "PROCESSED",
         \A e \in Events : e > Len(kinds) => receipt'[e] = "NONE",
         \A r \in Receivers : request'[r] # Idle => request'[r] = request[r] \/ Faithful(request'[r])
  PROVE  MInv'
  <1>1. \A r \in Receivers : request'[r] # Idle => Faithful(request'[r])
    BY DEF MInv
  <1>2. \A r \in Receivers : request'[r] # Idle => Faithful(request[r])'
    BY <1>1 DEF Faithful, HasPayment, HasDisputes
  <1>3. Latest' = Latest /\ Mirror' = Mirror
    BY DEF Latest, Mirror
  <1>4. Written' /\ CaughtUp'
    BY <1>3 DEF MInv, Written, CaughtUp, Events
  <1> QED
    BY <1>2, <1>4 DEF MInv, Events

LEMMA AnnounceMirrors ==
  ASSUME MInv, IInv', NEW new \in Seq(Kinds), Len(new) > 0, NEW truth \in Stripe, Announce(new, truth),
         truth.refunded >= stripe.refunded
  PROVE  MInv'
  <1>1. /\ stripe'.version = stripe.version + 1 /\ stripe.version \in Nat
        /\ stripe'.refunded = truth.refunded /\ stripe'.paid = truth.paid
    <2>1. stripe.version \in Nat
      BY DEF MInv, IInv, TypeOK, Stripe
    <2>2. stripe' = [truth EXCEPT !.version = stripe.version + 1] /\ stripe.version + 1 \in Nat
      BY <2>1 DEF Announce
    <2> QED
      BY <2>1, <2>2, VersionOnly
  <1>2. UNCHANGED <<receipt, order, request, committed>>
    BY DEF Announce
  <1>3. Len(kinds') = Len(kinds) + Len(new) /\ Len(kinds) \in Nat /\ Len(new) \in Nat
    BY ConcatProperties, LenProperties DEF Announce, MInv, IInv, TypeOK
  <1>4. ~Latest'
    BY <1>1, <1>2 DEF Latest, MInv, IInv, Truthful, TypeOK
  <1>5. \A e \in Events : e > Len(kinds) => receipt'[e] = "NONE"
    BY <1>2 DEF MInv
  <1>6. CaughtUp' /\ Written'
    BY <1>3, <1>4, <1>5 DEF CaughtUp, Written, Events
  <1>7. ASSUME NEW r \in Receivers, request'[r] # Idle PROVE Faithful(request[r])'
    <2>1. /\ request'[r] = request[r] /\ request[r] \in Request
          /\ Fenced(request[r]) /\ Faithful(request[r])
      BY <1>2, <1>7 DEF MInv, IInv, Fence, TypeOK
    <2>2. PICK q \in Request : q = request[r]
      BY <2>1
    <2>3. /\ q.event \in Int /\ q.payment.version \in Nat /\ q.listed \in Nat
          /\ q.payment.refunded \in Int
      BY WebhookAssumption DEF Request, Stripe, Events
    <2>4. stripe.refunded \in Int /\ truth.refunded \in Int
      BY WebhookAssumption DEF Stripe, MInv, IInv, TypeOK
    <2>5. /\ q.event <= Len(kinds) /\ q.payment.refunded <= stripe.refunded
          /\ q.payment.version <= stripe.version /\ q.listed <= stripe.version
      BY <2>1, <2>2 DEF Fenced, Faithful
    <2>6. /\ q.event <= Len(kinds') /\ q.event # Len(kinds')
          /\ q.payment.version # stripe'.version /\ q.listed # stripe'.version
          /\ q.payment.refunded <= stripe'.refunded
      BY <1>1, <1>3, <2>3, <2>4, <2>5
    <2> QED
      BY <2>1, <2>2, <2>6 DEF Faithful
  <1>8. order'.refundedAmount <= stripe'.refunded
    BY <1>1, <1>2, WebhookAssumption DEF MInv, IInv, TypeOK, Order, Stripe
  <1>9. \A e \in Events : e > Len(kinds') => receipt'[e] = "NONE"
    BY <1>3, <1>5 DEF Events
  <1> QED
    BY <1>3, <1>6, <1>7, <1>8, <1>9 DEF MInv, Events

LEMMA EnvironmentMirrors ==
  ASSUME MInv, IInv',
         \/ DeclineCard \/ Expire \/ Pay \/ OpenDispute \/ DeleteAccount
         \/ \E total \in 1..Amount : Refund(total)
         \/ \E verdict \in {"WON", "LOST"} : CloseDispute(verdict)
         \/ \E e \in Events : Acknowledge(e)
  PROVE  MInv'
  <1> DEFINE Change(new, truth) ==
        new \in Seq(Kinds) /\ Len(new) > 0 /\ truth \in Stripe /\ truth.refunded >= stripe.refunded
  <1>1. stripe \in Stripe /\ stripe.refunded \in 0..Amount /\ stripe.refunded >= stripe.refunded
    <2>1. stripe \in Stripe
      BY DEF MInv, IInv, TypeOK
    <2> QED
      BY <2>1, WebhookAssumption DEF Stripe
  <1>2. /\ \A kind \in Kinds : <<kind>> \in Seq(Kinds) /\ Len(<<kind>>) > 0
        /\ <<"SESSION", "OTHER">> \in Seq(Kinds) /\ Len(<<"SESSION", "OTHER">>) > 0
    BY DEF Kinds
  <1>3. "FAILURE" \in Kinds /\ "SESSION" \in Kinds /\ "OTHER" \in Kinds
    BY DEF Kinds
  <1>4. CASE DeclineCard
    BY <1>1, <1>2, <1>3, <1>4, AnnounceMirrors DEF DeclineCard
  <1>5. CASE Expire
    <2>1. Change(<<"SESSION">>, [stripe EXCEPT !.expired = TRUE])
      BY <1>1, <1>2, <1>3 DEF Stripe
    <2> QED
      BY <1>5, <2>1, AnnounceMirrors DEF Expire
  <1>6. CASE Pay
    <2> PICK new \in {<<"SESSION">>, <<"SESSION", "OTHER">>} : Announce(new, [stripe EXCEPT !.paid = TRUE])
      BY <1>6 DEF Pay
    <2>1. Change(new, [stripe EXCEPT !.paid = TRUE])
      BY <1>1, <1>2, <1>3 DEF Stripe
    <2> QED
      BY <2>1, AnnounceMirrors
  <1>7. CASE OpenDispute
    <2>1. Change(<<"OTHER">>, [stripe EXCEPT !.dispute = "OPEN"])
      BY <1>1, <1>2, <1>3 DEF Stripe
    <2> QED
      BY <1>7, <2>1, AnnounceMirrors DEF OpenDispute
  <1>8. ASSUME NEW total \in 1..Amount, Refund(total)
        PROVE  MInv'
    <2>1. Change(<<"OTHER">>, [stripe EXCEPT !.refunded = total])
      BY <1>1, <1>2, <1>3, <1>8, WebhookAssumption DEF Stripe, Refund
    <2> QED
      BY <1>8, <2>1, AnnounceMirrors DEF Refund
  <1>9. ASSUME NEW verdict \in {"WON", "LOST"}, CloseDispute(verdict)
        PROVE  MInv'
    <2>1. Change(<<"OTHER">>, [stripe EXCEPT !.dispute = verdict])
      BY <1>1, <1>2, <1>3 DEF Stripe
    <2> QED
      BY <1>9, <2>1, AnnounceMirrors DEF CloseDispute
  <1>10. CASE DeleteAccount \/ \E e \in Events : Acknowledge(e)
    <2>1. UNCHANGED <<stripe, kinds, order, committed, receipt, request>>
      BY <1>10 DEF DeleteAccount, Acknowledge
    <2>2. \A e \in Events : e > Len(kinds) => receipt'[e] = "NONE"
      BY <2>1 DEF MInv
    <2> QED
      BY <2>1, <2>2, MirrorRests
  <1> QED
    BY <1>4, <1>5, <1>6, <1>7, <1>8, <1>9, <1>10

\* The order that a commit of the present truth writes.
LEMMA CommitMirrors ==
  ASSUME MInv, IInv', NEW r \in Receivers, Commit(r)
  PROVE  MInv'
  <1>0. request[r] \in Request /\ request[r] # Idle /\ request[r].step = "COMMIT"
    BY CommitReads DEF Commit, At, MInv
  <1>1. PICK q \in Request : q = request[r]
    BY <1>0
  <1>2. /\ q.step = "COMMIT" /\ q.event \in Events /\ q.payment \in Stripe /\ q.listed \in Nat
        /\ Faithful(q)
    BY <1>0, <1>1 DEF MInv, Request
  <1>3. /\ committed.payment <= q.payment.version /\ q.payment.version <= stripe.version
        /\ committed.listed <= q.listed /\ q.listed <= stripe.version
        /\ Sound(q.payment) /\ q.disputed => q.payment.paid
    BY <1>1, CommitReads DEF MInv
  <1>4. /\ committed' = [payment |-> q.payment.version, listed |-> q.listed]
        /\ order' = [status |-> NewStatus(q), refundedAmount |-> Refunded(q),
                     paidAt |-> order.paidAt \/ q.payment.paid]
        /\ request' = [request EXCEPT ![r] = Idle]
        /\ UNCHANGED <<stripe, kinds>>
        /\ receipt' = [receipt EXCEPT ![q.event] = IF @ = "PROCESSED" THEN @ ELSE "PROCESSED"]
    BY <1>1 DEF Commit, Mark
  <1>5. /\ receipt'[q.event] = "PROCESSED"
        /\ \A e \in Events : e # q.event => receipt'[e] = receipt[e]
    BY <1>2, <1>4 DEF MInv, IInv, TypeOK
  <1>6. /\ order.refundedAmount \in 0..Amount /\ stripe.refunded \in 0..Amount /\ q.payment.refunded \in 0..Amount
        /\ Amount \in Nat \ {0} /\ Len(kinds) \in Nat /\ q.event \in Nat
        /\ stripe.version \in Nat /\ q.payment.version \in Nat /\ committed.payment \in Nat /\ committed.listed \in Nat
    <2>1. stripe \in Stripe /\ order \in Order /\ kinds \in Seq(Kinds) /\ committed \in [payment : Nat, listed : Nat]
      BY DEF MInv, IInv, TypeOK
    <2> QED
      BY <1>2, <2>1, WebhookAssumption, LenProperties DEF Stripe, Order, Events
  <1>7. Refunded(q) <= stripe.refunded
    BY <1>2, <1>6 DEF Refunded, Faithful, MInv
  <1>8. ASSUME Latest', stripe.paid
        PROVE  order'.paidAt /\ order'.status = Mirror /\ order'.refundedAmount = stripe.refunded
    <2>1. q.payment.version = stripe.version /\ q.listed = stripe.version
      BY <1>4, <1>8 DEF Latest
    <2>2. q.payment = stripe /\ q.disputed = (stripe.dispute \in {"OPEN", "LOST"})
      BY <1>2, <2>1 DEF Faithful, HasPayment, HasDisputes
    <2>3. Refunded(q) = stripe.refunded
      BY <1>6, <1>7, <2>2 DEF Refunded, MInv
    <2>4. FullRefund(q) <=> stripe.refunded = Amount
      <3>1. order.status = "REFUNDED" <=> order.refundedAmount >= Amount
        BY DEF MInv, IInv, Truthful
      <3>2. order.refundedAmount <= stripe.refunded
        BY DEF MInv
      <3> QED
        BY <1>6, <2>3, <3>1, <3>2 DEF FullRefund
    <2>5. stripe.dispute \in {"NONE", "OPEN", "WON", "LOST"}
      BY DEF MInv, IInv, TypeOK, Stripe
    <2>7. q.disputed <=> stripe.dispute \in {"OPEN", "LOST"}
      BY <2>2
    <2>6. NewStatus(q) = Mirror
      <3>1. CASE stripe.refunded = Amount
        <4>1. NewStatus(q) = "REFUNDED"
          BY <2>4, <3>1 DEF NewStatus
        <4>2. Mirror = "REFUNDED"
          BY <1>6, <3>1 DEF Mirror
        <4> QED
          BY <4>1, <4>2
      <3>2. CASE stripe.refunded < Amount /\ q.disputed
        <4>1. NewStatus(q) = "DISPUTED"
          BY <1>6, <2>4, <3>2 DEF NewStatus
        <4>2. stripe.dispute \in {"OPEN", "LOST"} /\ stripe.dispute \notin {"NONE", "WON"}
          BY <2>7, <3>2
        <4>4. stripe.refunded # Amount
          BY <1>6, <3>2
        <4>3. Mirror = "DISPUTED"
          BY <3>2, <4>2, <4>4 DEF Mirror
        <4> QED
          BY <4>1, <4>3
      <3>3. CASE stripe.refunded < Amount /\ ~q.disputed
        <4>0. stripe.dispute \in {"NONE", "WON"} /\ stripe.dispute \notin {"OPEN", "LOST"}
          BY <2>5, <2>7, <3>3
        <4>1. stripe.dispute \in {"NONE", "WON"} /\ stripe.dispute \notin {"OPEN", "LOST"} /\ stripe.refunded # Amount
          BY <1>6, <3>3, <4>0
        <4>2. NewStatus(q) = IF stripe.refunded > 0 THEN "PARTIALLY_REFUNDED" ELSE "PAID"
          BY <1>8, <2>2, <2>3, <2>4, <3>3, <4>1 DEF NewStatus
        <4>3. CASE stripe.refunded > 0
          <5>1. stripe.refunded \in 1..(Amount - 1) /\ stripe.refunded # 0
            BY <1>6, <3>3, <4>3
          <5> QED
            BY <4>1, <4>2, <4>3, <5>1 DEF Mirror
        <4>4. CASE stripe.refunded = 0
          <5>1. stripe.refunded \notin 1..(Amount - 1) /\ ~(stripe.refunded > 0)
            BY <1>6, <4>4
          <5> QED
            BY <4>1, <4>2, <4>4, <5>1 DEF Mirror
        <4> QED
          BY <1>6, <4>3, <4>4
      <3> QED
        BY <1>6, <3>1, <3>2, <3>3
    <2> QED
      BY <1>4, <1>8, <2>2, <2>3, <2>6
  <1>9. Mirror' = Mirror
    BY <1>4 DEF Mirror
  <1>10. Written'
    BY <1>4, <1>8, <1>9 DEF Written
  <1>11. ASSUME NEW e \in Events, e = Len(kinds), receipt'[e] = "PROCESSED"
         PROVE  Latest'
    <2>1. CASE e = q.event
      BY <1>2, <1>4, <1>11, <2>1 DEF Latest, Faithful, HasPayment, HasDisputes
    <2>2. CASE e # q.event
      <3>1. Latest
        BY <1>5, <1>11, <2>2 DEF MInv, CaughtUp
      <3> QED
        BY <1>2, <1>3, <1>4, <1>6, <3>1 DEF Latest
    <2> QED
      BY <2>1, <2>2
  <1>12. CaughtUp'
    BY <1>4, <1>11 DEF CaughtUp, Events
  <1>13. \A e \in Events : e > Len(kinds) => receipt'[e] = "NONE"
    <2>1. q.event <= Len(kinds)
      BY <1>2 DEF Faithful
    <2> QED
      BY <1>5, <1>6, <2>1 DEF MInv, Events
  <1>14. ASSUME NEW s \in Receivers, request'[s] # Idle PROVE Faithful(request[s])'
    <2>1. request'[s] = request[s] /\ Faithful(request[s])
      BY <1>4, <1>14 DEF MInv, IInv, TypeOK
    <2> QED
      BY <1>4, <2>1 DEF Faithful, HasPayment, HasDisputes
  <1> QED
    BY <1>4, <1>7, <1>10, <1>12, <1>13, <1>14 DEF MInv, Events

LEMMA ReceiverMirrors ==
  ASSUME MInv, IInv', NEW r \in Receivers,
         (\E e \in Events : Receive(r, e)) \/ Step(r) \/ Throw(r) \/ Die(r)
  PROVE  MInv'
  <1> DEFINE Others(held) ==
        \A s \in Receivers : request'[s] = IF s = r THEN held ELSE request[s]
  <1>0. \A e \in Events : e > Len(kinds) => receipt[e] = "NONE"
    BY DEF MInv
  <1>t. request \in [Receivers -> Request \cup {Idle}]
    BY DEF MInv, IInv, TypeOK
  <1>p. ASSUME NEW held, Proceed(r, held), Faithful(held)
        PROVE  MInv'
    <2>1. Others(held)
      BY <1>p, <1>t DEF Proceed
    <2>2. UNCHANGED <<stripe, kinds, order, committed, receipt>>
      BY <1>p DEF Proceed
    <2> QED
      BY <1>0, <1>p, <2>1, <2>2, MirrorRests
  <1>1. ASSUME NEW e \in 1..Len(kinds), NEW n PROVE Faithful(Try(e, n))
    <2>1. stripe.refunded >= 0
      BY WebhookAssumption DEF MInv, IInv, TypeOK, Stripe
    <2> QED
      BY <2>1 DEF Faithful, Try, Unread, HasPayment, HasDisputes
  <1>2. ASSUME NEW e \in Events, Receive(r, e)
        PROVE  MInv'
    <2>1. e \in 1..Len(kinds) /\ Len(kinds) \in Nat
      BY <1>2, LenProperties DEF Receive, Emitted, MInv, IInv, TypeOK
    <2>2. PICK held : held = Try(e, 1) /\ Faithful(held)
      BY <1>1, <2>1
    <2>3. Others(held) /\ UNCHANGED <<stripe, kinds, order, committed>>
      BY <1>2, <1>t, <2>2 DEF Receive
    <2>4. /\ \A i \in Events : receipt'[i] = "PROCESSED" <=> receipt[i] = "PROCESSED"
          /\ \A i \in Events : i > Len(kinds) => receipt'[i] = "NONE"
      BY <1>0, <1>2, <2>1 DEF Receive, MInv, IInv, TypeOK, Events
    <2> QED
      BY <2>2, <2>3, <2>4, MirrorRests
  <1>q. ASSUME request[r] # Idle
        PROVE  request[r] \in Request /\ Faithful(request[r])
    BY <1>q, <1>t DEF MInv
  <1>3. CASE Snapshot(r)
    <2>1. PICK held : held = [request[r] EXCEPT !.step = "PAYMENT", !.revision = Revision]
      OBVIOUS
    <2>2. request[r] # Idle /\ request[r].step = "SNAPSHOT" /\ Proceed(r, held)
      BY <1>3, <2>1 DEF Snapshot, At
    <2>3. /\ held.step = "PAYMENT" /\ held.event = request[r].event /\ held.payment = request[r].payment
      BY <1>q, <2>1, <2>2 DEF Request
    <2>4. Faithful(held)
      BY <1>q, <2>2, <2>3 DEF Faithful, HasPayment, HasDisputes
    <2> QED
      BY <1>p, <2>2, <2>4
  <1>4. CASE ReadPayment(r)
    <2>1. PICK held : held = [request[r] EXCEPT !.step = "DISPUTES", !.payment = stripe]
      OBVIOUS
    <2>2. request[r] # Idle /\ Proceed(r, held)
      BY <1>4, <2>1 DEF ReadPayment, At
    <2>3. held.step = "DISPUTES" /\ held.event = request[r].event /\ held.payment = stripe
      BY <1>q, <2>1, <2>2 DEF Request
    <2>4. stripe.refunded <= stripe.refunded
      BY WebhookAssumption DEF MInv, IInv, TypeOK, Stripe
    <2>5. Faithful(held)
      BY <1>q, <2>2, <2>3, <2>4 DEF Faithful, HasDisputes
    <2> QED
      BY <1>p, <2>2, <2>5
  <1>5. CASE ListDisputes(r)
    <2>0. PICK verdict : verdict = (stripe.dispute \in {"OPEN", "LOST"})
      OBVIOUS
    <2>1. PICK held : held = [request[r] EXCEPT !.step = "COMMIT", !.disputed = verdict, !.listed = stripe.version]
      OBVIOUS
    <2>2. request[r] # Idle /\ request[r].step = "DISPUTES" /\ Proceed(r, held)
      BY <1>5, <2>0, <2>1 DEF ListDisputes, At
    <2>3. /\ held.step = "COMMIT" /\ held.event = request[r].event /\ held.payment = request[r].payment
          /\ held.disputed = verdict /\ held.listed = stripe.version
      BY <1>q, <2>1, <2>2 DEF Request
    <2>4. Faithful(held)
      BY <1>q, <2>0, <2>2, <2>3 DEF Faithful, HasPayment, HasDisputes
    <2> QED
      BY <1>p, <2>2, <2>4
  <1>6. CASE TryAgain(r)
    <2>1. request[r] # Idle /\ Proceed(r, Try(request[r].event, request[r].tries + 1))
      BY <1>6 DEF TryAgain, At
    <2>2. request[r].event \in 1..Len(kinds)
      <3>1. request[r].event \in Events /\ request[r].event <= Len(kinds) /\ Len(kinds) \in Nat
        BY <1>q, <2>1, LenProperties DEF Request, Faithful, MInv, IInv, TypeOK
      <3> QED
        BY <3>1 DEF Events
    <2> QED
      BY <1>1, <1>p, <2>1, <2>2
  <1>7. CASE Commit(r)
    BY <1>7, CommitMirrors
  <1>8. ASSUME request' = [request EXCEPT ![r] = Idle], UNCHANGED <<stripe, kinds, order, committed>>,
               receipt' = receipt \/ (request[r] # Idle /\ Mark(r, "FAILED"))
        PROVE  MInv'
    <2>1. \A s \in Receivers : request'[s] # Idle => request'[s] = request[s]
      BY <1>8, <1>t
    <2>2. /\ \A i \in Events : receipt'[i] = "PROCESSED" <=> receipt[i] = "PROCESSED"
          /\ \A i \in Events : i > Len(kinds) => receipt'[i] = "NONE"
      <3>1. CASE receipt' = receipt
        BY <1>0, <3>1
      <3>2. CASE request[r] # Idle /\ Mark(r, "FAILED")
        <4>1. /\ request[r].event \in Events /\ request[r].event <= Len(kinds) /\ Len(kinds) \in Nat
          BY <1>q, <3>2, LenProperties DEF Request, Faithful, MInv, IInv, TypeOK
        <4>2. PICK e \in Events : e = request[r].event
          BY <4>1
        <4>3. receipt' = [receipt EXCEPT ![e] = IF @ = "PROCESSED" THEN @ ELSE "FAILED"]
          BY <3>2, <4>2 DEF Mark
        <4> QED
          BY <1>0, <4>1, <4>2, <4>3 DEF MInv, IInv, TypeOK, Events
      <3> QED
        BY <1>8, <3>1, <3>2
    <2> QED
      BY <1>8, <2>1, <2>2, MirrorRests
  <1>9. CASE GiveUp(r) \/ Throw(r)
    <2>1. /\ request[r] # Idle /\ Mark(r, "FAILED") /\ UNCHANGED <<stripe, kinds, order, committed>>
      BY <1>9 DEF GiveUp, Throw, At
    <2>2. request' = [request EXCEPT ![r] = Idle]
      BY <2>1 DEF Mark
    <2> QED
      BY <1>8, <2>1, <2>2
  <1>10. CASE Duplicate(r) \/ Die(r)
    BY <1>8, <1>10 DEF Duplicate, Die
  <1> QED
    BY <1>2, <1>3, <1>4, <1>5, <1>6, <1>7, <1>9, <1>10 DEF Step

LEMMA MirrorBegins == Init => MInv
  <1> SUFFICES ASSUME Init PROVE MInv
    OBVIOUS
  <1>1. IInv
    BY InitKeeps
  <1>2. Written /\ CaughtUp
    BY DEF Init, Written, CaughtUp, Unread, Events
  <1> QED
    BY <1>1, <1>2 DEF Init, MInv, Unread

LEMMA MirrorKeeps == MInv /\ [Next]_vars => MInv'
  <1> SUFFICES ASSUME MInv, [Next]_vars PROVE MInv'
    OBVIOUS
  <1>1. IInv'
    BY NextKeeps DEF MInv
  <1>2. ASSUME NEW r \in Receivers,
               (\E e \in Events : Receive(r, e)) \/ Step(r) \/ Throw(r) \/ Die(r)
        PROVE  MInv'
    BY <1>1, <1>2, ReceiverMirrors
  <1>3. CASE UNCHANGED vars
    BY <1>1, <1>3, MirrorRests DEF vars, MInv
  <1> QED
    BY <1>1, <1>2, <1>3, EnvironmentMirrors DEF Next

\* Once every event is processed the order says what Stripe says, whatever the order
\* of the events, their repetitions and the processes that died over them
\* (stripe-webhook.service.ts:68-71 with 185-210).
THEOREM OrdersMirror == Spec => []SettledMirrors
  <1>1. MInv => SettledMirrors
    <2> SUFFICES ASSUME MInv, stripe.paid, \A e \in Emitted : receipt[e] = "PROCESSED"
                 PROVE  order.paidAt /\ order.status = Mirror /\ order.refundedAmount = stripe.refunded
      BY DEF SettledMirrors
    <2>1. Len(kinds) > 0 /\ Len(kinds) \in Nat /\ Len(kinds) <= MaxEvents /\ MaxEvents \in Nat
      BY LenProperties, WebhookAssumption DEF MInv, IInv, TypeOK
    <2>2. Len(kinds) \in Emitted /\ Len(kinds) \in Events
      BY <2>1 DEF Emitted, Events
    <2>3. Latest
      BY <2>2 DEF MInv, CaughtUp
    <2> QED
      BY <2>3 DEF MInv, Written
  <1> QED
    BY <1>1, MirrorBegins, MirrorKeeps, PTL DEF Spec
=============================================================================
