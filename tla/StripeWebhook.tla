--------------------------- MODULE StripeWebhook ---------------------------
(***************************************************************************)
(* Webhook reconciliation of one Stripe order.                             *)
(*                                                                         *)
(* Stripe owns the truth (the checkout session, the charge, its refunds    *)
(* and disputes) and announces every change by an event, delivered at      *)
(* least once, in any order and to any process.  An event is a hint only:  *)
(* its receiver reads the truth back in several requests, outside any      *)
(* transaction, and commits what it read under the account lock if no      *)
(* other event of the order was committed since its revision snapshot.     *)
(***************************************************************************)
EXTENDS Integers, FiniteSets, Sequences

CONSTANTS
  MaxEvents,    \* bound on the events of the order
  Receivers,    \* webhook requests in progress at one time
  Amount,       \* amount of the order
  MaxTries,     \* reconciliation attempts of one request (8)
  MaxMishaps,   \* bound on failing provider reads and dying processes
  Idle          \* a receiver without a request

ASSUME WebhookAssumption ==
  /\ MaxEvents \in Nat \ {0} /\ Amount \in Nat \ {0}
  /\ MaxTries \in Nat \ {0} /\ MaxMishaps \in Nat

VARIABLES
  stripe,     \* the truth: session, charge, refunds, disputes, and its version
  kinds,      \* kinds of the events announced so far
  receipt,    \* status of the BillingEvent rows
  order,      \* the PaymentOrder row
  grant,      \* status of the order's EntitlementGrant
  request,    \* what a receiver holds in memory
  deleted,    \* the owner's account is deleted
  committed,  \* history: versions of the truth the last commit was read from
  answered,   \* history: events of which Stripe got a 2xx
  mishaps

vars == <<stripe, kinds, receipt, order, grant, request, deleted, committed, answered, mishaps>>

Events == 1..MaxEvents
Emitted == 1..Len(kinds)

\* "SESSION": checkout.session.*, which reads the session too; "FAILURE":
\* payment_intent.payment_failed; "OTHER": the other payment, charge, refund and
\* dispute events.
Kinds == {"SESSION", "FAILURE", "OTHER"}

Stripe == [paid : BOOLEAN, expired : BOOLEAN, refunded : 0..Amount,
           dispute : {"NONE", "OPEN", "WON", "LOST"}, version : Nat]

Statuses == {"PENDING", "FAILED", "EXPIRED", "PAID", "PARTIALLY_REFUNDED", "DISPUTED", "REFUNDED"}

Order == [status : Statuses, refundedAmount : 0..Amount, paidAt : BOOLEAN]

\* payment is the session and charge that were read, disputed the verdict over the
\* disputes that were listed at version listed.
Request == [event : Events, step : {"SNAPSHOT", "PAYMENT", "DISPUTES", "COMMIT"},
            tries : 1..MaxTries, revision : 0..MaxEvents,
            payment : Stripe, disputed : BOOLEAN, listed : Nat]

TypeOK ==
  /\ stripe \in Stripe
  /\ kinds \in Seq(Kinds) /\ Len(kinds) <= MaxEvents
  /\ receipt \in [Events -> {"NONE", "RECEIVED", "FAILED", "PROCESSED"}]
  /\ order \in Order
  /\ grant \in {"NONE", "ACTIVE", "SUSPENDED", "REVOKED"}
  /\ request \in [Receivers -> Request \cup {Idle}]
  /\ deleted \in BOOLEAN
  /\ committed \in [payment : Nat, listed : Nat]
  /\ answered \in SUBSET Events
  /\ mishaps \in 0..MaxMishaps

Unread == [paid |-> FALSE, expired |-> FALSE, refunded |-> 0, dispute |-> "NONE", version |-> 0]

Init ==
  /\ stripe = Unread
  /\ kinds = <<>>
  /\ receipt = [e \in Events |-> "NONE"]
  /\ order = [status |-> "PENDING", refundedAmount |-> 0, paidAt |-> FALSE]
  /\ grant = "NONE"
  /\ request = [r \in Receivers |-> Idle]
  /\ deleted = FALSE
  /\ committed = [payment |-> 0, listed |-> 0]
  /\ answered = {}
  /\ mishaps = 0

-----------------------------------------------------------------------------
(* Stripe and the account's owner.                                         *)

\* A change at Stripe is announced by one or two new events.
Announce(new, truth) ==
  /\ Len(kinds) + Len(new) <= MaxEvents
  /\ kinds' = kinds \o new
  /\ stripe' = [truth EXCEPT !.version = stripe.version + 1]
  /\ UNCHANGED <<receipt, order, grant, request, deleted, committed, answered, mishaps>>

At(r, step) == request[r] # Idle /\ request[r].step = step

Payable == ~stripe.paid /\ ~stripe.expired

DeclineCard == Payable /\ Announce(<<"FAILURE">>, stripe)

Expire == Payable /\ Announce(<<"SESSION">>, [stripe EXCEPT !.expired = TRUE])

\* Whether the payment is announced next to the session depends on what the endpoint
\* is subscribed to.
Pay ==
  /\ Payable
  /\ \E new \in {<<"SESSION">>, <<"SESSION", "OTHER">>} :
       Announce(new, [stripe EXCEPT !.paid = TRUE])

Refund(total) ==
  /\ stripe.paid
  /\ stripe.refunded < total
  /\ Announce(<<"OTHER">>, [stripe EXCEPT !.refunded = total])

\* Disputes come days after the payment and a request lasts a minute at most (bounded
\* timeouts and retries of the gateway): no request is between a charge it read unpaid
\* and the disputes of it.
NoneBetween == \A r \in Receivers : At(r, "DISPUTES") => request[r].payment.paid

OpenDispute ==
  /\ stripe.paid
  /\ NoneBetween
  /\ stripe.dispute = "NONE"
  /\ Announce(<<"OTHER">>, [stripe EXCEPT !.dispute = "OPEN"])

CloseDispute(verdict) ==
  /\ stripe.dispute = "OPEN"
  /\ Announce(<<"OTHER">>, [stripe EXCEPT !.dispute = verdict])

Revoked == IF grant = "NONE" THEN "NONE" ELSE "REVOKED"

\* Under the account lock; grants are revoked and stay so.
DeleteAccount ==
  /\ ~deleted
  /\ deleted' = TRUE
  /\ grant' = Revoked
  /\ UNCHANGED <<stripe, kinds, receipt, order, request, committed, answered, mishaps>>

-----------------------------------------------------------------------------
(* The receiver.                                                           *)

\* (mutant ReceivedBefore: a receipt is taken for a result)
ReceivedBefore(e) == receipt[e] # "NONE"

\* A processed event is answered at once and changes nothing.
ProcessedBefore(e) == receipt[e] = "PROCESSED"

Answer(e) == answered' = answered \cup {e}

Acknowledge(e) ==
  /\ e \in Emitted
  /\ ProcessedBefore(e)
  /\ Answer(e)
  /\ UNCHANGED <<stripe, kinds, receipt, order, grant, request, deleted, committed, mishaps>>

\* One of the tries of a request: nothing is read yet.
Try(e, n) == [event |-> e, step |-> "SNAPSHOT", tries |-> n, revision |-> 0,
              payment |-> Unread, disputed |-> FALSE, listed |-> 0]

\* Events are delivered until they are answered, and maybe again; the receipt is
\* inserted unless it is there.
Receive(r, e) ==
  /\ request[r] = Idle
  /\ e \in Emitted
  /\ ~ProcessedBefore(e)
  /\ receipt' = [receipt EXCEPT ![e] = IF @ = "NONE" THEN "RECEIVED" ELSE @]
  /\ request' = [request EXCEPT ![r] = Try(e, 1)]
  /\ UNCHANGED <<stripe, kinds, order, grant, deleted, committed, answered, mishaps>>

Proceed(r, held) ==
  /\ request' = [request EXCEPT ![r] = held]
  /\ UNCHANGED <<stripe, kinds, receipt, order, grant, deleted, committed, answered, mishaps>>

\* Revision of the order: how many of its events were processed.
Revision == Cardinality({e \in Events : receipt[e] = "PROCESSED"})

\* authoritative(), three awaits: the order and its revision (what was read at Stripe
\* to find the order is read again), the session and payment, the disputes.
Snapshot(r) ==
  /\ At(r, "SNAPSHOT")
  /\ Proceed(r, [request[r] EXCEPT !.step = "PAYMENT", !.revision = Revision])

ReadPayment(r) ==
  /\ At(r, "PAYMENT")
  /\ Proceed(r, [request[r] EXCEPT !.step = "DISPUTES", !.payment = stripe])

ListDisputes(r) ==
  /\ At(r, "DISPUTES")
  /\ Proceed(r, [request[r] EXCEPT !.step = "COMMIT", !.disputed = stripe.dispute \in {"OPEN", "LOST"},
                                   !.listed = stripe.version])

\* Nobody committed an event of the order since the snapshot.
\* (mutant RevisionIgnored: nobody asks)
RevisionIgnored(q) == TRUE
RevisionHolds(q) == q.revision = Revision

\* What an event alone tells of an order that is not paid.
UnpaidStatus(q) ==
  CASE kinds[q.event] = "SESSION" /\ q.payment.expired -> "EXPIRED"
    [] kinds[q.event] = "FAILURE" -> "FAILED"
    [] OTHER -> "PENDING"

Refunded(q) == IF q.payment.refunded > order.refundedAmount THEN q.payment.refunded
                                                            ELSE order.refundedAmount

FullRefund(q) == Refunded(q) >= Amount \/ order.status = "REFUNDED"

\* (mutant DisputeFirst: a dispute outranks a full refund)
DisputeFirst(q) ==
  IF q.disputed THEN "DISPUTED"
  ELSE IF FullRefund(q) THEN "REFUNDED"
  ELSE IF q.payment.paid THEN (IF Refunded(q) > 0 THEN "PARTIALLY_REFUNDED" ELSE "PAID")
  ELSE IF order.paidAt THEN order.status ELSE UnpaidStatus(q)

NewStatus(q) ==
  IF FullRefund(q) THEN "REFUNDED"
  ELSE IF q.disputed THEN "DISPUTED"
  ELSE IF q.payment.paid THEN (IF Refunded(q) > 0 THEN "PARTIALLY_REFUNDED" ELSE "PAID")
  ELSE IF order.paidAt THEN order.status ELSE UnpaidStatus(q)

\* grantOrder(): once, and never for a deleted account.
Granted ==
  IF deleted THEN Revoked
  ELSE IF grant = "NONE" THEN "ACTIVE" ELSE grant

\* (mutant GrantOnly: a later change of the order does not reach its grant)
GrantOnly(q) == IF q.payment.paid THEN Granted ELSE grant

\* grantOrder() and then changeOrderGrant(), which moves neither a missing nor a revoked grant.
NewGrant(q) ==
  IF ~q.payment.paid THEN grant
  ELSE IF Granted \in {"NONE", "REVOKED"} THEN Granted
  ELSE IF FullRefund(q) THEN "REVOKED"
  ELSE IF q.disputed THEN "SUSPENDED"
  ELSE "ACTIVE"

Mark(r, status) ==
  /\ receipt' = [receipt EXCEPT ![request[r].event] = IF @ = "PROCESSED" THEN @ ELSE status]
  /\ request' = [request EXCEPT ![r] = Idle]

Mishap == mishaps < MaxMishaps /\ mishaps' = mishaps + 1

\* The transaction, under the account lock.  The process may die before it answers.
Commit(r) ==
  /\ At(r, "COMMIT")
  /\ ~ProcessedBefore(request[r].event)
  /\ RevisionHolds(request[r])
  /\ LET q == request[r]
     IN /\ order' = [status |-> NewStatus(q), refundedAmount |-> Refunded(q),
                     paidAt |-> order.paidAt \/ q.payment.paid]
        /\ grant' = NewGrant(q)
        /\ committed' = [payment |-> q.payment.version, listed |-> q.listed]
  /\ Mark(r, "PROCESSED")
  /\ \/ Answer(request[r].event) /\ UNCHANGED mishaps
     \/ Mishap /\ UNCHANGED answered
  /\ UNCHANGED <<stripe, kinds, deleted>>

\* Another delivery of the event was committed meanwhile.
Duplicate(r) ==
  /\ At(r, "COMMIT")
  /\ ProcessedBefore(request[r].event)
  /\ Answer(request[r].event)
  /\ request' = [request EXCEPT ![r] = Idle]
  /\ UNCHANGED <<stripe, kinds, receipt, order, grant, deleted, committed, mishaps>>

TriesLeft(q) == q.tries < MaxTries

\* Another event of the order was committed meanwhile: read everything again, or give
\* up after the last try and let Stripe deliver the event again.
TryAgain(r) ==
  /\ At(r, "COMMIT")
  /\ ~ProcessedBefore(request[r].event)
  /\ ~RevisionHolds(request[r])
  /\ TriesLeft(request[r])
  /\ Proceed(r, Try(request[r].event, request[r].tries + 1))

GiveUp(r) ==
  /\ At(r, "COMMIT")
  /\ ~ProcessedBefore(request[r].event)
  /\ ~RevisionHolds(request[r])
  /\ ~TriesLeft(request[r])
  /\ Mark(r, "FAILED")
  /\ UNCHANGED <<stripe, kinds, order, grant, deleted, committed, answered, mishaps>>

\* A read or the transaction throws: the receipt is marked, the answer is 503.
Throw(r) ==
  /\ request[r] # Idle
  /\ Mishap
  /\ Mark(r, "FAILED")
  /\ UNCHANGED <<stripe, kinds, order, grant, deleted, committed, answered>>

\* The process dies with its request: there is no answer.
Die(r) ==
  /\ request[r] # Idle
  /\ Mishap
  /\ request' = [request EXCEPT ![r] = Idle]
  /\ UNCHANGED <<stripe, kinds, receipt, order, grant, deleted, committed, answered>>

Step(r) ==
  \/ Snapshot(r) \/ ReadPayment(r) \/ ListDisputes(r)
  \/ Commit(r) \/ Duplicate(r) \/ TryAgain(r) \/ GiveUp(r)

Next ==
  \/ DeclineCard \/ Expire \/ Pay \/ OpenDispute \/ DeleteAccount
  \/ \E total \in 1..Amount : Refund(total)
  \/ \E verdict \in {"WON", "LOST"} : CloseDispute(verdict)
  \/ \E e \in Events : Acknowledge(e)
  \/ \E r \in Receivers :
       \/ \E e \in Events : Receive(r, e)
       \/ Step(r)
       \/ Throw(r)
       \/ Die(r)

Spec == Init /\ [][Next]_vars
=============================================================================
