-------------------------- MODULE StripeProperties --------------------------
(* What the reconciliation of a Stripe order promises.                      *)
EXTENDS StripeWebhook

\* What an order that was paid should say, given the truth.
Mirror ==
  CASE stripe.refunded = Amount -> "REFUNDED"
    [] stripe.refunded < Amount /\ stripe.dispute \in {"OPEN", "LOST"} -> "DISPUTED"
    [] stripe.refunded \in 1..(Amount - 1) /\ stripe.dispute \in {"NONE", "WON"} -> "PARTIALLY_REFUNDED"
    [] stripe.refunded = 0 /\ stripe.dispute \in {"NONE", "WON"} -> "PAID"

\* Once every event that Stripe announced is processed, in whatever order, by whatever
\* processes and however often, the order says what Stripe says: two requests that read
\* the truth at different times cannot leave the older reading behind, neither on the
\* retry of the one nor with the deletion of the account between them
\* (stripe-webhook.service.ts:68-71 with 185-210).
SettledMirrors ==
  (stripe.paid /\ \A e \in Emitted : receipt[e] = "PROCESSED") =>
    order.paidAt /\ order.status = Mirror /\ order.refundedAmount = stripe.refunded

\* A commit never rests on an older reading than the commit before it, although reads
\* take long and their requests overtake each other.
NoStaleCommit ==
  [][/\ committed'.payment >= committed.payment
     /\ committed'.listed >= committed.listed]_vars

\* An order and its grant, two tables written by different services, agree at every
\* moment: a paid order is served, a disputed one is suspended, a refunded one is
\* revoked, an unpaid one has no grant, and a deleted account is never served.
GrantFollowsOrder ==
  IF deleted THEN grant \in {"NONE", "REVOKED"}
  ELSE grant = CASE order.status \in {"PAID", "PARTIALLY_REFUNDED"} -> "ACTIVE"
                 [] order.status = "DISPUTED" -> "SUSPENDED"
                 [] order.status = "REFUNDED" -> "REVOKED"
                 [] OTHER -> "NONE"

\* "Order financial state must not regress due to delayed events"
\* (docs/contracts/sentence-lab-v1.md:13): a refund is final, refunded money is never
\* taken back and a paid order never becomes unpaid.
FinancialForward ==
  [][/\ order.status = "REFUNDED" => order'.status = "REFUNDED"
     /\ order'.refundedAmount >= order.refundedAmount
     /\ order.paidAt => order'.paidAt /\ order'.status \notin {"PENDING", "FAILED", "EXPIRED"}]_vars

\* Stripe stops delivering what was answered with success, so nothing is answered that
\* was not committed, by whatever process stored its receipt and died ("Durable event
\* receipt, transactional grant, non-2xx on retryable failure",
\* docs/contracts/sentence-lab-v1.md:21).
AnsweredIsDone == \A e \in answered : receipt[e] = "PROCESSED"
=============================================================================
