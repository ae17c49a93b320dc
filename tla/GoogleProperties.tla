-------------------------- MODULE GoogleProperties --------------------------
(* What the reconciliation of a Play purchase promises.                     *)
EXTENDS GooglePurchase

\* Queue row, order and grant, three tables written by processes that overtake each
\* other.  The money and the service agree at every moment: paid for is served unless
\* the account is deleted, a refund never is, and nothing else is.  A verified row has
\* its payment; and unless two processes have shared a lease, the row says what the
\* order says (google-purchase.service.ts:375-441, 76-97).
TablesAgree ==
  LET paid == order.status \in {"PAID", "PARTIALLY_REFUNDED"}
  IN  /\ row.linked <=> order.status # "NONE"
      /\ grant = "ACTIVE" <=> paid /\ ~deleted
      /\ row.state = "VERIFIED" => paid
      /\ ~shared => /\ paid => row.state = "VERIFIED"
                    /\ order.status = "REFUNDED" => row.state = "REFUNDED"

\* Consuming tells Google that the goods were delivered: nothing is consumed that was
\* not granted, not even by a process whose fence was lost after it was asked; and the
\* row says so only of a payment that was consumed.  A late consumption marks a refund
\* as consumed only under a shared lease (google-purchase.service.ts:293-317).
ConsumedWasServed ==
  /\ play.consumed => grant # "NONE"
  /\ row.consume = "CONSUMED" => /\ play.consumed /\ row.linked
                                 /\ ~shared => row.state = "VERIFIED"

\* Once every event Google announced is closed, the order says what Google says, unless
\* Google itself lags: a notification that arrives while a round runs is never swallowed
\* by that round, whoever runs it and whatever it read before
\* (google-purchase.service.ts:50-53 and 445-453).
SettledMirrors ==
  (~lagged /\ play.kind = "PASS" /\ play.completed
     /\ \A e \in Events : e <= announced => receipt[e] = "PROCESSED") =>
    /\ order.refundedAmount = play.refunded
    /\ order.status = CASE play.refunded = Amount -> "REFUNDED"
                        [] play.refunded = 0 -> "PAID"
                        [] OTHER -> "PARTIALLY_REFUNDED"

\* "Monotonic refundedAmount" (docs/contracts/android-commerce-v1.md:21): refunded money
\* grows, a full refund is final and a revoked service is not revived, although reads of
\* Google lag behind each other and processes share a lease.  The tombstone of the row,
\* "even if it arrived before owner/grant mapping", and the time of its evidence hold
\* unless they do: the time is compared with the copy a process re-read
\* (google-purchase.service.ts:235-245, 355-369, 399-441).
RefundsForward ==
  [][/\ order'.refundedAmount >= order.refundedAmount
     /\ order.status = "REFUNDED" => order'.status = "REFUNDED"
     /\ grant = "REVOKED" => grant' = "REVOKED"
     /\ ~shared' => /\ row.state = "REFUNDED" => row'.state = "REFUNDED"
                    /\ row'.lastEventTime >= row.lastEventTime]_vars
=============================================================================
