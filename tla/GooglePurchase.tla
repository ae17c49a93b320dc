--------------------------- MODULE GooglePurchase ---------------------------
(***************************************************************************)
(* The durable queue row of one Google Play purchase token.                *)
(*                                                                         *)
(* Notifications, voided-purchase records and the client only enqueue the  *)
(* token: they raise the row's revision.  Processes claim the row for two  *)
(* minutes, ask Google for the purchase and then for its order, commit     *)
(* order and grant under the account lock and consume the purchase.  Every *)
(* write of a process is fenced by the lease token and the revision of the *)
(* row as it re-read it after its claim: a process that is late for that   *)
(* re-read finds the token of its successor, and shares its fence.         *)
(***************************************************************************)
EXTENDS Integers, FiniteSets

CONSTANTS
  Workers,      \* processes of the server
  Amount,       \* amount of the order
  MaxEvents,    \* bound on the events of the purchase
  MaxRevision,  \* the client asks for a verification below this revision
  MaxMishaps,   \* bound on failing and lagging reads, dying and stalling processes
  None          \* no lease, no request

ASSUME PurchaseAssumption ==
  /\ None \notin Workers
  /\ Amount \in Nat \ {0} /\ MaxEvents \in Nat /\ MaxRevision \in Nat /\ MaxMishaps \in Nat

VARIABLES
  play,      \* what Google knows of the purchase and its order
  before,    \* what it knew before the last change: a lagging read returns it
  announced, \* number of events announced so far
  receipt,   \* status of the BillingEvent rows
  row,       \* the GooglePlayPurchase row
  order,     \* the PaymentOrder row
  grant,     \* status of the order's EntitlementGrant
  deleted,   \* the owner's account is deleted
  request,   \* what each process holds in memory
  lagged,    \* history: a read of Google has lagged
  shared,    \* history: two processes have shared a lease
  mishaps

vars == <<play, before, announced, receipt, row, order, grant, deleted, request, lagged, shared,
          mishaps>>

google == <<play, before, announced>>
tables == <<receipt, row, order, grant>>
history == <<lagged, shared>>

Events == 1..MaxEvents

\* kind: a pass of this application, a licence test in the live environment, or
\* another product.  completed: the payment went through, so an order exists, whose
\* lastEventTime is time.  attributed: the owner's account id is known.
Play == [kind : {"PASS", "TEST", "OTHER"}, state : {"PENDING", "PURCHASED", "CANCELLED"},
         completed : BOOLEAN, attributed : BOOLEAN, consumed : BOOLEAN,
         refunded : 0..Amount, time : 0..MaxEvents]

States == {"RECEIVED", "PENDING", "CANCELLED", "AWAITING_OWNER", "VERIFIED", "REFUNDED",
           "IGNORED", "IGNORED_TEST"}

Consumption == {"NOT_READY", "PENDING", "CONSUMED", "NOT_APPLICABLE", "MANUAL_REVIEW"}

Revisions == 0..(MaxRevision + MaxEvents + 1)

\* The row exists from revision 1 on; lastEventTime is 0 before an order was read.
\* leased: a lease runs; carriers: the processes that hold a copy of the row with its
\* token (every claim draws a new one, which nobody carries yet).
Row == [state : States, owner : BOOLEAN, linked : BOOLEAN, lastEventTime : 0..MaxEvents,
        consume : Consumption, revision : Revisions,
        leased : BOOLEAN, carriers : SUBSET Workers]

Order == [status : {"NONE", "PAID", "PARTIALLY_REFUNDED", "REFUNDED"}, refundedAmount : 0..Amount]

\* What the two requests to Google tell.
PurchaseRead == [kind : {"PASS", "TEST", "OTHER"}, state : {"PENDING", "PURCHASED", "CANCELLED"},
                 completed : BOOLEAN, attributed : BOOLEAN, consumed : BOOLEAN]
OrderRead == [refunded : 0..Amount, time : 0..MaxEvents]

\* held: what is used of the row as it was re-read; consume: what the last
\* write will say.
Held == [state : States, owner : BOOLEAN, linked : BOOLEAN, lastEventTime : 0..MaxEvents,
         revision : Revisions]

Request == [step : {"REREAD", "PURCHASE", "JUDGE", "SETTLE", "CHECK", "CONSUME", "FINISH"},
            held : Held, purchase : PurchaseRead, order : OrderRead,
            consume : Consumption]

TypeOK ==
  /\ play \in Play /\ before \in Play
  /\ announced \in 0..MaxEvents
  /\ receipt \in [Events -> {"NONE", "RECEIVED", "PROCESSED"}]
  /\ row \in Row /\ order \in Order
  /\ grant \in {"NONE", "ACTIVE", "REVOKED"}
  /\ deleted \in BOOLEAN /\ lagged \in BOOLEAN /\ shared \in BOOLEAN
  /\ request \in [Workers -> Request \cup {None}]
  /\ mishaps \in 0..MaxMishaps

Unread == [kind |-> "OTHER", state |-> "PENDING", completed |-> FALSE, attributed |-> FALSE,
           consumed |-> FALSE, refunded |-> 0, time |-> 0]

NewRow == [state |-> "RECEIVED", owner |-> FALSE, linked |-> FALSE, lastEventTime |-> 0,
           consume |-> "NOT_READY", revision |-> 0, leased |-> FALSE, carriers |-> {}]

Init ==
  /\ \E kind \in {"PASS", "TEST", "OTHER"}, known \in BOOLEAN :
       play = [Unread EXCEPT !.kind = kind, !.attributed = known]
  /\ before = play
  /\ announced = 0
  /\ receipt = [e \in Events |-> "NONE"]
  /\ row = NewRow
  /\ order = [status |-> "NONE", refundedAmount |-> 0]
  /\ grant = "NONE"
  /\ deleted = FALSE
  /\ request = [w \in Workers |-> None]
  /\ lagged = FALSE /\ shared = FALSE
  /\ mishaps = 0

Mishap == mishaps < MaxMishaps /\ mishaps' = mishaps + 1

-----------------------------------------------------------------------------
(* Google and the owner of the account.                                    *)

Becomes(new) ==
  /\ play' = new
  /\ before' = play
  /\ UNCHANGED <<tables, deleted, request, history, mishaps>>

\* A change of the purchase is announced by an event.
Announce(new) ==
  /\ announced < MaxEvents
  /\ announced' = announced + 1
  /\ Becomes(new)

Complete ==
  /\ play.state = "PENDING"
  /\ Announce([play EXCEPT !.state = "PURCHASED", !.completed = TRUE, !.time = 1])

Cancel ==
  /\ play.state = "PENDING"
  /\ Announce([play EXCEPT !.state = "CANCELLED"])

\* A full refund may cancel the purchase, too.
Refund(total) ==
  /\ play.completed
  /\ play.refunded < total
  /\ \E state \in {play.state, "CANCELLED"} :
       /\ total < Amount => state = play.state
       /\ Announce([play EXCEPT !.refunded = total, !.time = play.time + 1, !.state = state])

\* The purchase turns out to carry the id of an account.
Attribute ==
  /\ ~play.attributed
  /\ Becomes([play EXCEPT !.attributed = TRUE])
  /\ UNCHANGED announced

\* No lease runs: released, expired or taken away.
Unleased(r) == [r EXCEPT !.leased = FALSE, !.carriers = {}]

Revoked == IF grant = "NONE" THEN "NONE" ELSE "REVOKED"

\* The deletion of the account fences the processes that work on its purchases.
DeleteAccount ==
  /\ ~deleted
  /\ deleted' = TRUE
  /\ grant' = Revoked
  /\ row' = IF row.owner
            THEN [Unleased(row) EXCEPT !.revision = row.revision + 1]
            ELSE row
  /\ UNCHANGED <<google, receipt, order, request, history, mishaps>>

-----------------------------------------------------------------------------
(* The queue.                                                              *)

Ignored == row.state = "IGNORED_TEST"

\* enqueue(): the row is created if need be.
Enqueued == IF Ignored THEN row ELSE [row EXCEPT !.revision = row.revision + 1]

FirstStored(e) == receipt[e] = "NONE"

\* record(): the event and its effect on the queue in one transaction; an event that is
\* known changes nothing, and no message is delivered without end.
Record(e) ==
  /\ e <= announced
  /\ FirstStored(e)
  /\ receipt' = [receipt EXCEPT ![e] = IF Ignored THEN "PROCESSED" ELSE "RECEIVED"]
  /\ row' = Enqueued
  /\ UNCHANGED <<google, order, grant, deleted, request, history, mishaps>>

\* The client asks for the verification of its purchase.
Verify ==
  /\ row.revision < MaxRevision
  /\ row' = Enqueued
  /\ UNCHANGED <<google, receipt, order, grant, deleted, request, history, mishaps>>

PurchaseOf(p) == [kind |-> p.kind, state |-> p.state, completed |-> p.completed,
                  attributed |-> p.attributed, consumed |-> p.consumed]
OrderOf(p) == [refunded |-> p.refunded, time |-> p.time]

HeldOf(r) == [state |-> r.state, owner |-> r.owner, linked |-> r.linked,
              lastEventTime |-> r.lastEventTime, revision |-> r.revision]

\* A request that has read nothing (yet, or any more).
Blank(step, held, consume) ==
  [step |-> step, held |-> held, purchase |-> PurchaseOf(Unread), order |-> OrderOf(Unread),
   consume |-> consume]

\* claim(): the conditional update draws a new token.  (That the revision is still the
\* one read before it restricts only when the update fails.)
Claim(w) ==
  /\ request[w] = None
  /\ row.revision > 0
  /\ ~Ignored
  /\ ~row.leased
  /\ row' = [row EXCEPT !.leased = TRUE, !.carriers = {}]
  /\ request' = [request EXCEPT ![w] = Blank("REREAD", HeldOf(NewRow), "NOT_READY")]
  /\ UNCHANGED <<google, receipt, order, grant, deleted, history, mishaps>>

\* Then the row is read again, by itself: whatever token it has by now is carried.
Reread(w) ==
  /\ request[w] # None /\ request[w].step = "REREAD"
  /\ row' = IF row.leased THEN [row EXCEPT !.carriers = row.carriers \cup {w}] ELSE row
  /\ shared' = (shared \/ \E v \in row.carriers : request[v] # None)
  /\ request' = [request EXCEPT ![w] = Blank("PURCHASE", HeldOf(row), "NOT_READY")]
  /\ UNCHANGED <<google, receipt, order, grant, deleted, lagged, mishaps>>

-----------------------------------------------------------------------------
(* The reconciliation of a claimed row.                                    *)

At(w, step) == request[w] # None /\ request[w].step = step

Proceed(w, held) == request' = [request EXCEPT ![w] = held]

Drop(w) == Proceed(w, None)

\* (mutant LeaseOnly: the revision is not compared)
LeaseOnly(w) == w \in row.carriers

\* fence(): the lease runs under the token that was read, and nothing was enqueued since.
FenceHolds(w) == w \in row.carriers /\ row.revision = request[w].held.revision

\* What a read returns: the truth, or what was true before its last change.
Answers(w, answer) ==
  \/ answer = play /\ UNCHANGED <<history, mishaps>>
  \/ answer = before /\ before # play /\ lagged' = TRUE /\ UNCHANGED shared /\ Mishap

ReadPurchase(w) ==
  /\ At(w, "PURCHASE")
  /\ \E answer \in {play, before} :
       /\ Answers(w, answer)
       /\ Proceed(w, [request[w] EXCEPT !.step = "JUDGE", !.purchase = PurchaseOf(answer)])
  /\ UNCHANGED <<google, tables, deleted>>

\* release(), after a write of the row in the same statement.
Release(w, new) ==
  /\ row' = Unleased(new)
  /\ Drop(w)
  /\ UNCHANGED <<google, order, grant, deleted, history, mishaps>>

\* Whatever is known of the purchase is dealt with.
Processed == [e \in Events |-> IF receipt[e] = "RECEIVED" THEN "PROCESSED" ELSE receipt[e]]

\* A licence test in the live environment that was never linked is closed for good.
LiveTest(q) == q.purchase.kind = "TEST"

IgnoreTest(w) ==
  /\ At(w, "JUDGE") /\ LiveTest(request[w])
  /\ FenceHolds(w)
  /\ Release(w, [row EXCEPT !.state = "IGNORED_TEST", !.consume = "NOT_APPLICABLE"])
  /\ receipt' = Processed

\* Another product is looked at again in thirty days.
IgnoreOther(w) ==
  /\ At(w, "JUDGE") /\ request[w].purchase.kind = "OTHER"
  /\ FenceHolds(w)
  /\ Release(w, [row EXCEPT !.state = "IGNORED"])
  /\ UNCHANGED receipt

\* A purchase of a known owner comes back without him.
OwnerMismatch(q) == q.held.owner /\ ~q.purchase.attributed

\* No money has moved and none ever did.
Unpaid(q) ==
  /\ ~q.held.linked /\ q.held.lastEventTime = 0 /\ ~q.purchase.completed
  /\ q.held.state \notin {"VERIFIED", "REFUNDED"}

Judged(w) == At(w, "JUDGE") /\ request[w].purchase.kind = "PASS" /\ ~OwnerMismatch(request[w])

\* The update itself asks again that the row has no order.
Orderless == ~row.linked /\ row.lastEventTime = 0

SettleUnpaid(w) ==
  LET q == request[w]
      known == q.purchase.attributed
      over == known /\ q.purchase.state = "CANCELLED"
  IN /\ Judged(w) /\ Unpaid(q)
     /\ FenceHolds(w) /\ Orderless
     /\ Release(w, [row EXCEPT !.owner = row.owner \/ known,
                      !.state = IF known THEN q.purchase.state ELSE "AWAITING_OWNER",
                      !.consume = IF over THEN "NOT_APPLICABLE" ELSE "NOT_READY"])
     /\ receipt' = IF over THEN Processed ELSE receipt

ReadOrder(w) ==
  /\ Judged(w) /\ ~Unpaid(request[w])
  /\ \E answer \in {play, before} :
       /\ answer.completed
       /\ Answers(w, answer)
       /\ Proceed(w, [request[w] EXCEPT !.step = "SETTLE", !.order = OrderOf(answer)])
  /\ UNCHANGED <<google, tables, deleted>>

\* (mutant NeverStale: the times of the orders are not compared)
NeverStale(q) == FALSE

\* Google answered with less than the row knows already.
Stale(q) == q.order.time < q.held.lastEventTime

FullRefund(q) == q.held.state = "REFUNDED" \/ q.order.refunded = Amount

Conflict(q) == q.held.linked /\ ~FullRefund(q) /\ q.purchase.state # "PURCHASED"

Settled(w) == At(w, "SETTLE") /\ ~Stale(request[w]) /\ ~Conflict(request[w])

PutOff(w) ==
  /\ At(w, "SETTLE") /\ Stale(request[w])
  /\ FenceHolds(w)
  /\ Release(w, row)
  /\ UNCHANGED receipt

\* A refund is remembered even before its owner is known.
AwaitOwner(w) ==
  LET q == request[w]
  IN /\ Settled(w) /\ ~q.purchase.attributed
     /\ FenceHolds(w)
     /\ Release(w, [row EXCEPT !.state = IF FullRefund(q) THEN "REFUNDED" ELSE "AWAITING_OWNER",
                               !.lastEventTime = q.order.time])
     /\ UNCHANGED receipt

\* The purchase and its order contradict each other: wait.  (The code's branch for a
\* missing order is not taken: a purchase that gets here has one.)
Payable(q) == FullRefund(q) \/ q.purchase.state = "PURCHASED"

AwaitPayment(w) ==
  LET q == request[w]
  IN /\ Settled(w) /\ q.purchase.attributed /\ ~Payable(q)
     /\ FenceHolds(w)
     /\ Release(w, [row EXCEPT !.owner = TRUE, !.state = q.purchase.state])
     /\ UNCHANGED receipt

Larger(a, b) == IF a > b THEN a ELSE b

\* commit(): full refunds are final, refunded money only grows.
Full(q) == FullRefund(q) \/ order.status = "REFUNDED"

Refunded(q) == Larger(order.refundedAmount, IF Full(q) THEN Amount ELSE q.order.refunded)

NewStatus(q) ==
  IF Full(q) \/ Refunded(q) = Amount THEN "REFUNDED"
  ELSE IF Refunded(q) > 0 THEN "PARTIALLY_REFUNDED" ELSE "PAID"

\* grantOrder(): once.  (mutant GrantKept: a refund does not reach the grant)
Granted == IF grant = "NONE" THEN "ACTIVE" ELSE grant
GrantKept(q) == IF deleted THEN Revoked ELSE IF NewStatus(q) = "REFUNDED" THEN grant ELSE Granted
NewGrant(q) == IF deleted \/ NewStatus(q) = "REFUNDED" THEN Revoked ELSE Granted

\* (mutant ConsumeAll: the purchase of a deleted account is consumed like any other)
ConsumeAll(q) ==
  IF NewStatus(q) = "REFUNDED" THEN [step |-> "FINISH", consume |-> "NOT_APPLICABLE"]
  ELSE [step |-> IF q.purchase.consumed THEN "FINISH" ELSE "CHECK", consume |-> "CONSUMED"]

\* What is left to do after the commit.
Afterwards(q) ==
  IF NewStatus(q) = "REFUNDED" THEN [step |-> "FINISH", consume |-> "NOT_APPLICABLE"]
  ELSE IF deleted THEN [step |-> "FINISH", consume |-> "MANUAL_REVIEW"]
  ELSE [step |-> IF q.purchase.consumed THEN "FINISH" ELSE "CHECK", consume |-> "CONSUMED"]

\* One transaction under the account lock, whose last statement is fenced again.
Commit(w) ==
  LET q == request[w]
  IN /\ Settled(w) /\ q.purchase.attributed /\ Payable(q)
     /\ FenceHolds(w)
     /\ order' = [status |-> NewStatus(q), refundedAmount |-> Refunded(q)]
     /\ grant' = NewGrant(q)
     /\ row' = [row EXCEPT !.owner = TRUE, !.linked = TRUE, !.lastEventTime = q.order.time,
                  !.state = IF NewStatus(q) = "REFUNDED" THEN "REFUNDED" ELSE "VERIFIED",
                  !.consume = IF NewStatus(q) = "REFUNDED" THEN "NOT_APPLICABLE" ELSE "PENDING"]
     /\ receipt' = Processed
     /\ Proceed(w, Blank(Afterwards(q).step, q.held, Afterwards(q).consume))
     /\ UNCHANGED <<google, deleted, history, mishaps>>

\* The fence is asked once more, and then the purchase is consumed without it.
CheckFence(w) ==
  /\ At(w, "CHECK")
  /\ FenceHolds(w)
  /\ Proceed(w, [request[w] EXCEPT !.step = "CONSUME"])
  /\ UNCHANGED <<google, tables, deleted, history, mishaps>>

\* The answer of Google may be lost, and the row released with an error.
Consume(w) ==
  /\ At(w, "CONSUME")
  /\ play' = [play EXCEPT !.consumed = TRUE]
  /\ before' = [before EXCEPT !.consumed = TRUE]
  /\ \/ Proceed(w, [request[w] EXCEPT !.step = "FINISH"]) /\ UNCHANGED <<row, mishaps>>
     \/ /\ Mishap /\ Drop(w)
        /\ row' = IF FenceHolds(w) THEN Unleased(row) ELSE row
  /\ UNCHANGED <<announced, receipt, order, grant, deleted, history>>

Finish(w) ==
  /\ At(w, "FINISH")
  /\ FenceHolds(w)
  /\ Release(w, [row EXCEPT !.consume = request[w].consume])
  /\ UNCHANGED receipt

Writes(w) ==
  \/ At(w, "JUDGE") /\ (request[w].purchase.kind # "PASS" \/ OwnerMismatch(request[w])
                          \/ Unpaid(request[w]))
  \/ \E step \in {"SETTLE", "CHECK", "FINISH"} : At(w, step)

\* A fenced write that matches no row: the request ends without effect.
Overtaken(w) ==
  /\ Writes(w)
  /\ ~FenceHolds(w)
  /\ Drop(w)
  /\ UNCHANGED <<google, tables, deleted, history, mishaps>>

\* Evidence that contradicts the row, as it was re-read or as it is now, is an error of
\* this round.
Refuse(w) ==
  /\ \/ At(w, "JUDGE") /\ request[w].purchase.kind = "PASS" /\ OwnerMismatch(request[w])
     \/ Judged(w) /\ Unpaid(request[w]) /\ ~Orderless
     \/ At(w, "SETTLE") /\ ~Stale(request[w]) /\ Conflict(request[w])
  /\ FenceHolds(w)
  /\ Release(w, row)
  /\ UNCHANGED receipt

\* A provider call or a transaction throws.
Fail(w) ==
  /\ request[w] # None
  /\ Mishap
  /\ Drop(w)
  /\ row' = IF FenceHolds(w) THEN Unleased(row) ELSE row
  /\ UNCHANGED <<google, receipt, order, grant, deleted, history>>

Die(w) ==
  /\ request[w] # None
  /\ Mishap
  /\ Drop(w)
  /\ UNCHANGED <<google, tables, deleted, history>>

\* A process that lives is working under the lease.
InUse == \E w \in Workers : request[w] # None
                          /\ (w \in row.carriers \/ request[w].step = "REREAD")

\* Two minutes pass: a lease is left behind, or its holder stalls.
LeaseExpires ==
  /\ row.leased
  /\ IF InUse THEN Mishap ELSE UNCHANGED mishaps
  /\ row' = Unleased(row)
  /\ UNCHANGED <<google, receipt, order, grant, deleted, request, history>>

Step(w) ==
  \/ Reread(w) \/ ReadPurchase(w) \/ IgnoreTest(w) \/ IgnoreOther(w) \/ SettleUnpaid(w)
  \/ ReadOrder(w) \/ PutOff(w) \/ AwaitOwner(w) \/ AwaitPayment(w) \/ Commit(w)
  \/ CheckFence(w) \/ Consume(w) \/ Finish(w) \/ Overtaken(w) \/ Refuse(w)

Next ==
  \/ Complete \/ Cancel \/ Attribute \/ DeleteAccount \/ Verify \/ LeaseExpires
  \/ \E total \in 1..Amount : Refund(total)
  \/ \E e \in Events : Record(e)
  \/ \E w \in Workers : Claim(w) \/ Step(w) \/ Fail(w) \/ Die(w)

Spec == Init /\ [][Next]_vars
=============================================================================
