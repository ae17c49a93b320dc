---------------------------- MODULE GoogleProofs ----------------------------
(* Machine-checked proofs about the reconciliation of a Play purchase, for   *)
(* any number of processes, events and mishaps and any amount.               *)
EXTENDS GoogleProperties, FiniteSetTheorems, TLAPS

-----------------------------------------------------------------------------
(* The inductive invariant.  It says what a process may rely on as long as   *)
(* its fence holds and nobody shares it: that the row is still as it re-read *)
(* it.  Under a shared fence only what is linked stays linked.               *)

Stored == {e \in Events : receipt[e] # "NONE"}

\* Every event raises the revision once, and the deletion of the account once.
Bounded ==
  /\ row.revision <= MaxRevision + Cardinality(Stored) + (IF deleted THEN 1 ELSE 0)
  /\ play.time <= announced /\ before.time <= announced

\* What is purchased was paid for.
PaidFor(p) == p.state = "PURCHASED" => p.completed

\* Google's answers, late or not, agree in what never changes back.
Truthful ==
  /\ before.kind = play.kind
  /\ before.consumed => play.consumed
  /\ \A p \in {play, before} : PaidFor(p)

RowFacts ==
  /\ row.linked => row.owner
  /\ row.linked \/ row.state = "REFUNDED" => play.kind = "PASS"
  /\ grant = "REVOKED" => deleted \/ order.status = "REFUNDED"

Unchanged(held) ==
  /\ held.state = row.state /\ held.owner = row.owner
  /\ held.linked = row.linked /\ held.lastEventTime = row.lastEventTime

Reading(w) == At(w, "PURCHASE") \/ At(w, "JUDGE") \/ At(w, "SETTLE")
Ending(w) == At(w, "CHECK") \/ At(w, "CONSUME") \/ At(w, "FINISH")

\* Unless a lease was shared, no two processes that live carry its token.
OneCarrier ==
  ~shared => \A v, w \in row.carriers : request[v] # None /\ request[w] # None => v = w

Sees(w) ==
  LET q == request[w]
  IN /\ q.held.revision <= row.revision
     /\ At(w, "JUDGE") \/ At(w, "SETTLE") =>
          /\ q.purchase.kind = play.kind /\ (q.purchase.consumed => play.consumed)
          /\ PaidFor(q.purchase)
     /\ At(w, "SETTLE") => q.purchase.kind = "PASS" /\ ~OwnerMismatch(q)
     /\ Reading(w) /\ FenceHolds(w) /\ ~shared => Unchanged(q.held)
     /\ At(w, "CHECK") \/ At(w, "CONSUME") => q.consume = "CONSUMED"
     /\ Ending(w) /\ q.consume = "CONSUMED" => grant # "NONE" /\ row.linked
     /\ Ending(w) /\ q.consume = "CONSUMED" /\ FenceHolds(w) /\ ~shared => row.state = "VERIFIED"
     /\ At(w, "FINISH") /\ q.consume = "CONSUMED" => play.consumed

Requests == \A w \in Workers : request[w] # None => Sees(w)

IInv == /\ TypeOK /\ Bounded /\ Truthful /\ RowFacts /\ OneCarrier /\ Requests
        /\ TablesAgree /\ ConsumedWasServed

-----------------------------------------------------------------------------
(* Counting the events.                                                      *)

LEMMA StoredCounts ==
  IsFiniteSet(Stored) /\ Cardinality(Stored) \in Nat /\ Cardinality(Stored) <= MaxEvents
  <1>1. IsFiniteSet(Events) /\ Cardinality(Events) = MaxEvents
    BY PurchaseAssumption, FS_Interval DEF Events
  <1>2. Stored \in SUBSET Events
    BY DEF Stored
  <1>3. IsFiniteSet(Stored) /\ Cardinality(Stored) <= MaxEvents
    BY <1>1, <1>2, FS_Subset
  <1> QED
    BY <1>3, FS_CardinalityType

LEMMA StoredStays ==
  ASSUME \A e \in Events : receipt'[e] = "NONE" <=> receipt[e] = "NONE"
  PROVE  Stored' = Stored
  BY DEF Stored, Events

LEMMA StoredGrows ==
  ASSUME NEW e \in Events, receipt[e] = "NONE", TypeOK,
         NEW s, s # "NONE", receipt' = [receipt EXCEPT ![e] = s]
  PROVE  Cardinality(Stored') = Cardinality(Stored) + 1
  <1>1. Stored' = Stored \cup {e}
    BY DEF Stored, Events, TypeOK
  <1>2. e \notin Stored
    BY DEF Stored
  <1>3. Cardinality(Stored \cup {e}) = Cardinality(Stored) + 1
    BY <1>2, StoredCounts, FS_AddElement
  <1> QED
    BY <1>1, <1>3

\* Closing events stores none.
LEMMA ProcessedStored ==
  ASSUME TypeOK, receipt' = Processed \/ receipt' = receipt
  PROVE  /\ receipt' \in [Events -> {"NONE", "RECEIVED", "PROCESSED"}]
         /\ Stored' = Stored
  <1>1. receipt' \in [Events -> {"NONE", "RECEIVED", "PROCESSED"}]
    BY DEF TypeOK, Processed
  <1>2. \A e \in Events : receipt'[e] = "NONE" <=> receipt[e] = "NONE"
    BY DEF TypeOK, Processed
  <1> QED
    BY <1>1, <1>2, StoredStays

\* A natural revision within its count is in its range.
LEMMA RevisionTyped ==
  ASSUME NEW n \in Nat, NEW gone \in BOOLEAN,
         n <= MaxRevision + Cardinality(Stored) + (IF gone THEN 1 ELSE 0)
  PROVE  n \in Revisions
  BY StoredCounts, PurchaseAssumption DEF Revisions

-----------------------------------------------------------------------------
(* What a process knows outlives the steps of others.                        *)

LEMMA SeesStays ==
  ASSUME NEW v \in Workers, TypeOK, row' \in Row, Sees(v), request'[v] = request[v], request[v] # None,
         play'.kind = play.kind, play.consumed => play'.consumed,
         grant # "NONE" => grant' # "NONE", row.linked => row'.linked,
         row.revision <= row'.revision,
         FenceHolds(v)' /\ ~shared' =>
           /\ FenceHolds(v) /\ ~shared
           /\ row'.state = row.state /\ row'.owner = row.owner
           /\ row'.linked = row.linked /\ row'.lastEventTime = row.lastEventTime
  PROVE  Sees(v)'
  <1> DEFINE q == request[v]
  <1>1. q \in Request /\ row \in Row
    BY DEF TypeOK
  <1>2. q.held.revision \in Nat /\ row.revision \in Nat /\ row'.revision \in Nat
    BY <1>1, PurchaseAssumption DEF Request, Held, Row, Revisions
  <1>3. q.held.revision <= row'.revision
    BY <1>2 DEF Sees
  <1>4. \A step : At(v, step)' <=> At(v, step)
    BY DEF At
  <1>5. (Reading(v)' <=> Reading(v)) /\ (Ending(v)' <=> Ending(v))
    BY <1>4 DEF Reading, Ending
  <1>6. Reading(v) /\ FenceHolds(v)' /\ ~shared' => Unchanged(q.held)'
    BY DEF Sees, Unchanged
  <1> QED
    BY <1>3, <1>4, <1>5, <1>6 DEF Sees, OwnerMismatch

\* Nobody else holds the fence while a process does, unless they share it.
LEMMA OneFence ==
  ASSUME IInv, NEW w \in Workers, NEW v \in Workers, v # w, request[w] # None, request[v] # None,
         FenceHolds(w), FenceHolds(v)
  PROVE  shared
  BY DEF FenceHolds, IInv, OneCarrier

\* Only a process that re-reads the row becomes a carrier of its token.
LEMMA CarriersStay ==
  ASSUME IInv, row'.carriers \subseteq row.carriers, shared => shared', TypeOK',
         \A v \in Workers : request'[v] # None => request[v] # None
  PROVE  OneCarrier'
  <1>1. row'.carriers \subseteq Workers
    BY DEF TypeOK, Row
  <1> QED
    BY <1>1 DEF IInv, OneCarrier

\* The requests after a step of somebody who changes no row and takes nothing back.
LEMMA RequestsStay ==
  ASSUME IInv, row' = row, request' = request, shared' = shared, play'.kind = play.kind,
         play.consumed => play'.consumed, grant # "NONE" => grant' # "NONE"
  PROVE  Requests'
  <1> SUFFICES ASSUME NEW v \in Workers, request'[v] # None
               PROVE  Sees(v)'
    BY DEF Requests
  <1>1. Sees(v) /\ TypeOK
    BY DEF IInv, Requests
  <1>2. row \in Row /\ row.revision \in Nat
    BY <1>1, PurchaseAssumption DEF TypeOK, Row, Revisions
  <1>3. FenceHolds(v)' => FenceHolds(v)
    BY DEF FenceHolds
  <1> QED
    BY <1>1, <1>2, <1>3, SeesStays

-----------------------------------------------------------------------------
(* Google, the owner and the queue.                                          *)

LEMMA BecomesKeeps ==
  ASSUME IInv, NEW new \in Play, Becomes(new), announced' \in 0..MaxEvents, announced <= announced',
         new.kind = play.kind, new.consumed = play.consumed, new.time <= announced',
         PaidFor(new)
  PROVE  IInv'
  <1> USE DEF Becomes, tables, history
  <1>1. TypeOK'
    BY DEF IInv, TypeOK
  <1>2. Bounded'
    <2>1. play \in Play /\ play.time \in Nat /\ announced \in Nat /\ announced' \in Nat
      BY PurchaseAssumption DEF IInv, TypeOK, Play
    <2>2. play.time <= announced'
      BY <2>1 DEF IInv, Bounded
    <2>3. Stored' = Stored
      BY DEF Stored
    <2> QED
      BY <2>2, <2>3 DEF IInv, Bounded
  <1>3. Truthful' /\ RowFacts' /\ OneCarrier'
    BY DEF IInv, Truthful, RowFacts, PaidFor, OneCarrier
  <1>4. Requests'
    BY RequestsStay
  <1>5. TablesAgree' /\ ConsumedWasServed'
    BY DEF IInv, TablesAgree, ConsumedWasServed
  <1> QED
    BY <1>1, <1>2, <1>3, <1>4, <1>5 DEF IInv

LEMMA AnnounceKeeps ==
  ASSUME IInv, NEW new \in Play, Announce(new),
         new.kind = play.kind, new.consumed = play.consumed, new.time <= play.time + 1,
         PaidFor(new)
  PROVE  IInv'
  <1>1. announced \in 0..MaxEvents /\ announced' = announced + 1 /\ announced < MaxEvents
    BY DEF Announce, IInv, TypeOK
  <1>2. announced' \in 0..MaxEvents /\ announced <= announced'
    BY <1>1, PurchaseAssumption
  <1>3. play.time \in Nat /\ new.time \in Nat /\ play.time <= announced
    BY PurchaseAssumption DEF IInv, TypeOK, Bounded, Play
  <1>4. new.time <= announced'
    BY <1>1, <1>3
  <1> QED
    BY <1>2, <1>4, BecomesKeeps DEF Announce

\* The next event leaves room for one more event of the order.
LEMMA TimeFits ==
  ASSUME IInv, announced < MaxEvents
  PROVE  play.time + 1 \in 0..MaxEvents /\ 1 \in 0..MaxEvents
  BY PurchaseAssumption DEF IInv, TypeOK, Bounded, Play

LEMMA GoogleKeeps ==
  ASSUME IInv, Complete \/ Cancel \/ Attribute \/ \E total \in 1..Amount : Refund(total)
  PROVE  IInv'
  <1>0. play \in Play /\ play.time \in Nat /\ announced \in 0..MaxEvents /\ play.time <= announced
    BY PurchaseAssumption DEF IInv, TypeOK, Bounded, Play
  <1>5. PaidFor(play)
    BY DEF IInv, Truthful
  <1>1. CASE Complete
    <2> DEFINE new == [play EXCEPT !.state = "PURCHASED", !.completed = TRUE, !.time = 1]
    <2>1. announced < MaxEvents /\ Announce(new)
      BY <1>1 DEF Complete, Announce
    <2>2. new \in Play /\ new.kind = play.kind /\ new.consumed = play.consumed /\ new.time = 1
          /\ PaidFor(new)
      BY <1>0, <2>1, TimeFits DEF Play, PaidFor
    <2> HIDE DEF new
    <2> QED
      BY <1>0, <2>1, <2>2, AnnounceKeeps
  <1>2. CASE Cancel
    <2> DEFINE new == [play EXCEPT !.state = "CANCELLED"]
    <2>1. Announce(new)
      BY <1>2 DEF Cancel
    <2>2. new \in Play /\ new.kind = play.kind /\ new.consumed = play.consumed /\ new.time = play.time
          /\ PaidFor(new)
      BY <1>0, <1>5 DEF Play, PaidFor
    <2> HIDE DEF new
    <2> QED
      BY <1>0, <2>1, <2>2, AnnounceKeeps
  <1>3. CASE Attribute
    <2> DEFINE new == [play EXCEPT !.attributed = TRUE]
    <2>1. Becomes(new) /\ announced' = announced
      BY <1>3 DEF Attribute
    <2>2. new \in Play /\ new.kind = play.kind /\ new.consumed = play.consumed /\ new.time = play.time
          /\ PaidFor(new)
      BY <1>0, <1>5 DEF Play, PaidFor
    <2> HIDE DEF new
    <2> QED
      BY <1>0, <2>1, <2>2, BecomesKeeps
  <1>4. ASSUME NEW total \in 1..Amount, Refund(total)
        PROVE  IInv'
    <2>1. PICK state \in {play.state, "CANCELLED"} :
            Announce([play EXCEPT !.refunded = total, !.time = play.time + 1, !.state = state])
      BY <1>4 DEF Refund
    <2> DEFINE new == [play EXCEPT !.refunded = total, !.time = play.time + 1, !.state = state]
    <2>2. announced < MaxEvents /\ Announce(new)
      BY <2>1 DEF Announce
    <2>3. /\ new \in Play /\ new.kind = play.kind /\ new.consumed = play.consumed
          /\ new.time = play.time + 1 /\ PaidFor(new)
      <3>1. state \in {"PENDING", "PURCHASED", "CANCELLED"} /\ total \in 0..Amount
        BY <1>0, PurchaseAssumption DEF Play
      <3> QED
        BY <1>0, <1>4, <2>2, <3>1, TimeFits DEF Play, PaidFor, Refund
    <2> HIDE DEF new
    <2> QED
      BY <1>0, <2>2, <2>3, AnnounceKeeps
  <1> QED
    BY <1>1, <1>2, <1>3, <1>4

\* The fence of a claim that was overtaken never holds again.
LEMMA Outdated ==
  ASSUME IInv, NEW v \in Workers, request[v] # None, row.revision < row'.revision,
         row' \in Row, request'[v] = request[v]
  PROVE  ~FenceHolds(v)'
  <1>1. request[v] \in Request /\ row \in Row /\ Sees(v)
    BY DEF IInv, TypeOK, Requests
  <1>2. request[v].held.revision \in Nat /\ row.revision \in Nat /\ row'.revision \in Nat
    BY <1>1, PurchaseAssumption DEF Request, Held, Row, Revisions
  <1>3. request[v].held.revision <= row.revision
    BY <1>1 DEF Sees
  <1> QED
    BY <1>2, <1>3 DEF FenceHolds

LEMMA EnqueuedKeeps ==
  ASSUME IInv, row' = Enqueued, TypeOK', Bounded',
         UNCHANGED <<google, order, grant, deleted, request, history>>
  PROVE  IInv'
  <1> USE DEF google, history
  <1>1. row \in Row /\ row' \in Row /\ row.revision \in Nat
    BY PurchaseAssumption DEF IInv, TypeOK, Row, Revisions
  <1>2. /\ row'.state = row.state /\ row'.owner = row.owner /\ row'.linked = row.linked
        /\ row'.lastEventTime = row.lastEventTime /\ row'.consume = row.consume
        /\ row'.carriers = row.carriers
        /\ row'.revision = row.revision \/ row'.revision = row.revision + 1
    BY <1>1 DEF Enqueued, Row
  <1>3. Requests'
    <2> SUFFICES ASSUME NEW v \in Workers, request'[v] # None
                 PROVE  Sees(v)'
      BY DEF Requests
    <2>1. Sees(v) /\ TypeOK
      BY DEF IInv, Requests
    <2>2. FenceHolds(v)' => FenceHolds(v)
      <3>1. CASE row'.revision = row.revision
        BY <1>2, <3>1 DEF FenceHolds
      <3>2. CASE row'.revision = row.revision + 1
        BY <1>1, <3>2, Outdated
      <3> QED
        BY <1>2, <3>1, <3>2
    <2>3. row.revision <= row'.revision
      BY <1>1, <1>2
    <2> QED
      BY <1>1, <1>2, <2>1, <2>2, <2>3, SeesStays
  <1>4. Truthful' /\ RowFacts' /\ TablesAgree' /\ ConsumedWasServed'
    BY <1>2 DEF IInv, Truthful, RowFacts, TablesAgree, ConsumedWasServed
  <1>5. OneCarrier'
    BY <1>2, CarriersStay
  <1> QED
    BY <1>3, <1>4, <1>5 DEF IInv

LEMMA QueueKeeps ==
  ASSUME IInv, Verify \/ (\E e \in Events : Record(e))
  PROVE  IInv'
  <1>0. row \in Row /\ row.revision \in Nat /\ TypeOK /\ Bounded /\ deleted \in BOOLEAN
    BY PurchaseAssumption DEF IInv, TypeOK, Row, Revisions
  <1>1. CASE Verify
    <2>1. row.revision < MaxRevision /\ row' = Enqueued /\ receipt' = receipt
          /\ UNCHANGED <<google, order, grant, deleted, request, history, mishaps>>
      BY <1>1 DEF Verify
    <2>2. Stored' = Stored
      BY <2>1 DEF Stored
    <2>3. row'.revision \in Nat /\ row'.revision <= MaxRevision
      BY <1>0, <2>1, PurchaseAssumption DEF Enqueued, Row
    <2>4. Bounded'
      BY <1>0, <2>1, <2>2, <2>3, StoredCounts, PurchaseAssumption DEF Bounded, google
    <2>5. row' \in Row
      <3>1. row'.revision \in Revisions
        BY <2>3, PurchaseAssumption DEF Revisions
      <3> QED
        BY <1>0, <2>1, <3>1 DEF Enqueued, Row
    <2>6. TypeOK'
      BY <1>0, <2>1, <2>5 DEF TypeOK, google, history
    <2> QED
      BY <2>1, <2>4, <2>6, EnqueuedKeeps
  <1>2. ASSUME NEW e \in Events, Record(e)
        PROVE  IInv'
    <2>1. receipt[e] = "NONE" /\ row' = Enqueued
          /\ UNCHANGED <<google, order, grant, deleted, request, history, mishaps>>
      BY <1>2 DEF Record, FirstStored
    <2>2. PICK s \in {"RECEIVED", "PROCESSED"} : receipt' = [receipt EXCEPT ![e] = s]
      BY <1>2 DEF Record
    <2>3. Cardinality(Stored') = Cardinality(Stored) + 1
      BY <1>0, <2>1, <2>2, StoredGrows
    <2>4. receipt' \in [Events -> {"NONE", "RECEIVED", "PROCESSED"}]
      BY <1>0, <2>2 DEF TypeOK
    <2>5. row'.revision \in Nat /\ row'.revision <= row.revision + 1
      BY <1>0, <2>1 DEF Enqueued, Row
    <2>6. row'.revision <= MaxRevision + Cardinality(Stored') + (IF deleted' THEN 1 ELSE 0)
      BY <1>0, <2>1, <2>3, <2>5, StoredCounts, PurchaseAssumption DEF Bounded
    <2>7. Bounded'
      BY <1>0, <2>1, <2>6 DEF Bounded, google
    <2>8. row'.revision \in Revisions
      <3>1. Cardinality(Stored') <= MaxEvents /\ Cardinality(Stored') \in Nat
        <4>1. Stored' \in SUBSET Events
          BY DEF Stored, Events
        <4>2. IsFiniteSet(Events) /\ Cardinality(Events) = MaxEvents
          BY PurchaseAssumption, FS_Interval DEF Events
        <4>3. IsFiniteSet(Stored') /\ Cardinality(Stored') <= MaxEvents
          BY <4>1, <4>2, FS_Subset
        <4> QED
          BY <4>3, FS_CardinalityType
      <3> QED
        BY <2>1, <2>5, <2>6, <3>1, <1>0, PurchaseAssumption DEF Revisions
    <2>9. row' \in Row
      BY <1>0, <2>1, <2>8 DEF Enqueued, Row
    <2>10. TypeOK'
      BY <1>0, <2>1, <2>4, <2>9 DEF TypeOK, google, history
    <2> QED
      BY <2>1, <2>7, <2>10, EnqueuedKeeps
  <1> QED
    BY <1>1, <1>2

LEMMA DeleteKeeps ==
  ASSUME IInv, DeleteAccount
  PROVE  IInv'
  <1> USE DEF google, history
  <1>0. row \in Row /\ row.revision \in Nat /\ TypeOK /\ Bounded /\ None \notin Workers
    BY PurchaseAssumption DEF IInv, TypeOK, Row, Revisions
  <1>1. /\ ~deleted /\ deleted' = TRUE /\ grant' = Revoked
        /\ UNCHANGED <<google, receipt, order, request, history, mishaps>>
        /\ row' = IF row.owner
                  THEN [row EXCEPT !.revision = row.revision + 1, !.leased = FALSE, !.carriers = {}]
                  ELSE row
    BY <1>0 DEF DeleteAccount, Unleased, Row
  <1>2. /\ row'.state = row.state /\ row'.owner = row.owner /\ row'.linked = row.linked
        /\ row'.lastEventTime = row.lastEventTime /\ row'.consume = row.consume
        /\ row'.revision \in Nat
        /\ row' = row \/ row'.revision = row.revision + 1
        /\ row'.carriers \subseteq row.carriers
    BY <1>0, <1>1 DEF Row
  <1>3. Stored' = Stored
    BY <1>1 DEF Stored
  <1>4. Bounded'
    BY <1>0, <1>1, <1>2, <1>3, StoredCounts, PurchaseAssumption DEF Bounded
  <1>5. row' \in Row
    <2>1. row'.revision \in Revisions
      BY <1>1, <1>2, <1>3, <1>4, RevisionTyped DEF Bounded
    <2> QED
      BY <1>0, <1>1, <2>1 DEF Row
  <1>6. TypeOK'
    BY <1>0, <1>1, <1>5 DEF TypeOK, Revoked
  <1>7. Requests'
    <2> SUFFICES ASSUME NEW v \in Workers, request'[v] # None
                 PROVE  Sees(v)'
      BY DEF Requests
    <2>1. Sees(v) /\ request'[v] = request[v]
      BY <1>1 DEF IInv, Requests
    <2>2. FenceHolds(v)' => FenceHolds(v) /\ row' = row
      <3>1. CASE row' = row
        BY <1>1, <3>1 DEF FenceHolds
      <3>2. CASE row'.revision = row.revision + 1
        BY <1>0, <1>1, <1>5, <3>2, Outdated
      <3> QED
        BY <1>2, <3>1, <3>2
    <2>3. grant # "NONE" => grant' # "NONE"
      BY <1>1 DEF Revoked
    <2>4. row.revision <= row'.revision
      BY <1>0, <1>2
    <2> QED
      BY <1>0, <1>1, <1>5, <2>1, <2>2, <2>3, <2>4, SeesStays
  <1>8. Truthful' /\ RowFacts' /\ TablesAgree' /\ ConsumedWasServed'
    BY <1>1, <1>2 DEF IInv, Truthful, RowFacts, TablesAgree, ConsumedWasServed, Revoked
  <1>9. OneCarrier'
    BY <1>1, <1>2, <1>6, CarriersStay
  <1> QED
    BY <1>4, <1>6, <1>7, <1>8, <1>9 DEF IInv

-----------------------------------------------------------------------------
(* Claims, reads and processes that stop.                                    *)

\* Google's side of a step of a process: the purchase may have been consumed.
Consumes ==
  /\ play' \in Play /\ before' \in Play /\ announced' = announced
  /\ play'.kind = play.kind /\ before'.kind = before.kind
  /\ play'.time = play.time /\ before'.time = before.time
  /\ play.consumed => play'.consumed
  /\ before'.consumed => play'.consumed
  /\ \A p \in {play', before'} : PaidFor(p)
  /\ play'.consumed => grant # "NONE"

LEMMA GoogleStays ==
  ASSUME IInv, UNCHANGED google
  PROVE  Consumes
  BY DEF IInv, TypeOK, Truthful, ConsumedWasServed, Consumes, google

\* A step that changes one request, and perhaps the lease, so that nobody else gets hold
\* of the fence.
LEMMA RowStays ==
  ASSUME IInv, NEW w \in Workers, NEW leased \in BOOLEAN, NEW carriers \in SUBSET Workers,
         NEW new \in Request \cup {None},
         row' = [row EXCEPT !.leased = leased, !.carriers = carriers],
         request' = [request EXCEPT ![w] = new],
         Consumes, UNCHANGED <<receipt, order, grant, deleted>>,
         lagged' \in BOOLEAN, shared' \in BOOLEAN, shared => shared', mishaps' \in 0..MaxMishaps,
         \A v \in carriers : v = w \/ v \in row.carriers,
         TypeOK' => OneCarrier',
         new # None => Sees(w)'
  PROVE  IInv'
  <1> USE DEF Consumes
  <1>0. row \in Row /\ row.revision \in Nat /\ TypeOK /\ Bounded
    BY PurchaseAssumption DEF IInv, TypeOK, Row, Revisions
  <1>1. row' \in Row
    BY <1>0 DEF Row
  <1>2. /\ row'.state = row.state /\ row'.owner = row.owner /\ row'.linked = row.linked
        /\ row'.lastEventTime = row.lastEventTime /\ row'.consume = row.consume
        /\ row'.revision = row.revision /\ row'.carriers = carriers
    BY <1>0 DEF Row
  <1>3. TypeOK'
    BY <1>0, <1>1 DEF TypeOK
  <1>4. Stored' = Stored
    BY DEF Stored
  <1>5. Bounded'
    BY <1>0, <1>2, <1>4 DEF Bounded
  <1>6. Requests'
    <2> SUFFICES ASSUME NEW v \in Workers, request'[v] # None
                 PROVE  Sees(v)'
      BY DEF Requests
    <2>1. CASE v = w
      BY <1>0, <2>1 DEF TypeOK
    <2>2. CASE v # w
      <3>1. request'[v] = request[v] /\ Sees(v)
        BY <1>0, <2>2 DEF IInv, Requests, TypeOK
      <3>2. row.revision <= row'.revision
        BY <1>0, <1>2
      <3>3. FenceHolds(v)' => FenceHolds(v)
        BY <1>2, <2>2, <3>1 DEF FenceHolds
      <3> QED
        BY <1>0, <1>1, <1>2, <3>1, <3>2, <3>3, SeesStays
    <2> QED
      BY <2>1, <2>2
  <1>7. Truthful' /\ RowFacts' /\ TablesAgree' /\ ConsumedWasServed'
    BY <1>2 DEF IInv, Truthful, RowFacts, TablesAgree, ConsumedWasServed
  <1> QED
    BY <1>3, <1>5, <1>6, <1>7 DEF IInv

\* A lease as a change of the row.
LEMMA LeaseChanges ==
  ASSUME row \in Row
  PROVE  /\ row = [row EXCEPT !.leased = row.leased, !.carriers = row.carriers]
         /\ Unleased(row) = [row EXCEPT !.leased = FALSE, !.carriers = {}]
         /\ row.leased \in BOOLEAN /\ row.carriers \in SUBSET Workers
         /\ {} \in SUBSET Workers /\ Unleased(row).carriers = {}
  BY DEF Row, Unleased

\* A request that ends, with or without giving its lease back.
LEMMA DropKeeps ==
  ASSUME IInv, NEW w \in Workers, Drop(w), Consumes, UNCHANGED <<receipt, order, grant, deleted>>,
         lagged' \in BOOLEAN, shared' = shared, mishaps' \in 0..MaxMishaps,
         row' = row \/ row' = Unleased(row)
  PROVE  IInv'
  <1>0. row \in Row /\ TypeOK /\ shared' \in BOOLEAN
    BY DEF IInv, TypeOK
  <1>1. request' = [request EXCEPT ![w] = None]
    BY DEF Drop, Proceed
  <1>2. PICK leased \in BOOLEAN, carriers \in SUBSET Workers :
          /\ row' = [row EXCEPT !.leased = leased, !.carriers = carriers]
          /\ carriers \subseteq row.carriers
    <2>1. CASE row' = row
      BY <1>0, <2>1, LeaseChanges
    <2>2. CASE row' = Unleased(row)
      BY <1>0, <2>2, LeaseChanges
    <2> QED
      BY <2>1, <2>2
  <1>3. TypeOK' => OneCarrier'
    <2>1. row'.carriers = carriers
      BY <1>0, <1>2 DEF Row
    <2>2. \A v \in Workers : request'[v] # None => request[v] # None
      BY <1>0, <1>1 DEF TypeOK
    <2> QED
      BY <1>2, <2>1, <2>2, CarriersStay
  <1> QED
    BY <1>0, <1>1, <1>2, <1>3, RowStays

LEMMA MishapTyped ==
  ASSUME TypeOK, Mishap \/ UNCHANGED mishaps
  PROVE  mishaps' \in 0..MaxMishaps
  BY PurchaseAssumption DEF TypeOK, Mishap

LEMMA EndKeeps ==
  ASSUME IInv, NEW w \in Workers, Overtaken(w) \/ Fail(w) \/ Die(w)
  PROVE  IInv'
  <1>1. /\ Drop(w) /\ UNCHANGED <<google, receipt, order, grant, deleted, history>>
        /\ Mishap \/ UNCHANGED mishaps
        /\ row' = row \/ row' = Unleased(row)
    BY DEF Overtaken, Fail, Die, tables
  <1>2. TypeOK /\ lagged' \in BOOLEAN /\ shared' = shared
    BY <1>1 DEF IInv, TypeOK, history
  <1> QED
    BY <1>1, <1>2, MishapTyped, GoogleStays, DropKeeps

LEMMA ExpireKeeps ==
  ASSUME IInv, LeaseExpires
  PROVE  IInv'
  <1> USE DEF google, history
  <1>0. row \in Row /\ TypeOK /\ row.revision \in Nat
    BY PurchaseAssumption DEF IInv, TypeOK, Row, Revisions
  <1>1. /\ row' = Unleased(row)
        /\ UNCHANGED <<google, receipt, order, grant, deleted, request, history>>
        /\ Mishap \/ UNCHANGED mishaps
    BY DEF LeaseExpires
  <1>2. /\ row'.state = row.state /\ row'.owner = row.owner /\ row'.linked = row.linked
        /\ row'.lastEventTime = row.lastEventTime /\ row'.consume = row.consume
        /\ row'.revision = row.revision /\ row'.carriers = {} /\ row' \in Row
    BY <1>0, <1>1 DEF Row, Unleased
  <1>3. TypeOK'
    BY <1>0, <1>1, <1>2, MishapTyped DEF TypeOK
  <1>4. Bounded'
    <2>1. Stored' = Stored
      BY <1>1 DEF Stored
    <2> QED
      BY <1>1, <1>2, <2>1 DEF IInv, Bounded
  <1>5. Requests'
    <2> SUFFICES ASSUME NEW v \in Workers, request'[v] # None
                 PROVE  Sees(v)'
      BY DEF Requests
    <2>1. Sees(v) /\ request'[v] = request[v]
      BY <1>1 DEF IInv, Requests
    <2>2. ~FenceHolds(v)'
      BY <1>2 DEF FenceHolds
    <2>3. row.revision <= row'.revision
      BY <1>0, <1>2
    <2> QED
      BY <1>0, <1>1, <1>2, <2>1, <2>2, <2>3, SeesStays
  <1>6. Truthful' /\ RowFacts' /\ OneCarrier' /\ TablesAgree' /\ ConsumedWasServed'
    BY <1>1, <1>2
    DEF IInv, Truthful, RowFacts, OneCarrier, TablesAgree, ConsumedWasServed
  <1> QED
    BY <1>3, <1>4, <1>5, <1>6 DEF IInv

\* A held row and what was read of it make a request.
LEMMA BlankTyped ==
  ASSUME NEW held \in Held, NEW consume \in Consumption,
         NEW step \in {"REREAD", "PURCHASE", "JUDGE", "SETTLE", "CHECK", "CONSUME", "FINISH"}
  PROVE  Blank(step, held, consume) \in Request
  <1>1. PurchaseOf(Unread) \in PurchaseRead
    BY DEF PurchaseOf, Unread, PurchaseRead
  <1>2. OrderOf(Unread) \in OrderRead
    BY PurchaseAssumption DEF OrderOf, Unread, OrderRead
  <1> QED
    BY <1>1, <1>2 DEF Blank, Request

\* A copy of the row is what a request holds.
LEMMA HeldTyped ==
  /\ \A r \in Row : HeldOf(r) \in Held
  /\ HeldOf(NewRow) \in Held /\ HeldOf(NewRow).revision = 0
  <1>1. \A r \in Row : HeldOf(r) \in Held
    BY DEF HeldOf, Row, Held
  <1>2. NewRow \in Row /\ NewRow.revision = 0
    BY PurchaseAssumption DEF NewRow, Row, States, Consumption, Revisions
  <1> QED
    BY <1>1, <1>2 DEF HeldOf

LEMMA ClaimKeeps ==
  ASSUME IInv, NEW w \in Workers, Claim(w)
  PROVE  IInv'
  <1> USE DEF google, history
  <1>0. row \in Row /\ TypeOK /\ None \notin Workers /\ row.revision \in Nat
    BY PurchaseAssumption DEF IInv, TypeOK, Row, Revisions
  <1> DEFINE new == Blank("REREAD", HeldOf(NewRow), "NOT_READY")
  <1>1. /\ row' = [row EXCEPT !.leased = TRUE, !.carriers = {}]
        /\ request' = [request EXCEPT ![w] = new]
        /\ UNCHANGED <<google, receipt, order, grant, deleted, history, mishaps>>
    BY DEF Claim
  <1>2. new \in Request
    BY HeldTyped, BlankTyped DEF Consumption
  <1>3. row'.revision = row.revision /\ row'.carriers = {}
    BY <1>0, <1>1 DEF Row
  <1>4. Sees(w)'
    <2>1. /\ request'[w].step = "REREAD" /\ request'[w].consume = "NOT_READY"
          /\ request'[w].held.revision = 0
      BY <1>0, <1>1, HeldTyped DEF TypeOK, Blank
    <2>2. 0 <= row'.revision
      BY <1>0, <1>3
    <2> QED
      BY <2>1, <2>2 DEF Sees, At, Reading, Ending
  <1>5. TypeOK' => OneCarrier'
    BY <1>3 DEF OneCarrier
  <1>6. lagged' \in BOOLEAN /\ shared' \in BOOLEAN /\ shared' = shared
        /\ mishaps' \in 0..MaxMishaps /\ {} \in SUBSET Workers
    BY <1>0, <1>1 DEF TypeOK
  <1>7. Consumes
    BY <1>1, GoogleStays
  <1>8. PICK leased \in BOOLEAN, carriers \in SUBSET Workers :
          /\ row' = [row EXCEPT !.leased = leased, !.carriers = carriers]
          /\ \A v \in carriers : v = w \/ v \in row.carriers
    BY <1>1, <1>6
  <1>9. UNCHANGED <<receipt, order, grant, deleted>> /\ (shared => shared')
    BY <1>1
  <1> HIDE DEF new
  <1> QED
    BY <1>1, <1>2, <1>4, <1>5, <1>6, <1>7, <1>8, <1>9, RowStays

\* Whoever re-reads the row under a lease that somebody alive carries shares it.
LEMMA RereadKeeps ==
  ASSUME IInv, NEW w \in Workers, Reread(w)
  PROVE  IInv'
  <1> USE DEF google
  <1>0. row \in Row /\ TypeOK /\ None \notin Workers /\ row.revision \in Nat
        /\ row.carriers \in SUBSET Workers /\ row.leased \in BOOLEAN
    BY PurchaseAssumption DEF IInv, TypeOK, Row, Revisions
  <1> DEFINE carriers == IF row.leased THEN row.carriers \cup {w} ELSE row.carriers
             new == Blank("PURCHASE", HeldOf(row), "NOT_READY")
  <1>1. /\ request' = [request EXCEPT ![w] = new]
        /\ shared' = (shared \/ \E v \in row.carriers : request[v] # None)
        /\ UNCHANGED <<google, receipt, order, grant, deleted, lagged, mishaps>>
    BY DEF Reread
  <1>2. row' = [row EXCEPT !.leased = row.leased, !.carriers = carriers]
    <2>1. CASE row.leased
      BY <1>0, <2>1 DEF Reread, Row
    <2>2. CASE ~row.leased
      BY <1>0, <2>2, LeaseChanges DEF Reread
    <2> QED
      BY <2>1, <2>2
  <1>3. new \in Request
    BY <1>0, HeldTyped, BlankTyped DEF Consumption
  <1>4. carriers \in SUBSET Workers /\ \A v \in carriers : v = w \/ v \in row.carriers
    BY <1>0
  <1> HIDE DEF carriers
  <1>5. /\ row'.state = row.state /\ row'.owner = row.owner /\ row'.linked = row.linked
        /\ row'.lastEventTime = row.lastEventTime /\ row'.revision = row.revision
        /\ row'.carriers = carriers
    BY <1>0, <1>2 DEF Row
  <1>6. Sees(w)'
    <2>1. /\ request'[w].step = "PURCHASE" /\ request'[w].consume = "NOT_READY"
          /\ request'[w].held = HeldOf(row)
      BY <1>0, <1>1 DEF TypeOK, Blank
    <2>2. HeldOf(row).revision = row.revision
      BY DEF HeldOf
    <2>3. row.revision <= row'.revision
      BY <1>0, <1>5
    <2>4. /\ ~At(w, "JUDGE")' /\ ~At(w, "SETTLE")' /\ ~At(w, "CHECK")' /\ ~At(w, "CONSUME")'
          /\ ~At(w, "FINISH")'
      BY <2>1 DEF At
    <2>5. Unchanged(request[w].held)'
      BY <1>5, <2>1 DEF Unchanged, HeldOf
    <2> QED
      BY <2>1, <2>2, <2>3, <2>4, <2>5 DEF Sees, Ending
  <1>7. OneCarrier'
    <2> SUFFICES ASSUME ~shared', NEW u \in carriers, NEW v \in carriers,
                        request'[u] # None, request'[v] # None
                 PROVE  u = v
      BY <1>5 DEF OneCarrier
    <2>1. \A x \in row.carriers : request[x] = None
      BY <1>1
    <2>2. \A x \in Workers \ {w} : request'[x] = request[x]
      BY <1>0, <1>1 DEF TypeOK
    <2>3. \A x \in carriers : request'[x] # None => x = w
      BY <1>0, <1>4, <2>1, <2>2
    <2> QED
      BY <2>3
  <1>8. lagged' \in BOOLEAN /\ shared' \in BOOLEAN /\ (shared => shared') /\ mishaps' \in 0..MaxMishaps
    BY <1>0, <1>1 DEF TypeOK
  <1> HIDE DEF new
  <1> QED
    BY <1>0, <1>1, <1>2, <1>3, <1>4, <1>6, <1>7, <1>8, GoogleStays, RowStays

\* A step of a process that writes nothing.
LEMMA ProceedKeeps ==
  ASSUME IInv, NEW w \in Workers, NEW new \in Request, Proceed(w, new), row' = row, Consumes,
         UNCHANGED <<receipt, order, grant, deleted>>, request[w] # None,
         lagged' \in BOOLEAN, shared' = shared, mishaps' \in 0..MaxMishaps, Sees(w)'
  PROVE  IInv'
  <1>0. row \in Row /\ TypeOK /\ shared' \in BOOLEAN
    BY DEF IInv, TypeOK
  <1>1. /\ row' = [row EXCEPT !.leased = row.leased, !.carriers = row.carriers]
        /\ row.leased \in BOOLEAN /\ row.carriers \in SUBSET Workers
    BY <1>0, LeaseChanges
  <1>2. request' = [request EXCEPT ![w] = new]
    BY DEF Proceed
  <1>3. TypeOK' => OneCarrier'
    <2>1. \A v \in Workers : request'[v] # None => request[v] # None
      BY <1>0, <1>2 DEF TypeOK
    <2> QED
      BY <2>1, CarriersStay
  <1> QED
    BY <1>0, <1>1, <1>2, <1>3, RowStays

\* What a late answer and a true one have in common.
LEMMA AnswersTyped ==
  ASSUME IInv, NEW w \in Workers, NEW answer \in {play, before}, Answers(w, answer)
  PROVE  /\ answer \in Play /\ answer.kind = play.kind /\ (answer.consumed => play.consumed)
         /\ PaidFor(PurchaseOf(answer))
         /\ PurchaseOf(answer) \in PurchaseRead /\ OrderOf(answer) \in OrderRead
         /\ lagged' \in BOOLEAN /\ shared' = shared /\ mishaps' \in 0..MaxMishaps
  <1>1. /\ answer \in Play /\ answer.kind = play.kind /\ (answer.consumed => play.consumed)
        /\ PaidFor(PurchaseOf(answer))
    BY DEF IInv, TypeOK, Truthful, PaidFor, PurchaseOf
  <1>2. PurchaseOf(answer) \in PurchaseRead /\ OrderOf(answer) \in OrderRead
    BY <1>1 DEF Play, PurchaseOf, OrderOf, PurchaseRead, OrderRead
  <1>3. lagged' \in BOOLEAN /\ shared' = shared /\ mishaps' \in 0..MaxMishaps
    BY MishapTyped DEF IInv, TypeOK, Answers, history
  <1> QED
    BY <1>1, <1>2, <1>3

LEMMA ReadKeeps ==
  ASSUME IInv, NEW w \in Workers, ReadPurchase(w) \/ ReadOrder(w)
  PROVE  IInv'
  <1>0. TypeOK /\ Sees(w) /\ request[w] \in Request /\ request[w] # None
        /\ row.revision \in Nat /\ request[w].held.revision <= row.revision
    <2>1. TypeOK /\ request[w] # None
      BY DEF IInv, ReadPurchase, ReadOrder, Judged, At
    <2>2. Sees(w) /\ request[w] \in Request /\ row \in Row
      BY <2>1 DEF IInv, Requests, TypeOK
    <2> QED
      BY <2>1, <2>2, PurchaseAssumption DEF Sees, Row, Revisions
  <1>1. CASE ReadPurchase(w)
    <2>1. PICK answer \in {play, before} :
            /\ Answers(w, answer)
            /\ Proceed(w, [request[w] EXCEPT !.step = "JUDGE", !.purchase = PurchaseOf(answer)])
      BY <1>1 DEF ReadPurchase
    <2>2. UNCHANGED <<google, tables, deleted>> /\ At(w, "PURCHASE")
      BY <1>1 DEF ReadPurchase
    <2> DEFINE new == [request[w] EXCEPT !.step = "JUDGE", !.purchase = PurchaseOf(answer)]
    <2>3. /\ answer.kind = play.kind /\ (answer.consumed => play.consumed)
          /\ PaidFor(PurchaseOf(answer)) /\ PurchaseOf(answer) \in PurchaseRead
          /\ lagged' \in BOOLEAN /\ shared' = shared /\ mishaps' \in 0..MaxMishaps
      BY <2>1, AnswersTyped
    <2>4. /\ new \in Request /\ new.step = "JUDGE" /\ new.held = request[w].held
          /\ new.purchase = PurchaseOf(answer)
      BY <1>0, <2>3 DEF Request
    <2>5. request'[w] = new
      BY <1>0, <2>1 DEF Proceed, TypeOK
    <2>6. row' = row /\ play' = play /\ grant' = grant
      BY <2>2 DEF google, tables
    <2> HIDE DEF new
    <2>7. Sees(w)'
      <3>1. /\ new.purchase.kind = play.kind /\ (new.purchase.consumed => play.consumed)
            /\ PaidFor(new.purchase)
        BY <2>3, <2>4 DEF PurchaseOf
      <3>2. FenceHolds(w)' => FenceHolds(w)
        BY <2>4, <2>5, <2>6 DEF FenceHolds
      <3>3. FenceHolds(w) /\ ~shared => Unchanged(request[w].held)
        BY <1>0, <2>2 DEF Sees, Reading
      <3> QED
        BY <1>0, <2>3, <2>4, <2>5, <2>6, <3>1, <3>2, <3>3 DEF Sees, At, Reading, Ending, Unchanged
    <2>8. Consumes
      BY <2>2, GoogleStays
    <2>9. Proceed(w, new)
      BY <2>1 DEF new
    <2> QED
      BY <1>0, <2>2, <2>3, <2>4, <2>6, <2>7, <2>8, <2>9, ProceedKeeps DEF tables
  <1>2. CASE ReadOrder(w)
    <2>1. PICK answer \in {play, before} :
            /\ Answers(w, answer)
            /\ Proceed(w, [request[w] EXCEPT !.step = "SETTLE", !.order = OrderOf(answer)])
      BY <1>2 DEF ReadOrder
    <2>2. UNCHANGED <<google, tables, deleted>> /\ At(w, "JUDGE")
          /\ request[w].purchase.kind = "PASS" /\ ~OwnerMismatch(request[w])
      BY <1>2 DEF ReadOrder, Judged
    <2> DEFINE new == [request[w] EXCEPT !.step = "SETTLE", !.order = OrderOf(answer)]
    <2>3. OrderOf(answer) \in OrderRead /\ lagged' \in BOOLEAN /\ shared' = shared
          /\ mishaps' \in 0..MaxMishaps
      BY <2>1, AnswersTyped
    <2>4. /\ new \in Request /\ new.step = "SETTLE" /\ new.held = request[w].held
          /\ new.purchase = request[w].purchase
      BY <1>0, <2>3 DEF Request
    <2>5. request'[w] = new
      BY <1>0, <2>1 DEF Proceed, TypeOK
    <2>6. row' = row /\ play' = play /\ grant' = grant
      BY <2>2 DEF google, tables
    <2> HIDE DEF new
    <2>7. Sees(w)'
      <3>1. /\ new.purchase.kind = play.kind /\ (new.purchase.consumed => play.consumed)
            /\ PaidFor(new.purchase)
        BY <1>0, <2>2, <2>4 DEF Sees
      <3>2. FenceHolds(w)' => FenceHolds(w)
        BY <2>4, <2>5, <2>6 DEF FenceHolds
      <3>3. FenceHolds(w) /\ ~shared => Unchanged(request[w].held)
        BY <1>0, <2>2 DEF Sees, Reading
      <3>4. new.purchase.kind = "PASS" /\ ~OwnerMismatch(new)
        BY <2>2, <2>4 DEF OwnerMismatch
      <3> QED
        BY <1>0, <2>3, <2>4, <2>5, <2>6, <3>1, <3>2, <3>3, <3>4
        DEF Sees, At, Reading, Ending, Unchanged, OwnerMismatch
    <2>8. Consumes
      BY <2>2, GoogleStays
    <2>9. Proceed(w, new)
      BY <2>1 DEF new
    <2> QED
      BY <1>0, <2>2, <2>3, <2>4, <2>6, <2>7, <2>8, <2>9, ProceedKeeps DEF tables
  <1> QED
    BY <1>1, <1>2

LEMMA CheckFenceKeeps ==
  ASSUME IInv, NEW w \in Workers, CheckFence(w)
  PROVE  IInv'
  <1> DEFINE new == [request[w] EXCEPT !.step = "CONSUME"]
  <1>0. TypeOK /\ Sees(w) /\ request[w] \in Request /\ request[w] # None
        /\ At(w, "CHECK") /\ Proceed(w, new)
        /\ UNCHANGED <<google, tables, deleted, history, mishaps>>
    <2>1. TypeOK /\ request[w] # None /\ At(w, "CHECK") /\ Proceed(w, new)
          /\ UNCHANGED <<google, tables, deleted, history, mishaps>>
      BY DEF IInv, CheckFence, At
    <2> QED
      BY <2>1 DEF IInv, Requests, TypeOK
  <1>1. /\ new \in Request /\ new.step = "CONSUME" /\ new.held = request[w].held
        /\ new.consume = request[w].consume
    BY <1>0 DEF Request
  <1>2. request'[w] = new
    BY <1>0 DEF Proceed, TypeOK
  <1>3. row' = row /\ play' = play /\ grant' = grant
    BY <1>0 DEF google, tables
  <1> HIDE DEF new
  <1>4. Sees(w)'
    <2>1. FenceHolds(w)' => FenceHolds(w)
      BY <1>1, <1>2, <1>3 DEF FenceHolds
    <2> QED
      BY <1>0, <1>1, <1>2, <1>3, <2>1 DEF Sees, At, Reading, Ending, history
  <1>5. lagged' \in BOOLEAN /\ shared' = shared /\ mishaps' \in 0..MaxMishaps
    BY <1>0 DEF TypeOK, history
  <1> QED
    BY <1>0, <1>1, <1>3, <1>4, <1>5, GoogleStays, ProceedKeeps DEF tables

LEMMA ConsumeKeeps ==
  ASSUME IInv, NEW w \in Workers, Consume(w)
  PROVE  IInv'
  <1>0. TypeOK /\ Sees(w) /\ request[w] \in Request /\ request[w] # None /\ At(w, "CONSUME")
    <2>1. TypeOK /\ request[w] # None /\ At(w, "CONSUME")
      BY DEF IInv, Consume, At
    <2> QED
      BY <2>1 DEF IInv, Requests, TypeOK
  <1>1. /\ play' = [play EXCEPT !.consumed = TRUE] /\ before' = [before EXCEPT !.consumed = TRUE]
        /\ UNCHANGED <<announced, receipt, order, grant, deleted, history>>
    BY DEF Consume
  <1>2. request[w].consume = "CONSUMED" /\ grant # "NONE"
    BY <1>0 DEF Sees, Ending
  <1>3. Consumes
    <2>1. /\ play' \in Play /\ play'.kind = play.kind /\ play'.time = play.time
          /\ play'.state = play.state /\ play'.completed = play.completed /\ play'.consumed
      BY <1>0, <1>1 DEF TypeOK, Play
    <2>2. /\ before' \in Play /\ before'.kind = before.kind /\ before'.time = before.time
          /\ before'.state = before.state /\ before'.completed = before.completed
      BY <1>0, <1>1 DEF TypeOK, Play
    <2>3. \A p \in {play', before'} : PaidFor(p)
      BY <2>1, <2>2 DEF IInv, Truthful, PaidFor
    <2> QED
      BY <1>1, <1>2, <2>1, <2>2, <2>3 DEF Consumes
  <1>4. lagged' \in BOOLEAN /\ shared' = shared
    BY <1>0, <1>1 DEF TypeOK, history
  <1>5. CASE Proceed(w, [request[w] EXCEPT !.step = "FINISH"]) /\ UNCHANGED <<row, mishaps>>
    <2> DEFINE new == [request[w] EXCEPT !.step = "FINISH"]
    <2>1. /\ new \in Request /\ new.step = "FINISH" /\ new.held = request[w].held
          /\ new.consume = request[w].consume /\ Proceed(w, new)
      BY <1>0, <1>5 DEF Request
    <2>2. request'[w] = new
      BY <1>0, <2>1 DEF Proceed, TypeOK
    <2> HIDE DEF new
    <2>3. FenceHolds(w)' => FenceHolds(w)
      BY <1>5, <2>1, <2>2 DEF FenceHolds
    <2>4. play'.consumed
      BY <1>0, <1>1 DEF TypeOK, Play
    <2>5. Sees(w)'
      BY <1>0, <1>1, <1>2, <1>4, <1>5, <2>1, <2>2, <2>3, <2>4 DEF Sees, At, Reading, Ending
    <2>6. mishaps' \in 0..MaxMishaps
      BY <1>0, <1>5 DEF TypeOK
    <2> QED
      BY <1>0, <1>1, <1>3, <1>4, <1>5, <2>1, <2>5, <2>6, ProceedKeeps
  <1>6. CASE /\ Mishap /\ Drop(w)
             /\ row' = IF FenceHolds(w) THEN Unleased(row) ELSE row
    BY <1>0, <1>1, <1>3, <1>4, <1>6, MishapTyped, DropKeeps
  <1> QED
    BY <1>5, <1>6 DEF Consume

-----------------------------------------------------------------------------
(* The writes of a process whose fence holds.                                *)

\* While its fence holds a process knows the row as it is, unless somebody shares it.
LEMMA HeldIsRow ==
  ASSUME IInv, NEW w \in Workers, Reading(w), FenceHolds(w)
  PROVE  /\ request[w] \in Request /\ request[w] # None /\ row \in Row /\ Sees(w)
         /\ ~shared => Unchanged(request[w].held)
  <1>1. request[w] # None
    BY DEF Reading, At
  <1>2. request[w] \in Request /\ row \in Row /\ Sees(w)
    BY <1>1 DEF IInv, TypeOK, Requests
  <1> QED
    BY <1>1, <1>2 DEF Sees

\* Nobody holds the fence after a write that gives the lease back.
LEMMA RequestsReleased ==
  ASSUME IInv, NEW w \in Workers, Drop(w), row' \in Row, row'.carriers = {},
         row'.revision = row.revision, play' = play, grant # "NONE" => grant' # "NONE",
         row.linked => row'.linked
  PROVE  Requests'
  <1> SUFFICES ASSUME NEW v \in Workers, request'[v] # None
               PROVE  Sees(v)'
    BY DEF Requests
  <1>1. TypeOK /\ row.revision \in Nat /\ None \notin Workers
    BY PurchaseAssumption DEF IInv, TypeOK, Row, Revisions
  <1>2. v # w /\ request'[v] = request[v]
    BY <1>1 DEF Drop, Proceed, TypeOK
  <1>3. Sees(v) /\ ~FenceHolds(v)'
    BY <1>1, <1>2 DEF IInv, Requests, FenceHolds
  <1>4. row.revision <= row'.revision
    BY <1>1
  <1> QED
    BY <1>1, <1>2, <1>3, <1>4, SeesStays

\* A write of the row alone.  An order exists only for a linked row, so that a row that
\* is not linked may be closed, and a linked one keeps its state unless a fence is shared.
LEMMA ReleaseKeeps ==
  ASSUME IInv, NEW w \in Workers, NEW new \in Row, Release(w, new),
         receipt' = receipt \/ receipt' = Processed,
         new.revision = row.revision, new.linked = row.linked, row.owner => new.owner,
         \/ new.state = row.state
         \/ /\ ~shared => ~row.linked
            /\ new.state # "VERIFIED"
            /\ new.state = "REFUNDED" => play.kind = "PASS",
         \/ new.consume = row.consume
         \/ new.consume # "CONSUMED"
         \/ /\ play.consumed /\ row.linked /\ new.state = row.state
            /\ ~shared => row.state = "VERIFIED"
  PROVE  IInv'
  <1> USE DEF Release, google, history
  <1>0. TypeOK /\ row \in Row
    BY DEF IInv, TypeOK
  <1>1. /\ row' \in Row /\ row'.carriers = {}
        /\ row'.revision = row.revision /\ row'.linked = row.linked /\ row'.owner = new.owner
        /\ row'.state = new.state /\ row'.consume = new.consume
    BY DEF Row, Unleased
  <1>2. receipt' \in [Events -> {"NONE", "RECEIVED", "PROCESSED"}] /\ Stored' = Stored
    BY <1>0, ProcessedStored
  <1>3. TypeOK'
    BY <1>0, <1>1, <1>2 DEF TypeOK, Drop, Proceed
  <1>4. Bounded'
    BY <1>1, <1>2 DEF IInv, Bounded
  <1>5. Requests'
    BY <1>1, RequestsReleased
  <1>6. Truthful' /\ OneCarrier'
    BY <1>1 DEF IInv, Truthful, OneCarrier
  <1>7. RowFacts' /\ TablesAgree' /\ ConsumedWasServed'
    <2>1. CASE new.state = row.state
      BY <1>1, <2>1 DEF IInv, RowFacts, TablesAgree, ConsumedWasServed
    <2>2. CASE /\ ~shared => ~row.linked
               /\ new.state # "VERIFIED"
               /\ new.state = "REFUNDED" => play.kind = "PASS"
      <3>1. ~shared => order.status = "NONE" /\ row.consume # "CONSUMED"
        BY <2>2 DEF IInv, TablesAgree, ConsumedWasServed
      <3>2. RowFacts'
        BY <1>1, <2>2 DEF IInv, RowFacts
      <3>3. TablesAgree'
        BY <1>1, <2>2, <3>1 DEF IInv, TablesAgree
      <3>4. new.state = row.state \/ shared \/ new.consume # "CONSUMED"
        BY <3>1
      <3>5. ConsumedWasServed'
        BY <1>1, <3>4 DEF IInv, ConsumedWasServed
      <3> QED
        BY <3>2, <3>3, <3>5
    <2> QED
      BY <2>1, <2>2
  <1> QED
    BY <1>3, <1>4, <1>5, <1>6, <1>7 DEF IInv

LEMMA JudgeKeeps ==
  ASSUME IInv, NEW w \in Workers, IgnoreTest(w) \/ IgnoreOther(w) \/ SettleUnpaid(w)
  PROVE  IInv'
  <1> DEFINE q == request[w]
  <1>0. At(w, "JUDGE") /\ Reading(w) /\ FenceHolds(w)
    BY DEF IgnoreTest, IgnoreOther, SettleUnpaid, Judged, Reading
  <1>1. q \in Request /\ row \in Row
        /\ q.purchase.kind = play.kind /\ PaidFor(q.purchase) /\ q.purchase \in PurchaseRead
    BY <1>0, HeldIsRow DEF Sees, Request
  <1>2. CASE IgnoreTest(w)
    <2> DEFINE new == [row EXCEPT !.state = "IGNORED_TEST", !.consume = "NOT_APPLICABLE"]
    <2>1. /\ new \in Row /\ new.revision = row.revision /\ new.linked = row.linked
          /\ new.owner = row.owner /\ new.state = "IGNORED_TEST" /\ new.consume = "NOT_APPLICABLE"
      BY <1>1 DEF Row, States, Consumption
    <2>2. Release(w, new) /\ receipt' = Processed /\ ~row.linked
      BY <1>1, <1>2 DEF IgnoreTest, LiveTest, IInv, RowFacts
    <2> HIDE DEF new
    <2> QED
      BY <2>1, <2>2, ReleaseKeeps
  <1>3. CASE IgnoreOther(w)
    <2> DEFINE new == [row EXCEPT !.state = "IGNORED"]
    <2>1. /\ new \in Row /\ new.revision = row.revision /\ new.linked = row.linked
          /\ new.owner = row.owner /\ new.state = "IGNORED" /\ new.consume = row.consume
      BY <1>1 DEF Row, States
    <2>2. Release(w, new) /\ receipt' = receipt /\ ~row.linked
      BY <1>1, <1>3 DEF IgnoreOther, IInv, RowFacts
    <2> HIDE DEF new
    <2> QED
      BY <2>1, <2>2, ReleaseKeeps
  <1>4. CASE SettleUnpaid(w)
    <2> DEFINE known == q.purchase.attributed
               over == known /\ q.purchase.state = "CANCELLED"
               state == IF known THEN q.purchase.state ELSE "AWAITING_OWNER"
               consume == IF over THEN "NOT_APPLICABLE" ELSE "NOT_READY"
               new == [row EXCEPT !.owner = row.owner \/ known, !.state = state, !.consume = consume]
    <2>1. Unpaid(q)
      BY <1>4 DEF SettleUnpaid
    <2>2. known \in BOOLEAN /\ state \in {"PENDING", "CANCELLED", "AWAITING_OWNER"}
          /\ consume \in {"NOT_APPLICABLE", "NOT_READY"}
      BY <1>1, <2>1 DEF PurchaseRead, Unpaid, PaidFor
    <2>3. ~row.linked
      BY <1>4 DEF SettleUnpaid, Orderless
    <2>4. Release(w, new) /\ (receipt' = receipt \/ receipt' = Processed)
      BY <1>4 DEF SettleUnpaid
    <2> HIDE DEF known, over, state, consume
    <2>5. /\ new \in Row /\ new.revision = row.revision /\ new.linked = row.linked
          /\ (row.owner => new.owner) /\ new.state = state /\ new.consume = consume
      BY <1>1, <2>2 DEF Row, States, Consumption
    <2> HIDE DEF new
    <2> QED
      BY <2>2, <2>3, <2>4, <2>5, ReleaseKeeps
  <1> QED
    BY <1>2, <1>3, <1>4

LEMMA SettleKeeps ==
  ASSUME IInv, NEW w \in Workers, PutOff(w) \/ AwaitOwner(w) \/ AwaitPayment(w) \/ Refuse(w)
  PROVE  IInv'
  <1> DEFINE q == request[w]
  <1>0. Reading(w) /\ FenceHolds(w)
    BY DEF PutOff, AwaitOwner, AwaitPayment, Refuse, Judged, Settled, Reading
  <1>1. q \in Request /\ row \in Row /\ (~shared => Unchanged(q.held)) /\ Sees(w)
        /\ q.purchase \in PurchaseRead /\ q.order \in OrderRead
    BY <1>0, HeldIsRow DEF Request
  <1>2. CASE PutOff(w) \/ Refuse(w)
    <2>1. Release(w, row) /\ receipt' = receipt
      BY <1>2 DEF PutOff, Refuse
    <2> QED
      BY <1>1, <2>1, ReleaseKeeps
  <1>3. CASE AwaitOwner(w)
    <2> DEFINE state == IF FullRefund(q) THEN "REFUNDED" ELSE "AWAITING_OWNER"
               new == [row EXCEPT !.state = state, !.lastEventTime = q.order.time]
    <2>1. Release(w, new) /\ receipt' = receipt /\ At(w, "SETTLE") /\ ~q.purchase.attributed
      BY <1>3 DEF AwaitOwner, Settled
    <2>2. ~OwnerMismatch(q) /\ q.purchase.kind = "PASS" /\ q.purchase.kind = play.kind
      BY <1>1, <2>1 DEF Sees
    <2>3. ~shared => ~row.linked
      BY <1>1, <2>1, <2>2 DEF OwnerMismatch, Unchanged, IInv, RowFacts
    <2>4. state \in {"REFUNDED", "AWAITING_OWNER"} /\ q.order.time \in 0..MaxEvents
      BY <1>1 DEF OrderRead
    <2> HIDE DEF state
    <2>5. /\ new \in Row /\ new.revision = row.revision /\ new.linked = row.linked
          /\ new.owner = row.owner /\ new.state = state /\ new.consume = row.consume
      BY <1>1, <2>4 DEF Row, States
    <2> HIDE DEF new
    <2> QED
      BY <2>1, <2>2, <2>3, <2>4, <2>5, ReleaseKeeps
  <1>4. CASE AwaitPayment(w)
    <2> DEFINE new == [row EXCEPT !.owner = TRUE, !.state = q.purchase.state]
    <2>1. /\ Release(w, new) /\ receipt' = receipt
          /\ ~Conflict(q) /\ ~FullRefund(q) /\ q.purchase.state # "PURCHASED"
      BY <1>4 DEF AwaitPayment, Settled, Payable
    <2>2. q.purchase.state \in {"PENDING", "CANCELLED"} /\ (~shared => ~row.linked)
      BY <1>1, <2>1 DEF Conflict, Unchanged, PurchaseRead
    <2>3. /\ new \in Row /\ new.revision = row.revision /\ new.linked = row.linked
          /\ new.owner /\ new.state = q.purchase.state /\ new.consume = row.consume
      BY <1>1, <2>2 DEF Row, States
    <2> HIDE DEF new
    <2> QED
      BY <2>1, <2>2, <2>3, ReleaseKeeps
  <1> QED
    BY <1>2, <1>3, <1>4

LEMMA FinishKeeps ==
  ASSUME IInv, NEW w \in Workers, Finish(w)
  PROVE  IInv'
  <1> DEFINE q == request[w]
             new == [row EXCEPT !.consume = q.consume]
  <1>1. /\ At(w, "FINISH") /\ q # None /\ FenceHolds(w) /\ Release(w, new) /\ receipt' = receipt
    BY DEF Finish, At
  <1>2. q \in Request /\ row \in Row /\ Sees(w) /\ q.consume \in Consumption
    BY <1>1 DEF IInv, TypeOK, Requests, Request
  <1>3. q.consume = "CONSUMED" =>
          play.consumed /\ row.linked /\ (~shared => row.state = "VERIFIED")
    BY <1>1, <1>2 DEF Sees, Ending
  <1>4. /\ new \in Row /\ new.revision = row.revision /\ new.linked = row.linked
        /\ new.owner = row.owner /\ new.state = row.state /\ new.consume = q.consume
    BY <1>2 DEF Row
  <1> HIDE DEF new
  <1> QED
    BY <1>1, <1>3, <1>4, ReleaseKeeps

-----------------------------------------------------------------------------
(* The commit of order, grant and row.                                       *)

\* What a commit writes: refunds are final and refunded money only grows.
LEMMA CommitWrites ==
  ASSUME IInv, NEW w \in Workers, Settled(w), FenceHolds(w)
  PROVE  LET q == request[w]
         IN /\ Refunded(q) \in 0..Amount /\ Refunded(q) >= order.refundedAmount
            /\ NewStatus(q) \in {"PAID", "PARTIALLY_REFUNDED", "REFUNDED"}
            /\ order.status = "REFUNDED" => NewStatus(q) = "REFUNDED"
            /\ ~shared /\ row.state = "REFUNDED" => NewStatus(q) = "REFUNDED"
  <1> DEFINE q == request[w]
  <1>1. Reading(w)
    BY DEF Settled, Reading
  <1>2. q.order.refunded \in 0..Amount /\ (~shared => Unchanged(q.held))
    BY <1>1, HeldIsRow DEF Request, OrderRead
  <1>3. order.refundedAmount \in 0..Amount
    BY DEF IInv, TypeOK, Order
  <1>4. Refunded(q) \in 0..Amount /\ Refunded(q) >= order.refundedAmount
    BY <1>2, <1>3, PurchaseAssumption DEF Refunded, Larger
  <1>5. NewStatus(q) \in {"PAID", "PARTIALLY_REFUNDED", "REFUNDED"}
    BY DEF NewStatus
  <1>6. /\ order.status = "REFUNDED" => NewStatus(q) = "REFUNDED"
        /\ ~shared /\ row.state = "REFUNDED" => NewStatus(q) = "REFUNDED"
    BY <1>2 DEF NewStatus, Full, FullRefund, Unchanged
  <1> QED
    BY <1>4, <1>5, <1>6

LEMMA CommitKeeps ==
  ASSUME IInv, NEW w \in Workers, Commit(w)
  PROVE  IInv'
  <1> DEFINE q == request[w]
             status == NewStatus(q)
             done == Blank(Afterwards(q).step, q.held, Afterwards(q).consume)
  <1>0. /\ Settled(w) /\ FenceHolds(w) /\ Reading(w) /\ At(w, "SETTLE")
        /\ UNCHANGED <<google, deleted, history, mishaps>>
        /\ TypeOK /\ None \notin Workers
    BY PurchaseAssumption DEF Commit, Settled, Reading, IInv
  <1>1. q \in Request /\ q # None /\ row \in Row /\ Sees(w) /\ q.held \in Held
        /\ q.order.time \in 0..MaxEvents /\ row.revision \in Nat
    <2>1. q \in Request /\ q # None /\ row \in Row /\ Sees(w)
      BY <1>0, HeldIsRow
    <2> QED
      BY <2>1, PurchaseAssumption DEF Request, OrderRead, Row, Revisions
  <1>2. /\ order' = [status |-> status, refundedAmount |-> Refunded(q)]
        /\ Refunded(q) \in 0..Amount
        /\ status \in {"PAID", "PARTIALLY_REFUNDED", "REFUNDED"}
        /\ order.status = "REFUNDED" => status = "REFUNDED"
    BY <1>0, CommitWrites DEF Commit
  <1>3. /\ row'.owner /\ row'.linked /\ row'.lastEventTime = q.order.time
        /\ row'.state = (IF status = "REFUNDED" THEN "REFUNDED" ELSE "VERIFIED")
        /\ row'.consume = (IF status = "REFUNDED" THEN "NOT_APPLICABLE" ELSE "PENDING")
        /\ row'.revision = row.revision /\ row'.carriers = row.carriers /\ row' \in Row
    BY <1>0, <1>1 DEF Commit, Row, FenceHolds, States, Consumption
  <1>4. /\ grant' \in {"NONE", "ACTIVE", "REVOKED"}
        /\ grant # "NONE" => grant' # "NONE"
        /\ grant' = "ACTIVE" <=> ~deleted /\ status # "REFUNDED"
    <2>1. grant' = (IF deleted \/ status = "REFUNDED" THEN Revoked ELSE Granted)
      BY DEF Commit, NewGrant
    <2>2. grant \in {"NONE", "ACTIVE", "REVOKED"}
      BY DEF IInv, TypeOK
    <2>3. grant = "REVOKED" => deleted \/ status = "REFUNDED"
      BY <1>2 DEF IInv, RowFacts
    <2> HIDE DEF status
    <2> QED
      BY <2>1, <2>2, <2>3 DEF Revoked, Granted
  <1>5. /\ Afterwards(q).step \in {"FINISH", "CHECK"} /\ Afterwards(q).consume \in Consumption
        /\ Afterwards(q).step = "CHECK" => Afterwards(q).consume = "CONSUMED"
        /\ Afterwards(q).consume = "CONSUMED" => ~deleted /\ status # "REFUNDED"
        /\ Afterwards(q).consume = "CONSUMED" /\ Afterwards(q).step = "FINISH" => q.purchase.consumed
    <2> HIDE DEF q
    <2> QED
      BY DEF Afterwards, Consumption
  <1>6. done \in Request /\ request' = [request EXCEPT ![w] = done] /\ request'[w] = done
        /\ done.step = Afterwards(q).step /\ done.held = q.held
        /\ done.consume = Afterwards(q).consume
    <2>1. done \in Request
      BY <1>1, <1>5, BlankTyped
    <2>2. request' = [request EXCEPT ![w] = done]
      BY DEF Commit, Proceed
    <2> QED
      BY <1>0, <2>1, <2>2 DEF TypeOK, Blank
  <1>7. receipt' \in [Events -> {"NONE", "RECEIVED", "PROCESSED"}] /\ Stored' = Stored
    BY <1>0, ProcessedStored DEF Commit
  <1> HIDE DEF status, done
  <1>8. TypeOK'
    BY <1>0, <1>2, <1>3, <1>4, <1>6, <1>7 DEF TypeOK, google, history, Order
  <1>9. Bounded' /\ Truthful'
    BY <1>0, <1>3, <1>7 DEF IInv, Bounded, Truthful, google
  <1>10. RowFacts' /\ TablesAgree' /\ ConsumedWasServed'
    <2>1. play.kind = "PASS" /\ play' = play
      BY <1>0, <1>1 DEF Sees, google
    <2>2. RowFacts'
      BY <1>0, <1>2, <1>3, <1>4, <2>1 DEF RowFacts
    <2>3. TablesAgree'
      BY <1>0, <1>2, <1>3, <1>4 DEF TablesAgree, history
    <2>4. ConsumedWasServed'
      BY <1>3, <1>4, <2>1 DEF IInv, ConsumedWasServed
    <2> QED
      BY <2>2, <2>3, <2>4
  <1>11. Requests'
    <2> SUFFICES ASSUME NEW v \in Workers, request'[v] # None
                 PROVE  Sees(v)'
      BY DEF Requests
    <2>1. CASE v = w
      <3>1. play' = play /\ (q.purchase.consumed => play.consumed) /\ q.held.revision <= row.revision
        BY <1>0, <1>1 DEF Sees, google
      <3>2. Afterwards(q).consume = "CONSUMED" =>
              grant' # "NONE" /\ row'.linked /\ row'.state = "VERIFIED"
        BY <1>3, <1>4, <1>5
      <3>3. ~Reading(w)' /\ ~At(w, "JUDGE")' /\ ~At(w, "SETTLE")' /\ ~At(w, "CONSUME")'
        BY <1>5, <1>6 DEF Reading, At
      <3>4. /\ At(w, "CHECK")' => Afterwards(q).step = "CHECK"
            /\ At(w, "FINISH")' => Afterwards(q).step = "FINISH"
        BY <1>6 DEF At
      <3> HIDE DEF q
      <3>5. Sees(w)'
        BY <1>3, <1>5, <1>6, <3>1, <3>2, <3>3, <3>4 DEF Sees
      <3> QED
        BY <2>1, <3>5
    <2>2. CASE v # w
      <3>1. request'[v] = request[v] /\ Sees(v) /\ play' = play
        BY <1>0, <1>6, <2>2 DEF IInv, Requests, TypeOK, google
      <3>2. FenceHolds(v)' /\ ~shared' => FALSE
        <4>1. FenceHolds(v)' => FenceHolds(v)
          BY <1>3, <3>1 DEF FenceHolds
        <4>2. shared' = shared
          BY <1>0 DEF history
        <4> QED
          BY <1>0, <1>1, <2>2, <3>1, <4>1, <4>2, OneFence
      <3>3. row.revision <= row'.revision
        BY <1>1, <1>3
      <3> QED
        BY <1>0, <1>3, <1>4, <3>1, <3>2, <3>3, SeesStays
    <2> QED
      BY <2>1, <2>2
  <1>12. OneCarrier'
    <2>1. \A v \in Workers : request'[v] # None => request[v] # None
      BY <1>0, <1>1, <1>6 DEF TypeOK
    <2>2. shared' = shared
      BY <1>0 DEF history
    <2> QED
      BY <1>3, <1>8, <2>1, <2>2, CarriersStay
  <1> QED
    BY <1>8, <1>9, <1>10, <1>11, <1>12 DEF IInv

-----------------------------------------------------------------------------
(* The theorems.                                                             *)

LEMMA InitKeeps == Init => IInv
  <1> SUFFICES ASSUME Init PROVE IInv
    OBVIOUS
  <1>0. /\ play.state = "PENDING" /\ ~play.consumed /\ play.time = 0 /\ play \in Play
        /\ before = play
    <2>1. PICK kind \in {"PASS", "TEST", "OTHER"}, known \in BOOLEAN :
            play = [Unread EXCEPT !.kind = kind, !.attributed = known]
      BY DEF Init
    <2>2. Unread \in Play /\ Unread.state = "PENDING" /\ ~Unread.consumed /\ Unread.time = 0
      BY PurchaseAssumption DEF Unread, Play
    <2>3. /\ play \in Play /\ play.state = Unread.state /\ play.consumed = Unread.consumed
          /\ play.time = Unread.time
      BY <2>1, <2>2 DEF Play
    <2> QED
      BY <2>2, <2>3 DEF Init
  <1>1. TypeOK
    <2>1. play \in Play /\ before \in Play
      BY <1>0
    <2>2. row \in Row
      BY PurchaseAssumption DEF Init, NewRow, Row, States, Consumption, Revisions
    <2>3. order \in Order
      BY PurchaseAssumption DEF Init, Order
    <2>4. receipt \in [Events -> {"NONE", "RECEIVED", "PROCESSED"}]
          /\ request \in [Workers -> Request \cup {None}]
      BY DEF Init
    <2>5. announced \in 0..MaxEvents /\ mishaps \in 0..MaxMishaps
      BY PurchaseAssumption DEF Init
    <2>6. grant \in {"NONE", "ACTIVE", "REVOKED"} /\ deleted \in BOOLEAN
          /\ lagged \in BOOLEAN /\ shared \in BOOLEAN
      BY DEF Init
    <2> QED
      BY <2>1, <2>2, <2>3, <2>4, <2>5, <2>6 DEF TypeOK
  <1>2. Bounded
    BY <1>0, StoredCounts, PurchaseAssumption DEF Init, Bounded, NewRow
  <1>3. Truthful /\ RowFacts /\ OneCarrier /\ Requests /\ TablesAgree /\ ConsumedWasServed
    BY <1>0
    DEF Init, Truthful, PaidFor, RowFacts, OneCarrier, Requests, TablesAgree, ConsumedWasServed,
        NewRow
  <1> QED
    BY <1>1, <1>2, <1>3 DEF IInv

LEMMA NextKeeps ==
  ASSUME IInv, [Next]_vars
  PROVE  IInv'
  <1>1. ASSUME NEW w \in Workers, Step(w)
        PROVE  IInv'
    BY <1>1, RereadKeeps, ReadKeeps, CheckFenceKeeps, ConsumeKeeps, JudgeKeeps, SettleKeeps, FinishKeeps,
       CommitKeeps, EndKeeps
    DEF Step
  <1>2. ASSUME NEW w \in Workers, Claim(w) \/ Fail(w) \/ Die(w)
        PROVE  IInv'
    BY <1>2, ClaimKeeps, EndKeeps
  <1>3. CASE UNCHANGED vars
    <2> USE <1>3 DEF vars
    <2>1. TypeOK' /\ Truthful' /\ RowFacts' /\ OneCarrier' /\ TablesAgree' /\ ConsumedWasServed'
      BY DEF IInv, TypeOK, Truthful, RowFacts, OneCarrier, TablesAgree, ConsumedWasServed
    <2>2. Bounded'
      BY DEF IInv, Bounded, Stored
    <2>3. Requests'
      BY RequestsStay
    <2> QED
      BY <2>1, <2>2, <2>3 DEF IInv
  <1> QED
    BY <1>1, <1>2, <1>3, GoogleKeeps, QueueKeeps, DeleteKeeps, ExpireKeeps DEF Next

\* The state of the purchase, its tables and its processes has its type, the revision of
\* the row included: it counts events and verifications (google-purchase.service.ts:50-97).
THEOREM GoogleTypeCorrect == Spec => []TypeOK
  <1>1. IInv => TypeOK
    BY DEF IInv
  <1> QED
    BY <1>1, InitKeeps, NextKeeps, PTL DEF Spec

\* Queue row, order and grant agree at every moment, whatever the processes overtake and
\* share: what the row is linked to, what was paid and what is served always, and the
\* state of the row unless a lease was shared (google-purchase.service.ts:54-97, 375-441).
THEOREM TablesStayAgreed == Spec => []TablesAgree
  <1>1. IInv => TablesAgree
    BY DEF IInv
  <1> QED
    BY <1>1, InitKeeps, NextKeeps, PTL DEF Spec

\* Nothing is consumed that was not granted, although a purchase is consumed after the
\* fence was asked, and not with it; and no refund is marked as consumed unless a lease
\* was shared (google-purchase.service.ts:293-317).
THEOREM ConsumedIsServed == Spec => []ConsumedWasServed
  <1>1. IInv => ConsumedWasServed
    BY DEF IInv
  <1> QED
    BY <1>1, InitKeeps, NextKeeps, PTL DEF Spec

-----------------------------------------------------------------------------
(* Refunds.                                                                  *)

Forward ==
  /\ order'.refundedAmount >= order.refundedAmount
  /\ order.status = "REFUNDED" => order'.status = "REFUNDED"
  /\ grant = "REVOKED" => grant' = "REVOKED"
  /\ ~shared' => /\ row.state = "REFUNDED" => row'.state = "REFUNDED"
                 /\ row'.lastEventTime >= row.lastEventTime

\* Most steps leave alone what is known of the money.
LEMMA SameMoney ==
  ASSUME TypeOK, order' = order, grant = "REVOKED" => grant' = "REVOKED",
         row'.state = row.state, row'.lastEventTime = row.lastEventTime
  PROVE  Forward
  <1>1. order \in Order /\ row \in Row
    BY DEF TypeOK
  <1>2. order.refundedAmount \in Nat /\ row.lastEventTime \in Nat
    BY <1>1, PurchaseAssumption DEF Order, Row
  <1> QED
    BY <1>2 DEF Forward

\* The steps that write what a process found out rely on the row they hold, unless they
\* share its fence, and on the order under its lock.
LEMMA RoundsForward ==
  ASSUME IInv, NEW w \in Workers,
         \/ IgnoreTest(w) \/ IgnoreOther(w) \/ SettleUnpaid(w)
         \/ AwaitOwner(w) \/ AwaitPayment(w) \/ Commit(w)
  PROVE  Forward
  <1> DEFINE q == request[w]
  <1>0. Reading(w) /\ FenceHolds(w)
    BY DEF IgnoreTest, IgnoreOther, SettleUnpaid, Judged, AwaitOwner, AwaitPayment, Commit,
           Settled, Reading
  <1>1. /\ q \in Request /\ row \in Row /\ Sees(w) /\ (~shared => Unchanged(q.held))
        /\ q.order.time \in Nat /\ row.lastEventTime \in Nat /\ order.refundedAmount \in Nat
    <2>1. q \in Request /\ row \in Row /\ Sees(w) /\ (~shared => Unchanged(q.held)) /\ order \in Order
      BY <1>0, HeldIsRow DEF IInv, TypeOK
    <2> QED
      BY <2>1, PurchaseAssumption DEF Request, OrderRead, Row, Order
  <1>2. CASE IgnoreTest(w) \/ IgnoreOther(w)
    <2>1. row.state # "REFUNDED"
      BY <1>1, <1>2 DEF IgnoreTest, IgnoreOther, LiveTest, Sees, IInv, RowFacts
    <2>2. row'.lastEventTime = row.lastEventTime /\ order' = order /\ grant' = grant
      BY <1>1, <1>2 DEF IgnoreTest, IgnoreOther, Release, Unleased, Row
    <2> QED
      BY <1>1, <2>1, <2>2 DEF Forward
  <1>3. CASE SettleUnpaid(w)
    <2>1. ~shared => row.state # "REFUNDED"
      BY <1>1, <1>3 DEF SettleUnpaid, Unpaid, Unchanged
    <2>2. row'.lastEventTime = row.lastEventTime /\ order' = order /\ grant' = grant
          /\ shared' = shared
      BY <1>1, <1>3 DEF SettleUnpaid, Release, Unleased, Row, history
    <2> QED
      BY <1>1, <2>1, <2>2 DEF Forward
  <1>4. CASE AwaitOwner(w)
    <2>1. ~shared /\ row.state = "REFUNDED" => FullRefund(q)
      BY <1>1 DEF FullRefund, Unchanged
    <2>2. ~Stale(q) /\ order' = order /\ grant' = grant /\ shared' = shared
      BY <1>4 DEF AwaitOwner, Settled, Release, history
    <2>3. /\ row'.state = (IF FullRefund(q) THEN "REFUNDED" ELSE "AWAITING_OWNER")
          /\ row'.lastEventTime = q.order.time
      BY <1>1, <1>4 DEF AwaitOwner, Release, Unleased, Row
    <2> QED
      BY <1>1, <2>1, <2>2, <2>3 DEF Forward, Stale, Unchanged
  <1>5. CASE AwaitPayment(w)
    <2>1. ~shared => row.state # "REFUNDED"
      BY <1>1, <1>5 DEF AwaitPayment, Payable, FullRefund, Unchanged
    <2>2. row'.lastEventTime = row.lastEventTime /\ order' = order /\ grant' = grant
          /\ shared' = shared
      BY <1>1, <1>5 DEF AwaitPayment, Release, Unleased, Row, history
    <2> QED
      BY <1>1, <2>1, <2>2 DEF Forward
  <1>6. CASE Commit(w)
    <2>1. Settled(w) /\ ~Stale(q) /\ shared' = shared
      BY <1>6 DEF Commit, Settled, history
    <2>2. /\ Refunded(q) >= order.refundedAmount
          /\ order.status = "REFUNDED" => NewStatus(q) = "REFUNDED"
          /\ ~shared /\ row.state = "REFUNDED" => NewStatus(q) = "REFUNDED"
      BY <1>0, <2>1, CommitWrites
    <2>3. order'.refundedAmount = Refunded(q) /\ order'.status = NewStatus(q)
      BY <1>6 DEF Commit
    <2>4. grant = "REVOKED" => grant' = "REVOKED"
      <3>1. grant = "REVOKED" => deleted \/ NewStatus(q) = "REFUNDED"
        BY <2>2 DEF IInv, RowFacts
      <3>2. grant' = NewGrant(q)
        BY <1>6 DEF Commit
      <3> QED
        BY <3>1, <3>2 DEF NewGrant, Revoked
    <2>5. /\ row'.state = (IF NewStatus(q) = "REFUNDED" THEN "REFUNDED" ELSE "VERIFIED")
          /\ row'.lastEventTime = q.order.time
      BY <1>1, <1>6 DEF Commit, Row
    <2> QED
      BY <1>1, <2>1, <2>2, <2>3, <2>4, <2>5 DEF Forward, Stale, Unchanged
  <1> QED
    BY <1>2, <1>3, <1>4, <1>5, <1>6

\* Every other step leaves the row's state and times and the order alone.
LEMMA OthersForward ==
  ASSUME IInv, Next,
         \A w \in Workers : ~(IgnoreTest(w) \/ IgnoreOther(w) \/ SettleUnpaid(w)
                                \/ AwaitOwner(w) \/ AwaitPayment(w) \/ Commit(w))
  PROVE  Forward
  <1>0. TypeOK /\ row \in Row
    BY DEF IInv, TypeOK
  <1>1. CASE Complete \/ Cancel \/ Attribute \/ \E total \in 1..Amount : Refund(total)
    BY <1>0, <1>1, SameMoney DEF Complete, Cancel, Attribute, Refund, Announce, Becomes, tables
  <1>2. CASE Verify \/ \E e \in Events : Record(e)
    <2>1. order' = order /\ row' = Enqueued /\ grant' = grant
      BY <1>2 DEF Verify, Record
    <2>2. row'.state = row.state /\ row'.lastEventTime = row.lastEventTime
      BY <1>0, <2>1 DEF Enqueued, Row
    <2> QED
      BY <1>0, <2>1, <2>2, SameMoney
  <1>3. CASE DeleteAccount
    <2>1. order' = order /\ (grant = "REVOKED" => grant' = "REVOKED")
      BY <1>3 DEF DeleteAccount, Revoked
    <2>2. row'.state = row.state /\ row'.lastEventTime = row.lastEventTime
      BY <1>0, <1>3 DEF DeleteAccount, Unleased, Row
    <2> QED
      BY <1>0, <2>1, <2>2, SameMoney
  <1>4. ASSUME order' = order, grant' = grant, row' = row \/ row' = Unleased(row)
        PROVE  Forward
    <2>1. row'.state = row.state /\ row'.lastEventTime = row.lastEventTime
      BY <1>0, <1>4 DEF Unleased, Row
    <2> QED
      BY <1>0, <1>4, <2>1, SameMoney
  <1>5. CASE LeaseExpires
    BY <1>4, <1>5 DEF LeaseExpires
  <1>6. ASSUME NEW w \in Workers, Claim(w) \/ Reread(w)
        PROVE  Forward
    <2>1. order' = order /\ grant' = grant
      BY <1>6 DEF Claim, Reread
    <2>2. row'.state = row.state /\ row'.lastEventTime = row.lastEventTime
      BY <1>0, <1>6 DEF Claim, Reread, Row
    <2> QED
      BY <1>0, <2>1, <2>2, SameMoney
  <1>7. ASSUME NEW w \in Workers, \/ ReadPurchase(w) \/ ReadOrder(w) \/ CheckFence(w)
                                  \/ Overtaken(w) \/ Die(w)
        PROVE  Forward
    BY <1>4, <1>7 DEF ReadPurchase, ReadOrder, CheckFence, Overtaken, Die, tables
  <1>8. ASSUME NEW w \in Workers, PutOff(w) \/ Refuse(w) \/ Consume(w) \/ Fail(w)
        PROVE  Forward
    BY <1>4, <1>8 DEF PutOff, Refuse, Consume, Fail, Release
  <1>9. ASSUME NEW w \in Workers, Finish(w)
        PROVE  Forward
    <2>1. order' = order /\ grant' = grant
      BY <1>9 DEF Finish, Release
    <2>2. row'.state = row.state /\ row'.lastEventTime = row.lastEventTime
      BY <1>0, <1>9 DEF Finish, Release, Unleased, Row
    <2> QED
      BY <1>0, <2>1, <2>2, SameMoney
  <1> QED
    BY <1>1, <1>2, <1>3, <1>5, <1>6, <1>7, <1>8, <1>9 DEF Next, Step

\* Refunded money only grows, a refunded order stays refunded and a revoked grant is not
\* revived, although reads of Google may lag and processes share a lease; unless they do,
\* a full refund is final before its owner is known and the times of the orders never go
\* back, either (google-purchase.service.ts:232-260 and 375-441).
THEOREM RefundsOnlyGrow == Spec => RefundsForward
  <1>1. ASSUME IInv, Next
        PROVE  Forward
    BY <1>1, RoundsForward, OthersForward
  <1>2. ASSUME IInv, [Next]_vars
        PROVE  IInv' /\ [Forward]_vars
    BY <1>1, <1>2, NextKeeps
  <1> QED
    BY <1>2, InitKeeps, PTL DEF Spec, RefundsForward, Forward

-----------------------------------------------------------------------------
(* The mirror.  Recording an event raises the revision, so whatever a process *)
(* has read while its fence holds was read after the last event was stored,   *)
(* and is what Google still says.                                             *)

Honest == ~lagged /\ play.kind = "PASS"

\* The event of the last change.
LastStored == announced > 0 /\ receipt[announced] # "NONE"
LastClosed == announced > 0 /\ receipt[announced] = "PROCESSED"

\* Nobody knows of an event or of money that Google has not announced.
Known ==
  /\ before.refunded <= play.refunded
  /\ order.refundedAmount <= play.refunded
  /\ row.state = "REFUNDED" \/ order.status = "REFUNDED" => play.refunded = Amount
  /\ row.state = "IGNORED_TEST" => play.kind # "PASS"
  /\ play.completed => announced > 0
  /\ \A e \in Events : e > announced => receipt[e] = "NONE"

\* What a process read stays true of money that never comes back, whoever overtakes it.
Knows(w) ==
  /\ Reading(w) /\ request[w].held.state = "REFUNDED" => play.refunded = Amount
  /\ At(w, "SETTLE") => request[w].order.refunded <= play.refunded
  /\ Honest /\ LastStored /\ FenceHolds(w) =>
       /\ At(w, "JUDGE") \/ At(w, "SETTLE") => request[w].purchase.completed = play.completed
       /\ At(w, "SETTLE") => request[w].order.refunded = play.refunded

Mirrored ==
  /\ order.refundedAmount = play.refunded
  /\ order.status = CASE play.refunded = Amount -> "REFUNDED"
                      [] play.refunded = 0 -> "PAID"
                      [] OTHER -> "PARTIALLY_REFUNDED"

Mirrors ==
  /\ Known
  /\ \A w \in Workers : Knows(w)
  /\ Honest /\ LastClosed /\ play.completed => Mirrored

MInv == IInv /\ Mirrors

\* Whoever consumes the purchase or attributes it moves no money.
SameAtGoogle ==
  /\ play'.kind = play.kind /\ play'.completed = play.completed
  /\ play'.refunded = play.refunded /\ before'.refunded <= play.refunded
  /\ announced' = announced

LEMMA KnowsStays ==
  ASSUME NEW v \in Workers, Knows(v), request'[v] = request[v], SameAtGoogle,
         (Honest /\ LastStored /\ FenceHolds(v))' => Honest /\ LastStored /\ FenceHolds(v)
  PROVE  Knows(v)'
  BY DEF Knows, Reading, At, SameAtGoogle

\* The mirror after a step that announces nothing.
LEMMA MirrorStays ==
  ASSUME MInv, SameAtGoogle, lagged => lagged',
         order'.refundedAmount <= play.refunded,
         \A e \in Events : e > announced => receipt'[e] = "NONE",
         row'.state = "IGNORED_TEST" => row.state = "IGNORED_TEST" \/ play.kind # "PASS",
         row'.state = "REFUNDED" => row.state = "REFUNDED" \/ play.refunded = Amount,
         order'.status = "REFUNDED" => play.refunded = Amount,
         \A v \in Workers : Knows(v)',
         Honest /\ LastClosed' /\ play.completed => Mirrored' \/ (LastClosed /\ order' = order)
  PROVE  Mirrors'
  <1>1. Known'
    BY DEF MInv, Mirrors, Known, SameAtGoogle
  <1>2. ASSUME Honest', LastClosed', play'.completed
        PROVE  Mirrored'
    <2>1. Honest /\ play.completed
      BY <1>2 DEF Honest, SameAtGoogle
    <2>2. LastClosed /\ order' = order => Mirrored'
      BY <2>1 DEF MInv, Mirrors, Mirrored, SameAtGoogle
    <2> QED
      BY <1>2, <2>1, <2>2
  <1> QED
    BY <1>1, <1>2 DEF Mirrors

\* Nobody gets hold of a fence by a step of somebody else.
LEMMA FenceElsewhere ==
  ASSUME NEW w \in Workers, NEW v \in Workers \ {w}, request'[v] = request[v],
         row'.revision = row.revision, row'.carriers \subseteq row.carriers \cup {w},
         FenceHolds(v)'
  PROVE  FenceHolds(v)
  BY DEF FenceHolds

LEMMA AnnounceMirrors ==
  ASSUME MInv, NEW new \in Play, Announce(new), new.kind = play.kind,
         play.refunded <= new.refunded
  PROVE  Mirrors'
  <1>1. /\ play' = new /\ before' = play /\ announced' = announced + 1
        /\ UNCHANGED <<tables, deleted, request, history, mishaps>>
        /\ announced \in Nat /\ announced < MaxEvents
    BY PurchaseAssumption DEF Announce, Becomes, MInv, IInv, TypeOK
  <1>2. play.refunded \in 0..Amount /\ new.refunded \in 0..Amount /\ order.refundedAmount \in Nat
        /\ Amount \in Nat
    BY PurchaseAssumption DEF MInv, IInv, TypeOK, Play, Order
  <1>3. announced' \in Events /\ announced' > announced
    BY <1>1, PurchaseAssumption DEF Events
  <1>4. ~LastStored' /\ ~LastClosed'
    BY <1>1, <1>3 DEF MInv, Mirrors, Known, LastStored, LastClosed, tables
  <1>5. Known'
    <2>1. /\ before'.refunded <= play'.refunded
          /\ order'.refundedAmount <= play'.refunded
          /\ row'.state = "REFUNDED" \/ order'.status = "REFUNDED" => play'.refunded = Amount
      BY <1>1, <1>2 DEF MInv, Mirrors, Known, tables
    <2>2. row'.state = "IGNORED_TEST" => play'.kind # "PASS"
      BY <1>1 DEF MInv, Mirrors, Known, tables
    <2>3. play'.completed => announced' > 0
      BY <1>1
    <2>4. ASSUME NEW e \in Events, e > announced'
          PROVE  receipt'[e] = "NONE"
      <3>1. e > announced
        BY <1>1, <2>4, PurchaseAssumption DEF Events
      <3> QED
        BY <1>1, <3>1 DEF MInv, Mirrors, Known, tables
    <2> QED
      BY <2>1, <2>2, <2>3, <2>4 DEF Known
  <1>6. ASSUME NEW v \in Workers, At(v, "SETTLE")'
        PROVE  request'[v].order.refunded <= play'.refunded
    <2>1. At(v, "SETTLE") /\ request[v] \in Request /\ request'[v] = request[v]
      BY <1>1, <1>6 DEF At, MInv, IInv, TypeOK
    <2>2. request[v].order.refunded \in 0..Amount
      BY <2>1 DEF Request, OrderRead
    <2>3. request[v].order.refunded <= play.refunded
      BY <2>1 DEF MInv, Mirrors, Knows
    <2> QED
      BY <1>1, <1>2, <2>1, <2>2, <2>3
  <1>7. ASSUME NEW v \in Workers, Reading(v)', request'[v].held.state = "REFUNDED"
        PROVE  play'.refunded = Amount
    <2>1. Reading(v) /\ request[v].held.state = "REFUNDED"
      BY <1>1, <1>7 DEF Reading, At
    <2>2. play.refunded = Amount
      BY <2>1 DEF MInv, Mirrors, Knows
    <2> QED
      BY <1>1, <1>2, <2>2
  <1>8. \A v \in Workers : Knows(v)'
    BY <1>4, <1>6, <1>7 DEF Knows
  <1> QED
    BY <1>4, <1>5, <1>8 DEF Mirrors

LEMMA GoogleMirrors ==
  ASSUME MInv, Complete \/ Cancel \/ Attribute \/ \E total \in 1..Amount : Refund(total)
  PROVE  Mirrors'
  <1>0. play \in Play /\ play.refunded \in 0..Amount /\ play.refunded \in Nat /\ IInv
    BY PurchaseAssumption DEF MInv, IInv, TypeOK, Play
  <1>1. CASE Complete
    <2> DEFINE new == [play EXCEPT !.state = "PURCHASED", !.completed = TRUE, !.time = 1]
    <2>1. Announce(new) /\ announced < MaxEvents
      BY <1>1 DEF Complete, Announce
    <2>2. new \in Play /\ new.kind = play.kind /\ new.refunded = play.refunded
      BY <1>0, <2>1, TimeFits DEF Play
    <2> HIDE DEF new
    <2> QED
      BY <1>0, <2>1, <2>2, AnnounceMirrors
  <1>2. CASE Cancel
    <2> DEFINE new == [play EXCEPT !.state = "CANCELLED"]
    <2>1. Announce(new)
      BY <1>2 DEF Cancel
    <2>2. new \in Play /\ new.kind = play.kind /\ new.refunded = play.refunded
      BY <1>0 DEF Play
    <2> HIDE DEF new
    <2> QED
      BY <1>0, <2>1, <2>2, AnnounceMirrors
  <1>3. CASE Attribute
    <2>1. /\ play' = [play EXCEPT !.attributed = TRUE] /\ before' = play
          /\ announced' = announced /\ UNCHANGED <<tables, deleted, request, history, mishaps>>
      BY <1>3 DEF Attribute, Becomes
    <2>2. SameAtGoogle
      BY <1>0, <2>1 DEF SameAtGoogle, Play
    <2>3. ASSUME NEW v \in Workers
          PROVE  Knows(v)'
      <3>1. (Honest /\ LastStored /\ FenceHolds(v))' => Honest /\ LastStored /\ FenceHolds(v)
        BY <2>1, <2>2 DEF Honest, LastStored, FenceHolds, SameAtGoogle, tables, history
      <3> QED
        BY <2>1, <2>2, <3>1, KnowsStays DEF MInv, Mirrors
    <2>4. LastClosed' => LastClosed
      BY <2>1 DEF LastClosed, tables
    <2> QED
      BY <2>1, <2>2, <2>3, <2>4, MirrorStays DEF MInv, Mirrors, Known, tables, history
  <1>4. ASSUME NEW total \in 1..Amount, Refund(total)
        PROVE  Mirrors'
    <2>1. PICK state \in {play.state, "CANCELLED"} :
            Announce([play EXCEPT !.refunded = total, !.time = play.time + 1, !.state = state])
      BY <1>4 DEF Refund
    <2> DEFINE new == [play EXCEPT !.refunded = total, !.time = play.time + 1, !.state = state]
    <2>2. announced < MaxEvents /\ Announce(new)
      BY <2>1 DEF Announce
    <2>3. new \in Play /\ new.kind = play.kind /\ new.refunded = total
      <3>1. state \in {"PENDING", "PURCHASED", "CANCELLED"} /\ total \in 0..Amount
        BY <1>0, PurchaseAssumption DEF Play
      <3> QED
        BY <1>0, <2>2, <3>1, TimeFits DEF Play
    <2>4. play.refunded <= total
      <3>1. play.refunded < total
        BY <1>4 DEF Refund
      <3> QED
        BY <1>0, <3>1
    <2> HIDE DEF new
    <2> QED
      BY <1>0, <2>2, <2>3, <2>4, AnnounceMirrors
  <1> QED
    BY <1>1, <1>2, <1>3, <1>4

LEMMA QueueMirrors ==
  ASSUME MInv, Verify \/ (\E e \in Events : Record(e))
  PROVE  Mirrors'
  <1>0. IInv /\ row \in Row /\ row.revision \in Nat
    BY PurchaseAssumption DEF MInv, IInv, TypeOK, Row, Revisions
  <1>1. /\ row' = Enqueued /\ UNCHANGED <<google, order, grant, deleted, request, history, mishaps>>
        /\ \A e \in Events : e > announced => receipt'[e] = receipt[e]
    <2>1. CASE Verify
      BY <2>1 DEF Verify
    <2>2. ASSUME NEW f \in Events, Record(f)
          PROVE  /\ row' = Enqueued
                 /\ UNCHANGED <<google, order, grant, deleted, request, history, mishaps>>
                 /\ \A e \in Events : e > announced => receipt'[e] = receipt[e]
      <3>1. announced \in Int /\ Events \subseteq Int /\ f <= announced
        BY <2>2, PurchaseAssumption DEF Record, Events, MInv, IInv, TypeOK
      <3>2. \A e \in Events : e > announced => e # f
        BY <3>1
      <3>3. \A e \in Events : e # f => receipt'[e] = receipt[e]
        BY <2>2 DEF Record, MInv, IInv, TypeOK
      <3> QED
        BY <2>2, <3>2, <3>3 DEF Record
    <2> QED
      BY <2>1, <2>2
  <1>2. SameAtGoogle
    BY <1>1 DEF SameAtGoogle, google, MInv, Mirrors, Known
  <1>3. row'.state = row.state /\ (Ignored \/ row'.revision = row.revision + 1)
    BY <1>0, <1>1 DEF Enqueued, Row
  <1>4. Ignored => ~Honest
    BY DEF Ignored, Honest, MInv, Mirrors, Known
  <1>5. IInv'
    BY <1>0, QueueKeeps
  <1>6. ASSUME NEW v \in Workers
        PROVE  Knows(v)'
    <2>1. CASE Ignored
      BY <1>1, <1>2, <1>4, <2>1, KnowsStays DEF MInv, Mirrors, Honest, google, history
    <2>2. CASE ~Ignored /\ request[v] # None
      <3>1. ~FenceHolds(v)'
        BY <1>0, <1>1, <1>3, <1>5, <2>2, Outdated DEF IInv, TypeOK
      <3> QED
        BY <1>1, <1>2, <3>1, KnowsStays DEF MInv, Mirrors
    <2>3. CASE request[v] = None
      BY <1>1, <2>3 DEF Knows, Reading, At
    <2> QED
      BY <2>1, <2>2, <2>3
  <1>7. Honest /\ LastClosed' => LastClosed
    <2> SUFFICES ASSUME Honest, LastClosed'
                 PROVE  LastClosed
      OBVIOUS
    <2>1. announced > 0 /\ receipt'[announced] = "PROCESSED" /\ announced' = announced
      BY <1>1 DEF LastClosed, google
    <2>2. announced \in Events
      BY <2>1, PurchaseAssumption DEF Events, IInv, MInv, TypeOK
    <2>3. receipt'[announced] = receipt[announced] \/ receipt'[announced] = "RECEIVED"
      BY <1>4, <2>2 DEF Verify, Record, MInv, IInv, TypeOK
    <2> QED
      BY <2>1, <2>3 DEF LastClosed
  <1> QED
    BY <1>1, <1>2, <1>3, <1>6, <1>7, MirrorStays DEF MInv, Mirrors, Known, history

LEMMA DeleteMirrors ==
  ASSUME MInv, DeleteAccount
  PROVE  Mirrors'
  <1>0. IInv /\ IInv' /\ row \in Row /\ row' \in Row /\ row.revision \in Nat
    <2>1. IInv /\ IInv'
      BY DeleteKeeps DEF MInv
    <2> QED
      BY <2>1, PurchaseAssumption DEF IInv, TypeOK, Row, Revisions
  <1>1. /\ UNCHANGED <<google, receipt, order, request, history, mishaps>>
        /\ \/ row' = row
           \/ row' = [row EXCEPT !.revision = row.revision + 1, !.leased = FALSE, !.carriers = {}]
    BY <1>0 DEF DeleteAccount, Unleased, Row, google
  <1>2. row'.state = row.state /\ (row' = row \/ row.revision < row'.revision)
    <2>1. CASE row' = [row EXCEPT !.revision = row.revision + 1, !.leased = FALSE, !.carriers = {}]
      <3>1. row'.state = row.state /\ row'.revision = row.revision + 1
        BY <1>0, <2>1 DEF Row
      <3> QED
        BY <1>0, <3>1
    <2> QED
      BY <1>1, <2>1
  <1>3. SameAtGoogle
    BY <1>1 DEF SameAtGoogle, google, MInv, Mirrors, Known
  <1>4. ASSUME NEW v \in Workers
        PROVE  Knows(v)'
    <2>1. CASE request[v] = None
      BY <1>1, <2>1 DEF Knows, Reading, At
    <2>2. CASE request[v] # None
      <3>1. FenceHolds(v)' => row' = row
        BY <1>0, <1>1, <1>2, <2>2, Outdated
      <3>2. (Honest /\ LastStored /\ FenceHolds(v))' => Honest /\ LastStored /\ FenceHolds(v)
        BY <1>1, <3>1 DEF Honest, LastStored, FenceHolds, google, history
      <3> QED
        BY <1>1, <1>3, <3>2, KnowsStays DEF MInv, Mirrors
    <2> QED
      BY <2>1, <2>2
  <1>5. LastClosed' => LastClosed
    BY <1>1 DEF LastClosed, google
  <1> QED
    BY <1>1, <1>2, <1>3, <1>4, <1>5, MirrorStays DEF MInv, Mirrors, Known, history

LEMMA ExpireMirrors ==
  ASSUME MInv, LeaseExpires
  PROVE  Mirrors'
  <1>1. /\ row' = Unleased(row) /\ row \in Row
        /\ UNCHANGED <<google, receipt, order, grant, deleted, request, history>>
    BY DEF LeaseExpires, MInv, IInv, TypeOK
  <1>2. row'.state = row.state /\ row'.carriers = {}
    BY <1>1 DEF Row, Unleased
  <1>3. SameAtGoogle
    BY <1>1 DEF SameAtGoogle, google, MInv, Mirrors, Known
  <1>4. ASSUME NEW v \in Workers
        PROVE  Knows(v)'
    BY <1>1, <1>2, <1>3, KnowsStays DEF MInv, Mirrors, FenceHolds
  <1>5. LastClosed' => LastClosed
    BY <1>1 DEF LastClosed, google
  <1> QED
    BY <1>1, <1>2, <1>3, <1>4, <1>5, MirrorStays DEF MInv, Mirrors, Known, history

\* A step of one process that moves no money and closes no event while the order may be
\* behind Google.
LEMMA RoundMirrors ==
  ASSUME MInv, NEW w \in Workers, NEW new, request' = [request EXCEPT ![w] = new],
         SameAtGoogle, lagged => lagged', order' = order,
         receipt' = receipt \/ (receipt' = Processed /\ (Honest /\ LastStored => ~play.completed)),
         row'.state = "IGNORED_TEST" => row.state = "IGNORED_TEST" \/ play.kind # "PASS",
         row'.state = "REFUNDED" => row.state = "REFUNDED" \/ play.refunded = Amount,
         row'.revision = row.revision, row'.carriers \subseteq row.carriers \cup {w},
         Knows(w)'
  PROVE  Mirrors'
  <1>0. IInv /\ TypeOK
    BY DEF MInv, IInv
  <1>1. \A e \in Events : receipt[e] = "NONE" <=> receipt'[e] = "NONE"
    BY <1>0, ProcessedStored DEF TypeOK, Processed
  <1>2. LastStored' => LastStored
    <2> SUFFICES ASSUME LastStored'
                 PROVE  LastStored
      OBVIOUS
    <2>1. announced \in Events
      BY <1>0, PurchaseAssumption DEF LastStored, SameAtGoogle, TypeOK, Events
    <2> QED
      BY <1>1, <2>1 DEF LastStored, SameAtGoogle
  <1>3. ASSUME NEW v \in Workers
        PROVE  Knows(v)'
    <2>1. CASE v # w
      <3>1. request'[v] = request[v]
        BY <1>0, <2>1 DEF TypeOK
      <3>2. FenceHolds(v)' => FenceHolds(v)
        BY <2>1, <3>1, FenceElsewhere
      <3>3. (Honest /\ LastStored /\ FenceHolds(v))' => Honest /\ LastStored /\ FenceHolds(v)
        BY <1>2, <3>2 DEF Honest, SameAtGoogle
      <3> QED
        BY <3>1, <3>3, KnowsStays DEF MInv, Mirrors
    <2> QED
      BY <2>1
  <1>4. Honest /\ LastClosed' /\ play.completed => LastClosed
    <2>1. LastClosed' => LastStored'
      BY DEF LastClosed, LastStored
    <2>2. receipt' = receipt => (LastClosed' => LastClosed)
      BY DEF LastClosed, SameAtGoogle
    <2> QED
      BY <1>2, <2>1, <2>2
  <1>5. \A e \in Events : e > announced => receipt'[e] = "NONE"
    BY <1>1 DEF MInv, Mirrors, Known
  <1> QED
    BY <1>3, <1>4, <1>5, MirrorStays DEF MInv, Mirrors, Known

LEMMA ReleaseMirrors ==
  ASSUME MInv, NEW w \in Workers, NEW new \in Row, Release(w, new),
         receipt' = receipt \/ (receipt' = Processed /\ (Honest /\ LastStored => ~play.completed)),
         new.state = "IGNORED_TEST" => row.state = "IGNORED_TEST" \/ play.kind # "PASS",
         new.state = "REFUNDED" => row.state = "REFUNDED" \/ play.refunded = Amount,
         new.revision = row.revision
  PROVE  Mirrors'
  <1>1. row'.state = new.state /\ row'.revision = row.revision /\ row'.carriers = {}
    BY DEF Release, Unleased, Row
  <1>2. SameAtGoogle /\ lagged' = lagged /\ order' = order
    BY DEF Release, SameAtGoogle, google, history, MInv, Mirrors, Known
  <1>3. request' = [request EXCEPT ![w] = None]
    BY DEF Release, Drop, Proceed
  <1>4. Knows(w)'
    BY <1>3 DEF Knows, Reading, At, MInv, IInv, TypeOK
  <1> QED
    BY <1>1, <1>2, <1>3, <1>4, RoundMirrors

\* A refund of the whole amount was paid back by Google, whenever it was read.
LEMMA FullIsRefunded ==
  ASSUME MInv, NEW w \in Workers, At(w, "SETTLE"), FullRefund(request[w])
  PROVE  play.refunded = Amount
  <1>1. request[w] \in Request
    BY DEF At, MInv, IInv, TypeOK
  <1>2. request[w].order.refunded \in 0..Amount /\ play.refunded \in 0..Amount
    BY <1>1 DEF Request, OrderRead, MInv, IInv, TypeOK, Play
  <1>3. request[w].order.refunded <= play.refunded
    BY DEF MInv, Mirrors, Knows
  <1>4. request[w].held.state = "REFUNDED" => play.refunded = Amount
    BY DEF MInv, Mirrors, Knows, Reading
  <1>5. request[w].order.refunded = Amount => play.refunded = Amount
    BY <1>2, <1>3, PurchaseAssumption
  <1> QED
    BY <1>4, <1>5 DEF FullRefund

LEMMA JudgeMirrors ==
  ASSUME MInv, NEW w \in Workers, IgnoreTest(w) \/ IgnoreOther(w) \/ SettleUnpaid(w)
  PROVE  Mirrors'
  <1> DEFINE q == request[w]
  <1>0. At(w, "JUDGE") /\ Reading(w) /\ FenceHolds(w)
    BY DEF IgnoreTest, IgnoreOther, SettleUnpaid, Judged, Reading
  <1>1. q \in Request /\ row \in Row /\ q.purchase.kind = play.kind
        /\ q.purchase \in PurchaseRead /\ PaidFor(q.purchase)
    BY <1>0, HeldIsRow DEF MInv, Sees, Request
  <1>2. CASE IgnoreTest(w)
    <2> DEFINE new == [row EXCEPT !.state = "IGNORED_TEST", !.consume = "NOT_APPLICABLE"]
    <2>1. new \in Row /\ new.revision = row.revision /\ new.state = "IGNORED_TEST"
      BY <1>1 DEF Row, States, Consumption
    <2>2. Release(w, new) /\ receipt' = Processed /\ play.kind # "PASS"
      BY <1>1, <1>2 DEF IgnoreTest, LiveTest
    <2> HIDE DEF new
    <2> QED
      BY <2>1, <2>2, ReleaseMirrors DEF Honest
  <1>3. CASE IgnoreOther(w)
    <2> DEFINE new == [row EXCEPT !.state = "IGNORED"]
    <2>1. new \in Row /\ new.revision = row.revision /\ new.state = "IGNORED"
      BY <1>1 DEF Row, States
    <2>2. Release(w, new) /\ receipt' = receipt
      BY <1>3 DEF IgnoreOther
    <2> HIDE DEF new
    <2> QED
      BY <2>1, <2>2, ReleaseMirrors
  <1>4. CASE SettleUnpaid(w)
    <2> DEFINE known == q.purchase.attributed
               over == known /\ q.purchase.state = "CANCELLED"
               state == IF known THEN q.purchase.state ELSE "AWAITING_OWNER"
               consume == IF over THEN "NOT_APPLICABLE" ELSE "NOT_READY"
               new == [row EXCEPT !.owner = row.owner \/ known, !.state = state, !.consume = consume]
    <2>1. Unpaid(q)
      BY <1>4 DEF SettleUnpaid
    <2>2. known \in BOOLEAN /\ state \in {"PENDING", "CANCELLED", "AWAITING_OWNER"}
          /\ consume \in {"NOT_APPLICABLE", "NOT_READY"}
      BY <1>1, <2>1 DEF PurchaseRead, Unpaid, PaidFor
    <2>3. Honest /\ LastStored => ~play.completed
      BY <1>0, <2>1 DEF MInv, Mirrors, Knows, Unpaid
    <2>4. Release(w, new) /\ (receipt' = receipt \/ receipt' = Processed)
      BY <1>4 DEF SettleUnpaid
    <2> HIDE DEF known, over, state, consume
    <2>5. new \in Row /\ new.revision = row.revision /\ new.state = state
      BY <1>1, <2>2 DEF Row, States, Consumption
    <2> HIDE DEF new
    <2> QED
      BY <2>2, <2>3, <2>4, <2>5, ReleaseMirrors
  <1> QED
    BY <1>2, <1>3, <1>4

LEMMA SettleMirrors ==
  ASSUME MInv, NEW w \in Workers,
         PutOff(w) \/ AwaitOwner(w) \/ AwaitPayment(w) \/ Refuse(w) \/ Finish(w)
  PROVE  Mirrors'
  <1> DEFINE q == request[w]
  <1>0. row \in Row /\ FenceHolds(w) /\ receipt' = receipt /\ q # None /\ q \in Request
    BY DEF PutOff, AwaitOwner, AwaitPayment, Refuse, Finish, Settled, Judged, At, MInv, IInv, TypeOK
  <1>1. q.purchase \in PurchaseRead /\ q.order \in OrderRead /\ q.consume \in Consumption
    BY <1>0 DEF Request
  <1>2. CASE PutOff(w) \/ Refuse(w)
    <2>1. Release(w, row)
      BY <1>2 DEF PutOff, Refuse
    <2> QED
      BY <1>0, <2>1, ReleaseMirrors
  <1>3. CASE AwaitOwner(w)
    <2> DEFINE state == IF FullRefund(q) THEN "REFUNDED" ELSE "AWAITING_OWNER"
               new == [row EXCEPT !.state = state, !.lastEventTime = q.order.time]
    <2>1. Release(w, new) /\ At(w, "SETTLE")
      BY <1>3 DEF AwaitOwner, Settled
    <2>2. state \in {"REFUNDED", "AWAITING_OWNER"} /\ q.order.time \in 0..MaxEvents
          /\ (state = "REFUNDED" => play.refunded = Amount)
      BY <1>0, <1>1, <2>1, FullIsRefunded DEF OrderRead
    <2> HIDE DEF state
    <2>3. new \in Row /\ new.revision = row.revision /\ new.state = state
      BY <1>0, <2>2 DEF Row, States
    <2> HIDE DEF new
    <2> QED
      BY <1>0, <2>1, <2>2, <2>3, ReleaseMirrors
  <1>4. CASE AwaitPayment(w)
    <2> DEFINE new == [row EXCEPT !.owner = TRUE, !.state = q.purchase.state]
    <2>1. Release(w, new) /\ q.purchase.state \in {"PENDING", "CANCELLED"}
      BY <1>1, <1>4 DEF AwaitPayment, Payable, PurchaseRead
    <2>2. new \in Row /\ new.revision = row.revision /\ new.state = q.purchase.state
      BY <1>0, <2>1 DEF Row, States
    <2> HIDE DEF new
    <2> QED
      BY <1>0, <2>1, <2>2, ReleaseMirrors
  <1>5. CASE Finish(w)
    <2> DEFINE new == [row EXCEPT !.consume = q.consume]
    <2>1. Release(w, new)
      BY <1>5 DEF Finish
    <2>2. new \in Row /\ new.revision = row.revision /\ new.state = row.state
      BY <1>0, <1>1 DEF Row
    <2> HIDE DEF new
    <2> QED
      BY <1>0, <2>1, <2>2, ReleaseMirrors
  <1> QED
    BY <1>2, <1>3, <1>4, <1>5

\* What a process reads is what Google says, unless Google lags.
LEMMA ReadMirrors ==
  ASSUME MInv, NEW w \in Workers, ReadPurchase(w) \/ ReadOrder(w)
  PROVE  Mirrors'
  <1> DEFINE q == request[w]
  <1>0. IInv /\ q # None /\ q \in Request /\ UNCHANGED <<google, tables, deleted>>
    <2>1. IInv /\ q # None /\ UNCHANGED <<google, tables, deleted>>
      BY DEF MInv, ReadPurchase, ReadOrder, Judged, At
    <2> QED
      BY <2>1 DEF IInv, TypeOK
  <1>1. SameAtGoogle
    BY <1>0 DEF SameAtGoogle, google, MInv, Mirrors, Known
  <1>2. ASSUME NEW answer \in {play, before}, Answers(w, answer)
        PROVE  /\ lagged => lagged'
               /\ Honest' => answer = play
               /\ answer.refunded <= play.refunded
    <2>1. /\ lagged => lagged'
          /\ Honest' => answer = play
      BY <1>2 DEF Answers, Honest, history
    <2>2. play.refunded \in Int
      BY <1>0, PurchaseAssumption DEF IInv, TypeOK, Play
    <2>3. answer.refunded <= play.refunded
      BY <2>2 DEF MInv, Mirrors, Known
    <2> QED
      BY <2>1, <2>3
  <1>3. CASE ReadPurchase(w)
    <2>1. PICK answer \in {play, before} :
            /\ Answers(w, answer)
            /\ Proceed(w, [q EXCEPT !.step = "JUDGE", !.purchase = PurchaseOf(answer)])
      BY <1>3 DEF ReadPurchase
    <2> DEFINE new == [q EXCEPT !.step = "JUDGE", !.purchase = PurchaseOf(answer)]
    <2>2. new.step = "JUDGE" /\ new.purchase.completed = answer.completed /\ new.held = q.held
      BY <1>0 DEF Request, PurchaseOf
    <2>3. request' = [request EXCEPT ![w] = new] /\ request'[w] = new
      BY <1>0, <2>1 DEF Proceed, IInv, TypeOK
    <2> HIDE DEF new
    <2>4. Knows(w)'
      <3>1. ~At(w, "SETTLE")' /\ Reading(w) /\ request'[w].held = q.held
        BY <1>0, <1>3, <2>2, <2>3 DEF At, Reading, ReadPurchase
      <3>2. Honest' => request'[w].purchase.completed = play'.completed
        BY <1>0, <1>2, <2>1, <2>2, <2>3 DEF google
      <3>3. q.held.state = "REFUNDED" => play'.refunded = Amount
        BY <1>0, <3>1 DEF MInv, Mirrors, Knows, google
      <3> QED
        BY <3>1, <3>2, <3>3 DEF Knows
    <2> QED
      BY <1>0, <1>1, <1>2, <2>1, <2>3, <2>4, RoundMirrors DEF tables
  <1>4. CASE ReadOrder(w)
    <2>1. PICK answer \in {play, before} :
            /\ Answers(w, answer)
            /\ Proceed(w, [q EXCEPT !.step = "SETTLE", !.order = OrderOf(answer)])
      BY <1>4 DEF ReadOrder
    <2> DEFINE new == [q EXCEPT !.step = "SETTLE", !.order = OrderOf(answer)]
    <2>2. /\ new.step = "SETTLE" /\ new.order.refunded = answer.refunded
          /\ new.purchase = q.purchase /\ new.held = q.held
      BY <1>0 DEF Request, OrderOf
    <2>3. request' = [request EXCEPT ![w] = new] /\ request'[w] = new
      BY <1>0, <2>1 DEF Proceed, IInv, TypeOK
    <2> HIDE DEF new
    <2>4. Knows(w)'
      <3>1. request'[w].order.refunded <= play'.refunded
        BY <1>0, <1>2, <2>1, <2>2, <2>3 DEF google
      <3>2. Honest' => request'[w].order.refunded = play'.refunded
        BY <1>0, <1>2, <2>1, <2>2, <2>3 DEF google
      <3>3. (Honest /\ LastStored /\ FenceHolds(w))' => Honest /\ LastStored /\ FenceHolds(w)
        BY <1>0, <1>2, <2>1, <2>2, <2>3 DEF Honest, LastStored, FenceHolds, google, tables
      <3>4. Honest /\ LastStored /\ FenceHolds(w) => q.purchase.completed = play.completed
        BY <1>4 DEF ReadOrder, Judged, MInv, Mirrors, Knows
      <3>5. (Honest /\ LastStored /\ FenceHolds(w))'
              => request'[w].purchase.completed = play'.completed
        BY <1>0, <2>2, <2>3, <3>3, <3>4 DEF google
      <3>6. q.held.state = "REFUNDED" => play'.refunded = Amount
        BY <1>0, <1>4 DEF ReadOrder, Judged, Reading, MInv, Mirrors, Knows, google
      <3> QED
        BY <2>2, <2>3, <3>1, <3>2, <3>5, <3>6 DEF Knows
    <2> QED
      BY <1>0, <1>1, <1>2, <2>1, <2>3, <2>4, RoundMirrors DEF tables
  <1> QED
    BY <1>3, <1>4

\* Steps after which a process knows nothing of the money.
LEMMA OtherMirrors ==
  ASSUME MInv, NEW w \in Workers,
         \/ Claim(w) \/ Reread(w) \/ CheckFence(w) \/ Consume(w)
         \/ Overtaken(w) \/ Fail(w) \/ Die(w)
  PROVE  Mirrors'
  <1>0. /\ IInv /\ row \in Row /\ play \in Play /\ before \in Play
        /\ before.refunded <= play.refunded /\ None \notin Workers
    BY PurchaseAssumption DEF MInv, Mirrors, Known, IInv, TypeOK
  <1>1. /\ order' = order /\ receipt' = receipt /\ lagged' = lagged /\ announced' = announced
    BY DEF Claim, Reread, CheckFence, Consume, Overtaken, Fail, Die, google, tables, history
  <1>2. /\ row'.state = row.state /\ row'.revision = row.revision
        /\ row'.carriers \subseteq row.carriers \cup {w}
    <2>1. CASE Claim(w) \/ Reread(w)
      BY <1>0, <2>1 DEF Claim, Reread, Row
    <2>2. CASE row' = row \/ row' = Unleased(row)
      BY <1>0, <2>2 DEF Unleased, Row
    <2> QED
      BY <2>1, <2>2 DEF CheckFence, Consume, Overtaken, Fail, Die, tables
  <1>3. SameAtGoogle
    <2>1. CASE Consume(w)
      <3>1. /\ play' = [play EXCEPT !.consumed = TRUE]
            /\ before' = [before EXCEPT !.consumed = TRUE]
        BY <2>1 DEF Consume
      <3> QED
        BY <1>0, <1>1, <3>1 DEF SameAtGoogle, Play
    <2>2. CASE UNCHANGED google
      BY <1>0, <2>2 DEF SameAtGoogle, google
    <2> QED
      BY <2>1, <2>2 DEF Claim, Reread, CheckFence, Overtaken, Fail, Die
  <1>4. PICK new : /\ request' = [request EXCEPT ![w] = new]
                   /\ new # None => new.step \in {"REREAD", "PURCHASE", "CONSUME", "FINISH"}
                   /\ new # None /\ new.step = "PURCHASE" => new.held.state = row.state
    <2>1. CASE Claim(w)
      <3>1. request' = [request EXCEPT ![w] = Blank("REREAD", HeldOf(NewRow), "NOT_READY")]
        BY <2>1 DEF Claim
      <3>2. Blank("REREAD", HeldOf(NewRow), "NOT_READY").step = "REREAD"
        BY DEF Blank
      <3> QED
        BY <3>1, <3>2
    <2>2. CASE Reread(w)
      <3>1. request' = [request EXCEPT ![w] = Blank("PURCHASE", HeldOf(row), "NOT_READY")]
        BY <2>2 DEF Reread
      <3>2. /\ Blank("PURCHASE", HeldOf(row), "NOT_READY").step = "PURCHASE"
            /\ Blank("PURCHASE", HeldOf(row), "NOT_READY").held.state = row.state
        BY DEF Blank, HeldOf
      <3> QED
        BY <3>1, <3>2
    <2>3. CASE CheckFence(w) \/ Consume(w)
      <3>1. request[w] \in Request
        BY <1>0, <2>3 DEF CheckFence, Consume, At, IInv, TypeOK
      <3>2. \A step : [request[w] EXCEPT !.step = step].step = step
        BY <3>1 DEF Request
      <3>3. \/ request' = [request EXCEPT ![w] = None]
            \/ request' = [request EXCEPT ![w] = [request[w] EXCEPT !.step = "CONSUME"]]
            \/ request' = [request EXCEPT ![w] = [request[w] EXCEPT !.step = "FINISH"]]
        BY <2>3 DEF CheckFence, Consume, Drop, Proceed
      <3> QED
        BY <3>2, <3>3
    <2>4. CASE Overtaken(w) \/ Fail(w) \/ Die(w)
      BY <2>4 DEF Overtaken, Fail, Die, Drop, Proceed
    <2> QED
      BY <2>1, <2>2, <2>3, <2>4
  <1>5. Knows(w)'
    <2>1. request'[w] = new
      BY <1>0, <1>4 DEF IInv, TypeOK
    <2>2. ~At(w, "JUDGE")' /\ ~At(w, "SETTLE")'
      BY <1>4, <2>1 DEF At
    <2>3. Reading(w)' => new.held.state = row.state
      BY <1>4, <2>1, <2>2 DEF Reading, At
    <2>4. Reading(w)' /\ request'[w].held.state = "REFUNDED" => play'.refunded = Amount
      BY <1>3, <2>1, <2>3 DEF MInv, Mirrors, Known, SameAtGoogle
    <2> QED
      BY <2>2, <2>4 DEF Knows
  <1> QED
    BY <1>1, <1>2, <1>3, <1>4, <1>5, RoundMirrors

\* A commit that closes the last event has read what Google says.
LEMMA CommitMirrors ==
  ASSUME MInv, NEW w \in Workers, Commit(w)
  PROVE  Mirrors'
  <1> DEFINE q == request[w]
             status == NewStatus(q)
  <1>0. /\ IInv /\ At(w, "SETTLE") /\ FenceHolds(w) /\ Settled(w) /\ receipt' = Processed
        /\ UNCHANGED <<google, deleted, history, mishaps>>
        /\ order' = [status |-> status, refundedAmount |-> Refunded(q)]
    BY DEF Commit, Settled, MInv
  <1>1. /\ q \in Request /\ row \in Row
        /\ q.order.refunded \in 0..Amount /\ play.refunded \in 0..Amount
        /\ order.refundedAmount \in 0..Amount
    <2>1. q \in Request /\ row \in Row
      BY <1>0, HeldIsRow DEF Reading
    <2> QED
      BY <1>0, <2>1 DEF Request, OrderRead, IInv, TypeOK, Play, Order
  <1>2. SameAtGoogle
    BY <1>0 DEF SameAtGoogle, google, MInv, Mirrors, Known
  <1>3. /\ q.order.refunded <= play.refunded /\ order.refundedAmount <= play.refunded
        /\ Honest /\ LastStored => q.order.refunded = play.refunded
    BY <1>0 DEF MInv, Mirrors, Known, Knows
  <1>4. Full(q) => play.refunded = Amount
    <2>1. order.status = "REFUNDED" => play.refunded = Amount
      BY DEF MInv, Mirrors, Known
    <2> QED
      BY <1>0, <2>1, FullIsRefunded DEF Full
  <1>5. q.order.refunded = Amount => Full(q)
    BY DEF Full, FullRefund
  <1> DEFINE refunded == Refunded(q)
  <1>6. /\ refunded <= play.refunded
        /\ q.order.refunded = play.refunded => refunded = play.refunded
    <2> DEFINE read == q.order.refunded
               before_ == order.refundedAmount
    <2>1. refunded = (IF before_ > (IF Full(q) THEN Amount ELSE read)
                      THEN before_ ELSE (IF Full(q) THEN Amount ELSE read))
      BY DEF Refunded, Larger
    <2>2. read \in 0..Amount /\ before_ \in 0..Amount /\ read <= play.refunded
          /\ before_ <= play.refunded
      BY <1>1, <1>3
    <2> HIDE DEF read, before_, refunded, q
    <2>3. /\ refunded <= play.refunded
          /\ read = play.refunded => refunded = play.refunded
      BY <1>1, <1>4, <2>1, <2>2, PurchaseAssumption
    <2> QED
      BY <2>3 DEF read
  <1>7. status = "REFUNDED" => play.refunded = Amount
    <2>1. status = "REFUNDED" => Full(q) \/ refunded = Amount
      BY DEF NewStatus
    <2> HIDE DEF status, refunded
    <2> QED
      BY <1>1, <1>4, <1>6, <2>1, PurchaseAssumption
  <1>8. q.order.refunded = play.refunded =>
          status = CASE play.refunded = Amount -> "REFUNDED"
                     [] play.refunded = 0 -> "PAID"
                     [] OTHER -> "PARTIALLY_REFUNDED"
    <2> SUFFICES ASSUME q.order.refunded = play.refunded
                 PROVE  status = CASE play.refunded = Amount -> "REFUNDED"
                                   [] play.refunded = 0 -> "PAID"
                                   [] OTHER -> "PARTIALLY_REFUNDED"
      OBVIOUS
    <2>1. refunded = play.refunded
      BY <1>6
    <2>2. status = (IF Full(q) \/ refunded = Amount THEN "REFUNDED"
                    ELSE IF refunded > 0 THEN "PARTIALLY_REFUNDED" ELSE "PAID")
      BY DEF NewStatus
    <2>3. play.refunded = Amount => status = "REFUNDED"
      BY <2>1, <2>2
    <2>4. play.refunded # Amount /\ play.refunded = 0 => status = "PAID"
      BY <1>4, <2>1, <2>2
    <2>5. play.refunded # Amount /\ play.refunded # 0 => status = "PARTIALLY_REFUNDED"
      BY <1>1, <1>4, <2>1, <2>2
    <2>6. Amount # 0
      BY PurchaseAssumption
    <2> HIDE DEF status
    <2> QED
      BY <2>3, <2>4, <2>5, <2>6
  <1>9. /\ row'.state = (IF status = "REFUNDED" THEN "REFUNDED" ELSE "VERIFIED")
        /\ row'.revision = row.revision /\ row'.carriers = row.carriers
    BY <1>0, <1>1 DEF Commit, Row, FenceHolds
  <1>10. \A e \in Events : receipt'[e] = "NONE" <=> receipt[e] = "NONE"
    BY <1>0 DEF Processed, IInv, TypeOK
  <1>11. LastClosed' \/ LastStored' => LastStored
    <2> SUFFICES ASSUME LastClosed' \/ LastStored'
                 PROVE  LastStored
      OBVIOUS
    <2>1. announced' = announced /\ announced > 0 /\ receipt'[announced] # "NONE"
      BY <1>2 DEF SameAtGoogle, LastClosed, LastStored
    <2>2. announced \in Events
      BY <1>0, <2>1, PurchaseAssumption DEF IInv, TypeOK, Events
    <2> QED
      BY <1>10, <2>1, <2>2 DEF LastStored
  <1>12. /\ order'.refundedAmount <= play.refunded
         /\ Honest /\ LastClosed' => Mirrored'
    <2>1. order'.refundedAmount = refunded /\ order'.status = status
      BY <1>0
    <2>2. play'.refunded = play.refunded
      BY <1>2 DEF SameAtGoogle
    <2> HIDE DEF status, refunded
    <2> QED
      BY <1>3, <1>6, <1>8, <1>11, <2>1, <2>2 DEF Mirrored
  <1>13. ASSUME NEW v \in Workers
         PROVE  Knows(v)'
    <2>0. request' = [request EXCEPT ![w] = Blank(Afterwards(q).step, q.held, Afterwards(q).consume)]
      BY DEF Commit, Proceed
    <2>1. CASE v = w
      <3>1. Afterwards(q).step \in {"FINISH", "CHECK"}
        BY DEF Afterwards
      <3>2. request'[w].step = Afterwards(q).step
        BY <1>0, <2>0 DEF Blank, IInv, TypeOK
      <3> QED
        BY <2>1, <3>1, <3>2 DEF Knows, Reading, At
    <2>2. CASE v # w
      <3>1. request'[v] = request[v]
        BY <1>0, <2>0, <2>2 DEF IInv, TypeOK
      <3>2. FenceHolds(v)' => FenceHolds(v)
        BY <1>9, <3>1 DEF FenceHolds
      <3>3. Honest' => Honest
        BY <1>0 DEF Honest, google, history
      <3>4. (Honest /\ LastStored /\ FenceHolds(v))' => Honest /\ LastStored /\ FenceHolds(v)
        BY <1>11, <3>2, <3>3
      <3> QED
        BY <1>2, <3>1, <3>4, KnowsStays DEF MInv, Mirrors
    <2> QED
      BY <2>1, <2>2
  <1>14. order'.status = status /\ lagged' = lagged
    BY <1>0 DEF history
  <1>15. \A e \in Events : e > announced => receipt'[e] = "NONE"
    BY <1>10 DEF MInv, Mirrors, Known
  <1> HIDE DEF status
  <1> QED
    BY <1>2, <1>7, <1>9, <1>12, <1>13, <1>14, <1>15, MirrorStays

LEMMA MirrorBegins == Init => MInv
  <1> SUFFICES ASSUME Init PROVE MInv
    OBVIOUS
  <1>1. IInv
    BY InitKeeps
  <1>2. /\ play = before /\ play.refunded = 0 /\ ~play.completed
    <2>1. PICK kind \in {"PASS", "TEST", "OTHER"}, known \in BOOLEAN :
            play = [Unread EXCEPT !.kind = kind, !.attributed = known]
      BY DEF Init
    <2>2. play.refunded = Unread.refunded /\ play.completed = Unread.completed
      BY <2>1 DEF Unread
    <2>3. Unread.refunded = 0 /\ ~Unread.completed
      BY DEF Unread
    <2> QED
      BY <2>2, <2>3 DEF Init
  <1>3. Known
    BY <1>2 DEF Init, Known, NewRow
  <1>4. ~LastClosed /\ \A w \in Workers : Knows(w)
    BY DEF Init, LastClosed, Knows, Reading, At
  <1> QED
    BY <1>1, <1>2, <1>3, <1>4 DEF MInv, Mirrors

LEMMA MirrorKeeps ==
  ASSUME MInv, [Next]_vars
  PROVE  MInv'
  <1>1. IInv' /\ (Mirrors' => MInv')
    BY NextKeeps DEF MInv
  <1>2. ASSUME NEW w \in Workers, Claim(w) \/ Step(w) \/ Fail(w) \/ Die(w)
        PROVE  Mirrors'
    <2>1. CASE ReadPurchase(w) \/ ReadOrder(w)
      BY <2>1, ReadMirrors
    <2>2. CASE IgnoreTest(w) \/ IgnoreOther(w) \/ SettleUnpaid(w)
      BY <2>2, JudgeMirrors
    <2>3. CASE PutOff(w) \/ AwaitOwner(w) \/ AwaitPayment(w) \/ Refuse(w) \/ Finish(w)
      BY <2>3, SettleMirrors
    <2>4. CASE Commit(w)
      BY <2>4, CommitMirrors
    <2>5. CASE Claim(w) \/ Reread(w) \/ CheckFence(w) \/ Consume(w) \/ Overtaken(w) \/ Fail(w) \/ Die(w)
      BY <2>5, OtherMirrors
    <2> QED
      BY <1>2, <2>1, <2>2, <2>3, <2>4, <2>5 DEF Step
  <1>3. ASSUME UNCHANGED vars
        PROVE  Mirrors'
    <2>1. Known'
      BY <1>3 DEF vars, MInv, Mirrors, Known
    <2>2. \A w \in Workers : Knows(w)'
      BY <1>3 DEF vars, MInv, Mirrors, Knows, Honest, LastStored, FenceHolds, Reading, At
    <2>3. Honest' /\ LastClosed' /\ play'.completed => Mirrored'
      BY <1>3 DEF vars, MInv, Mirrors, Honest, LastClosed, Mirrored
    <2> QED
      BY <2>1, <2>2, <2>3 DEF Mirrors
  <1>4. ASSUME Next
        PROVE  Mirrors'
    <2>1. CASE Complete \/ Cancel \/ Attribute \/ \E total \in 1..Amount : Refund(total)
      BY <2>1, GoogleMirrors
    <2>2. CASE Verify \/ (\E e \in Events : Record(e))
      BY <2>2, QueueMirrors
    <2>3. CASE DeleteAccount \/ LeaseExpires
      BY <2>3, DeleteMirrors, ExpireMirrors
    <2>4. CASE \E w \in Workers : Claim(w) \/ Step(w) \/ Fail(w) \/ Die(w)
      BY <1>2, <2>4
    <2> QED
      BY <1>4, <2>1, <2>2, <2>3, <2>4 DEF Next
  <1> QED
    BY <1>1, <1>3, <1>4

\* Once all events are closed the order says what Google says, unless Google lags: the
\* revision keeps a round from closing an event it has not seen
\* (google-purchase.service.ts:50-53 and 445-453).
THEOREM OrdersMirrorGoogle == Spec => []SettledMirrors
  <1>1. MInv => SettledMirrors
    <2> SUFFICES ASSUME MInv, Honest, play.completed,
                        \A e \in Events : e <= announced => receipt[e] = "PROCESSED"
                 PROVE  Mirrored
      BY DEF SettledMirrors, Mirrored, Honest
    <2>1. announced > 0 /\ announced \in 0..MaxEvents
      BY DEF MInv, Mirrors, Known, IInv, TypeOK
    <2>2. announced \in Events /\ announced <= announced
      BY <2>1, PurchaseAssumption DEF Events
    <2>3. LastClosed
      BY <2>1, <2>2 DEF LastClosed
    <2> QED
      BY <2>3 DEF MInv, Mirrors
  <1> QED
    BY <1>1, MirrorBegins, MirrorKeeps, PTL DEF Spec
=============================================================================
