---------------------------- MODULE Entitlement ----------------------------
(***************************************************************************)
(* The timeline of one account's entitlement grants: purchased grants that *)
(* queue one behind the other, a promotional gift with a fixed interval,   *)
(* and the suspensions and revocations that re-lay what is not consumed.   *)
(*                                                                         *)
(* Every operation runs in a transaction that holds the account lock, so   *)
(* each is one action.  Time is counted in ticks (the code's milliseconds),*)
(* Second ticks to a second, because a suspended grant is stored in whole  *)
(* seconds, rounded up.  One billing environment; rows of another one are  *)
(* filtered out of every read.                                             *)
(***************************************************************************)
EXTENDS Integers, FiniteSetsExt

CONSTANTS
  Orders,           \* paid orders of the account
  Gift,             \* the promotional grant
  DurationSeconds,  \* [Orders \cup {Gift} -> seconds]
  Second,           \* ticks in a second
  LaunchAt,         \* BillingConfig.launchAt; nothing is sold before it
  MaxClock,         \* bound on the clock
  MaxSuspensions    \* bound on the suspensions of one grant

Sources == Orders \cup {Gift}

ASSUME EntitlementAssumption ==
  /\ IsFiniteSet(Orders) /\ Gift \notin Orders
  /\ DurationSeconds \in [Sources -> Nat \ {0}]
  /\ Second \in Nat \ {0}
  /\ LaunchAt \in Nat /\ MaxClock \in Nat /\ MaxSuspensions \in Nat

VARIABLES
  clock,
  giftHolder,   \* User.email is GIFT_EMAIL
  grant,        \* EntitlementGrant rows by source
  deleted,      \* User.deletedAt is set
  used,         \* history: ticks of a grant that passed while it was in effect
  suspensions   \* history: suspensions of a grant

timelineVars == <<clock, giftHolder, grant, deleted, used, suspensions>>

Duration(s) == DurationSeconds[s] * Second

\* Whole seconds, rounded up (Math.ceil).
Seconds(ticks) == (ticks + Second - 1) \div Second

Statuses == {"NONE", "ACTIVE", "SUSPENDED", "REVOKED"}

\* remainingSeconds is read of suspended grants only, and is set when one is suspended.
\* createdAt is the number of the row.
Grant == [status : Statuses, startsAt : Nat, endsAt : Nat, remainingSeconds : Nat, createdAt : Nat]

NoGrant == [status |-> "NONE", startsAt |-> 0, endsAt |-> 0, remainingSeconds |-> 0, createdAt |-> 0]

TypeOK ==
  /\ clock \in 0..MaxClock
  /\ giftHolder \in BOOLEAN
  /\ grant \in [Sources -> Grant]
  /\ deleted \in BOOLEAN
  /\ used \in [Sources -> Nat]
  /\ suspensions \in [Sources -> 0..MaxSuspensions]
  /\ \A s \in Sources :
       /\ grant[s].startsAt <= grant[s].endsAt
       /\ grant[s].remainingSeconds <= DurationSeconds[s]

TimelineInit ==
  /\ clock = 0
  /\ giftHolder \in BOOLEAN
  /\ grant = [s \in Sources |-> NoGrant]
  /\ deleted = FALSE
  /\ used = [s \in Sources |-> 0]
  /\ suspensions = [s \in Sources |-> 0]

-----------------------------------------------------------------------------
(* The timeline.                                                           *)

\* (mutant RemainingWhole: the part already consumed is not deducted)
RemainingWhole(g) ==
  IF g.status = "SUSPENDED" THEN g.remainingSeconds * Second ELSE g.endsAt - g.startsAt

\* remainingMillis(): the time a grant still has, frozen while it is suspended.
Remaining(g) ==
  IF g.status = "SUSPENDED" THEN g.remainingSeconds * Second
                            ELSE Max({0, g.endsAt - Max({clock, g.startsAt})})

\* Grants in effect now or later, in the order they are laid out.
Unfinished(gs) == {s \in Sources : gs[s].status = "ACTIVE" /\ gs[s].endsAt > clock}

Earlier(g, h) == g.startsAt < h.startsAt \/ (g.startsAt = h.startsAt /\ g.createdAt < h.createdAt)

\* The last of some grants in the order of the timeline.
Latest(gs, S) == CHOOSE s \in S : \A t \in S \ {s} : Earlier(gs[t], gs[s])

\* One grant more of the chain that ends at tail, if it begins there or before.
Reach(gs, tail, s) == IF gs[s].startsAt > tail THEN tail ELSE Max({tail, gs[s].endsAt})

\* The end of the unbroken chain of grants from now on; now when there is none.
MemberUntil(gs) ==
  LET chain[S \in SUBSET Unfinished(gs)] ==
        IF S = {} THEN clock
        ELSE LET last == Latest(gs, S) IN Reach(gs, chain[S \ {last}], last)
  IN chain[Unfinished(gs)]

\* One grant of the timeline is laid behind those before it; the gift keeps its interval.
Lay(laid, s) ==
  LET length == Remaining(laid.grant[s])
  IN IF s = Gift
     THEN [laid EXCEPT !.tail = Max({laid.tail, laid.grant[s].endsAt})]
     ELSE [tail |-> laid.tail + length,
           grant |-> [laid.grant EXCEPT ![s].startsAt = laid.tail,
                                        ![s].endsAt = laid.tail + length,
                                        ![s].remainingSeconds = Seconds(length)]]

\* (mutant Untouched: the other grants stay where they were)
Untouched(gs) == gs

Relay(gs) ==
  LET laid[S \in SUBSET Unfinished(gs)] ==
        IF S = {} THEN [tail |-> clock, grant |-> gs]
        ELSE LET last == Latest(gs, S) IN Lay(laid[S \ {last}], last)
  IN laid[Unfinished(gs)].grant

Rows(gs) == Cardinality({s \in Sources : gs[s].status # "NONE"})

NewGrant(gs, s, start) ==
  [status |-> "ACTIVE", startsAt |-> start, endsAt |-> start + Duration(s),
   remainingSeconds |-> 0, createdAt |-> Rows(gs) + 1]

\* ensureGift(): idempotent, from the launch on, for one account only.
WithGift(gs) ==
  IF giftHolder /\ ~deleted /\ LaunchAt <= clock /\ gs[Gift].status = "NONE"
  THEN [gs EXCEPT ![Gift] = NewGrant(gs, Gift, LaunchAt)]
  ELSE gs

\* A new grant queues behind every grant in effect, and never before it was paid.
StartOf(gs, paidAt) ==
  Max({paidAt} \cup {gs[s].endsAt : s \in {t \in Sources : gs[t].status = "ACTIVE"}})

-----------------------------------------------------------------------------
(* The operations.                                                         *)

\* A grant laid out in the past has been in effect since: the ticks up to now count.
Elapsed(gs, s) ==
  IF gs[s] = grant[s] THEN used[s] ELSE Max({0, Min({clock, gs[s].endsAt}) - gs[s].startsAt})

\* membership(): the gift appears the first time anyone asks.
Membership ==
  /\ grant' = WithGift(grant)
  /\ used' = [s \in Sources |-> Elapsed(grant', s)]
  /\ UNCHANGED <<clock, giftHolder, deleted, suspensions>>

\* grantOrder(): once per order, late notifications included.  Nothing is granted to
\* a deleted account.
GrantOrder(o, paidAt) ==
  /\ paidAt \in LaunchAt..clock
  /\ grant[o].status = "NONE"
  /\ ~deleted
  /\ LET gs == WithGift(grant)
     IN grant' = [gs EXCEPT ![o] = NewGrant(gs, o, StartOf(gs, paidAt))]
  /\ used' = [s \in Sources |-> Elapsed(grant', s)]
  /\ UNCHANGED <<clock, giftHolder, deleted, suspensions>>

Changes(o, status) == grant[o].status \notin {"NONE", status, "REVOKED"}

\* The target with its remaining time fixed; a restored one starts over from now.
Changed(g, status) ==
  LET fixed == [g EXCEPT !.status = status, !.remainingSeconds = Seconds(Remaining(g))]
  IN IF status = "ACTIVE"
     THEN [fixed EXCEPT !.startsAt = clock, !.endsAt = clock + Remaining(g)]
     ELSE fixed

\* changeOrderGrant(): the target changes and what is not consumed is re-laid from now.
ChangeOrderGrant(o, status) ==
  /\ Changes(o, status)
  /\ status = "SUSPENDED" => suspensions[o] < MaxSuspensions
  /\ grant' = Relay([grant EXCEPT ![o] = Changed(grant[o], status)])
  /\ suspensions' = [suspensions EXCEPT ![o] = IF status = "SUSPENDED" THEN @ + 1 ELSE @]
  /\ UNCHANGED <<clock, giftHolder, deleted, used>>

\* The deletion operator revokes every grant; an account with the gift is refused.
DeleteAccount ==
  /\ ~deleted
  /\ grant[Gift].status = "NONE"
  /\ deleted' = TRUE
  /\ grant' = [s \in Sources |-> IF grant[s].status = "NONE" THEN grant[s]
                                 ELSE [grant[s] EXCEPT !.status = "REVOKED"]]
  /\ UNCHANGED <<clock, giftHolder, used, suspensions>>

\* Time passes; the grants in effect are used up by it.
InEffect(g) == g.status = "ACTIVE" /\ g.startsAt <= clock /\ clock < g.endsAt

PassTime ==
  /\ clock < MaxClock
  /\ clock' = clock + 1
  /\ used' = [s \in Sources |-> IF InEffect(grant[s]) THEN used[s] + 1 ELSE used[s]]
  /\ UNCHANGED <<giftHolder, grant, deleted, suspensions>>

TimelineNext ==
  \/ Membership
  \/ \E o \in Orders :
       \/ \E paidAt \in 0..clock : GrantOrder(o, paidAt)
       \/ \E status \in {"ACTIVE", "SUSPENDED", "REVOKED"} : ChangeOrderGrant(o, status)
  \/ DeleteAccount
  \/ PassTime

TimelineSpec == TimelineInit /\ [][TimelineNext]_timelineVars
=============================================================================
