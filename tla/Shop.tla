-------------------------------- MODULE Shop ---------------------------------
(***************************************************************************)
(* What the account buys on the web and earns on Android.  A checkout      *)
(* fixes a quote under the account's lock, asks Stripe for a page without  *)
(* it, and writes the page's address afterwards, by itself; a repeated     *)
(* request key leads to the same order and the same page.  An ad earns one *)
(* unit through a ticket and a signed callback that may be delivered late, *)
(* twice, or together with another ticket.                                 *)
(***************************************************************************)
EXTENDS Subject

CONSTANTS Keys,            \* request keys, one order each
          Products,
          Checkouts,       \* calls of checkout
          Window,          \* 25 minutes to create the page
          QuoteLife,       \* 60 minutes until the quote expires
          LaunchEnds,      \* the end of the launch offer
          Tickets,         \* ad tickets, one per request key
          TicketLife,      \* 20 minutes
          Slack,           \* one minute of clock difference
          Transactions,    \* AdMob transaction identifiers
          Deliveries       \* callback deliveries

ASSUME ShopAssumption ==
  {Window, QuoteLife, LaunchEnds, TicketLife, Slack} \subseteq Nat /\ IsFiniteSet(Tickets)

VARIABLES order,           \* "PaymentOrder" of each request key
          checkout,        \* what each checkout call is doing
          page,            \* Stripe: the page created for each order
          grant,           \* the grant each order paid for
          ticket,          \* "RewardTicket"
          rewarded,        \* "RewardEvent": the transactions counted
          balance,         \* "QuotaAccount": rewardBalance, None without a row
          delivery         \* what each callback delivery is doing

shopVars == <<order, checkout, page, grant, ticket, rewarded, balance, delivery>>

NoOrder == [status |-> "none", product |-> None, launch |-> FALSE, created |-> 0,
            until |-> 0, url |-> None, key |-> FALSE]
NoPage == [until |-> None, product |-> None, launch |-> FALSE]
NoTicket == [status |-> "none", issued |-> 0, until |-> 0, transaction |-> None]
NoCheckout == [step |-> "idle", key |-> None]
NoDelivery == [step |-> "idle", ticket |-> None, transaction |-> None]

InitShop ==
  /\ order = [k \in Keys |-> NoOrder]
  /\ checkout = [c \in Checkouts |-> NoCheckout]
  /\ page = [k \in Keys |-> NoPage]
  /\ grant = [k \in Keys |-> "none"]
  /\ ticket = [t \in Tickets |-> NoTicket]
  /\ rewarded = {} /\ balance = None
  /\ delivery = [d \in Deliveries |-> NoDelivery]

rewardVars == <<ticket, rewarded, balance, delivery>>
saleVars == <<order, checkout, page, grant>>

(***************************************************************************)
(* catalogFor: the year costs less until the launch offer ends.            *)
(***************************************************************************)
LaunchPrice(product) == product = "YEAR" /\ now < LaunchEnds

Quote(product) ==
  [NoOrder EXCEPT !.status = "PENDING", !.product = product, !.launch = LaunchPrice(product),
                  !.created = now, !.until = now + QuoteLife, !.key = TRUE]

Goes(c, step) == checkout' = [checkout EXCEPT ![c].step = step]

InWindow(o) == now < o.created + Window

(***************************************************************************)
(* The transaction of checkout.  A key that names an order returns it, or  *)
(* refuses another product; sales may be closed.  The order it returned    *)
(* decides at once: closed, already with a page, or ready to be priced.    *)
(***************************************************************************)
Priceable(o) == o.status = "PENDING" /\ o.until > now /\ o.url = None /\ InWindow(o)

Begin(c, k, product) ==
  LET o == IF order[k].key THEN order[k] ELSE Quote(product) IN
  /\ Plays(c) /\ checkout[c].step = "idle" /\ MayWrite
  /\ o.product = product
  /\ order' = [order EXCEPT ![k] = o]
  /\ checkout' = [checkout EXCEPT ![c] = [key |-> k, step |-> IF Priceable(o) THEN "pricing" ELSE "over"]]
  /\ UNCHANGED <<page, grant, rewardVars, subjectVars>>

(***************************************************************************)
(* Stripe's price is read, which may take long, and the window is looked   *)
(* at again; then the page is created under the order's idempotency key.   *)
(***************************************************************************)
Price(c) ==
  LET k == checkout[c].key IN
  /\ checkout[c].step = "pricing"
  /\ Goes(c, IF InWindow(order[k]) THEN "creating" ELSE "over") \/ Goes(c, "over")
  /\ UNCHANGED <<order, page, grant, rewardVars, subjectVars>>

CreatePage(c) ==
  LET k == checkout[c].key IN
  /\ checkout[c].step = "creating"
  /\ \/ /\ page' = IF page[k] = NoPage
                   THEN [page EXCEPT ![k] = [until |-> order[k].until, product |-> order[k].product,
                                             launch |-> order[k].launch]]
                   ELSE page
        /\ Goes(c, "created")
     \/ Goes(c, "over") /\ UNCHANGED page
  /\ UNCHANGED <<order, grant, rewardVars, subjectVars>>

SavePage(c) ==
  LET k == checkout[c].key IN
  /\ checkout[c].step = "created"
  /\ Goes(c, "over")
  /\ order' = [order EXCEPT ![k].url = Retained(k), ![k].until = page[k].until]
  /\ UNCHANGED <<page, grant, rewardVars, subjectVars>>

(***************************************************************************)
(* The customer pays on the page and the webhook settles the order, also   *)
(* of a deleted account.                                                   *)
(***************************************************************************)
Settled(k) ==
  /\ page[k] # NoPage /\ order[k].status = "PENDING"
  /\ order' = [order EXCEPT ![k].status = "PAID"]
  /\ grant' = [grant EXCEPT ![k] = GrantStatus("ACTIVE")]
  /\ UNCHANGED <<checkout, page, rewardVars, subjectVars>>

IsMember == \E k \in Keys : grant[k] = "ACTIVE"

(***************************************************************************)
(* A ticket is issued once per request key, to an account without          *)
(* membership.                                                             *)
(***************************************************************************)
CreateTicket(t) ==
  /\ Plays(t) /\ MayWrite /\ ~IsMember /\ ticket[t].status = "none"
  /\ ticket' = [ticket EXCEPT ![t] = [NoTicket EXCEPT !.status = "ISSUED", !.issued = now,
                                                      !.until = now + TicketLife]]
  /\ UNCHANGED <<rewarded, balance, delivery, saleVars, subjectVars>>

(***************************************************************************)
(* A callback is verified against the ticket it names, outside the         *)
(* transaction; the ad was watched at some time the signature covers.      *)
(***************************************************************************)
Verify(d, t, x) ==
  /\ Plays(d) /\ delivery[d].step = "idle"
  /\ ticket[t].status # "none"
  /\ \E earned \in 0..now + Slack : ticket[t].issued <= earned + Slack /\ earned <= ticket[t].until + Slack
  /\ delivery' = [delivery EXCEPT ![d] = [step |-> "verified", ticket |-> t, transaction |-> x]]
  /\ UNCHANGED <<ticket, rewarded, balance, saleVars, subjectVars>>

(***************************************************************************)
(* Under the account's lock: a ticket that is spent, or a transaction that *)
(* was counted, changes nothing.                                           *)
(***************************************************************************)
Counts(d) ==
  /\ MayWrite
  /\ ticket[delivery[d].ticket].status = "ISSUED"
  /\ delivery[d].transaction \notin rewarded

Receive(d) ==
  LET t == delivery[d].ticket
      x == delivery[d].transaction
  IN
  /\ delivery[d].step = "verified"
  /\ delivery' = [delivery EXCEPT ![d].step = "over"]
  /\ IF Counts(d)
     THEN /\ ticket' = [ticket EXCEPT ![t].status = "REDEEMED", ![t].transaction = x]
          /\ rewarded' = rewarded \cup {x}
          /\ balance' = IF balance = None THEN 1 ELSE balance + 1
     ELSE UNCHANGED <<ticket, rewarded, balance>>
  /\ UNCHANGED <<saleVars, subjectVars>>

NextShop ==
  \/ \E c \in Checkouts, k \in Keys, product \in Products : Begin(c, k, product)
  \/ \E c \in Checkouts : Price(c) \/ CreatePage(c) \/ SavePage(c)
  \/ \E k \in Keys : Settled(k)
  \/ \E t \in Tickets : CreateTicket(t)
  \/ \E d \in Deliveries, t \in Tickets, x \in Transactions : Verify(d, t, x)
  \/ \E d \in Deliveries : Receive(d)
==============================================================================
