------------------------------ MODULE AiRouting ------------------------------
(***************************************************************************)
(* One AI round: which provider is asked, how often, behind which gate,    *)
(* and what is written down before and after each network call.  The free  *)
(* Gemini tier is asked by one round at a time, across processes, under a  *)
(* lease on a row of the database; a failure closes the row for a while.   *)
(* A usage record exists before each network call and is completed after.  *)
(* A process may die between any two of these steps.                       *)
(***************************************************************************)
EXTENDS Subject, SequencesExt

CONSTANTS Requests,       \* rounds
          Reviews,        \* the rounds that review grammar, not vocabulary
          Orders,         \* the orders of configured providers explored
          FreeFirst,      \* the values of GEMINI_FREE_FIRST explored
          LeaseTime,      \* 30 seconds
          CallTimeout,    \* 20 seconds
          ReceiptTime,    \* the longest a usage record takes to be inserted
          Minute, FiveMinutes, Day,
          Losses,         \* how a call is lost: AI_TIMEOUT, AI_NETWORK_ERROR
          Statuses,       \* the HTTP statuses a provider fails with
          Delays,         \* the waits Gemini asks for, or None
          Usages,         \* the token counts a provider reports
          Rates           \* the prices known for a provider's model, or None

ASSUME ProbeFits == ReceiptTime + CallTimeout < LeaseTime

VARIABLES config,         \* GEMINI_FREE_FIRST and the configured providers
          circuit,        \* the row of "AiProviderCircuit"
          round,          \* what each round is doing
          receipts,       \* its rows of "AiUsageRecord", in order
          sent            \* network calls made, counted as they leave

aiVars == <<config, circuit, round, receipts, sent>>

Providers == {"GEMINI", "DEEPSEEK"}
CallsPerRound == 2

ASSUME DeploymentsAssumption ==
  /\ Orders # {} /\ Orders \subseteq Seq(Providers) /\ FreeFirst # {}
  /\ {LeaseTime, CallTimeout, ReceiptTime, Minute, FiveMinutes} \subseteq Nat /\ Day \in Nat \ {0}
  /\ Losses \subseteq {"AI_TIMEOUT", "AI_NETWORK_ERROR"}
  /\ Statuses \subseteq Nat /\ Delays \subseteq Nat \cup {None}

\* What is read from the cache is never dearer than what is not.
TokenCounts == [in : Nat \cup {None}, out : Nat \cup {None}, think : Nat \cup {None},
                cached : Nat \cup {None}, total : Nat \cup {None}]
Prices == {price \in [input : Nat, cached : Nat, output : Nat] : price.cached <= price.input}

ASSUME PricesAssumption ==
  Usages \subseteq TokenCounts /\ Rates \in [Providers -> SUBSET (Prices \cup {None})]

(***************************************************************************)
(* ProviderError.                                                          *)
(***************************************************************************)
Failure(code, retryable) ==
  [code |-> code, retryable |-> retryable, status |-> 0, quota |-> "none", wait |-> 0]
Fine == Failure("OK", FALSE)
NotConfigured(retryable) == Failure("AI_NOT_CONFIGURED", retryable)
MeteringUnavailable == Failure("AI_METERING_UNAVAILABLE", FALSE)
InvalidResponse == Failure("AI_INVALID_RESPONSE", TRUE)
TargetMissing == Failure("AI_TARGET_GRAMMAR_MISSING", TRUE)

RetryableStatus(status, located) ==
  status = 429 \/ status >= 500 \/ (status \in {400, 403} /\ located)

(***************************************************************************)
(* An HTTP failure; Gemini's 429 also says which quota ran out and how     *)
(* long to wait, kept between a minute and a day.                          *)
(***************************************************************************)
HttpFailure(status, located) ==
  [Failure("AI_HTTP", RetryableStatus(status, located)) EXCEPT !.status = status]

GeminiHttpFailure(status, located, quota, delay) ==
  [HttpFailure(status, located) EXCEPT
     !.quota = IF status = 429 THEN quota ELSE "none",
     !.wait  = IF status = 429 /\ delay # None
               THEN (IF delay < Minute THEN Minute ELSE IF delay > Day THEN Day ELSE delay)
               ELSE 0]

NextPacificMidnight(t) == CHOOSE m \in t + 1 .. t + Day : m % Day = 0

Cooldown(f, t) ==
  IF f.quota = "day" THEN NextPacificMidnight(t)
  ELSE t + (CASE f.status = 429 -> (IF f.wait = 0 THEN Minute ELSE f.wait)
              [] f.status \in {401, 403, 404} -> Day
              [] f.status >= 500 \/ f.code \in {"AI_NETWORK_ERROR", "AI_TIMEOUT"} -> Minute
              [] OTHER -> FiveMinutes)

Repairable(f) == f.code \in {"AI_INVALID_RESPONSE", "AI_TARGET_GRAMMAR_MISSING"}

CanFallback(f) ==
  \/ f.code = "AI_HTTP" /\ (f.status \in {400, 401, 403, 404, 408, 429} \/ f.status \in 500..599)
  \/ f.code \in {"AI_NETWORK_ERROR", "AI_TIMEOUT"} \/ Repairable(f)

(***************************************************************************)
(* The answers the validators tell apart: one the whole schema accepts,    *)
(* one whose core alone is accepted (scores that add up, the readings of   *)
(* the correction), one with neither, and one that is accepted but lost    *)
(* the target grammar.  A review drops broken extras and replaces a broken *)
(* alternative by the correction; a vocabulary answer is taken whole or    *)
(* not at all.  The target grammar of a review is looked for only after    *)
(* the call is accounted for.                                              *)
(***************************************************************************)
Answers == {"complete", "broken_extras", "malformed", "off_target"}
Parsed(r, answer) ==
  IF answer = "malformed" \/ (answer = "broken_extras" /\ r \notin Reviews)
  THEN InvalidResponse ELSE Fine
OffTarget(r, answer) == r \in Reviews /\ answer = "off_target"

(***************************************************************************)
(* The price of a call: none unless the reported counts add up and the     *)
(* model's price is known.  Gemini bills everything beyond the input.      *)
(***************************************************************************)
NoUsage == [in |-> None, out |-> None, think |-> None, cached |-> None, total |-> None]

UsageComplete(p, u) ==
  /\ None \notin {u.in, u.out, u.total}
  /\ u.total = u.in + u.out + (IF p = "GEMINI" /\ u.think # None THEN u.think ELSE 0)
  /\ u.cached # None => u.cached <= u.in
  /\ p = "GEMINI" \/ (u.think # None => u.think <= u.out)

PaidCost(p, u, rate) ==
  IF ~UsageComplete(p, u) \/ rate = None THEN None
  ELSE LET cached == IF u.cached = None THEN 0 ELSE u.cached
           billed == IF p = "GEMINI" THEN u.total - u.in ELSE u.out
       IN  (u.in - cached) * rate.input + cached * rate.cached + billed * rate.output
-----------------------------------------------------------------------------
Receipt(p, attempt) ==
  [provider |-> p, attempt |-> attempt, inFlight |-> TRUE, owner |-> "user",
   usage |-> NoUsage, cost |-> None]

Idle == [step |-> "idle", via |-> "bounded", left |-> <<>>, attempt |-> 0,
         since |-> 0, got |-> Fine, missed |-> FALSE]

\* The deployments explored: one is enough where nobody asks.
Deployments ==
  LET all == [freeFirst : FreeFirst, order : Orders] IN
  IF \E r \in Requests : Plays(r) THEN all ELSE {CHOOSE deployment \in all : TRUE}

InitAi ==
  /\ config \in Deployments
  /\ circuit = [token |-> None, until |-> None, blocked |-> None]
  /\ round = [r \in Requests |-> Idle]
  /\ receipts = [r \in Requests |-> <<>>]
  /\ sent = [r \in Requests |-> 0]

Asks(r, via, providers, attempt) ==
  round' = [round EXCEPT ![r] = [Idle EXCEPT !.step = "call", !.via = via, !.left = providers,
                                             !.attempt = attempt, !.since = now]]

(***************************************************************************)
(* Of what the caller is told, whether the record could be kept remains.   *)
(***************************************************************************)
Ends(r, f) ==
  round' = [round EXCEPT ![r] = [Idle EXCEPT !.step = IF f = MeteringUnavailable THEN "unmetered" ELSE "done"]]

Configured(p) == \E i \in 1..Len(config.order) : config.order[i] = p

(***************************************************************************)
(* PrismaGeminiCircuit.acquire: one compare and set.                       *)
(***************************************************************************)
CircuitOpen == ~Lasts(circuit.blocked) /\ ~Lasts(circuit.until)

Acquire(r) == circuit' = [circuit EXCEPT !.token = r, !.until = now + LeaseTime]

(***************************************************************************)
(* A failure to reach the row admits nobody to Gemini, so it looks like a  *)
(* row that is held.                                                       *)
(***************************************************************************)
Route(r) ==
  /\ Plays(r) /\ round[r].step = "idle"
  /\ \/ /\ ~config.freeFirst /\ config.order = <<>>
        /\ Ends(r, NotConfigured(TRUE)) /\ UNCHANGED circuit
     \/ /\ ~config.freeFirst /\ config.order # <<>>
        /\ Asks(r, "bounded", config.order, 0) /\ UNCHANGED circuit
     \/ /\ config.freeFirst /\ ~Configured("DEEPSEEK")
        /\ Ends(r, NotConfigured(FALSE)) /\ UNCHANGED circuit
     \/ /\ config.freeFirst /\ Configured("DEEPSEEK")
        /\ Asks(r, "bounded", <<"DEEPSEEK">>, 0) /\ UNCHANGED circuit
     \/ /\ config.freeFirst /\ Configured("DEEPSEEK") /\ Configured("GEMINI")
        /\ CircuitOpen /\ Acquire(r)
        /\ Asks(r, "free", <<"GEMINI">>, 0)
  /\ UNCHANGED <<config, receipts, sent, subjectVars>>

(***************************************************************************)
(* What a round does with the outcome of a call.  boundedAiAttempts asks   *)
(* the same provider again to repair an answer, or the next one.           *)
(***************************************************************************)
\* (mutant RepeatOnceMore: off by one)
RepeatOnceMore(r, f) == f.retryable /\ round[r].attempt < CallsPerRound
MayRepeat(r, f) == f.retryable /\ round[r].attempt + 1 < CallsPerRound

Concludes(r, f) ==
  LET left == round[r].left IN
  IF round[r].via = "free"
    THEN round' = [round EXCEPT ![r].step = "release", ![r].got = f]
  ELSE IF round[r].via = "bounded" /\ MayRepeat(r, f) /\ Repairable(f)
    THEN Asks(r, "bounded", left, round[r].attempt + 1)
  ELSE IF round[r].via = "bounded" /\ MayRepeat(r, f) /\ Len(left) > 1
    THEN Asks(r, "bounded", Tail(left), round[r].attempt + 1)
  ELSE Ends(r, f)

(***************************************************************************)
(* The usage record is inserted; without it nothing is sent.               *)
(***************************************************************************)
OpenReceipt(r) ==
  /\ round[r].step = "call"
  /\ \/ /\ MayWrite
        /\ receipts' = [receipts EXCEPT ![r] = Append(@, Receipt(Head(round[r].left), round[r].attempt))]
        /\ round' = [round EXCEPT ![r].step = "send", ![r].since = now]
     \/ Concludes(r, MeteringUnavailable) /\ UNCHANGED receipts
  /\ UNCHANGED <<config, circuit, sent, subjectVars>>

Send(r) ==
  /\ round[r].step = "send"
  /\ sent' = [sent EXCEPT ![r] = @ + 1]
  /\ round' = [round EXCEPT ![r].step = "net"]
  /\ UNCHANGED <<config, circuit, receipts, subjectVars>>

Answered(r, f, missed) ==
  round' = [round EXCEPT ![r].step = "settle", ![r].got = f, ![r].missed = missed, ![r].since = 0]

(***************************************************************************)
(* The call comes back: an answer, an HTTP failure, or nothing in time.    *)
(***************************************************************************)
Reply(r) ==
  /\ round[r].step = "net"
  /\ \/ \E answer \in Answers : Answered(r, Parsed(r, answer), OffTarget(r, answer))
     \/ \E code \in Losses : Answered(r, Failure(code, TRUE), FALSE)
     \/ \E status \in Statuses, located \in BOOLEAN :
          IF Head(round[r].left) = "GEMINI"
          THEN \E quota \in {"day", "minute"}, delay \in Delays :
                 Answered(r, GeminiHttpFailure(status, located, quota, delay), FALSE)
          ELSE Answered(r, HttpFailure(status, located), FALSE)
  /\ UNCHANGED <<config, circuit, receipts, sent, subjectVars>>

(***************************************************************************)
(* The usage record is completed; when that fails the answer is discarded  *)
(* and the record stays AI_IN_FLIGHT for reconciliation.                   *)
(***************************************************************************)
Reported(f) == IF f.code \in {"AI_TIMEOUT", "AI_NETWORK_ERROR"} THEN {NoUsage} ELSE Usages

Completed(row, u, cost) ==
  [row EXCEPT !.inFlight = FALSE, !.usage = u, !.cost = cost, !.owner = Retained(row.owner)]

Settle(r) ==
  LET n == Len(receipts[r])
      f == round[r].got
      p == Head(round[r].left)
  IN
  /\ round[r].step = "settle"
  /\ \/ /\ \E u \in Reported(f), rate \in Rates[p] :
             receipts' = [receipts EXCEPT ![r][n] = Completed(@, u, PaidCost(p, u, rate))]
        /\ Concludes(r, IF round[r].missed THEN TargetMissing ELSE f)
     \/ Concludes(r, MeteringUnavailable) /\ UNCHANGED receipts
  /\ UNCHANGED <<config, circuit, sent, subjectVars>>

(***************************************************************************)
(* PrismaGeminiCircuit.release with the own token; a failure to write is   *)
(* swallowed.  Then DeepSeek is asked once, or the round ends.             *)
(***************************************************************************)
\* (mutant ReleaseAnyLease: the token is not compared)
ReleaseAnyLease(r, f) ==
  circuit' = [token |-> None, until |-> None, blocked |-> IF f = Fine THEN None ELSE Cooldown(f, now)]

Release(r, f) ==
  circuit' = IF circuit.token = r
             THEN [token |-> None, until |-> None,
                   blocked |-> IF f = Fine THEN None ELSE Cooldown(f, now)]
             ELSE circuit

AfterGemini(r) ==
  LET f == round[r].got IN
  /\ round[r].step = "release"
  /\ Release(r, f) \/ UNCHANGED circuit
  /\ IF CanFallback(f) THEN Asks(r, "last", <<"DEEPSEEK">>, 1) ELSE Ends(r, f)
  /\ UNCHANGED <<config, receipts, sent, subjectVars>>

Dies(r) ==
  /\ round[r].step \notin {"idle", "done", "unmetered", "dead"}
  /\ round' = [round EXCEPT ![r] = [Idle EXCEPT !.step = "dead"]]
  /\ UNCHANGED <<config, circuit, receipts, sent, subjectVars>>

(***************************************************************************)
(* fetchWithTimeout ends a call after 20 seconds; the bound on the insert  *)
(* is an assumption on the database.                                       *)
(***************************************************************************)
During(step) == {r \in Requests : round[r].step = step}

AiMayWait ==
  /\ \A r \in During("call") : now < round[r].since + ReceiptTime
  /\ During("send") = {}
  /\ \A r \in During("net") : now < round[r].since + CallTimeout

NextAi == \E r \in Requests :
  Route(r) \/ OpenReceipt(r) \/ Send(r) \/ Reply(r) \/ Settle(r) \/ AfterGemini(r) \/ Dies(r)
==============================================================================
