------------------------ MODULE AccountLifeProperties ------------------------
(***************************************************************************)
(* What an account, its operator and the bill rely on.                     *)
(***************************************************************************)
EXTENDS AccountLife

(***************************************************************************)
(* The free tier is asked by one round at a time: whoever has a call to it *)
(* on the way holds the circuit's row, for longer than the call may last,  *)
(* and the row is not closed (PrismaGeminiCircuit, routeAi).               *)
(***************************************************************************)
Probing(r) == round[r].via = "free" /\ round[r].step \in {"send", "net"}

ProbeAlone ==
  \A r \in Requests : Probing(r) =>
    /\ circuit.token = r /\ Lasts(circuit.until) /\ ~Lasts(circuit.blocked)
    /\ \A other \in Requests \ {r} : ~Probing(other)

(***************************************************************************)
(* Every network call was written down before it left, a round makes two   *)
(* at most and numbers them, and a record says AI_IN_FLIGHT only while its *)
(* call is under way or after a crash or a database failure; a record with *)
(* a price covers everything the provider counted (MeteredAiClient,        *)
(* boundedAiAttempts, routeAi).                                            *)
(***************************************************************************)
Unfinished(r, n) ==
  \/ n = Len(receipts[r]) /\ round[r].step \in {"send", "net", "settle", "dead"}
  \/ round[r].step = "release" /\ round[r].got = MeteringUnavailable
  \/ round[r].step = "unmetered"

CallsMetered ==
  \A r \in Requests :
    /\ sent[r] <= Len(receipts[r]) /\ Len(receipts[r]) <= CallsPerRound
    /\ \A n \in DOMAIN receipts[r] :
         LET row == receipts[r][n] IN
         /\ row.attempt = n - 1
         /\ row.inFlight => Unfinished(r, n) /\ row.cost = None
         /\ row.cost # None => \E rate \in Rates[row.provider] \ {None} :
              row.cost >= (row.usage.in * rate.cached) + (row.usage.out * rate.output)

(***************************************************************************)
(* What is given once is honoured once, however often it is presented: a   *)
(* binding code opens one Android session, which ends with the web session *)
(* that approved it; a ticket and an ad transaction earn one unit between  *)
(* them; a request key leads to one page, for the order it quoted; a day   *)
(* gives a word one piece of evidence, that of its first due practice, and *)
(* a word the due list still offers has not given it                       *)
(* (AndroidAuthService.exchange, AdmobRewardService.receive,               *)
(* BillingService.checkout, VocabularyPracticeWorker.complete).            *)
(***************************************************************************)
EvidenceOfTheDay ==
  /\ \A x, y \in Drills :
       x # y /\ drill[x].counted /\ drill[y].due /\ SameDay(drill[x].completed, drill[y].completed)
         => ~drill[y].counted /\ drill[x].completed <= drill[y].completed
  /\ DueToday /\ NoneOpen => ~SameDay(word.reviewed, now)

HonouredOnce ==
  /\ EvidenceOfTheDay
  /\ \A d \in Bindings :
       /\ exchanged[d] <= 1
       /\ AndroidAdmits(d) => android[d].until <= web[android[d].source]
  /\ Cardinality({t \in Tickets : ticket[t].status = "REDEEMED"})
       = (IF balance = None THEN 0 ELSE balance)
  /\ Cardinality(rewarded) = (IF balance = None THEN 0 ELSE balance)
  /\ \A k \in Keys : page[k] # NoPage =>
       page[k] = [until |-> order[k].until, product |-> order[k].product, launch |-> order[k].launch]

(***************************************************************************)
(* Private material reaches the account only while its owner's last word   *)
(* on it is a confirmation of a sound row: a withdrawal also withdraws     *)
(* what was committed before, whatever documents brought the row           *)
(* (ContentImportService, ContentSelectionService).                        *)
(***************************************************************************)
WithdrawnIsHidden ==
  \A r \in Rows :
    Visible(r) \/ Offered(r) \/ InBookmarks(r) => r \in confirmed \ Unsound

(***************************************************************************)
(* Once the account is deleted it stays empty, whatever was under way: no  *)
(* session, ticket, balance or private material comes back, no checkout    *)
(* address is stored, a late payment grants nothing, and no usage record   *)
(* names the account (deleteAccount and the migration's triggers).         *)
(***************************************************************************)
NothingAfterDeletion ==
  deleted =>
    /\ \A s \in Webs : web[s] = None
    /\ \A d \in Bindings : android[d] = NoAndroid /\ binding[d].source = None
    /\ \A t \in Tickets : ticket[t] = NoTicket
    /\ rewarded = {} /\ balance = None
    /\ \A r \in Rows : candidate[r] = NoCandidate /\ entry[r] = None
    /\ bookmark = {} /\ exposed = {} /\ expression = {}
    /\ word = None /\ \A x \in Drills : drill[x] = NoDrill
    /\ \A k \in Keys : order[k].url = None /\ grant[k] \in {"none", "REVOKED"}
    /\ \A r \in Requests : \A n \in DOMAIN receipts[r] : receipts[r][n].owner = None

(***************************************************************************)
(* The watermark hides nothing: a record voided before it, and old enough  *)
(* for Google to have shown it, was kept, unless Google no longer listed   *)
(* it when the sweep that should have caught it ran (syncVoided).          *)
(***************************************************************************)
WatermarkCovers ==
  state.watermark # None =>
    \A v \in Voids :
      voided[v] # None /\ opened <= voided[v] /\ voided[v] + MaxDelay < state.watermark
        => v \in kept
==============================================================================
