----------------------------- MODULE AccountLife -----------------------------
(***************************************************************************)
(* The life of an account: it is entered, buys, earns and asks, while an   *)
(* operator may delete it at any moment.  The operator reviews a plan,     *)
(* the number of rows of each table, and applies it under the account's    *)
(* lock only if the plan is still the same; work already under way at      *)
(* that moment finishes against the triggers of the deletion migration.    *)
(***************************************************************************)
EXTENDS AiRouting, AndroidAccess, Shop, PrivateContent, WordMemory, VoidedSweep

VARIABLES review      \* the plan the operator reviewed

vars == <<subjectVars, aiVars, accessVars, shopVars, contentVars, wordVars, sweepVars, review>>

(***************************************************************************)
(* tablePlan: every table with the number of rows the account has in it.   *)
(***************************************************************************)
TablePlan ==
  [AuthSession |-> Cardinality({s \in Webs : web[s] # None}),
   AndroidBindingRequest |-> Cardinality({d \in Bindings : binding[d].source # None}),
   AndroidSession |-> Cardinality({d \in Bindings : android[d].until # None}),
   PaymentOrder |-> Cardinality({k \in Keys : order[k] # NoOrder}),
   EntitlementGrant |-> Cardinality({k \in Keys : grant[k] # "none"}),
   RewardTicket |-> Cardinality({t \in Tickets : ticket[t] # NoTicket}),
   RewardEvent |-> Cardinality(rewarded),
   QuotaAccount |-> IF balance = None THEN 0 ELSE 1,
   AiUsageRecord |-> Cardinality({call \in Requests \X (1..CallsPerRound) :
                                    LET r == call[1] n == call[2] IN
                                    n <= Len(receipts[r]) /\ receipts[r][n].owner = "user"}),
   ContentImport |-> Cardinality({d \in Documents : import[d] # "none"}),
   ContentCandidate |-> Cardinality({r \in Rows : Known(r)}),
   VocabularyEntry |-> Cardinality({r \in Rows : entry[r] # None}),
   VocabularyBookmark |-> Cardinality(bookmark),
   ContentExposure |-> Cardinality(exposed),
   PersonalExpression |-> Cardinality(expression),
   VocabularyLearning |-> IF word = None THEN 0 ELSE 1,
   VocabularyPractice |-> Cardinality({x \in Drills : drill[x].status # "none"})]

Init ==
  /\ InitSubject /\ InitAi /\ InitAccess /\ InitShop /\ InitContent /\ InitWord /\ InitSweep
  /\ review = None

(***************************************************************************)
(* A dry run rolls back and reports the plan.                              *)
(***************************************************************************)
DryRun ==
  /\ Plays("operator") /\ MayWrite
  /\ review' = TablePlan
  /\ UNCHANGED <<subjectVars, aiVars, accessVars, shopVars, contentVars, wordVars, sweepVars>>

(***************************************************************************)
(* deleteAccount with apply: owned rows are deleted, financial rows are    *)
(* kept without what is personal, and usage records lose their owner.      *)
(***************************************************************************)
DeletesAccess ==
  /\ web' = [s \in Webs |-> None]
  /\ binding' = [d \in Bindings |-> IF binding[d].source = None THEN binding[d] ELSE NoBinding]
  /\ android' = [d \in Bindings |-> NoAndroid]

ScrubsShop ==
  /\ order' = [k \in Keys |-> [order[k] EXCEPT !.url = None, !.key = FALSE]]
  /\ grant' = [k \in Keys |-> IF grant[k] = "none" THEN "none" ELSE "REVOKED"]
  /\ ticket' = [t \in Tickets |-> NoTicket]
  /\ rewarded' = {} /\ balance' = None

DeletesContent ==
  /\ import' = [d \in Documents |-> "none"]
  /\ candidate' = [r \in Rows |-> NoCandidate]
  /\ entry' = [r \in Rows |-> None]
  /\ bookmark' = {} /\ exposed' = {} /\ expression' = {}
  /\ word' = None /\ drill' = [x \in Drills |-> NoDrill]

\* (mutant KeepsUsage: usage records are forgotten)
KeepsUsage == receipts' = receipts

DetachesUsage ==
  receipts' = [r \in Requests |-> [n \in DOMAIN receipts[r] |-> [receipts[r][n] EXCEPT !.owner = None]]]

DeleteAccount ==
  /\ MayWrite /\ review = TablePlan
  /\ deleted' = TRUE
  /\ DeletesAccess /\ ScrubsShop /\ DeletesContent /\ DetachesUsage
  /\ UNCHANGED <<cast, now, review, config, circuit, round, sent, login, exchanged,
                 checkout, page, delivery, looked, confirmed, sweepVars>>

Tick ==
  /\ Plays("clock") /\ now < MaxTime /\ AiMayWait /\ GoogleMayWait
  /\ now' = now + 1
  /\ UNCHANGED <<cast, deleted, review, aiVars, accessVars, shopVars, contentVars, wordVars, sweepVars>>

Next ==
  \/ NextAi /\ UNCHANGED <<accessVars, shopVars, contentVars, wordVars, sweepVars, review>>
  \/ NextAccess /\ UNCHANGED <<aiVars, shopVars, contentVars, wordVars, sweepVars, review>>
  \/ NextShop /\ UNCHANGED <<aiVars, accessVars, contentVars, wordVars, sweepVars, review>>
  \/ NextContent /\ UNCHANGED <<aiVars, accessVars, shopVars, wordVars, sweepVars, review>>
  \/ NextWord /\ UNCHANGED <<aiVars, accessVars, shopVars, contentVars, sweepVars, review>>
  \/ NextSweep /\ UNCHANGED <<aiVars, accessVars, shopVars, contentVars, wordVars, review>>
  \/ DryRun \/ DeleteAccount \/ Tick

Spec == Init /\ [][Next]_vars
==============================================================================
