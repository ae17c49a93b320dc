--------------------------- MODULE StudyProperties ---------------------------
(***************************************************************************)
(* What StudySession.tla promises.                                         *)
(***************************************************************************)
EXTENDS StudySession

(* No second of the learner's day is credited twice, however many sessions   *)
(* and devices send heartbeats: the cursor in creditStudyActivity sees to it. *)
TimeCountedOnce == \A u \in Units : covered[u] <= 1

(* The ledger, the sessions and the statistics tell one story: a session's   *)
(* activeSeconds are its rows, the credited units are the rows, the minutes  *)
(* of a day are what it had before the ledger plus its rows rounded up once, *)
(* and each completed task is counted once (creditStudyActivity,             *)
(* finishEvidenceSession).                                                   *)
StatsMatchLedger ==
  /\ \A s \in Sessions : sessions[s].active = Total(sessions[s].ledger)
  /\ Total(covered) = Total([d \in Days |-> LedgerOf(d)])
  /\ \A d \in Days : /\ stat[d].minutes = LegacyOf(d) + CeilMinutes(LedgerOf(d))
                     /\ LegacyMinutes(d) = LegacyOf(d)
  /\ Total([d \in Days |-> stat[d].tasks])
       = Cardinality({s \in Sessions : sessions[s].task /\ sessions[s].status = "COMPLETED"})

(* Whenever and however often the timer was advanced, it shows the phase     *)
(* that alternating focus and break since the session began give             *)
(* (resolveTimer, advanceTimer).                                             *)
TimerOnSchedule ==
  \A s \in Sessions :
    sessions[s].status # "NONE" =>
      LET timer == ResolveTimer(sessions[s].timer, now)
          into  == (now - sessions[s].created) % (Focus + Break)
      IN IF into < Focus
         THEN timer = [phase |-> "FOCUS", start |-> now - into, end |-> now - into + Focus]
         ELSE timer = [phase |-> "BREAK", start |-> now - into + Focus,
                       end |-> now - into + Focus + Break]

(* The training an answer was written for is never exchanged under it, nor   *)
(* that of a completed session (the second needsTrainingRefresh of           *)
(* refreshTrainingContext).                                                  *)
ContextFrozen ==
  [][\A s \in Sessions :
       (sessions[s].answered \/ sessions[s].status = "COMPLETED")
         => sessions'[s].context = sessions[s].context]_vars
=============================================================================
