------------------------- MODULE LearningProperties -------------------------
(***************************************************************************)
(* What Learning.tla promises.                                             *)
(***************************************************************************)
EXTENDS Learning

(* Mastery under the V2 rule is earned and kept by evidence: at some point   *)
(* the last three due reviews qualified, on three days and one of them in a  *)
(* new scene, and no due review since was assessed.  There is one way round  *)
(* it: V2 is turned off and a review of the old rule masters the grammar,    *)
(* three clean answers in a row, while the row keeps the version of the V2   *)
(* rule; no counted review since was assessed then either                    *)
(* (resolveEvidenceStatus, completeStudySession).                            *)
Proven(due) ==
  \E last \in 3..Len(due) :
    LET three == (last - 2)..last IN
    /\ \A i \in three : due[i].qualifies
    /\ \A i, j \in three : i # j => due[i].day # due[j].day
    /\ \E i \in three : due[i].cross
    /\ \A i \in (last + 1)..Len(due) : ~due[i].assessed

ThreeClean(es) ==
  LET three == LatestOf(Affecting(es), 3)
  IN Len(three) = 3 /\ \A i \in 1..3 : three[i].clean

ProvenByOldRule(es) ==
  \E last \in 1..Len(es) :
    /\ ~es[last].v2 /\ es[last].affects /\ ThreeClean(SubSeq(es, 1, last))
    /\ \E i \in 1..(last - 1) : es[i].v2
    /\ \A i \in (last + 1)..Len(es) : Counted(es[i]) => ~es[i].assessed

MasteryEarned ==
  \A g \in Grammars :
    progress[g].status = "MASTERED" /\ progress[g].rule = "v2" =>
      Proven(RecentDue(events[g])) \/ ProvenByOldRule(events[g])

(* A grammar is due at most once a day, whatever sessions are open and       *)
(* however often it is marked to come back, so that no day can be counted    *)
(* twice, unless V2 was off in between and a review of the old rule, which   *)
(* has no review date, counted last (isDueReview, completeEvidenceReview).   *)
DueOncePerDay == \A g \in Grammars : DueApart(events[g])

(* A task and its session never part: a begun task has one session, which is *)
(* active until the task is completed, a task that waits has none, and no    *)
(* grammar has two open tasks of a kind, over days, plan edits and devices   *)
(* (createStudySession, generateDailyTasks, finishEvidenceSession).          *)
TasksFollowSessions ==
  /\ \A k \in TaskKeys :
       LET mine == Serving(k) IN
       CASE task[k].status \in {"NONE", "PENDING"} -> mine = {}
         [] task[k].status = "IN_PROGRESS" -> \E s \in Sessions : mine = {s} /\ session[s].status = "ACTIVE"
         [] OTHER -> \E s \in Sessions : mine = {s} /\ session[s].status = "COMPLETED"
  /\ \A k, o \in TaskKeys :
       k.g = o.g /\ k.type = o.type /\ IsOpen(k) /\ IsOpen(o) => k = o

(* The dashboard and the server agree on what is locked: once the day is     *)
(* opened, a new grammar that waits is shown as locked exactly if            *)
(* createStudySession would answer REVIEW_REQUIRED (getToday).               *)
GateAgrees ==
  LET opened == Opened
      shown  == Shown
  IN \A k \in shown :
    k.type = "LEARN" /\ opened[k].status = "PENDING"
      => (Locked(opened, shown, k) <=> ~MayLearn(opened, k))

(* When nothing was begun today, the first day of the forecast is what       *)
(* opening the day plans, for each running plan (forecastPlans,              *)
(* generateDailyTasks).                                                      *)
TasksOf(tasks, shown, p, type) == {k \in shown : tasks[k].plan = p /\ k.type = type}

ForecastMatchesPlan ==
  Preserved = {} =>
    LET opened == Opened
        shown  == Shown
    IN \A p \in ActivePlans :
      /\ {k.g : k \in TasksOf(opened, shown, p, "REVIEW")} = ForecastReviews(p)
      /\ Cardinality(TasksOf(opened, shown, p, "LEARN")) = ForecastNew(p)
=============================================================================
