------------------------------ MODULE Learning ------------------------------
(***************************************************************************)
(* One learner's plans, daily tasks, sessions and mastery (src/src/        *)
(* study-plans, dashboard, study-sessions), a day at a time.               *)
(*                                                                         *)
(* Plans name the levels to study.  Opening the day generates its tasks    *)
(* from the due schedules and the new grammar of the active plans; a       *)
(* session serves a task or none; completing it leaves a review event and  *)
(* moves the grammar's schedule and status, by the rules of Scheduling.    *)
(* The account may be moved to V2 and back at any time; what was learned   *)
(* under one rule is then judged by the other.  Every operation holds the  *)
(* learner's row lock, so each is one action.                              *)
(***************************************************************************)
EXTENDS Scheduling

CONSTANTS
  Grammars,      \* grammar points, numbered in their sort order
  Level,         \* [Grammars -> level]
  Target,        \* User.targetLevel: the group PRIMARY; the rest is FOUNDATION
  Scenes,        \* [Grammars -> its training scenarios]
  Plans,         \* plan ids
  DailyNewLimit, \* new grammar a plan introduces per day
  Sessions,      \* session ids
  Answers,       \* what a session may be completed with: [submitted, ai, taskDone]
  Accounts,      \* the accounts explored (a bound): is V2 on, the status of the plan,
                 \* the events so far, the days reviews are due
  FirstDay, LastDay, MaxEdits   \* bounds: days; edits of plans and the rollout

Levels   == {Level[g] : g \in Grammars}
Days     == FirstDay..LastDay
Types    == {"LEARN", "REVIEW"}
Modes    == Types \cup {"PRACTICE"}
TaskKeys == [born : Days, type : Types, g : Grammars]     \* idempotency keys
NoKey    == [born |-> Never, type |-> "NONE", g |-> Never]
NoPlan   == "no plan"
Group(l) == IF l = Target THEN "PRIMARY" ELSE "FOUNDATION"

ASSUME LearningAssumption ==
  /\ Grammars \subseteq Nat /\ IsFiniteSet(Grammars) /\ IsFiniteSet(Sessions)
  /\ Answers \subseteq [submitted : Ratings, ai : Assessments, taskDone : BOOLEAN]
  /\ FirstDay \in Nat /\ LastDay \in Nat /\ FirstDay <= LastDay /\ DailyNewLimit \in Nat
  /\ Scenes \in [Grammars -> SUBSET SceneNames]

(* A second due review of a day has a counted one of the old rule between; and *)
(* the last that counts is the due review of today, if there was one.          *)
OfTheOldRule(e) == Counted(e) /\ ~e.due

DueApart(es) ==
  \A i, j \in 1..Len(es) :
    i < j /\ es[i].due /\ es[j].due /\ es[i].day = es[j].day =>
      \E h \in (i + 1)..(j - 1) : OfTheOldRule(es[h])

Kept(es, today) ==
  /\ DueApart(es)
  /\ \A i \in 1..Len(es) :
       /\ es[i].day <= today
       /\ es[i].due /\ es[i].day = today =>
            DueDay(es) = today \/ \E h \in (i + 1)..Len(es) : OfTheOldRule(es[h])

(* What went before happened on earlier days or earlier today, under the same rules. *)
ASSUME HistoryAssumption ==
  \A account \in Accounts :
    /\ account.v2 \in BOOLEAN /\ account.plan \in {"NONE", "ACTIVE", "PAUSED", "COMPLETED"}
    /\ account.due \in [Grammars -> Nat \cup {Never}]
    /\ account.events \in [Grammars -> Seq(Event)]
    /\ \A g \in Grammars : Kept(account.events[g], FirstDay)

NoTask   == [status |-> "NONE", date |-> FirstDay, plan |-> NoPlan, doneOn |-> Never]
NoSession ==
  [status |-> "NONE", g |-> CHOOSE g \in Grammars : TRUE, mode |-> "PRACTICE", task |-> NoKey,
   startedOn |-> FirstDay, hinted |-> FALSE, seen |-> 0, scene |-> "", transfer |-> FALSE]

VARIABLES
  day,        \* the learner's local day
  v2,         \* User.learningV2Enabled
  plan,       \* [Plans -> [level, status, mode, start]]
  task,       \* [TaskKeys -> [status, date, plan, doneOn]]
  session,    \* [Sessions -> session]
  progress,   \* [Grammars -> [status, needsWork, rule]]
  schedule,   \* [Grammars -> [on, mature]]
  events,     \* [Grammars -> its review events in order]
  edits       \* edits made, up to MaxEdits

vars == <<day, v2, plan, task, session, progress, schedule, events, edits>>
study == <<progress, schedule, events>>

IsOpen(k) == task[k].status \in {"PENDING", "IN_PROGRESS"}
Running(p) == plan[p].status = "ACTIVE" /\ plan[p].start <= day
ActivePlans == {p \in Plans : Running(p)}
Current(p)  == plan[p].status \in {"ACTIVE", "PAUSED"}
-----------------------------------------------------------------------------
(* What opening the day starts from (daily-task-generation.ts). *)
Existing  == {k \in TaskKeys : \/ IsOpen(k)
                               \/ task[k].status = "COMPLETED" /\ day \in {task[k].date, task[k].doneOn}}
Preserved == {k \in Existing : task[k].status # "PENDING"}
PreservedGrammars == {k.g : k \in Preserved}
PlanOf(l) == CHOOSE p \in ActivePlans : plan[p].level = l
Planned(g) == \E p \in ActivePlans : plan[p].level = Level[g]

\* (mutant DueBefore: a review is planned from the day after it is due)
DueBefore(g) == Planned(g) /\ schedule[g].on # Never /\ schedule[g].on < day

IsDue(g)   == Planned(g) /\ schedule[g].on # Never /\ schedule[g].on <= day
IsCheck(g) == Planned(g) /\ schedule[g].on = Never /\ progress[g].needsWork
IsNew(g)   == progress[g].status = "NOT_STARTED" /\ ~progress[g].needsWork

FirstOf(n, S) == {g \in S : Cardinality({h \in S : h < g}) < n}

NewGrammars(p) ==
  LET used == Cardinality({k \in Preserved : k.type = "LEARN" /\ Level[k.g] = plan[p].level})
      left == IF plan[p].mode = "SYSTEM" /\ used < DailyNewLimit THEN DailyNewLimit - used ELSE 0
  IN FirstOf(left, {g \in Grammars \ PreservedGrammars : Level[g] = plan[p].level /\ IsNew(g)})

(* No time budget: allocateDailyBudget selects every candidate once. *)
Candidates ==
  {[type |-> "REVIEW", g |-> g] :
     g \in {h \in Grammars \ PreservedGrammars : IsDue(h) \/ IsCheck(h)}}
  \cup {[type |-> "LEARN", g |-> g] : g \in UNION {NewGrammars(p) : p \in ActivePlans}}

Of(c, k)   == k.type = c.type /\ k.g = c.g
Unstarted(c) == {k \in TaskKeys : Of(c, k) /\ task[k].status = "PENDING"}
Reused(c)  == CHOOSE k \in Unstarted(c) : TRUE
KeyFor(c)  == IF Unstarted(c) # {} THEN Reused(c)
              ELSE [born |-> day, type |-> c.type, g |-> c.g]

(* A task that was begun is moved to today while its plan runs. *)
CarriedOver(k) == k \in Preserved /\ task[k].status = "IN_PROGRESS" /\ task[k].plan \in ActivePlans

(* An unstarted task that nothing calls for is deleted. *)
\* (mutant NothingDropped: it is kept)
NothingDropped(wanted, k) == FALSE

Dropped(wanted, k) == task[k].status = "PENDING" /\ ~\E c \in wanted : Of(c, k)

(* The tasks once the day is opened, and those that getToday then shows. *)
Opened ==
  LET wanted == Candidates
      keys   == {KeyFor(c) : c \in wanted}
  IN [k \in TaskKeys |->
        IF k \in keys
        THEN [status |-> "PENDING", date |-> day, plan |-> PlanOf(Level[k.g]), doneOn |-> Never]
        ELSE IF Dropped(wanted, k) THEN NoTask
        ELSE IF CarriedOver(k) THEN [task[k] EXCEPT !.date = day]
        ELSE task[k]]

Shown == {KeyFor(c) : c \in Candidates} \cup Preserved

GenerateDailyTasks ==
  /\ task' = Opened
  /\ UNCHANGED <<day, v2, plan, session, edits>> /\ UNCHANGED study

(* DashboardService.getToday: a new grammar waits for the reviews of its group *)
(* among those shown.                                                          *)
Locked(tasks, shown, k) ==
  /\ k.type = "LEARN" /\ tasks[k].status # "COMPLETED"
  /\ \E r \in shown :
       /\ r.type = "REVIEW" /\ tasks[r].status # "COMPLETED"
       /\ tasks[r].plan \in ActivePlans /\ Group(Level[r.g]) = Group(Level[k.g])

(* What forecastPlans expects of a plan's first day, before anything is begun. *)
ForecastReviews(p) ==
  {g \in Grammars : /\ Level[g] = plan[p].level
                    /\ IF schedule[g].on = Never THEN progress[g].needsWork
                       ELSE schedule[g].on <= day}
ForecastNew(p) ==
  LET remaining == IF plan[p].mode = "SYSTEM"
                   THEN Cardinality({g \in Grammars : Level[g] = plan[p].level /\ IsNew(g)})
                   ELSE 0
  IN Least({DailyNewLimit, remaining})
-----------------------------------------------------------------------------
(* createStudySession *)
OldestReview(g) ==
  LET mine == {k \in TaskKeys : k.type = "REVIEW" /\ k.g = g /\ IsOpen(k) /\ task[k].date <= day}
  IN IF mine = {} THEN NoKey
     ELSE CHOOSE k \in mine : \A o \in mine : task[k].date <= task[o].date

ReviewsRequired(tasks, g) ==
  {k \in TaskKeys : /\ k.type = "REVIEW" /\ tasks[k].status \in {"PENDING", "IN_PROGRESS"}
                    /\ tasks[k].date = day /\ tasks[k].plan \in ActivePlans
                    /\ Group(Level[k.g]) = Group(Level[g])}

TaskAccepted(g, mode, k) ==
  k # NoKey => k.g = g /\ IsOpen(k) /\ task[k].date <= day /\ k.type = mode

Serving(k) == {s \in Sessions : session[s].status # "NONE" /\ session[s].task = k}
MayLearn(tasks, k) == k.type = "LEARN" => ReviewsRequired(tasks, k.g) = {}

(* An accepted task that has its session is answered with that session: only *)
(* a new one changes anything.                                               *)
\* (mutant AnyTask: a task may get a second session)
AnyTask(k) == TRUE

NotYetServed(k) == k # NoKey => Serving(k) = {}

(* SceneService.assign: the training a new session of the grammar may get. *)
Trainings(g) ==
  LET past  == [i \in 1..Len(events[g]) |-> events[g][i].scene]
      style == TrainingMode(Len(events[g]))
  IN [scene : ChooseScenario(Scenes[g], past, style), transfer : {style = "TRANSFER"}]

Create(s, g, mode, asked) ==
  LET k == IF asked = NoKey /\ mode = "REVIEW" THEN OldestReview(g) ELSE asked
  IN /\ session[s].status = "NONE"
     /\ TaskAccepted(g, mode, k) /\ NotYetServed(k) /\ MayLearn(task, k)
     /\ \E training \in Trainings(g) :
          session' = [session EXCEPT ![s] =
            [status |-> "ACTIVE", g |-> g, mode |-> mode, task |-> k, startedOn |-> day,
             hinted |-> FALSE, seen |-> Len(events[g]), scene |-> training.scene,
             transfer |-> training.transfer]]
     /\ task' = IF k = NoKey THEN task ELSE [task EXCEPT ![k].status = "IN_PROGRESS"]
     /\ UNCHANGED <<day, v2, plan, edits>> /\ UNCHANGED study

RevealHint(s) ==
  /\ session[s].status = "ACTIVE" /\ session[s].mode # "LEARN" /\ ~session[s].hinted
  /\ session' = [session EXCEPT ![s].hinted = TRUE]
  /\ UNCHANGED <<day, v2, plan, task, edits>> /\ UNCHANGED study

(* finishEvidenceSession, but for the time it credits (StudySession.tla); what *)
(* else the completed session holds is in its event.                           *)
Finish(s) ==
  /\ session' = [session EXCEPT ![s] = [NoSession EXCEPT !.status = "COMPLETED", !.task = session[s].task]]
  /\ task' = IF session[s].task = NoKey THEN task
             ELSE [task EXCEPT ![session[s].task].status = "COMPLETED",
                               ![session[s].task].doneOn = day]
  /\ UNCHANGED <<day, v2, plan, edits>>

(* Scenes that successful answers had established when the session began. *)
PriorScenes(s) ==
  {events[session[s].g][i].scene :
     i \in {j \in 1..session[s].seen : events[session[s].g][j].good}}

(* completeEvidenceReview *)
EvidenceReview(s, submitted, ai, taskDone, memory) ==
  LET x        == session[s]
      g        == x.g
      old      == progress[g]
      initial  == old.status = "NOT_STARTED"
      rating   == ResolveEvidenceRating(submitted, ai, x.hinted)
      due      == ~initial /\ IsDueReview(x.mode, day, x.startedOn, schedule[g].on, DueDay(events[g]))
      told     == taskDone /\ x.scene # ""
      proven   == Qualifies(due, ai, x.hinted, submitted)
      e        == [day |-> day, v2 |-> TRUE, due |-> due, qualifies |-> proven,
                   cross |-> told /\ proven /\ x.transfer /\ PriorScenes(s) \ {x.scene} # {},
                   good |-> told /\ ai = "GOOD" /\ ~x.hinted,
                   affects |-> EvidenceAffects(schedule[g], rating, ai, due, initial, day, memory),
                   clean |-> rating = "REMEMBERED" /\ ~x.hinted,
                   assessed |-> HasScore(ai) \/ x.hinted \/ submitted # "REMEMBERED",
                   scene |-> x.scene]
      next     == EvidenceSchedule(schedule[g], rating, ai, due, initial, day, memory)
      after    == Append(events[g], e)
      status   == EvidenceStatus(old.status, after, e, rating, submitted, ai, x.hinted, next.mature)
  IN /\ events' = [events EXCEPT ![g] = after]
     /\ schedule' = [schedule EXCEPT ![g] = next]
     /\ progress' = [progress EXCEPT ![g] =
          [status |-> IF status = "NOT_STARTED" /\ (HasScore(ai) \/ x.mode = "LEARN")
                      THEN "LEARNING" ELSE status,
           needsWork |-> IF status = "NEEDS_WORK" THEN TRUE
                         ELSE IF HasScore(ai) /\ status # "NOT_STARTED" THEN FALSE
                         ELSE old.needsWork,
           rule |-> IF status # "MASTERED" \/ proven THEN "v2" ELSE old.rule]]

(* The rest of completeStudySession, for an account with V2 off: the version of *)
(* the rule that judged the grammar last is left as it was.                    *)
LegacyReview(s, submitted, ai, memory) ==
  LET x       == session[s]
      g       == x.g
      rating  == ResolveRating(submitted, ai)
      before  == Affecting(events[g])
      affects == \/ x.mode # "PRACTICE" \/ x.task # NoKey
                 \/ before = <<>> \/ before[Len(before)].day # day
      e       == [day |-> day, v2 |-> FALSE, due |-> FALSE, qualifies |-> FALSE, cross |-> FALSE,
                  good |-> FALSE, affects |-> affects,
                  clean |-> rating = "REMEMBERED" /\ ~(x.mode = "REVIEW" /\ x.hinted),
                  assessed |-> TRUE, scene |-> x.scene]
      after   == Append(events[g], e)
  IN /\ events' = [events EXCEPT ![g] = after]
     /\ schedule' = IF ~affects THEN schedule
                    ELSE [schedule EXCEPT ![g] = [on |-> day + memory.interval, mature |-> memory.mature]]
     /\ progress' = IF ~affects THEN progress
                    ELSE [progress EXCEPT ![g].status = LegacyStatus(after, rating, memory.mature)]

MayComplete(s) == session[s].status = "ACTIVE"

Complete(s, submitted, ai, taskDone, memory) ==
  /\ MayComplete(s)
  /\ taskDone => ai = "GOOD"
  /\ IF v2 THEN EvidenceReview(s, submitted, ai, taskDone, memory)
     ELSE ~taskDone /\ LegacyReview(s, submitted, ai, memory)
  /\ Finish(s)
-----------------------------------------------------------------------------
(* StudyPlansService *)
HasOther(p, l) == \E q \in Plans \ {p} : plan[q].level = l /\ Current(q)

Edit(plans, on) ==
  /\ edits < MaxEdits /\ edits' = edits + 1
  /\ plan' = plans /\ v2' = on
  /\ UNCHANGED <<day, task, session>> /\ UNCHANGED study

(* An existing current plan of the level is returned instead. *)
CreatePlan(p, l, start) ==
  /\ plan[p].status = "NONE" /\ ~HasOther(p, l)
  /\ Edit([plan EXCEPT ![p] = [level |-> l, status |-> "ACTIVE", start |-> start,
                               mode |-> IF l = Target THEN "SYSTEM" ELSE "GAP_FILL"]], v2)

UpdatePlan(p, status, mode) ==
  /\ plan[p].status # "NONE" /\ (plan[p].status # status \/ plan[p].mode # mode)
  /\ status \in {"ACTIVE", "PAUSED"} => ~HasOther(p, plan[p].level)
  /\ Edit([plan EXCEPT ![p].status = status, ![p].mode = mode], v2)

(* LearningV2Controller.rollout, on or off. *)
Rollout == Edit(plan, ~v2)

(* GrammarService.markNeedsWork: what is marked comes back today. *)
MarkNeedsWork(g, marked) ==
  /\ edits < MaxEdits /\ edits' = edits + 1
  /\ {marked, progress[g].needsWork} # {FALSE}
  /\ progress' = [progress EXCEPT ![g].needsWork = marked,
       ![g].status = IF marked /\ @ # "NOT_STARTED" THEN "NEEDS_WORK" ELSE @]
  /\ schedule' = IF marked /\ schedule[g].on > day THEN [schedule EXCEPT ![g].on = day] ELSE schedule
  /\ UNCHANGED <<day, v2, plan, task, session, events>>

NextDay ==
  /\ day < LastDay /\ day' = day + 1
  /\ UNCHANGED <<v2, plan, task, session, edits>> /\ UNCHANGED study

FirstPlan == CHOOSE p \in Plans : TRUE

Init ==
  /\ day = FirstDay /\ edits = 0
  /\ task = [k \in TaskKeys |-> NoTask]
  /\ session = [s \in Sessions |-> NoSession]
  /\ \E account \in Accounts :
       /\ v2 = account.v2 /\ events = account.events
       /\ plan = [p \in Plans |->
                   [level |-> Target, status |-> IF p = FirstPlan THEN account.plan ELSE "NONE",
                    mode |-> "SYSTEM", start |-> FirstDay]]
       /\ schedule = [g \in Grammars |-> [on |-> account.due[g], mature |-> account.due[g] # Never]]
       /\ progress = [g \in Grammars |->
            [status |-> IF account.due[g] = Never THEN "NOT_STARTED" ELSE "LEARNING", needsWork |-> FALSE,
             rule |-> IF \E i \in 1..Len(events[g]) : events[g][i].v2 THEN "v2" ELSE "legacy"]]

Next ==
  \/ NextDay \/ Rollout \/ GenerateDailyTasks
  \/ \E g \in Grammars, marked \in BOOLEAN : MarkNeedsWork(g, marked)
  \/ \E p \in Plans :
       \/ \E l \in Levels, start \in Days : CreatePlan(p, l, start)
       \/ \E status \in {"ACTIVE", "PAUSED", "COMPLETED"}, mode \in {"SYSTEM", "GAP_FILL"} :
            UpdatePlan(p, status, mode)
  \/ \E s \in Sessions :
       \/ RevealHint(s)
       \/ \E g \in Grammars, mode \in Modes, k \in TaskKeys \cup {NoKey} : Create(s, g, mode, k)
       \/ \E a \in Answers, memory \in Memories :
            Complete(s, a.submitted, a.ai, a.taskDone, memory)

Spec == Init /\ [][Next]_vars
=============================================================================
