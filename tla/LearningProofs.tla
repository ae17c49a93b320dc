--------------------------- MODULE LearningProofs ---------------------------
(***************************************************************************)
(* For any grammars, plans, sessions, answers and days: a task and its     *)
(* session never part, a grammar is due once a day, mastery is earned, the *)
(* dashboard locks what the server refuses, and the forecast's first day   *)
(* is what opening the day plans.                                          *)
(*                                                                         *)
(* What may have gone before the first day is a constant of the model; of  *)
(* it only HistoryAssumption is used.                                      *)
(***************************************************************************)
EXTENDS LearningProperties, FiniteSetTheorems, WellFoundedInduction, TLAPS

(* What the rows hold. *)
TaskStatuses == {"NONE", "PENDING", "IN_PROGRESS", "COMPLETED"}
TaskRow ==
  [status : TaskStatuses, date : Days, plan : Plans \cup {NoPlan}, doneOn : Days \cup {Never}]

SessionFields ==
  {"status", "g", "mode", "task", "startedOn", "hinted", "seen", "scene", "transfer"}

SessionRow(x) ==
  /\ DOMAIN x = SessionFields
  /\ x.status \in {"NONE", "ACTIVE", "COMPLETED"} /\ x.task \in TaskKeys \cup {NoKey}
  /\ x.scene \in SceneNames
  /\ x.status = "ACTIVE" => x.g \in Grammars

Typed ==
  /\ day \in Days /\ v2 \in BOOLEAN
  /\ task \in [TaskKeys -> TaskRow]
  /\ DOMAIN session = Sessions /\ \A s \in Sessions : SessionRow(session[s])

(* A task has the session its status calls for. *)
Served(k) ==
  /\ task[k].status \in {"NONE", "PENDING"} => Serving(k) = {}
  /\ task[k].status = "IN_PROGRESS" =>
       \E s \in Sessions : Serving(k) = {s} /\ session[s].status = "ACTIVE"
  /\ task[k].status = "COMPLETED" =>
       \E s \in Sessions : Serving(k) = {s} /\ session[s].status = "COMPLETED"

(* A key names the day its task was generated, so a task with the key of today *)
(* that is completed was completed today.                                      *)
Dated(k) ==
  /\ task[k].status # "NONE" => k.born <= day
  /\ task[k].status = "COMPLETED" =>
       task[k].doneOn \in Days /\ k.born <= task[k].doneOn /\ task[k].doneOn <= day

OneOpen ==
  \A k, o \in TaskKeys : k.g = o.g /\ k.type = o.type /\ IsOpen(k) /\ IsOpen(o) => k = o

TInv == Typed /\ (\A k \in TaskKeys : Served(k) /\ Dated(k)) /\ OneOpen
-----------------------------------------------------------------------------
LEMMA DaysAreNumbers == Days \subseteq Nat /\ FirstDay \in Days /\ Never \notin Nat
BY LearningAssumption DEF Days, Never

LEMMA NoKeyIsNone == NoKey \notin TaskKeys
BY DaysAreNumbers DEF NoKey, TaskKeys

(* Every set of numbers has a smallest. *)
LEMMA SmallestExists ==
  ASSUME NEW T \in SUBSET Nat, T # {}
  PROVE  \E n \in T : \A m \in T : n <= m
<1> DEFINE R == {p \in Nat \X Nat : p[1] < p[2]}
<1>1. IsWellFoundedOn(R, Nat)
  <2>1. IsWellFoundedOn({p \in Nat \X Nat : p[1] < p[2]}, Nat)
    BY NatLessThanWellFounded DEF OpToRel
  <2> QED  BY <2>1
<1>2. PICK n \in T : \A m \in T : <<m, n>> \notin R
  <2> HIDE DEF R
  <2> QED  BY <1>1, WFMin
<1>3. \A m \in T : ~(m < n)  BY <1>2
<1>4. n \in Nat /\ \A m \in T : m \in Nat  OBVIOUS
<1> QED  BY <1>3, <1>4
-----------------------------------------------------------------------------
(***************************************************************************)
(* Opening the day.  What it plans is a grammar that no task of the day    *)
(* holds already, and the key it plans it under is free or waits unstarted. *)
(***************************************************************************)
LEMMA CandidateIs ==
  ASSUME NEW c \in Candidates
  PROVE  /\ c.type \in Types /\ c.g \in Grammars \ PreservedGrammars
         /\ c = [type |-> c.type, g |-> c.g] /\ Planned(c.g)
<1>1. CASE c \in {[type |-> "REVIEW", g |-> g] :
                    g \in {h \in Grammars \ PreservedGrammars : IsDue(h) \/ IsCheck(h)}}
  <2>1. PICK g \in Grammars \ PreservedGrammars :
          (IsDue(g) \/ IsCheck(g)) /\ c = [type |-> "REVIEW", g |-> g]
    BY <1>1
  <2>2. Planned(g)  BY <2>1 DEF IsDue, IsCheck
  <2> QED  BY <2>1, <2>2 DEF Types
<1>2. CASE c \in {[type |-> "LEARN", g |-> g] : g \in UNION {NewGrammars(p) : p \in ActivePlans}}
  <2>1. PICK p \in ActivePlans : \E h \in NewGrammars(p) : c = [type |-> "LEARN", g |-> h]
    BY <1>2
  <2>0. PICK g \in NewGrammars(p) : c = [type |-> "LEARN", g |-> g]  BY <2>1
  <2>2. g \in Grammars \ PreservedGrammars /\ Level[g] = plan[p].level
    BY DEF NewGrammars, FirstOf
  <2>3. Planned(g)  BY <2>2 DEF Planned
  <2> QED  BY <2>0, <2>2, <2>3 DEF Types
<1> QED  BY <1>1, <1>2 DEF Candidates

LEMMA SameCandidate ==
  ASSUME NEW c \in Candidates, NEW e \in Candidates, c.type = e.type, c.g = e.g
  PROVE  c = e
<1>1. c = [type |-> c.type, g |-> c.g] /\ e = [type |-> e.type, g |-> e.g]  BY CandidateIs
<1> QED  BY <1>1

LEMMA KeyForIs ==
  ASSUME TInv, NEW c \in Candidates
  PROVE  /\ KeyFor(c) \in TaskKeys /\ Of(c, KeyFor(c))
         /\ task[KeyFor(c)].status \in {"NONE", "PENDING"}
         /\ KeyFor(c).born <= day
         /\ \A k \in Unstarted(c) : k = KeyFor(c)
<1>1. c.type \in Types /\ c.g \in Grammars \ PreservedGrammars  BY CandidateIs
<1>2. CASE Unstarted(c) # {}
  <2>1. KeyFor(c) = Reused(c) /\ Reused(c) \in Unstarted(c)  BY <1>2 DEF KeyFor, Reused
  <2>2. ASSUME NEW k \in Unstarted(c) PROVE k = Reused(c)
    <3>1. /\ k \in TaskKeys /\ Reused(c) \in TaskKeys /\ Of(c, k) /\ Of(c, Reused(c))
          /\ IsOpen(k) /\ IsOpen(Reused(c))
      BY <2>1, <2>2 DEF Unstarted, IsOpen
    <3> QED  BY <3>1 DEF TInv, OneOpen, Of
  <2>3. Reused(c) \in TaskKeys /\ Of(c, Reused(c)) /\ task[Reused(c)].status = "PENDING"
    BY <2>1 DEF Unstarted
  <2>4. Reused(c).born <= day  BY <2>3 DEF TInv, Dated
  <2> QED  BY <2>1, <2>2, <2>3, <2>4
<1>3. CASE Unstarted(c) = {}
  <2> DEFINE k == [born |-> day, type |-> c.type, g |-> c.g]
  <2>1. KeyFor(c) = k  BY <1>3 DEF KeyFor
  <2>2. day \in Days /\ day \in Nat  BY DaysAreNumbers DEF TInv, Typed
  <2>3. k \in TaskKeys /\ Of(c, k) /\ k.born = day /\ k.g = c.g  BY <1>1, <2>2 DEF TaskKeys, Of
  <2> HIDE DEF k
  <2>4. k \notin Preserved  BY <1>1, <2>3 DEF PreservedGrammars
  <2>5. task[k].status # "PENDING"  BY <1>3, <2>3 DEF Unstarted
  <2>6. k \notin Existing  BY <2>4, <2>5 DEF Preserved
  <2>7. task[k].status # "IN_PROGRESS"  BY <2>3, <2>6 DEF Existing, IsOpen
  <2>8. task[k].status # "COMPLETED"
    <3> SUFFICES ASSUME task[k].status = "COMPLETED" PROVE FALSE
      OBVIOUS
    <3>1. task[k].doneOn \in Nat /\ k.born <= task[k].doneOn /\ task[k].doneOn <= day
      BY <2>3, DaysAreNumbers DEF TInv, Dated
    <3>2. task[k].doneOn = day  BY <2>2, <2>3, <3>1
    <3> QED  BY <2>3, <2>6, <3>2 DEF Existing
  <2>9. task[k] \in TaskRow  BY <2>3 DEF TInv, Typed
  <2>10. task[k].status \in TaskStatuses  BY <2>9 DEF TaskRow
  <2> QED  BY <1>3, <2>1, <2>2, <2>3, <2>5, <2>7, <2>8, <2>10 DEF TaskStatuses
<1> QED  BY <1>2, <1>3

Planning == {KeyFor(c) : c \in Candidates}

(* What becomes of a task. *)
LEMMA OpenedIs ==
  ASSUME TInv, NEW k \in TaskKeys
  PROVE  /\ Opened[k] \in TaskRow
         /\ Opened[k].status = "PENDING" <=> k \in Planning
         /\ k \in Planning => Opened[k].date = day /\ task[k].status \in {"NONE", "PENDING"}
                              /\ k.born <= day
         /\ Opened[k].status = "NONE" => task[k].status \in {"NONE", "PENDING"}
         /\ k \notin Planning /\ Opened[k].status # "NONE" =>
              /\ task[k].status = Opened[k].status /\ task[k].status \in {"IN_PROGRESS", "COMPLETED"}
              /\ task[k].doneOn = Opened[k].doneOn /\ task[k].plan = Opened[k].plan
              /\ CarriedOver(k) => Opened[k].date = day
<1> DEFINE fresh == [status |-> "PENDING", date |-> day, plan |-> PlanOf(Level[k.g]), doneOn |-> Never]
           moved == [task[k] EXCEPT !.date = day]
<1>1. Opened[k] = IF k \in Planning THEN fresh
                  ELSE IF Dropped(Candidates, k) THEN NoTask
                  ELSE IF CarriedOver(k) THEN moved ELSE task[k]
  BY DEF Opened, Planning
<1>2. day \in Days /\ task[k] \in TaskRow  BY DEF TInv, Typed
<1>3. CASE k \in Planning
  <2>1. PICK c \in Candidates : k = KeyFor(c)  BY <1>3 DEF Planning
  <2>2. Of(c, k) /\ task[k].status \in {"NONE", "PENDING"} /\ k.born <= day  BY <2>1, KeyForIs
  <2>3. PICK p \in ActivePlans : plan[p].level = Level[k.g]
    BY <2>1, <2>2, CandidateIs DEF Planned, Of
  <2>4. PlanOf(Level[k.g]) \in Plans  BY <2>3 DEF PlanOf, ActivePlans
  <2>5. fresh \in TaskRow  BY <1>2, <2>4 DEF TaskRow, TaskStatuses
  <2> QED  BY <1>1, <1>3, <2>2, <2>5
<1>4. CASE k \notin Planning /\ Dropped(Candidates, k)
  <2>1. NoTask \in TaskRow  BY DaysAreNumbers DEF NoTask, TaskRow, TaskStatuses
  <2> QED  BY <1>1, <1>4, <2>1 DEF Dropped, NoTask
<1>5. CASE k \notin Planning /\ ~Dropped(Candidates, k)
  <2>1. task[k].status # "PENDING"
    <3> SUFFICES ASSUME task[k].status = "PENDING" PROVE FALSE
      OBVIOUS
    <3>1. PICK c \in Candidates : Of(c, k)  BY <1>5 DEF Dropped
    <3>2. k \in Unstarted(c)  BY <3>1 DEF Unstarted
    <3>3. k = KeyFor(c)  BY <3>2, KeyForIs
    <3> QED  BY <1>5, <3>3 DEF Planning
  <2>2. /\ moved \in TaskRow /\ moved.status = task[k].status /\ moved.date = day
        /\ moved.doneOn = task[k].doneOn /\ moved.plan = task[k].plan
    BY <1>2 DEF TaskRow
  <2>3. task[k].status \in TaskStatuses  BY <1>2 DEF TaskRow
  <2> HIDE DEF moved
  <2>4. Opened[k] = IF CarriedOver(k) THEN moved ELSE task[k]  BY <1>1, <1>5
  <2> QED  BY <1>2, <1>5, <2>1, <2>2, <2>3, <2>4 DEF TaskStatuses
<1> QED  BY <1>3, <1>4, <1>5
-----------------------------------------------------------------------------
(***************************************************************************)
(* The tasks and their sessions.                                           *)
(***************************************************************************)
LEMMA GenerateKeeps ==
  ASSUME TInv, GenerateDailyTasks
  PROVE  TInv'
<1>1. task' = Opened /\ session' = session /\ day' = day /\ v2' = v2
  BY DEF GenerateDailyTasks
<1>2. Opened \in [TaskKeys -> TaskRow]
  <2>1. Opened = [k \in TaskKeys |-> Opened[k]]  BY DEF Opened
  <2>2. \A k \in TaskKeys : Opened[k] \in TaskRow  BY OpenedIs
  <2> QED  BY <2>1, <2>2
<1>3. Typed'  BY <1>1, <1>2 DEF TInv, Typed
<1>4. ASSUME NEW k \in TaskKeys PROVE Served(k)' /\ Dated(k)'
  <2>1. Served(k) /\ Dated(k)  BY DEF TInv
  <2>2. Serving(k)' = Serving(k)  BY <1>1 DEF Serving
  <2>3. task'[k] = Opened[k]  BY <1>1
  <2>4. CASE k \in Planning  BY <1>1, <2>1, <2>2, <2>3, <2>4, OpenedIs DEF Served, Dated
  <2>5. CASE k \notin Planning /\ Opened[k].status = "NONE"
    BY <1>1, <2>1, <2>2, <2>3, <2>5, OpenedIs DEF Served, Dated
  <2>6. CASE k \notin Planning /\ Opened[k].status # "NONE"
    BY <1>1, <2>1, <2>2, <2>3, <2>6, OpenedIs DEF Served, Dated
  <2> QED  BY <2>4, <2>5, <2>6
<1>5. OneOpen'
  <2> SUFFICES ASSUME NEW k \in TaskKeys, NEW o \in TaskKeys, k.g = o.g, k.type = o.type,
                      IsOpen(k)', IsOpen(o)'
               PROVE  k = o
    BY DEF OneOpen
  <2>1. Opened[k].status \in {"PENDING", "IN_PROGRESS"} /\ Opened[o].status \in {"PENDING", "IN_PROGRESS"}
    BY <1>1 DEF IsOpen
  <2>2. ASSUME NEW a \in TaskKeys, NEW b \in TaskKeys, a.g = b.g, a.type = b.type,
               a \in Planning, Opened[b].status = "IN_PROGRESS"
        PROVE  FALSE
    <3>1. PICK c \in Candidates : a = KeyFor(c)  BY <2>2 DEF Planning
    <3>2. c.g = b.g  BY <2>2, <3>1, KeyForIs DEF Of
    <3>3. task[b].status = "IN_PROGRESS"
      <4>1. b \notin Planning  BY <2>2, OpenedIs
      <4> QED  BY <2>2, <4>1, OpenedIs
    <3>4. b \in Preserved  BY <3>3 DEF Preserved, Existing, IsOpen
    <3>5. c.g \in PreservedGrammars  BY <3>2, <3>4 DEF PreservedGrammars
    <3> QED  BY <3>5, CandidateIs
  <2>3. CASE k \in Planning /\ o \in Planning
    <3>1. PICK c \in Candidates : k = KeyFor(c)  BY <2>3 DEF Planning
    <3>2. PICK e \in Candidates : o = KeyFor(e)  BY <2>3 DEF Planning
    <3>3. c = e  BY <3>1, <3>2, KeyForIs, SameCandidate DEF Of
    <3> QED  BY <3>1, <3>2, <3>3
  <2>4. CASE k \notin Planning /\ o \notin Planning
    <3>1. IsOpen(k) /\ IsOpen(o)  BY <2>1, <2>4, OpenedIs DEF IsOpen
    <3> QED  BY <3>1 DEF TInv, OneOpen
  <2>5. CASE k \in Planning /\ o \notin Planning
    <3>1. Opened[o].status = "IN_PROGRESS"  BY <2>1, <2>5, OpenedIs
    <3> QED  BY <2>2, <2>5, <3>1
  <2>6. CASE k \notin Planning /\ o \in Planning
    <3>1. Opened[k].status = "IN_PROGRESS"  BY <2>1, <2>6, OpenedIs
    <3> QED  BY <2>2, <2>6, <3>1
  <2> QED  BY <2>3, <2>4, <2>5, <2>6
<1> QED  BY <1>3, <1>4, <1>5 DEF TInv

(* No task and no link to a task changes. *)
LEMMA CalmTasks ==
  ASSUME TInv, task' = task, day' \in Days, day <= day', v2' \in BOOLEAN,
         DOMAIN session' = Sessions, \A s \in Sessions : SessionRow(session'[s]),
         \A s \in Sessions : session'[s].status = session[s].status /\ session'[s].task = session[s].task
  PROVE  TInv'
<1>1. Typed'  BY DEF TInv, Typed
<1>2. \A k \in TaskKeys : Serving(k)' = Serving(k)  BY DEF Serving
<1>3. ASSUME NEW k \in TaskKeys PROVE Served(k)' /\ Dated(k)'
  <2>1. Served(k) /\ Dated(k)  BY DEF TInv
  <2>2. Served(k)'  BY <1>2, <2>1 DEF Served
  <2>3. Dated(k)'
    <3>1. k.born \in Nat /\ day \in Nat /\ day' \in Nat  BY DaysAreNumbers DEF TaskKeys, TInv, Typed
    <3>2. task[k].status = "COMPLETED" => task[k].doneOn \in Nat  BY <2>1, DaysAreNumbers DEF Dated
    <3> QED  BY <2>1, <3>1, <3>2 DEF Dated
  <2> QED  BY <2>2, <2>3
<1>4. OneOpen'  BY DEF TInv, OneOpen, IsOpen
<1> QED  BY <1>1, <1>3, <1>4 DEF TInv

LEMMA ElsewhereTasks ==
  ASSUME TInv, task' = task, session' = session, day' \in Days, day <= day', v2' \in BOOLEAN
  PROVE  TInv'
BY CalmTasks DEF TInv, Typed

LEMMA HintTasks ==
  ASSUME TInv, NEW s \in Sessions, RevealHint(s)
  PROVE  TInv'
<1>1. PICK x : x = [session[s] EXCEPT !.hinted = TRUE]  OBVIOUS
<1>2. session' = [session EXCEPT ![s] = x] /\ task' = task /\ day' = day /\ v2' = v2
  BY <1>1 DEF RevealHint
<1>3. SessionRow(session[s]) /\ day \in Nat  BY DaysAreNumbers DEF TInv, Typed
<1>4. SessionRow(x) /\ x.status = session[s].status /\ x.task = session[s].task
  BY <1>1, <1>3 DEF SessionRow, SessionFields
<1>5. /\ DOMAIN session' = Sessions /\ session'[s] = x
      /\ \A o \in Sessions \ {s} : session'[o] = session[o]
  BY <1>2 DEF TInv, Typed
<1>6. \A o \in Sessions : /\ SessionRow(session'[o])
                          /\ session'[o].status = session[o].status /\ session'[o].task = session[o].task
  BY <1>4, <1>5 DEF TInv, Typed
<1> QED  BY <1>2, <1>3, <1>5, <1>6, CalmTasks DEF TInv, Typed

(* The oldest of the reviews a learner may be working on is one of them. *)
LEMMA OldestIsKey ==
  ASSUME TInv, NEW g
  PROVE  OldestReview(g) \in TaskKeys \cup {NoKey}
<1> DEFINE mine == {k \in TaskKeys : k.type = "REVIEW" /\ k.g = g /\ IsOpen(k) /\ task[k].date <= day}
<1>1. CASE mine = {}  BY <1>1 DEF OldestReview
<1>2. CASE mine # {}
  <2>1. {task[k].date : k \in mine} \in SUBSET Nat
    BY DaysAreNumbers DEF TInv, Typed, TaskRow
  <2>2. PICK T : T = {task[k].date : k \in mine}  OBVIOUS
  <2>5. T \in SUBSET Nat /\ T # {}  BY <1>2, <2>1, <2>2
  <2>6. PICK n \in T : \A m \in T : n <= m  BY <2>5, SmallestExists
  <2>3. \E k \in mine : \A o \in mine : task[k].date <= task[o].date  BY <2>2, <2>6
  <2>4. OldestReview(g) = CHOOSE k \in mine : \A o \in mine : task[k].date <= task[o].date
    BY <1>2 DEF OldestReview
  <2> QED  BY <2>3, <2>4
<1> QED  BY <1>1, <1>2

(* A training is a scene of the grammar or none. *)
LEMMA ScenarioIs ==
  ASSUME NEW scenes, NEW past, NEW mode, NEW x \in ChooseScenario(scenes, past, mode)
  PROVE  x \in scenes \cup {""}
<1> DEFINE told  == Told(past)
           last  == IF told = <<>> THEN "" ELSE told[Len(told)]
           left  == IF mode = "TRANSFER" THEN scenes \ {last} ELSE scenes
           fresh == left \ {told[i] : i \in 1..Len(told)}
<1>1. x \in IF mode \in {"SUBSTITUTE", "COMBINE"} /\ last \in scenes THEN {last}
             ELSE IF left = {} THEN {""} ELSE IF fresh # {} THEN fresh ELSE left
  BY Zenon DEF ChooseScenario
<1>2. fresh \subseteq left
  <2> HIDE DEF left
  <2> QED  OBVIOUS
<1>3. left \subseteq scenes
  <2> HIDE DEF last
  <2> QED  OBVIOUS
<1> HIDE DEF told, last, left, fresh
<1> QED  BY <1>1, <1>2, <1>3

LEMMA TrainingIsScene ==
  ASSUME NEW g \in Grammars, NEW training \in Trainings(g)
  PROVE  training.scene \in SceneNames
<1>1. PICK style, past : training.scene \in ChooseScenario(Scenes[g], past, style)
  BY DEF Trainings
<1>2. training.scene \in Scenes[g] \cup {""}  BY <1>1, ScenarioIs
<1> QED  BY <1>2, LearningAssumption, SceneAssumption

LEMMA CreateTasks ==
  ASSUME TInv, NEW s \in Sessions, NEW g \in Grammars, NEW mode \in Modes,
         NEW asked \in TaskKeys \cup {NoKey}, Create(s, g, mode, asked)
  PROVE  TInv'
<1>1. PICK k \in TaskKeys \cup {NoKey} :
        k = IF asked = NoKey /\ mode = "REVIEW" THEN OldestReview(g) ELSE asked
  BY OldestIsKey
<1>2. /\ session[s].status = "NONE" /\ TaskAccepted(g, mode, k) /\ NotYetServed(k)
      /\ task' = IF k = NoKey THEN task ELSE [task EXCEPT ![k].status = "IN_PROGRESS"]
      /\ day' = day /\ v2' = v2
  BY <1>1 DEF Create
<1>3. PICK training \in Trainings(g) :
        session' = [session EXCEPT ![s] =
          [status |-> "ACTIVE", g |-> g, mode |-> mode, task |-> k, startedOn |-> day,
           hinted |-> FALSE, seen |-> Len(events[g]), scene |-> training.scene,
           transfer |-> training.transfer]]
  BY <1>1 DEF Create
<1>4. PICK x : x = [status |-> "ACTIVE", g |-> g, mode |-> mode, task |-> k, startedOn |-> day,
                    hinted |-> FALSE, seen |-> Len(events[g]), scene |-> training.scene,
                    transfer |-> training.transfer]
  OBVIOUS
<1>5. SessionRow(x) /\ x.status = "ACTIVE" /\ x.task = k
  BY <1>4, TrainingIsScene DEF SessionRow, SessionFields
<1>6. /\ DOMAIN session' = Sessions /\ session'[s] = x
      /\ \A o \in Sessions \ {s} : session'[o] = session[o]
  BY <1>3, <1>4 DEF TInv, Typed
<1>7. \A o \in Sessions : SessionRow(session'[o])  BY <1>5, <1>6 DEF TInv, Typed
<1>8. ASSUME NEW o \in TaskKeys \ {k} PROVE Serving(o)' = Serving(o)
  BY <1>2, <1>5, <1>6 DEF Serving
<1>9. CASE k = NoKey
  <2>1. task' = task  BY <1>2, <1>9
  <2>2. Typed'  BY <1>2, <1>6, <1>7, <2>1 DEF TInv, Typed
  <2>3. ASSUME NEW o \in TaskKeys PROVE Served(o)' /\ Dated(o)'
    <3>1. o # k  BY <1>9, NoKeyIsNone
    <3>2. Served(o) /\ Dated(o)  BY DEF TInv
    <3>3. \A a \in Serving(o) : session'[a] = session[a]  BY <1>2, <1>6 DEF Serving
    <3> QED  BY <1>2, <1>8, <2>1, <3>1, <3>2, <3>3 DEF Served, Dated
  <2>4. OneOpen'  BY <2>1 DEF TInv, OneOpen, IsOpen
  <2> QED  BY <2>2, <2>3, <2>4 DEF TInv
<1>10. CASE k # NoKey
  <2>1. /\ k \in TaskKeys /\ IsOpen(k) /\ Serving(k) = {}
        /\ task' = [task EXCEPT ![k].status = "IN_PROGRESS"]
    BY <1>2, <1>10 DEF TaskAccepted, NotYetServed
  <2>2. task[k] \in TaskRow /\ Served(k) /\ Dated(k)  BY <2>1 DEF TInv, Typed
  <2>3. PICK y : y = [task[k] EXCEPT !.status = "IN_PROGRESS"]  OBVIOUS
  <2>4. y \in TaskRow /\ y.status = "IN_PROGRESS"  BY <2>2, <2>3 DEF TaskRow, TaskStatuses
  <2>5. /\ task' \in [TaskKeys -> TaskRow] /\ task'[k] = y
        /\ \A o \in TaskKeys \ {k} : task'[o] = task[o]
    BY <2>1, <2>3, <2>4 DEF TInv, Typed
  <2>6. Typed'  BY <1>2, <1>6, <1>7, <2>5 DEF TInv, Typed
  <2>7. Serving(k)' = {s}
    <3>1. \A o \in Sessions : session[o].status # "NONE" => session[o].task # k
      BY <2>1 DEF Serving
    <3> QED  BY <1>5, <1>6, <3>1 DEF Serving
  <2>8. Served(k)'  BY <1>5, <1>6, <2>4, <2>5, <2>7 DEF Served
  <2>9. Dated(k)'  BY <1>2, <2>1, <2>2, <2>4, <2>5 DEF Dated, IsOpen
  <2>10. ASSUME NEW o \in TaskKeys \ {k} PROVE Served(o)' /\ Dated(o)'
    <3>1. Served(o) /\ Dated(o)  BY DEF TInv
    <3>2. \A a \in Serving(o) : session'[a] = session[a]  BY <1>2, <1>6 DEF Serving
    <3> QED  BY <1>2, <1>8, <2>5, <3>1, <3>2 DEF Served, Dated
  <2>11. \A o \in TaskKeys : IsOpen(o)' => IsOpen(o)  BY <2>1, <2>5 DEF IsOpen
  <2>12. OneOpen'  BY <2>11 DEF TInv, OneOpen
  <2> QED  BY <2>6, <2>8, <2>9, <2>10, <2>12 DEF TInv
<1> QED  BY <1>9, <1>10

LEMMA FinishTasks ==
  ASSUME TInv, NEW s \in Sessions, MayComplete(s), Finish(s)
  PROVE  TInv'
<1>1. PICK k \in TaskKeys \cup {NoKey} : k = session[s].task  BY DEF TInv, Typed, SessionRow
<1>2. PICK x : x = [NoSession EXCEPT !.status = "COMPLETED", !.task = k]  OBVIOUS
<1>3. /\ session[s].status = "ACTIVE" /\ session' = [session EXCEPT ![s] = x]
      /\ task' = IF k = NoKey THEN task
                 ELSE [task EXCEPT ![k].status = "COMPLETED", ![k].doneOn = day]
      /\ day' = day /\ v2' = v2
  BY <1>1, <1>2 DEF MayComplete, Finish
<1>4. SessionRow(x) /\ x.status = "COMPLETED" /\ x.task = k
  BY <1>2, SceneAssumption DEF NoSession, SessionRow, SessionFields
<1>5. /\ DOMAIN session' = Sessions /\ session'[s] = x
      /\ \A o \in Sessions \ {s} : session'[o] = session[o]
  BY <1>3 DEF TInv, Typed
<1>6. \A o \in Sessions : SessionRow(session'[o])  BY <1>4, <1>5 DEF TInv, Typed
<1>7. ASSUME NEW o \in TaskKeys PROVE Serving(o)' = Serving(o)
  BY <1>1, <1>3, <1>4, <1>5 DEF Serving
<1>8. ASSUME NEW o \in TaskKeys \ {k}, task'[o] = task[o] PROVE Served(o)' /\ Dated(o)'
  <2>1. Served(o) /\ Dated(o)  BY DEF TInv
  <2>2. \A a \in Serving(o) : session'[a] = session[a]  BY <1>1, <1>5 DEF Serving
  <2> QED  BY <1>3, <1>7, <1>8, <2>1, <2>2 DEF Served, Dated
<1>9. CASE k = NoKey
  <2>1. task' = task  BY <1>3, <1>9
  <2>2. Typed'  BY <1>3, <1>5, <1>6, <2>1 DEF TInv, Typed
  <2>3. \A o \in TaskKeys : Served(o)' /\ Dated(o)'  BY <1>8, <1>9, <2>1, NoKeyIsNone
  <2>4. OneOpen'  BY <2>1 DEF TInv, OneOpen, IsOpen
  <2> QED  BY <2>2, <2>3, <2>4 DEF TInv
<1>10. CASE k # NoKey
  <2>1. /\ k \in TaskKeys /\ task' = [task EXCEPT ![k].status = "COMPLETED", ![k].doneOn = day]
    BY <1>3, <1>10
  <2>2. task[k] \in TaskRow /\ Served(k) /\ Dated(k) /\ day \in Days /\ day <= day
    BY <2>1, DaysAreNumbers DEF TInv, Typed
  <2>3. PICK y : y = [task[k] EXCEPT !.status = "COMPLETED", !.doneOn = day]  OBVIOUS
  <2>4. y \in TaskRow /\ y.status = "COMPLETED" /\ y.doneOn = day
    BY <2>2, <2>3 DEF TaskRow, TaskStatuses
  <2>5. /\ task' \in [TaskKeys -> TaskRow] /\ task'[k] = y
        /\ \A o \in TaskKeys \ {k} : task'[o] = task[o]
    BY <2>1, <2>3, <2>4 DEF TInv, Typed
  <2>6. Typed'  BY <1>3, <1>5, <1>6, <2>5 DEF TInv, Typed
  <2>7. s \in Serving(k)  BY <1>1, <1>3 DEF Serving
  <2>8. task[k].status = "IN_PROGRESS" /\ Serving(k) = {s}
    <3>1. task[k].status \in TaskStatuses  BY <2>2 DEF TaskRow
    <3> QED  BY <1>3, <2>2, <2>7, <3>1 DEF Served, TaskStatuses
  <2>9. Served(k)'  BY <1>4, <1>5, <1>7, <2>1, <2>4, <2>5, <2>8 DEF Served
  <2>10. Dated(k)'  BY <1>3, <2>2, <2>4, <2>5, <2>8 DEF Dated
  <2>11. \A o \in TaskKeys \ {k} : Served(o)' /\ Dated(o)'  BY <1>8, <2>5
  <2>12. \A o \in TaskKeys : IsOpen(o)' => IsOpen(o)  BY <2>4, <2>5 DEF IsOpen
  <2>13. OneOpen'  BY <2>12 DEF TInv, OneOpen
  <2> QED  BY <2>6, <2>9, <2>10, <2>11, <2>13 DEF TInv
<1> QED  BY <1>9, <1>10

LEMMA TasksBegin == Init => TInv
<1> SUFFICES ASSUME Init PROVE TInv
  OBVIOUS
<1>1. /\ day = FirstDay /\ task = [k \in TaskKeys |-> NoTask]
      /\ session = [s \in Sessions |-> NoSession] /\ v2 \in BOOLEAN
  <2>1. PICK account \in Accounts : v2 = account.v2  BY DEF Init
  <2>2. account.v2 \in BOOLEAN  BY HistoryAssumption
  <2> QED  BY <2>1, <2>2 DEF Init
<1>2. NoTask \in TaskRow /\ NoTask.status = "NONE"
  BY DaysAreNumbers DEF NoTask, TaskRow, TaskStatuses
<1>3. SessionRow(NoSession) /\ NoSession.status = "NONE"
  BY SceneAssumption DEF NoSession, SessionRow, SessionFields
<1>4. Typed  BY <1>1, <1>2, <1>3, DaysAreNumbers DEF Typed
<1>5. \A k \in TaskKeys : Serving(k) = {}  BY <1>1, <1>3 DEF Serving
<1>6. \A k \in TaskKeys : Served(k) /\ Dated(k) /\ ~IsOpen(k)
  BY <1>1, <1>2, <1>5 DEF Served, Dated, IsOpen
<1> QED  BY <1>4, <1>6 DEF TInv, OneOpen

LEMMA TasksStep == TInv /\ [Next]_vars => TInv'
<1> SUFFICES ASSUME TInv, [Next]_vars PROVE TInv'
  OBVIOUS
<1>0. day \in Days /\ day \in Nat /\ day <= day /\ v2 \in BOOLEAN
  BY DaysAreNumbers DEF TInv, Typed
<1>1. CASE NextDay
  <2>1. day' \in Days /\ day <= day'
    BY <1>0, <1>1, LearningAssumption DEF NextDay, Days
  <2> QED  BY <1>0, <1>1, <2>1, ElsewhereTasks DEF NextDay
<1>2. CASE Rollout  BY <1>0, <1>2, ElsewhereTasks DEF Rollout, Edit
<1>3. CASE GenerateDailyTasks  BY <1>3, GenerateKeeps
<1>4. ASSUME NEW g \in Grammars, NEW marked \in BOOLEAN, MarkNeedsWork(g, marked) PROVE TInv'
  BY <1>0, <1>4, ElsewhereTasks DEF MarkNeedsWork
<1>5. ASSUME NEW p \in Plans, NEW l, NEW start, CreatePlan(p, l, start) PROVE TInv'
  BY <1>0, <1>5, ElsewhereTasks DEF CreatePlan, Edit
<1>6. ASSUME NEW p \in Plans, NEW status, NEW mode, UpdatePlan(p, status, mode) PROVE TInv'
  BY <1>0, <1>6, ElsewhereTasks DEF UpdatePlan, Edit
<1>7. ASSUME NEW s \in Sessions, RevealHint(s) PROVE TInv'  BY <1>7, HintTasks
<1>8. ASSUME NEW s \in Sessions, NEW g \in Grammars, NEW mode \in Modes,
             NEW k \in TaskKeys \cup {NoKey}, Create(s, g, mode, k)
      PROVE  TInv'
  BY <1>8, CreateTasks
<1>9. ASSUME NEW s \in Sessions, NEW submitted, NEW ai, NEW taskDone, NEW memory,
             Complete(s, submitted, ai, taskDone, memory)
      PROVE  TInv'
  BY <1>9, FinishTasks DEF Complete
<1>10. CASE UNCHANGED vars  BY <1>0, <1>10, ElsewhereTasks DEF vars
<1>11. CASE Next
  BY <1>1, <1>2, <1>3, <1>4, <1>5, <1>6, <1>7, <1>8, <1>9, <1>11 DEF Next
<1> QED  BY <1>10, <1>11

LEMMA TasksMatch == TInv => TasksFollowSessions
<1> SUFFICES ASSUME TInv PROVE TasksFollowSessions
  OBVIOUS
<1>1. ASSUME NEW k \in TaskKeys
      PROVE  CASE task[k].status \in {"NONE", "PENDING"} -> Serving(k) = {}
               [] task[k].status = "IN_PROGRESS" ->
                    \E s \in Sessions : Serving(k) = {s} /\ session[s].status = "ACTIVE"
               [] OTHER -> \E s \in Sessions : Serving(k) = {s} /\ session[s].status = "COMPLETED"
  <2>1. Served(k) /\ task[k].status \in TaskStatuses  BY DEF TInv, Typed, TaskRow
  <2> QED  BY <2>1 DEF Served, TaskStatuses
<1> QED  BY <1>1 DEF TasksFollowSessions, TInv, OneOpen

(* A begun task has one session until it is completed, a waiting one has   *)
(* none, and no grammar has two open tasks of a kind, over days, plan      *)
(* edits and devices (createStudySession, generateDailyTasks,              *)
(* finishEvidenceSession).                                                 *)
THEOREM TasksKeepTheirSession == Spec => []TasksFollowSessions
BY TasksBegin, TasksStep, TasksMatch, PTL DEF Spec
-----------------------------------------------------------------------------
(***************************************************************************)
(* The reviews that count.  RecentDue is the sequence that its recursion   *)
(* builds; of it only this is needed: one more review is added to it, or   *)
(* is not.                                                                 *)
(***************************************************************************)
Among(f, es) ==
  f = [n \in 0..Len(es) |->
         IF n = 0 THEN <<>>
         ELSE IF Counted(es[n]) THEN Append(f[n - 1], es[n]) ELSE f[n - 1]]

(* Numbers up to N, one after the other. *)
LEMMA Climb ==
  ASSUME NEW N \in Nat, NEW P, 0 \in P, \A n \in 1..N : n - 1 \in P => n \in P
  PROVE  \A n \in 0..N : n \in P
<1> SUFFICES ASSUME NEW k \in 0..N, k \notin P PROVE FALSE
  OBVIOUS
<1> DEFINE T == {n \in 0..N : n \notin P}
<1>1. T \in SUBSET Nat /\ k \in T  OBVIOUS
<1>2. PICK n \in T : \A m \in T : n <= m
  <2> HIDE DEF T
  <2> QED  BY <1>1, SmallestExists
<1>3. n \in 0..N /\ n \notin P /\ n # 0  BY <1>2
<1>4. n \in 1..N /\ n - 1 \in 0..N  BY <1>3
<1>5. n - 1 \notin T
  <2> SUFFICES ASSUME n - 1 \in T PROVE FALSE
    OBVIOUS
  <2>1. n <= n - 1  BY <1>2
  <2> QED  BY <1>4, <2>1
<1> QED  BY <1>3, <1>4, <1>5

LEMMA AmongExists ==
  ASSUME NEW es \in Seq(Event)
  PROVE  \E f : Among(f, es)
<1> DEFINE Value(f, n) == IF n = 0 THEN <<>>
                          ELSE IF Counted(es[n]) THEN Append(f[n - 1], es[n]) ELSE f[n - 1]
           Right(f, n) == \A m \in 0..n : f[m] = Value(f, m)
           P == {n \in 0..Len(es) : \E f : Right(f, n)}
<1>0. Len(es) \in Nat  OBVIOUS
<1>1. 0 \in P
  <2>1. Right([m \in {0} |-> <<>>], 0)  OBVIOUS
  <2>2. 0 \in 0..Len(es)  BY <1>0
  <2> HIDE DEF Right
  <2> QED  BY <2>1, <2>2
<1>2. ASSUME NEW n \in 1..Len(es), n - 1 \in P PROVE n \in P
  <2>1. PICK f : Right(f, n - 1)  BY <1>2
  <2> DEFINE h == [m \in 0..n |-> IF m = n THEN Value(f, n) ELSE f[m]]
  <2>2. ASSUME NEW m \in 0..n PROVE h[m] = Value(h, m)
    <3>1. CASE m = n
      <4>1. n # 0 /\ n - 1 \in 0..n /\ n - 1 # n  OBVIOUS
      <4>2. h[n - 1] = f[n - 1]  BY <4>1
      <4> QED  BY <3>1, <4>1, <4>2
    <3>2. CASE m # n
      <4>1. m \in 0 .. n - 1 /\ h[m] = f[m]  BY <3>2
      <4>2. f[m] = Value(f, m)  BY <2>1, <4>1
      <4>3. m # 0 => h[m - 1] = f[m - 1]
        <5>1. m # 0 => m - 1 \in 0..n /\ m - 1 # n  BY <4>1
        <5> QED  BY <5>1
      <4> QED  BY <4>1, <4>2, <4>3
    <3> QED  BY <3>1, <3>2
  <2>3. Right(h, n)
    <3> HIDE DEF h, Value
    <3> QED  BY <2>2
  <2>4. n \in 0..Len(es)  OBVIOUS
  <2> HIDE DEF Right, h
  <2> QED  BY <2>3, <2>4
<1>3. \A n \in 0..Len(es) : n \in P
  <2> HIDE DEF P
  <2> QED  BY <1>0, <1>1, <1>2, Climb
<1>4. PICK f : Right(f, Len(es))
  <2>1. Len(es) \in P  BY <1>0, <1>3
  <2> HIDE DEF Right
  <2> QED  BY <2>1
<1> DEFINE h == [n \in 0..Len(es) |-> f[n]]
<1>5. ASSUME NEW n \in 0..Len(es) PROVE h[n] = Value(h, n)
  <2>1. f[n] = Value(f, n)  BY <1>4
  <2>2. n # 0 => n - 1 \in 0..Len(es)  BY <1>0
  <2> QED  BY <2>1, <2>2
<1>6. Among(h, es)  BY <1>5 DEF Among
<1> QED  BY <1>6

LEMMA RecentDueIs ==
  ASSUME NEW es \in Seq(Event)
  PROVE  \E f : Among(f, es) /\ RecentDue(es) = f[Len(es)]
<1> DEFINE f == CHOOSE h : Among(h, es)
<1>1. Among(f, es)  BY AmongExists
<1>2. RecentDue(es) = f[Len(es)]  BY DEF RecentDue, Among
<1> QED  BY <1>1, <1>2

LEMMA RecentDueType ==
  ASSUME NEW es \in Seq(Event)
  PROVE  RecentDue(es) \in Seq(Event)
<1>1. PICK f : Among(f, es) /\ RecentDue(es) = f[Len(es)]  BY RecentDueIs
<1> DEFINE P == {n \in 0..Len(es) : f[n] \in Seq(Event)}
<1>0. Len(es) \in Nat  OBVIOUS
<1>2. 0 \in P  BY <1>0, <1>1 DEF Among
<1>3. ASSUME NEW n \in 1..Len(es), n - 1 \in P PROVE n \in P
  <2>1. n \in 0..Len(es) /\ n # 0 /\ es[n] \in Event  OBVIOUS
  <2>2. f[n] = IF Counted(es[n]) THEN Append(f[n - 1], es[n]) ELSE f[n - 1]
    BY <1>1, <2>1 DEF Among
  <2>3. PICK before \in Seq(Event), x \in Event : before = f[n - 1] /\ x = es[n]
    BY <1>3, <2>1
  <2>4. Append(before, x) \in Seq(Event)  OBVIOUS
  <2>5. f[n] \in Seq(Event)  BY <2>1, <2>2, <2>3, <2>4
  <2> QED  BY <2>1, <2>5
<1>4. \A n \in 0..Len(es) : n \in P
  <2> HIDE DEF P
  <2> QED  BY <1>0, <1>2, <1>3, Climb
<1> QED  BY <1>0, <1>1, <1>4

LEMMA AppendIs ==
  ASSUME NEW es \in Seq(Event), NEW e \in Event
  PROVE  /\ Append(es, e) \in Seq(Event) /\ Append(es, e) # <<>>
         /\ Len(es) \in Nat /\ Len(Append(es, e)) = Len(es) + 1 /\ Append(es, e)[Len(es) + 1] = e
         /\ \A n \in 1..Len(es) : Append(es, e)[n] = es[n]
OBVIOUS

LEMMA OneMoreReview ==
  ASSUME NEW es \in Seq(Event), NEW e \in Event
  PROVE  RecentDue(Append(es, e)) = IF Counted(e) THEN Append(RecentDue(es), e) ELSE RecentDue(es)
<1>1. PICK f : Among(f, es) /\ RecentDue(es) = f[Len(es)]  BY RecentDueIs
<1> DEFINE N == Len(es)
           after == Append(es, e)
<1>2. /\ after \in Seq(Event) /\ N \in Nat
      /\ after = Append(es, e) /\ N = Len(es) /\ Len(after) = N + 1 /\ after[N + 1] = e
      /\ \A n \in 1..N : after[n] = es[n]
  BY AppendIs
<1> HIDE DEF N, after
<1>3. PICK g : Among(g, after) /\ RecentDue(after) = g[N + 1]  BY <1>2, RecentDueIs
<1> DEFINE P == {n \in 0..N : f[n] = g[n]}
<1>4. 0 \in P  BY <1>1, <1>2, <1>3 DEF Among
<1>5. ASSUME NEW n \in 1..N, n - 1 \in P PROVE n \in P
  <2>1. n # 0 /\ n \in 0..N /\ n \in 0 .. N + 1 /\ after[n] = es[n]  BY <1>2
  <2>2. f[n] = IF Counted(es[n]) THEN Append(f[n - 1], es[n]) ELSE f[n - 1]
    BY <1>1, <1>2, <2>1 DEF Among
  <2>3. g[n] = IF Counted(es[n]) THEN Append(g[n - 1], es[n]) ELSE g[n - 1]
    BY <1>2, <1>3, <2>1 DEF Among
  <2>4. f[n - 1] = g[n - 1]  BY <1>5
  <2> QED  BY <2>1, <2>2, <2>3, <2>4
<1>6. \A n \in 0..N : n \in P
  <2> HIDE DEF P
  <2> QED  BY <1>2, <1>4, <1>5, Climb
<1>7. g[N] = RecentDue(es)  BY <1>1, <1>2, <1>6
<1>8. g[N + 1] = IF Counted(e) THEN Append(g[N], e) ELSE g[N]
  <2>1. PICK m \in Nat : m = N + 1 /\ m \in 0..m /\ m # 0 /\ m - 1 = N  BY <1>2
  <2>2. g[m] = IF Counted(after[m]) THEN Append(g[m - 1], after[m]) ELSE g[m - 1]
    BY <1>2, <1>3, <2>1 DEF Among
  <2> QED  BY <1>2, <2>1, <2>2
<1> QED  BY <1>2, <1>3, <1>7, <1>8
-----------------------------------------------------------------------------
(***************************************************************************)
(* A review that was due today is the last that counts, or one of the old  *)
(* rule came after it: so another is due today only after such a one.      *)
(***************************************************************************)
LEMMA KeptGrows ==
  ASSUME NEW es \in Seq(Event), NEW e \in Event, NEW d \in Nat,
         Kept(es, d), e.day = d, e.due => e.v2 /\ DueDay(es) # d
  PROVE  Kept(Append(es, e), d)
<1> DEFINE N == Len(es)
           after == Append(es, e)
<1>1. /\ after \in Seq(Event) /\ N \in Nat
      /\ after = Append(es, e) /\ N = Len(es) /\ Len(after) = N + 1 /\ after[N + 1] = e
      /\ \A n \in 1..N : after[n] = es[n]
  BY AppendIs
<1> HIDE DEF N, after
<1>2. PICK due \in Seq(Event) : due = RecentDue(es)  BY RecentDueType
<1>3. RecentDue(after) = IF Counted(e) THEN Append(due, e) ELSE due
  BY <1>1, <1>2, OneMoreReview
<1>4. ASSUME NEW i \in 1..N, es[i].due, es[i].day = d
      PROVE  DueDay(es) = d \/ \E h \in (i + 1)..N : OfTheOldRule(after[h])
  <2>1. DueDay(es) = d \/ \E h \in (i + 1)..N : OfTheOldRule(es[h])  BY <1>1, <1>4 DEF Kept
  <2>2. \A h \in (i + 1)..N : after[h] = es[h]  BY <1>1
  <2> QED  BY <2>1, <2>2
<1>5. ASSUME e.due PROVE DueDay(after) = d
  <2>1. e.v2 /\ Counted(e)  BY <1>5 DEF Counted
  <2> DEFINE last == Append(due, e)
  <2>2. last = Append(due, e) /\ last # <<>> /\ last[Len(last)] = e
    BY AppendIs
  <2> HIDE DEF last
  <2>3. RecentDue(after) = last  BY <1>3, <2>1, <2>2
  <2> QED  BY <2>1, <2>2, <2>3 DEF DueDay
<1>6. ASSUME ~Counted(e) PROVE DueDay(after) = DueDay(es)
  BY <1>2, <1>3, <1>6 DEF DueDay
<1>7. ASSUME NEW i \in 1 .. N + 1
      PROVE  /\ after[i].day <= d
             /\ after[i].due /\ after[i].day = d =>
                  DueDay(after) = d \/ \E h \in (i + 1) .. N + 1 : OfTheOldRule(after[h])
  <2>1. CASE i = N + 1  BY <1>1, <1>5, <2>1
  <2>2. CASE i # N + 1
    <3>1. i \in 1..N /\ after[i] = es[i] /\ N + 1 \in (i + 1) .. N + 1  BY <1>1, <2>2
    <3>2. es[i].day <= d  BY <1>1, <3>1 DEF Kept
    <3>3. ASSUME es[i].due, es[i].day = d
          PROVE  DueDay(after) = d \/ \E h \in (i + 1) .. N + 1 : OfTheOldRule(after[h])
      <4>1. CASE e.due  BY <1>5, <4>1
      <4>2. CASE Counted(e) /\ ~e.due  BY <1>1, <3>1, <4>2 DEF OfTheOldRule
      <4>3. CASE ~Counted(e) /\ DueDay(es) = d  BY <1>6, <4>3
      <4>4. CASE DueDay(es) # d
        <5>1. PICK h \in (i + 1)..N : OfTheOldRule(after[h])  BY <1>4, <3>1, <3>3, <4>4
        <5>2. h \in (i + 1) .. N + 1  BY <1>1, <3>1, <5>1
        <5> QED  BY <5>1, <5>2
      <4> QED  BY <4>1, <4>2, <4>3, <4>4
    <3> QED  BY <3>1, <3>2, <3>3
  <2> QED  BY <2>1, <2>2
<1>8. ASSUME NEW i \in 1 .. N + 1, NEW j \in 1 .. N + 1, i < j, after[i].due, after[j].due,
             after[i].day = after[j].day
      PROVE  \E h \in (i + 1)..(j - 1) : OfTheOldRule(after[h])
  <2>1. i \in 1..N /\ after[i] = es[i]  BY <1>1, <1>8
  <2>2. CASE j # N + 1
    <3>1. j \in 1..N /\ after[j] = es[j]  BY <1>1, <1>8, <2>2
    <3>2. PICK h \in (i + 1)..(j - 1) : OfTheOldRule(es[h])
      BY <1>1, <1>8, <2>1, <3>1 DEF Kept, DueApart
    <3>3. after[h] = es[h]  BY <1>1, <2>1, <3>1, <3>2
    <3> QED  BY <3>2, <3>3
  <2>3. CASE j = N + 1
    <3>1. e.due /\ es[i].due /\ es[i].day = d  BY <1>1, <1>8, <2>1, <2>3
    <3>2. j - 1 = N  BY <1>1, <2>3
    <3> QED  BY <1>4, <2>1, <3>1, <3>2
  <2> QED  BY <2>2, <2>3
<1>9. DueApart(after)  BY <1>1, <1>8 DEF DueApart
<1>10. Kept(after, d)  BY <1>1, <1>7, <1>9 DEF Kept
<1> QED  BY <1>1, <1>10
-----------------------------------------------------------------------------
(***************************************************************************)
(* Mastery.  Three reviews on three days that all qualified prove it, and  *)
(* what is added unassessed, or is not due, leaves it proven.              *)
(***************************************************************************)
LEMMA ProvenStays ==
  ASSUME NEW due \in Seq(Event), NEW e \in Event, Proven(due), ~e.assessed
  PROVE  Proven(Append(due, e))
<1> DEFINE N == Len(due)
           more == Append(due, e)
<1>1. /\ N \in Nat /\ N = Len(due) /\ more = Append(due, e) /\ Len(more) = N + 1 /\ more[N + 1] = e
      /\ \A n \in 1..N : more[n] = due[n]
  BY AppendIs
<1> HIDE DEF N, more
<1>2. PICK last \in 3..N :
        /\ \A i \in (last - 2)..last : due[i].qualifies
        /\ \A i, j \in (last - 2)..last : i # j => due[i].day # due[j].day
        /\ \E i \in (last - 2)..last : due[i].cross
        /\ \A i \in (last + 1)..N : ~due[i].assessed
  BY <1>1 DEF Proven
<1>3. last \in 3..Len(more) /\ \A i \in (last - 2)..last : more[i] = due[i]
  <2>1. last \in Nat /\ 3 <= last /\ last <= N  BY <1>1, <1>2
  <2>2. \A i \in (last - 2)..last : i \in 1..N  BY <1>1, <2>1
  <2> QED  BY <1>1, <2>1, <2>2
<1>4. ASSUME NEW i \in (last + 1)..Len(more) PROVE ~more[i].assessed
  <2>1. CASE i = N + 1  BY <1>1, <2>1
  <2>2. CASE i # N + 1
    <3>1. i \in (last + 1)..N /\ i \in 1..N  BY <1>1, <1>2, <2>2
    <3> QED  BY <1>1, <1>2, <3>1
  <2> QED  BY <2>1, <2>2
<1>5. /\ \A i \in (last - 2)..last : more[i].qualifies
      /\ \A i, j \in (last - 2)..last : i # j => more[i].day # more[j].day
      /\ \E i \in (last - 2)..last : more[i].cross
  BY <1>2, <1>3
<1>6. Proven(more)  BY <1>3, <1>4, <1>5 DEF Proven
<1> QED  BY <1>1, <1>6

LEMMA ThreeDiffer ==
  ASSUME NEW a, NEW b, NEW c, Cardinality({a, b, c}) = 3
  PROVE  a # b /\ a # c /\ b # c
<1>1. \A x, y : Cardinality({x, y}) \in Nat /\ Cardinality({x, y}) <= 2
  <2> TAKE x, y
  <2>1. IsFiniteSet({x}) /\ Cardinality({x}) = 1  BY FS_Singleton
  <2>2. Cardinality({x} \cup {y}) = IF y \in {x} THEN 1 ELSE 2
    BY <2>1, FS_AddElement
  <2>3. {x} \cup {y} = {x, y}  OBVIOUS
  <2> QED  BY <2>2, <2>3
<1>2. (a = b => {a, b, c} = {a, c}) /\ (a = c => {a, b, c} = {a, b}) /\ (b = c => {a, b, c} = {a, b})
  OBVIOUS
<1> QED  BY <1>1, <1>2

LEMMA ThreeConfirmProves ==
  ASSUME NEW es \in Seq(Event), ThreeConfirm(es)
  PROVE  Proven(RecentDue(es))
<1> DEFINE due == RecentDue(es)
           three == LatestOf(due, 3)
           L == Len(due)
<1>1. due \in Seq(Event) /\ L \in Nat /\ L = Len(due)  BY RecentDueType
<1>2. /\ Len(three) = 3 /\ Cardinality({three[i].day : i \in 1..Len(three)}) = 3
      /\ \A i \in 1..Len(three) : three[i].qualifies
      /\ \E i \in 1..Len(three) : three[i].cross
  BY DEF ThreeConfirm
<1>3. three = SubSeq(due, IF L > 3 THEN L - 2 ELSE 1, L)  BY <1>1 DEF LatestOf
<1> HIDE DEF due, three, L
<1>4. L >= 3 /\ \A i \in 1..3 : three[i] = due[L - 3 + i]
  <2>1. CASE L > 3
    <3>1. three = SubSeq(due, L - 2, L)  BY <1>3, <2>1
    <3> QED  BY <1>1, <2>1, <3>1
  <2>2. CASE ~(L > 3)
    <3>1. three = SubSeq(due, 1, L)  BY <1>3, <2>2
    <3>2. Len(three) = L  BY <1>1, <3>1
    <3>3. L = 3  BY <1>2, <3>2
    <3>4. three = SubSeq(due, L - 2, L) /\ L >= 3  BY <3>1, <3>3
    <3> QED  BY <1>1, <3>4
  <2> QED  BY <2>1, <2>2
<1>5. {three[i].day : i \in 1..Len(three)} = {three[1].day, three[2].day, three[3].day}
  <2>1. 1..Len(three) = {1, 2, 3}  BY <1>2
  <2>2. {three[i].day : i \in {1, 2, 3}} = {three[1].day, three[2].day, three[3].day}  OBVIOUS
  <2> QED  BY <2>1, <2>2
<1>6. /\ three[1].day # three[2].day /\ three[1].day # three[3].day /\ three[2].day # three[3].day
  <2>1. PICK a, b, c : a = three[1].day /\ b = three[2].day /\ c = three[3].day  OBVIOUS
  <2>2. Cardinality({a, b, c}) = 3  BY <1>2, <1>5, <2>1
  <2>3. a # b /\ a # c /\ b # c  BY <2>2, ThreeDiffer
  <2> QED  BY <2>1, <2>3
<1>7. L \in 3..Len(due) /\ \A i \in (L - 2)..L : \E n \in 1..3 : i = L - 3 + n /\ due[i] = three[n]
  <2>1. L \in 3..Len(due)  BY <1>1, <1>4
  <2> SUFFICES ASSUME NEW i \in (L - 2)..L PROVE \E n \in 1..3 : i = L - 3 + n /\ due[i] = three[n]
    BY <2>1
  <2>2. i - (L - 3) \in 1..3 /\ i = L - 3 + (i - (L - 3))  BY <1>1
  <2> QED  BY <1>4, <2>2
<1>8. \A i \in (L - 2)..L : due[i].qualifies  BY <1>2, <1>7
<1>9. ASSUME NEW i \in (L - 2)..L, NEW j \in (L - 2)..L, i # j PROVE due[i].day # due[j].day
  <2>1. PICK n \in 1..3 : i = L - 3 + n /\ due[i] = three[n]  BY <1>7
  <2>2. PICK m \in 1..3 : j = L - 3 + m /\ due[j] = three[m]  BY <1>7
  <2>3. n # m  BY <1>9, <2>1, <2>2
  <2>4. three[n].day # three[m].day  BY <1>6, <2>3
  <2> QED  BY <2>1, <2>2, <2>4
<1>10. \E i \in (L - 2)..L : due[i].cross
  <2>1. PICK n \in 1..3 : three[n].cross  BY <1>2
  <2>2. L - 3 + n \in (L - 2)..L /\ due[L - 3 + n] = three[n]  BY <1>1, <1>4
  <2> QED  BY <2>1, <2>2
<1>11. \A i \in (L + 1)..Len(due) : ~due[i].assessed  BY <1>1
<1>12. Proven(due)  BY <1>7, <1>8, <1>9, <1>10, <1>11 DEF Proven
<1> QED  BY <1>12 DEF due
-----------------------------------------------------------------------------
(***************************************************************************)
(* What the old rule proved stays proven while what is added is not        *)
(* counted, or not assessed; a clean review of the old rule proves it.     *)
(***************************************************************************)
LEMMA OldRuleStays ==
  ASSUME NEW es \in Seq(Event), NEW e \in Event, ProvenByOldRule(es), Counted(e) => ~e.assessed
  PROVE  ProvenByOldRule(Append(es, e))
<1> DEFINE N == Len(es)
           after == Append(es, e)
<1>1. /\ after \in Seq(Event) /\ N \in Nat
      /\ after = Append(es, e) /\ N = Len(es) /\ Len(after) = N + 1 /\ after[N + 1] = e
      /\ \A n \in 1..N : after[n] = es[n]
  BY AppendIs
<1>0. \A n \in 1..N : SubSeq(after, 1, n) = SubSeq(es, 1, n)
  OBVIOUS
<1> HIDE DEF N, after
<1>2. PICK last \in 1..N :
        /\ ~es[last].v2 /\ es[last].affects /\ ThreeClean(SubSeq(es, 1, last))
        /\ \E i \in 1..(last - 1) : es[i].v2
        /\ \A i \in (last + 1)..N : Counted(es[i]) => ~es[i].assessed
  BY <1>1 DEF ProvenByOldRule
<1>3. last \in 1..Len(after) /\ after[last] = es[last]  BY <1>1, <1>2
<1>4. ThreeClean(SubSeq(after, 1, last))
  <2>1. SubSeq(after, 1, last) = SubSeq(es, 1, last)  BY <1>0, <1>2
  <2> QED  BY <1>2, <2>1
<1>5. \E i \in 1..(last - 1) : after[i].v2
  <2>1. \A i \in 1..(last - 1) : after[i] = es[i]  BY <1>1, <1>2
  <2> QED  BY <1>2, <2>1
<1>6. ASSUME NEW i \in (last + 1)..Len(after), Counted(after[i]) PROVE ~after[i].assessed
  <2>1. CASE i = N + 1  BY <1>1, <1>6, <2>1
  <2>2. CASE i # N + 1
    <3>1. i \in (last + 1)..N /\ after[i] = es[i]  BY <1>1, <1>2, <2>2
    <3> QED  BY <1>2, <1>6, <3>1
  <2> QED  BY <2>1, <2>2
<1>7. ProvenByOldRule(after)  BY <1>2, <1>3, <1>4, <1>5, <1>6 DEF ProvenByOldRule
<1> QED  BY <1>1, <1>7

LEMMA OldRuleProves ==
  ASSUME NEW es \in Seq(Event), NEW e \in Event, \E i \in 1..Len(es) : es[i].v2,
         ~e.v2, e.affects, ThreeClean(Append(es, e))
  PROVE  ProvenByOldRule(Append(es, e))
<1> DEFINE N == Len(es)
           after == Append(es, e)
<1>1. /\ after \in Seq(Event) /\ N \in Nat
      /\ after = Append(es, e) /\ N = Len(es) /\ Len(after) = N + 1 /\ after[N + 1] = e
      /\ \A n \in 1..N : after[n] = es[n]
  BY AppendIs
<1> HIDE DEF N, after
<1>2. SubSeq(after, 1, N + 1) = after  BY <1>1
<1>3. PICK last \in 1..Len(after) : last = N + 1  BY <1>1
<1>4. ~after[last].v2 /\ after[last].affects /\ ThreeClean(SubSeq(after, 1, last))
  BY <1>1, <1>2, <1>3
<1>5. \E i \in 1..(last - 1) : after[i].v2
  <2>1. PICK i \in 1..N : es[i].v2  BY <1>1
  <2>2. i \in 1..(last - 1) /\ after[i].v2  BY <1>1, <1>3, <2>1
  <2> QED  BY <2>2
<1>6. \A i \in (last + 1)..Len(after) : Counted(after[i]) => ~after[i].assessed
  BY <1>1, <1>3
<1>7. ProvenByOldRule(after)  BY <1>3, <1>4, <1>5, <1>6 DEF ProvenByOldRule
<1> QED  BY <1>1, <1>7
-----------------------------------------------------------------------------
(***************************************************************************)
(* The steps.  Whether V2 is on decides which rule judges a review; the V2 *)
(* rule is claimed only where one of its reviews has been.                 *)
(***************************************************************************)
RowFields == {"status", "needsWork", "rule"}

Judged(x, es) ==
  /\ DOMAIN x = RowFields
  /\ x.rule = "v2" => \E i \in 1..Len(es) : es[i].v2
  /\ x.status = "MASTERED" /\ x.rule = "v2" => Proven(RecentDue(es)) \/ ProvenByOldRule(es)

Reviewed ==
  /\ events \in [Grammars -> Seq(Event)] /\ DOMAIN progress = Grammars
  /\ \A g \in Grammars : Kept(events[g], day) /\ Judged(progress[g], events[g])

RInv == TInv /\ Reviewed

LEMMA KeptLater ==
  ASSUME NEW es \in Seq(Event), NEW d \in Nat, NEW later \in Nat, d <= later, Kept(es, d)
  PROVE  Kept(es, later)
<1>1. ASSUME NEW i \in 1..Len(es)
      PROVE  /\ es[i].day <= later
             /\ es[i].due /\ es[i].day = later =>
                  DueDay(es) = later \/ \E h \in (i + 1)..Len(es) : OfTheOldRule(es[h])
  <2>1. /\ es[i].day <= d
        /\ es[i].due /\ es[i].day = d =>
             DueDay(es) = d \/ \E h \in (i + 1)..Len(es) : OfTheOldRule(es[h])
    BY DEF Kept
  <2>0. es[i] \in Event  OBVIOUS
  <2>2. es[i].day \in Nat  BY <2>0 DEF Event
  <2>3. es[i].day <= later /\ (es[i].day = later => es[i].day = d /\ later = d)  BY <2>1, <2>2
  <2> QED  BY <2>1, <2>3
<1> QED  BY <1>1 DEF Kept

LEMMA CalmReviews ==
  ASSUME RInv, TInv', events' = events, progress' = progress, day <= day'
  PROVE  RInv'
<1>1. day \in Nat /\ day' \in Nat
  BY DaysAreNumbers DEF RInv, TInv, Typed
<1>2. ASSUME NEW g \in Grammars PROVE Kept(events[g], day') /\ Judged(progress[g], events[g])
  <2>1. events[g] \in Seq(Event) /\ Kept(events[g], day) /\ Judged(progress[g], events[g])
    BY DEF RInv, Reviewed
  <2>2. PICK es \in Seq(Event), d \in Nat, later \in Nat :
          es = events[g] /\ d = day /\ later = day'
    BY <1>1, <2>1
  <2>3. Kept(es, later)  BY <2>1, <2>2, KeptLater
  <2> QED  BY <2>1, <2>2, <2>3
<1> QED  BY <1>2 DEF RInv, Reviewed

(* A review: the event e is added to the grammar g, whose row becomes x. *)
Review(g, e, x) ==
  /\ e.day = day /\ (e.due => e.v2 /\ DueDay(events[g]) # day)
  /\ DOMAIN x = RowFields /\ (x.rule = "v2" => e.v2 \/ progress[g].rule = "v2")
  /\ x.status = "MASTERED" /\ x.rule = "v2" =>
       \/ ThreeConfirm(Append(events[g], e))
       \/ /\ progress[g].rule = "v2" /\ ~e.v2 /\ e.affects
          /\ ThreeClean(Append(events[g], e))
       \/ /\ progress[g].status = "MASTERED" /\ progress[g].rule = "v2"
          /\ Counted(e) => ~e.assessed
  /\ events' = [events EXCEPT ![g] = Append(events[g], e)]
  /\ DOMAIN progress' = Grammars /\ progress'[g] = x
  /\ \A h \in Grammars \ {g} : progress'[h] = progress[h]
  /\ day' = day

LEMMA ReviewKeeps ==
  ASSUME RInv, TInv', NEW g \in Grammars, NEW e \in Event, NEW x, Review(g, e, x)
  PROVE  RInv'
<1>1. /\ day \in Nat /\ events[g] \in Seq(Event)
      /\ Kept(events[g], day) /\ Judged(progress[g], events[g])
  BY DaysAreNumbers DEF RInv, TInv, Typed, Reviewed
<1>2. PICK es \in Seq(Event), d \in Nat, old \in {progress[g]} :
        es = events[g] /\ d = day /\ old = progress[g]
  BY <1>1
<1>3. PICK after \in Seq(Event) :
        /\ after = Append(es, e) /\ Len(es) \in Nat /\ Len(after) = Len(es) + 1
        /\ after[Len(es) + 1] = e /\ \A n \in 1..Len(es) : after[n] = es[n]
  BY AppendIs
<1>4. Kept(after, d)
  <2>1. Kept(es, d) /\ e.day = d /\ (e.due => e.v2 /\ DueDay(es) # d)  BY <1>1, <1>2 DEF Review
  <2> QED  BY <1>3, <2>1, KeptGrows
<1>5. Judged(x, after)
  <2>1. ASSUME x.rule = "v2" PROVE \E i \in 1..Len(after) : after[i].v2
    <3>1. CASE e.v2
      <4>1. Len(es) + 1 \in 1..Len(after)  BY <1>3
      <4> QED  BY <1>3, <3>1, <4>1
    <3>2. CASE old.rule = "v2"
      <4>1. PICK i \in 1..Len(es) : es[i].v2  BY <1>1, <1>2, <3>2 DEF Judged
      <4>2. i \in 1..Len(after) /\ after[i].v2  BY <1>3, <4>1
      <4> QED  BY <4>2
    <3> QED  BY <1>2, <2>1, <3>1, <3>2 DEF Review
  <2>2. ASSUME x.status = "MASTERED", x.rule = "v2"
        PROVE  Proven(RecentDue(after)) \/ ProvenByOldRule(after)
    <3>1. CASE ThreeConfirm(after)  BY <3>1, ThreeConfirmProves
    <3>2. CASE old.rule = "v2" /\ ~e.v2 /\ e.affects /\ ThreeClean(after)
      <4>1. \E i \in 1..Len(es) : es[i].v2  BY <1>1, <1>2, <3>2 DEF Judged
      <4> QED  BY <1>3, <3>2, <4>1, OldRuleProves
    <3>3. CASE old.status = "MASTERED" /\ old.rule = "v2" /\ (Counted(e) => ~e.assessed)
      <4>1. PICK due \in Seq(Event) : due = RecentDue(es)  BY RecentDueType
      <4>2. Proven(due) \/ ProvenByOldRule(es)  BY <1>1, <1>2, <3>3, <4>1 DEF Judged
      <4>3. RecentDue(after) = IF Counted(e) THEN Append(due, e) ELSE due
        BY <1>3, <4>1, OneMoreReview
      <4>4. CASE ProvenByOldRule(es)  BY <1>3, <3>3, <4>4, OldRuleStays
      <4>5. CASE Proven(due) /\ Counted(e)
        <5>1. Proven(Append(due, e))  BY <3>3, <4>5, ProvenStays
        <5> QED  BY <4>3, <4>5, <5>1
      <4>6. CASE Proven(due) /\ ~Counted(e)  BY <4>3, <4>6
      <4> QED  BY <4>2, <4>4, <4>5, <4>6
    <3> QED  BY <1>2, <1>3, <2>2, <3>1, <3>2, <3>3 DEF Review
  <2> QED  BY <2>1, <2>2 DEF Judged, Review
<1>6. /\ events' = [events EXCEPT ![g] = after]
      /\ DOMAIN progress' = Grammars /\ progress'[g] = x
      /\ \A h \in Grammars \ {g} : progress'[h] = progress[h]
      /\ day' = day
  BY <1>2, <1>3 DEF Review
<1>7. events' \in [Grammars -> Seq(Event)]
  BY <1>6 DEF RInv, Reviewed
<1>8. ASSUME NEW h \in Grammars
      PROVE  Kept(events'[h], day') /\ Judged(progress'[h], events'[h])
  <2>1. CASE h = g
    <3>1. events'[h] = after /\ progress'[h] = x  BY <1>6, <2>1 DEF RInv, Reviewed
    <3> QED  BY <1>2, <1>4, <1>5, <1>6, <3>1
  <2>2. CASE h # g
    <3>1. events'[h] = events[h] /\ progress'[h] = progress[h]
      BY <1>6, <2>2 DEF RInv, Reviewed
    <3> QED  BY <1>6, <3>1 DEF RInv, Reviewed
  <2> QED  BY <2>1, <2>2
<1> QED  BY <1>6, <1>7, <1>8 DEF RInv, Reviewed

(* What a review of the rule adds, and what it makes of the row. *)
LEMMA EvidenceReviews ==
  ASSUME RInv, NEW s \in Sessions, MayComplete(s), day' = day,
         NEW submitted, NEW ai, NEW taskDone, NEW memory,
         EvidenceReview(s, submitted, ai, taskDone, memory)
  PROVE  \E g \in Grammars, e \in Event : \E x : Review(g, e, x)
<1>1. SessionRow(session[s]) /\ session[s].status = "ACTIVE"
  BY DEF MayComplete, RInv, TInv, Typed
<1>2. session[s].g \in Grammars /\ session[s].scene \in SceneNames
  BY <1>1 DEF SessionRow
<1> DEFINE y == session[s]
           g == y.g
           old      == progress[g]
           initial  == old.status = "NOT_STARTED"
           rating   == ResolveEvidenceRating(submitted, ai, y.hinted)
           due      == ~initial /\ IsDueReview(y.mode, day, y.startedOn, schedule[g].on, DueDay(events[g]))
           told     == taskDone /\ y.scene # ""
           proven   == Qualifies(due, ai, y.hinted, submitted)
           e        == [day |-> day, v2 |-> TRUE, due |-> due, qualifies |-> proven,
                        cross |-> told /\ proven /\ y.transfer /\ PriorScenes(s) \ {y.scene} # {},
                        good |-> told /\ ai = "GOOD" /\ ~y.hinted,
                        affects |-> EvidenceAffects(schedule[g], rating, ai, due, initial, day, memory),
                        clean |-> rating = "REMEMBERED" /\ ~y.hinted,
                        assessed |-> HasScore(ai) \/ y.hinted \/ submitted # "REMEMBERED",
                        scene |-> y.scene]
           next     == EvidenceSchedule(schedule[g], rating, ai, due, initial, day, memory)
           after    == Append(events[g], e)
           status   == EvidenceStatus(old.status, after, e, rating, submitted, ai, y.hinted, next.mature)
           x        == [status |-> IF status = "NOT_STARTED" /\ (HasScore(ai) \/ y.mode = "LEARN")
                                   THEN "LEARNING" ELSE status,
                        needsWork |-> IF status = "NEEDS_WORK" THEN TRUE
                                      ELSE IF HasScore(ai) /\ status # "NOT_STARTED" THEN FALSE
                                      ELSE old.needsWork,
                        rule |-> IF status # "MASTERED" \/ proven THEN "v2" ELSE old.rule]
<1>3. g \in Grammars /\ DOMAIN progress = Grammars
  BY <1>2 DEF RInv, TInv, Typed, Reviewed
<1>4. events' = [events EXCEPT ![g] = after] /\ progress' = [progress EXCEPT ![g] = x]
  BY DEF EvidenceReview
<1>5. /\ e.day = day /\ e.v2 = TRUE /\ e.due = due /\ e.qualifies = proven
      /\ e.assessed = (HasScore(ai) \/ y.hinted \/ submitted # "REMEMBERED")
  OBVIOUS
<1>6. e \in Event
  <2>1. day \in Nat  BY DaysAreNumbers DEF RInv, TInv, Typed
  <2>2. due \in BOOLEAN /\ proven \in BOOLEAN
    BY DEF Qualifies
  <2>3. EvidenceAffects(schedule[g], rating, ai, due, initial, day, memory) \in BOOLEAN
    BY DEF EvidenceAffects
  <2> HIDE DEF due, proven, rating, initial
  <2> QED  BY <1>2, <2>1, <2>2, <2>3 DEF Event
<1>7. x.rule = (IF status # "MASTERED" \/ proven THEN "v2" ELSE old.rule) /\ DOMAIN x = RowFields
  BY DEF RowFields
<1>8. x.status = (IF status = "NOT_STARTED" /\ (HasScore(ai) \/ y.mode = "LEARN") THEN "LEARNING" ELSE status)
  OBVIOUS
<1>9. due => DueDay(events[g]) # day
  BY DEF IsDueReview
<1>10. proven => due /\ HasScore(ai)
  BY DEF Qualifies, HasScore
<1> HIDE DEF due, proven, e, x, next, after, told, rating, g
<1>11. status = "MASTERED" =>
         \/ ThreeConfirm(after)
         \/ old.status = "MASTERED" /\ (~e.assessed \/ ~e.due) /\ ~proven
  BY <1>5, <1>10 DEF EvidenceStatus
<1> HIDE DEF status
<1>12. ASSUME x.status = "MASTERED", x.rule = "v2"
       PROVE  \/ ThreeConfirm(after)
              \/ /\ old.status = "MASTERED" /\ old.rule = "v2"
                 /\ Counted(e) => ~e.assessed
  <2>1. status = "MASTERED"  BY <1>8, <1>12
  <2>2. ~proven => old.rule = "v2"  BY <1>7, <1>12, <2>1
  <2> QED  BY <1>5, <1>11, <2>1, <2>2 DEF Counted
<1>13. Review(g, e, x)
  <2>1. after = Append(events[g], e)  BY DEF after
  <2>2. e.day = day /\ e.v2 /\ (e.due => DueDay(events[g]) # day)  BY <1>5, <1>9
  <2>3. /\ events' = [events EXCEPT ![g] = Append(events[g], e)]
        /\ DOMAIN progress' = Grammars /\ progress'[g] = x
        /\ \A h \in Grammars \ {g} : progress'[h] = progress[h]
    BY <1>3, <1>4, <2>1
  <2> QED  BY <1>7, <1>12, <2>1, <2>2, <2>3 DEF Review
<1>14. PICK G \in Grammars, E \in Event, X \in {x} : G = g /\ E = e /\ X = x  BY <1>3, <1>6
<1>15. Review(G, E, X)  BY <1>13, <1>14
<1> QED  BY <1>15

LEMMA LegacyReviews ==
  ASSUME RInv, NEW s \in Sessions, MayComplete(s), day' = day,
         NEW submitted, NEW ai, NEW memory, LegacyReview(s, submitted, ai, memory)
  PROVE  \E g \in Grammars, e \in Event : \E x : Review(g, e, x)
<1>1. SessionRow(session[s]) /\ session[s].status = "ACTIVE"
  BY DEF MayComplete, RInv, TInv, Typed
<1>2. session[s].g \in Grammars /\ session[s].scene \in SceneNames
  BY <1>1 DEF SessionRow
<1> DEFINE y == session[s]
           g == y.g
           rating  == ResolveRating(submitted, ai)
           before  == Affecting(events[g])
           affects == \/ y.mode # "PRACTICE" \/ y.task # NoKey
                      \/ before = <<>> \/ before[Len(before)].day # day
           e       == [day |-> day, v2 |-> FALSE, due |-> FALSE, qualifies |-> FALSE, cross |-> FALSE,
                       good |-> FALSE, affects |-> affects,
                       clean |-> rating = "REMEMBERED" /\ ~(y.mode = "REVIEW" /\ y.hinted),
                       assessed |-> TRUE, scene |-> y.scene]
           after   == Append(events[g], e)
           status  == LegacyStatus(after, rating, memory.mature)
           x       == IF affects THEN [progress[g] EXCEPT !.status = status] ELSE progress[g]
<1>3. g \in Grammars  BY <1>2
<1>4. /\ events' = [events EXCEPT ![g] = after]
      /\ progress' = IF ~affects THEN progress ELSE [progress EXCEPT ![g].status = status]
  BY DEF LegacyReview
<1>5. e.day = day /\ e.v2 = FALSE /\ e.due = FALSE  OBVIOUS
<1>6. e \in Event
  <2>1. day \in Nat  BY DaysAreNumbers DEF RInv, TInv, Typed
  <2>2. affects \in BOOLEAN  OBVIOUS
  <2> HIDE DEF affects
  <2> QED  BY <1>2, <2>1, <2>2 DEF Event
<1>13. e.affects = affects  OBVIOUS
<1>14. status = "MASTERED" => ThreeClean(after)  BY DEF LegacyStatus, ThreeClean
<1>15. after = Append(events[g], e)  OBVIOUS
<1> HIDE DEF e, affects, status, g, after
<1>7. DOMAIN progress = Grammars /\ DOMAIN progress[g] = RowFields
  BY <1>3 DEF RInv, TInv, Typed, Reviewed, Judged
<1>8. /\ DOMAIN x = RowFields /\ x.rule = progress[g].rule
      /\ x.status = IF affects THEN status ELSE progress[g].status
  BY <1>7 DEF RowFields
<1>16. affects \in BOOLEAN /\ (~affects => ~Counted(e))
  BY <1>5, <1>13 DEF Counted, affects
<1>9. DOMAIN progress' = Grammars /\ progress'[g] = x /\ \A h \in Grammars \ {g} : progress'[h] = progress[h]
  <2>1. CASE affects  BY <1>3, <1>4, <1>7, <2>1
  <2>2. CASE ~affects  BY <1>3, <1>4, <1>7, <2>2
  <2> QED  BY <2>1, <2>2
<1> HIDE DEF x
<1>17. ASSUME x.status = "MASTERED", x.rule = "v2"
       PROVE  /\ progress[g].rule = "v2"
              /\ \/ ~e.v2 /\ e.affects /\ ThreeClean(after)
                 \/ progress[g].status = "MASTERED" /\ (Counted(e) => ~e.assessed)
  <2>1. CASE affects  BY <1>5, <1>8, <1>13, <1>14, <1>17, <2>1
  <2>2. CASE ~affects  BY <1>8, <1>16, <1>17, <2>2
  <2> QED  BY <2>1, <2>2
<1>18. events' = [events EXCEPT ![g] = Append(events[g], e)]  BY <1>4, <1>15
<1>10. Review(g, e, x)
  BY <1>5, <1>8, <1>9, <1>15, <1>17, <1>18 DEF Review
<1>11. PICK G \in Grammars, E \in Event, X \in {x} : G = g /\ E = e /\ X = x  BY <1>3, <1>6
<1>12. Review(G, E, X)  BY <1>10, <1>11
<1> QED  BY <1>12

LEMMA MarkReviews ==
  ASSUME RInv, TInv', NEW g \in Grammars, NEW marked \in BOOLEAN, MarkNeedsWork(g, marked)
  PROVE  RInv'
<1>1. PICK old, status : old = progress[g]
        /\ status = IF marked /\ old.status # "NOT_STARTED" THEN "NEEDS_WORK" ELSE old.status
  OBVIOUS
<1>2. PICK x : x = [old EXCEPT !.needsWork = marked, !.status = status]  OBVIOUS
<1>3. /\ progress' = [progress EXCEPT ![g] = x]
      /\ day' = day /\ events' = events
  BY <1>1, <1>2 DEF MarkNeedsWork
<1>4. Judged(old, events[g]) /\ DOMAIN progress = Grammars  BY <1>1 DEF RInv, Reviewed
<1>5. Judged(x, events[g])
  <2>1. DOMAIN x = RowFields /\ x.rule = old.rule /\ (x.status = "MASTERED" => old.status = "MASTERED")
    BY <1>1, <1>2, <1>4 DEF Judged, RowFields
  <2> QED  BY <1>4, <2>1 DEF Judged
<1>6. DOMAIN progress' = Grammars /\ progress'[g] = x
      /\ \A h \in Grammars \ {g} : progress'[h] = progress[h]
  BY <1>3, <1>4
<1>7. \A h \in Grammars : Kept(events'[h], day') /\ Judged(progress'[h], events'[h])
  BY <1>3, <1>5, <1>6 DEF RInv, Reviewed
<1> QED  BY <1>3, <1>6, <1>7 DEF RInv, Reviewed

LEMMA ReviewsBegin == Init => RInv
<1> SUFFICES ASSUME Init PROVE RInv
  OBVIOUS
<1>1. TInv  BY TasksBegin
<1>2. PICK account \in Accounts :
        /\ day = FirstDay /\ events = account.events
        /\ progress = [g \in Grammars |->
             [status |-> IF account.due[g] = Never THEN "NOT_STARTED" ELSE "LEARNING", needsWork |-> FALSE,
              rule |-> IF \E i \in 1..Len(events[g]) : events[g][i].v2 THEN "v2" ELSE "legacy"]]
  BY DEF Init
<1>3. /\ account.events \in [Grammars -> Seq(Event)]
      /\ \A g \in Grammars : Kept(account.events[g], FirstDay)
  BY HistoryAssumption
<1>4. ASSUME NEW g \in Grammars PROVE Kept(events[g], day) /\ Judged(progress[g], events[g])
  <2>1. Kept(events[g], day)  BY <1>2, <1>3
  <2>2. PICK old \in BOOLEAN : old <=> \E i \in 1..Len(events[g]) : events[g][i].v2  OBVIOUS
  <2>3. progress[g] = [status |-> IF account.due[g] = Never THEN "NOT_STARTED" ELSE "LEARNING",
                       needsWork |-> FALSE, rule |-> IF old THEN "v2" ELSE "legacy"]
    BY <1>2, <2>2
  <2>4. /\ DOMAIN progress[g] = RowFields /\ progress[g].status # "MASTERED"
        /\ progress[g].rule = "v2" => old
    BY <2>3 DEF RowFields
  <2> QED  BY <2>1, <2>2, <2>4 DEF Judged
<1>5. DOMAIN progress = Grammars  BY <1>2
<1> QED  BY <1>1, <1>2, <1>3, <1>4, <1>5 DEF RInv, Reviewed

LEMMA ReviewsStep == RInv /\ [Next]_vars => RInv'
<1> SUFFICES ASSUME RInv, [Next]_vars PROVE RInv'
  OBVIOUS
<1>0. TInv' /\ day \in Nat /\ day <= day
  BY TasksStep, DaysAreNumbers DEF RInv, TInv, Typed
<1>1. CASE NextDay
  <2>1. day <= day'  BY <1>0, <1>1 DEF NextDay
  <2> QED  BY <1>0, <1>1, <2>1, CalmReviews DEF NextDay, study
<1>2. CASE Rollout  BY <1>0, <1>2, CalmReviews DEF Rollout, Edit, study
<1>3. CASE GenerateDailyTasks  BY <1>0, <1>3, CalmReviews DEF GenerateDailyTasks, study
<1>4. ASSUME NEW g \in Grammars, NEW marked \in BOOLEAN, MarkNeedsWork(g, marked) PROVE RInv'
  BY <1>0, <1>4, MarkReviews
<1>5. ASSUME NEW p \in Plans, NEW l, NEW start, CreatePlan(p, l, start) PROVE RInv'
  BY <1>0, <1>5, CalmReviews DEF CreatePlan, Edit, study
<1>6. ASSUME NEW p \in Plans, NEW status, NEW mode, UpdatePlan(p, status, mode) PROVE RInv'
  BY <1>0, <1>6, CalmReviews DEF UpdatePlan, Edit, study
<1>7. ASSUME NEW s \in Sessions, RevealHint(s) PROVE RInv'
  BY <1>0, <1>7, CalmReviews DEF RevealHint, study
<1>8. ASSUME NEW s \in Sessions, NEW g \in Grammars, NEW mode \in Modes,
             NEW k \in TaskKeys \cup {NoKey}, Create(s, g, mode, k)
      PROVE  RInv'
  BY <1>0, <1>8, CalmReviews DEF Create, study
<1>9. ASSUME NEW s \in Sessions, NEW submitted, NEW ai, NEW taskDone, NEW memory,
             Complete(s, submitted, ai, taskDone, memory)
      PROVE  RInv'
  <2>1. MayComplete(s) /\ day' = day  BY <1>9 DEF Complete, Finish
  <2>2. \E g \in Grammars, e \in Event : \E x : Review(g, e, x)
    <3>1. CASE v2
      <4>1. EvidenceReview(s, submitted, ai, taskDone, memory)  BY <1>9, <3>1 DEF Complete
      <4> QED  BY <2>1, <4>1, EvidenceReviews
    <3>2. CASE ~v2
      <4>1. LegacyReview(s, submitted, ai, memory)  BY <1>9, <3>2 DEF Complete
      <4> QED  BY <2>1, <4>1, LegacyReviews
    <3> QED  BY <3>1, <3>2
  <2> QED  BY <1>0, <2>2, ReviewKeeps
<1>10. CASE UNCHANGED vars  BY <1>0, <1>10, CalmReviews DEF vars
<1>11. CASE Next
  BY <1>1, <1>2, <1>3, <1>4, <1>5, <1>6, <1>7, <1>8, <1>9, <1>11 DEF Next
<1> QED  BY <1>10, <1>11

(* A grammar is due at most once a day, over sessions open at once, days and *)
(* marks, unless a counted review of the old rule came between, with V2 off  *)
(* (isDueReview, completeEvidenceReview).                                    *)
THEOREM OneDueReviewADay == Spec => []DueOncePerDay
<1>1. RInv => DueOncePerDay  BY DEF RInv, Reviewed, Kept, DueOncePerDay
<1> QED  BY <1>1, ReviewsBegin, ReviewsStep, PTL DEF Spec

(* A grammar that is mastered under the V2 rule was proven by three          *)
(* qualifying due reviews in a row, on three days and one of them in a new   *)
(* scene, or, with V2 off, by three clean reviews in a row of which the last *)
(* was judged by the old rule; and no counted review since was assessed      *)
(* (resolveEvidenceStatus, completeStudySession, markNeedsWork).             *)
THEOREM MasteryIsEarned == Spec => []MasteryEarned
<1>1. RInv => MasteryEarned  BY DEF RInv, Reviewed, Judged, MasteryEarned
<1> QED  BY <1>1, ReviewsBegin, ReviewsStep, PTL DEF Spec
-----------------------------------------------------------------------------
(***************************************************************************)
(* What the day shows.  It shows every task that is open once it is        *)
(* opened, and a task that runs under an active plan is dated today.       *)
(***************************************************************************)
LEMMA ShownIs ==
  ASSUME TInv
  PROVE  /\ Shown = Planning \cup Preserved /\ Shown \subseteq TaskKeys
         /\ \A k \in Preserved : k \notin Planning /\ Opened[k].status # "NONE"
<1>1. Shown = Planning \cup Preserved  BY DEF Shown, Planning
<1>2. Planning \subseteq TaskKeys
  <2> SUFFICES ASSUME NEW k \in Planning PROVE k \in TaskKeys
    OBVIOUS
  <2>1. PICK c \in Candidates : k = KeyFor(c)  BY DEF Planning
  <2> QED  BY <2>1, KeyForIs
<1>3. ASSUME NEW k \in Preserved
      PROVE  k \in TaskKeys /\ k \notin Planning /\ Opened[k].status # "NONE"
  <2>1. k \in TaskKeys /\ task[k].status \in {"IN_PROGRESS", "COMPLETED"}
    BY DEF Preserved, Existing, IsOpen
  <2> QED  BY <2>1, OpenedIs
<1> QED  BY <1>1, <1>2, <1>3

LEMMA OpenIsShown ==
  ASSUME TInv, NEW k \in TaskKeys, Opened[k].status \in {"PENDING", "IN_PROGRESS"}
  PROVE  k \in Shown
<1>1. CASE k \in Planning  BY <1>1, ShownIs
<1>2. CASE k \notin Planning
  <2>1. task[k].status = "IN_PROGRESS"  BY <1>2, OpenedIs
  <2>2. k \in Preserved  BY <2>1 DEF Preserved, Existing, IsOpen
  <2> QED  BY <2>2, ShownIs
<1> QED  BY <1>1, <1>2

LEMMA RunsToday ==
  ASSUME TInv, NEW k \in Shown, Opened[k].status # "COMPLETED", Opened[k].plan \in ActivePlans
  PROVE  Opened[k].status \in {"PENDING", "IN_PROGRESS"} /\ Opened[k].date = day
<1>1. k \in TaskKeys /\ (k \in Planning \/ (k \in Preserved /\ k \notin Planning))  BY ShownIs
<1>2. CASE k \in Planning  BY <1>1, <1>2, OpenedIs
<1>3. CASE k \in Preserved /\ k \notin Planning
  <2>1. Opened[k].status # "NONE"  BY <1>3, ShownIs
  <2>2. task[k].status = "IN_PROGRESS" /\ Opened[k].status = "IN_PROGRESS" /\ task[k].plan \in ActivePlans
    BY <1>1, <1>3, <2>1, OpenedIs
  <2>3. CarriedOver(k)  BY <1>3, <2>2 DEF CarriedOver
  <2> QED  BY <1>1, <1>3, <2>1, <2>2, <2>3, OpenedIs
<1> QED  BY <1>1, <1>2, <1>3

LEMMA GateIsShown == TInv => GateAgrees
<1> SUFFICES ASSUME TInv, NEW k \in Shown, k.type = "LEARN", Opened[k].status = "PENDING"
             PROVE  Locked(Opened, Shown, k) <=> ~MayLearn(Opened, k)
  BY DEF GateAgrees
<1>1. ASSUME NEW r \in Shown, r.type = "REVIEW", Opened[r].status # "COMPLETED",
             Opened[r].plan \in ActivePlans, Group(Level[r.g]) = Group(Level[k.g])
      PROVE  r \in ReviewsRequired(Opened, k.g)
  <2>1. r \in TaskKeys  BY ShownIs
  <2>2. Opened[r].status \in {"PENDING", "IN_PROGRESS"} /\ Opened[r].date = day
    BY <1>1, RunsToday
  <2> QED  BY <1>1, <2>1, <2>2 DEF ReviewsRequired
<1>2. ASSUME NEW r \in ReviewsRequired(Opened, k.g)
      PROVE  /\ r \in Shown /\ r.type = "REVIEW" /\ Opened[r].status # "COMPLETED"
             /\ Opened[r].plan \in ActivePlans /\ Group(Level[r.g]) = Group(Level[k.g])
  <2>1. /\ r \in TaskKeys /\ r.type = "REVIEW" /\ Opened[r].status \in {"PENDING", "IN_PROGRESS"}
        /\ Opened[r].plan \in ActivePlans /\ Group(Level[r.g]) = Group(Level[k.g])
    BY DEF ReviewsRequired
  <2> QED  BY <2>1, OpenIsShown
<1>3. CASE Locked(Opened, Shown, k)
  <2>1. ReviewsRequired(Opened, k.g) # {}  BY <1>1, <1>3 DEF Locked
  <2> QED  BY <1>3, <2>1 DEF MayLearn
<1>4. CASE ~MayLearn(Opened, k)
  <2>1. PICK r : r \in ReviewsRequired(Opened, k.g)  BY <1>4 DEF MayLearn
  <2> QED  BY <1>2, <1>4, <2>1 DEF Locked
<1> QED  BY <1>3, <1>4

(* Once the day is opened, a new grammar that waits is shown as locked exactly *)
(* if createStudySession would answer REVIEW_REQUIRED, whatever was begun, on  *)
(* any day and under any plans (getToday, createStudySession).                 *)
THEOREM LockIsTheGate == Spec => []GateAgrees
BY TasksBegin, TasksStep, GateIsShown, PTL DEF Spec
-----------------------------------------------------------------------------
(***************************************************************************)
(* The forecast.  A level has one current plan, so the plan of a grammar   *)
(* that is planned is the one plan of its level.                           *)
(***************************************************************************)
PlanFields == {"level", "status", "start", "mode"}

PlansApart ==
  /\ DOMAIN plan = Plans /\ \A p \in Plans : DOMAIN plan[p] = PlanFields
  /\ \A p, q \in Plans : Current(p) /\ Current(q) /\ plan[p].level = plan[q].level => p = q

LEMMA PlansBegin == Init => PlansApart
<1> SUFFICES ASSUME Init PROVE PlansApart
  OBVIOUS
<1>1. PICK account \in Accounts :
        plan = [p \in Plans |->
                 [level |-> Target, status |-> IF p = FirstPlan THEN account.plan ELSE "NONE",
                  mode |-> "SYSTEM", start |-> FirstDay]]
  BY DEF Init
<1>2. \A p \in Plans : DOMAIN plan[p] = PlanFields /\ (Current(p) => p = FirstPlan)
  BY <1>1 DEF PlanFields, Current
<1> QED  BY <1>1, <1>2 DEF PlansApart

(* A plan p is put on the row x, which keeps away from the current plans. *)
LEMMA PlansPut ==
  ASSUME PlansApart, NEW p \in Plans, NEW x, DOMAIN x = PlanFields,
         x.status \in {"ACTIVE", "PAUSED"} => ~HasOther(p, x.level), plan' = [plan EXCEPT ![p] = x]
  PROVE  PlansApart'
<1>1. DOMAIN plan' = Plans /\ plan'[p] = x /\ \A q \in Plans \ {p} : plan'[q] = plan[q]
  BY DEF PlansApart
<1>2. ASSUME NEW q \in Plans, NEW o \in Plans, Current(q)', Current(o)', plan'[q].level = plan'[o].level
      PROVE  q = o
  <2>1. CASE q # p /\ o # p
    <3>1. Current(q) /\ Current(o) /\ plan[q].level = plan[o].level
      BY <1>1, <1>2, <2>1 DEF Current
    <3> QED  BY <3>1 DEF PlansApart
  <2>2. CASE q = p /\ o # p
    <3>1. Current(o) /\ plan[o].level = x.level /\ x.status \in {"ACTIVE", "PAUSED"}
      BY <1>1, <1>2, <2>2 DEF Current
    <3> QED  BY <2>2, <3>1 DEF HasOther
  <2>3. CASE q # p /\ o = p
    <3>1. Current(q) /\ plan[q].level = x.level /\ x.status \in {"ACTIVE", "PAUSED"}
      BY <1>1, <1>2, <2>3 DEF Current
    <3> QED  BY <2>3, <3>1 DEF HasOther
  <2> QED  BY <2>1, <2>2, <2>3
<1>3. \A q \in Plans : DOMAIN plan'[q] = PlanFields  BY <1>1 DEF PlansApart
<1> QED  BY <1>1, <1>2, <1>3 DEF PlansApart

LEMMA PlansStep == PlansApart /\ [Next]_vars => PlansApart'
<1> SUFFICES ASSUME PlansApart, [Next]_vars PROVE PlansApart'
  OBVIOUS
<1>1. ASSUME plan' = plan PROVE PlansApart'  BY <1>1 DEF PlansApart, Current
<1>2. CASE NextDay \/ Rollout \/ GenerateDailyTasks
  BY <1>1, <1>2 DEF NextDay, Rollout, Edit, GenerateDailyTasks
<1>3. ASSUME NEW g \in Grammars, NEW marked \in BOOLEAN, MarkNeedsWork(g, marked) PROVE PlansApart'
  BY <1>1, <1>3 DEF MarkNeedsWork
<1>4. ASSUME NEW p \in Plans, NEW l, NEW start, CreatePlan(p, l, start) PROVE PlansApart'
  <2>1. PICK x : x = [level |-> l, status |-> "ACTIVE", start |-> start,
                      mode |-> IF l = Target THEN "SYSTEM" ELSE "GAP_FILL"]
    OBVIOUS
  <2>2. DOMAIN x = PlanFields /\ x.level = l  BY <2>1 DEF PlanFields
  <2>3. plan' = [plan EXCEPT ![p] = x] /\ ~HasOther(p, l)  BY <1>4, <2>1 DEF CreatePlan, Edit
  <2> QED  BY <2>2, <2>3, PlansPut
<1>5. ASSUME NEW p \in Plans, NEW status, NEW mode, UpdatePlan(p, status, mode) PROVE PlansApart'
  <2>1. PICK x : x = [plan[p] EXCEPT !.status = status, !.mode = mode]  OBVIOUS
  <2>2. DOMAIN plan[p] = PlanFields  BY DEF PlansApart
  <2>3. DOMAIN x = PlanFields /\ x.level = plan[p].level /\ x.status = status
    BY <2>1, <2>2 DEF PlanFields
  <2>4. /\ plan' = [plan EXCEPT ![p] = x]
        /\ status \in {"ACTIVE", "PAUSED"} => ~HasOther(p, plan[p].level)
    BY <1>5, <2>1 DEF UpdatePlan, Edit
  <2> QED  BY <2>3, <2>4, PlansPut
<1>6. ASSUME NEW s \in Sessions, RevealHint(s) PROVE PlansApart'
  BY <1>1, <1>6 DEF RevealHint
<1>7. ASSUME NEW s \in Sessions, NEW g \in Grammars, NEW mode \in Modes,
             NEW k \in TaskKeys \cup {NoKey}, Create(s, g, mode, k)
      PROVE  PlansApart'
  BY <1>1, <1>7 DEF Create
<1>8. ASSUME NEW s \in Sessions, NEW submitted, NEW ai, NEW taskDone, NEW memory,
             Complete(s, submitted, ai, taskDone, memory)
      PROVE  PlansApart'
  BY <1>1, <1>8 DEF Complete, Finish
<1>9. CASE UNCHANGED vars  BY <1>1, <1>9 DEF vars
<1> QED  BY <1>2, <1>3, <1>4, <1>5, <1>6, <1>7, <1>8, <1>9 DEF Next

LEMMA PlanOfIs ==
  ASSUME PlansApart, NEW p \in ActivePlans
  PROVE  /\ PlanOf(plan[p].level) = p
         /\ \A g : Planned(g) => PlanOf(Level[g]) \in ActivePlans /\ plan[PlanOf(Level[g])].level = Level[g]
<1>1. \A q \in ActivePlans : q \in Plans /\ Current(q)  BY DEF ActivePlans, Running, Current
<1>2. PlanOf(plan[p].level) \in ActivePlans /\ plan[PlanOf(plan[p].level)].level = plan[p].level
  BY DEF PlanOf
<1>3. PlanOf(plan[p].level) = p  BY <1>1, <1>2 DEF PlansApart
<1>4. \A g : Planned(g) => PlanOf(Level[g]) \in ActivePlans /\ plan[PlanOf(Level[g])].level = Level[g]
  BY DEF Planned, PlanOf
<1> QED  BY <1>3, <1>4
-----------------------------------------------------------------------------
(***************************************************************************)
(* The first n of a set of numbers are n, or all of it.                    *)
(***************************************************************************)
Before(S, g) == {h \in S : h < g}

LEMMA FirstOfGrows ==
  ASSUME NEW S \in SUBSET Nat, IsFiniteSet(S), NEW m \in Nat,
         Cardinality(FirstOf(m, S)) = IF m <= Cardinality(S) THEN m ELSE Cardinality(S)
  PROVE  Cardinality(FirstOf(m + 1, S)) = IF m + 1 <= Cardinality(S) THEN m + 1 ELSE Cardinality(S)
<1> DEFINE F == FirstOf(m, S)
           G == FirstOf(m + 1, S)
           C(g) == Cardinality(Before(S, g))
<1>0. Cardinality(S) \in Nat  BY FS_CardinalityType
<1>1. ASSUME NEW g \in S PROVE IsFiniteSet(Before(S, g)) /\ C(g) \in Nat
  <2>1. Before(S, g) \subseteq S  BY DEF Before
  <2>2. IsFiniteSet(Before(S, g))  BY <2>1, FS_Subset
  <2> QED  BY <2>2, FS_CardinalityType
<1>2. F = {g \in S : C(g) < m} /\ G = {g \in S : C(g) < m + 1}  BY DEF FirstOf, Before
<1>3. /\ F \subseteq S /\ G \subseteq S /\ F \subseteq G /\ IsFiniteSet(F)
      /\ Cardinality(F) = IF m <= Cardinality(S) THEN m ELSE Cardinality(S)
  <2>1. F \subseteq G
    <3> SUFFICES ASSUME NEW g \in F PROVE g \in G
      OBVIOUS
    <3>1. g \in S /\ C(g) < m /\ C(g) \in Nat  BY <1>1, <1>2
    <3> HIDE DEF F, G, C
    <3>2. C(g) < m + 1  BY <3>1
    <3> QED  BY <1>2, <3>1, <3>2
  <2>2. F \subseteq S /\ G \subseteq S  BY <1>2
  <2> QED  BY <2>1, <2>2, FS_Subset
<1> HIDE DEF F, G, C
<1>4. CASE S \subseteq F
  <2>1. F = S /\ G = S  BY <1>3, <1>4
  <2>2. Cardinality(S) <= m  BY <1>0, <1>3, <2>1
  <2> QED  BY <1>0, <2>1, <2>2 DEF G
<1>5. CASE ~(S \subseteq F)
  <2>1. S \ F \in SUBSET Nat /\ S \ F # {}  BY <1>5
  <2>2. PICK x \in S \ F : \A y \in S \ F : x <= y  BY <2>1, SmallestExists
  <2>3. Before(S, x) \subseteq F
    <3> SUFFICES ASSUME NEW h \in S, h < x, h \notin F PROVE FALSE
      BY DEF Before
    <3>1. x <= h  BY <2>2
    <3>2. h \in Nat /\ x \in Nat  OBVIOUS
    <3> QED  BY <3>1, <3>2
  <2>4. C(x) <= Cardinality(F) /\ Cardinality(F) \in Nat /\ C(x) \in Nat
    BY <1>1, <1>3, <2>3, FS_Subset, FS_CardinalityType DEF C
  <2>5. C(x) >= m  BY <1>2, <2>4
  <2>6. Cardinality(F) <= m  BY <1>0, <1>3
  <2>7. C(x) = m /\ Cardinality(F) = m  BY <2>4, <2>5, <2>6
  <2>8. x \in G  BY <1>2, <2>7
  <2>9. ASSUME NEW y \in G \ F PROVE y = x
    <3>1. y \in S /\ x <= y /\ y \in Nat /\ x \in Nat  BY <1>3, <2>2
    <3> SUFFICES ASSUME x < y PROVE FALSE
      BY <3>1
    <3>2. Before(S, x) \cup {x} \subseteq Before(S, y)
      <4> SUFFICES ASSUME NEW h \in S, h < x \/ h = x PROVE h < y
        BY DEF Before
      <4>1. h \in Nat  OBVIOUS
      <4> QED  BY <3>1, <4>1
    <3>3. x \notin Before(S, x)  BY <3>1 DEF Before
    <3>4. Cardinality(Before(S, x) \cup {x}) = m + 1  BY <1>1, <2>7, <3>3, FS_AddElement DEF C
    <3>5. m + 1 <= C(y)  BY <1>1, <3>1, <3>2, <3>4, FS_Subset DEF C
    <3>6. C(y) < m + 1 /\ C(y) \in Nat  BY <1>1, <1>2, <3>1 DEF C
    <3> QED  BY <3>5, <3>6
  <2>10. G = F \cup {x}  BY <1>3, <2>8, <2>9
  <2>11. Cardinality(G) = m + 1  BY <1>3, <2>7, <2>10, FS_AddElement
  <2>12. m + 1 <= Cardinality(S)  BY <1>3, <2>11, FS_Subset
  <2> QED  BY <2>11, <2>12 DEF G
<1> QED  BY <1>4, <1>5

LEMMA FirstOfCount ==
  ASSUME NEW S \in SUBSET Nat, IsFiniteSet(S), NEW n \in Nat
  PROVE  Cardinality(FirstOf(n, S)) = IF n <= Cardinality(S) THEN n ELSE Cardinality(S)
<1> DEFINE Right(m) == Cardinality(FirstOf(m, S)) = IF m <= Cardinality(S) THEN m ELSE Cardinality(S)
           P == {m \in 0..n : Right(m)}
<1>1. 0 \in P
  <2>1. ASSUME NEW g \in S PROVE Cardinality(Before(S, g)) \in Nat
    <3>1. Before(S, g) \subseteq S  BY DEF Before
    <3>2. IsFiniteSet(Before(S, g))  BY <3>1, FS_Subset
    <3> QED  BY <3>2, FS_CardinalityType
  <2>2. FirstOf(0, S) = {}
    <3>1. FirstOf(0, S) = {g \in S : Cardinality(Before(S, g)) < 0}  BY DEF FirstOf, Before
    <3>2. ASSUME NEW g \in FirstOf(0, S) PROVE FALSE
      <4>1. g \in S /\ Cardinality(Before(S, g)) < 0  BY <3>1
      <4>2. Cardinality(Before(S, g)) \in Nat  BY <2>1, <4>1
      <4> QED  BY <4>1, <4>2
    <3> QED  BY <3>2
  <2>3. Right(0)  BY <2>2, FS_EmptySet, FS_CardinalityType
  <2> HIDE DEF Right
  <2> QED  BY <2>3
<1>2. ASSUME NEW m \in 1..n, m - 1 \in P PROVE m \in P
  <2>1. PICK k \in Nat : k = m - 1 /\ m = k + 1 /\ m \in 0..n  OBVIOUS
  <2>2. Right(k)  BY <1>2, <2>1
  <2>3. Right(k + 1)  BY <2>2, FirstOfGrows
  <2> HIDE DEF Right
  <2> QED  BY <2>1, <2>3
<1>3. n \in P
  <2> HIDE DEF P
  <2> QED  BY <1>1, <1>2, Climb
<1> QED  BY <1>3
-----------------------------------------------------------------------------
(***************************************************************************)
(* What opening an untouched day plans for one plan.                       *)
(***************************************************************************)
LEMMA PlannedFor ==
  ASSUME TInv, PlansApart, NEW p \in ActivePlans, NEW c \in Candidates
  PROVE  /\ KeyFor(c) \in Planning /\ KeyFor(c).type = c.type /\ KeyFor(c).g = c.g
         /\ Opened[KeyFor(c)].plan = p <=> Level[c.g] = plan[p].level
<1>1. KeyFor(c) \in TaskKeys /\ KeyFor(c).type = c.type /\ KeyFor(c).g = c.g  BY KeyForIs DEF Of
<1>2. KeyFor(c) \in Planning  BY DEF Planning
<1>3. Opened[KeyFor(c)].plan = PlanOf(Level[c.g])  BY <1>1, <1>2 DEF Opened, Planning
<1>4. Planned(c.g)  BY CandidateIs
<1>5. Level[c.g] = plan[p].level => PlanOf(Level[c.g]) = p  BY PlanOfIs
<1>6. PlanOf(Level[c.g]) = p => Level[c.g] = plan[p].level  BY <1>4, PlanOfIs
<1> QED  BY <1>1, <1>2, <1>3, <1>5, <1>6

LEMMA ReviewsForecast ==
  ASSUME TInv, PlansApart, Preserved = {}, NEW p \in ActivePlans
  PROVE  {k.g : k \in TasksOf(Opened, Shown, p, "REVIEW")} = ForecastReviews(p)
<1>0. Shown = Planning /\ PreservedGrammars = {}  BY ShownIs DEF PreservedGrammars
<1>1. ASSUME NEW k \in TasksOf(Opened, Shown, p, "REVIEW") PROVE k.g \in ForecastReviews(p)
  <2>1. k \in Planning /\ k.type = "REVIEW" /\ Opened[k].plan = p  BY <1>0 DEF TasksOf
  <2>2. PICK c \in Candidates : k = KeyFor(c)  BY <2>1 DEF Planning
  <2>3. c.type = "REVIEW" /\ c.g = k.g /\ Level[c.g] = plan[p].level  BY <2>1, <2>2, PlannedFor
  <2>4. PICK g \in Grammars : (IsDue(g) \/ IsCheck(g)) /\ c.g = g
    BY <2>3 DEF Candidates
  <2> QED  BY <2>3, <2>4 DEF ForecastReviews, IsDue, IsCheck
<1>2. ASSUME NEW g \in ForecastReviews(p)
      PROVE  \E k \in TasksOf(Opened, Shown, p, "REVIEW") : k.g = g
  <2>1. g \in Grammars /\ Level[g] = plan[p].level  BY DEF ForecastReviews
  <2>2. IsDue(g) \/ IsCheck(g)  BY <2>1 DEF ForecastReviews, Planned, IsDue, IsCheck
  <2>3. PICK c : c = [type |-> "REVIEW", g |-> g]  OBVIOUS
  <2>4. c \in Candidates /\ c.type = "REVIEW" /\ c.g = g
    BY <1>0, <2>1, <2>2, <2>3 DEF Candidates
  <2>5. KeyFor(c) \in TasksOf(Opened, Shown, p, "REVIEW") /\ KeyFor(c).g = g
    BY <1>0, <2>1, <2>4, PlannedFor DEF TasksOf
  <2> QED  BY <2>5
<1> QED  BY <1>1, <1>2

LEMMA NewCount ==
  ASSUME Preserved = {}, NEW p \in ActivePlans
  PROVE  IsFiniteSet(NewGrammars(p)) /\ Cardinality(NewGrammars(p)) = ForecastNew(p)
<1> DEFINE S    == {g \in Grammars : Level[g] = plan[p].level /\ IsNew(g)}
           left == IF plan[p].mode = "SYSTEM" THEN DailyNewLimit ELSE 0
<1>1. S \in SUBSET Nat /\ IsFiniteSet(S) /\ left \in Nat
  <2>1. S \subseteq Grammars  OBVIOUS
  <2>2. IsFiniteSet(S)  BY <2>1, LearningAssumption, FS_Subset
  <2> QED  BY <2>1, <2>2, LearningAssumption
<1>2. NewGrammars(p) = FirstOf(left, S)
  <2>1. {k \in Preserved : k.type = "LEARN" /\ Level[k.g] = plan[p].level} = {}  OBVIOUS
  <2>2. Cardinality({k \in Preserved : k.type = "LEARN" /\ Level[k.g] = plan[p].level}) = 0
    BY <2>1, FS_EmptySet
  <2>3. PreservedGrammars = {}  BY DEF PreservedGrammars
  <2>4. {g \in Grammars \ PreservedGrammars : Level[g] = plan[p].level /\ IsNew(g)} = S  BY <2>3
  <2>5. left = IF plan[p].mode = "SYSTEM" /\ 0 < DailyNewLimit THEN DailyNewLimit - 0 ELSE 0
    BY LearningAssumption
  <2> HIDE DEF S, left
  <2> QED  BY <2>2, <2>4, <2>5 DEF NewGrammars
<1>3. FirstOf(left, S) \subseteq S  BY DEF FirstOf
<1>4. ForecastNew(p) = Least({DailyNewLimit, IF plan[p].mode = "SYSTEM" THEN Cardinality(S) ELSE 0})
  BY DEF ForecastNew
<1>5. Cardinality(FirstOf(left, S)) = IF left <= Cardinality(S) THEN left ELSE Cardinality(S)
  <2> HIDE DEF S, left
  <2> QED  BY <1>1, FirstOfCount
<1>6. Cardinality(S) \in Nat  BY <1>1, FS_CardinalityType
<1>7. \A a, b \in Nat : Least({a, b}) = IF a <= b THEN a ELSE b
  <2> SUFFICES ASSUME NEW a \in Nat, NEW b \in Nat PROVE Least({a, b}) = IF a <= b THEN a ELSE b
    OBVIOUS
  <2>1. \E x \in {a, b} : \A y \in {a, b} : x <= y  OBVIOUS
  <2>2. Least({a, b}) \in {a, b} /\ \A y \in {a, b} : Least({a, b}) <= y  BY <2>1 DEF Least
  <2> QED  BY <2>2
<1>8. ForecastNew(p) = IF left <= Cardinality(S) THEN left ELSE Cardinality(S)
  <2>1. CASE plan[p].mode = "SYSTEM"
    <3>1. left = DailyNewLimit /\ ForecastNew(p) = Least({DailyNewLimit, Cardinality(S)})  BY <1>4, <2>1
    <3> HIDE DEF S, left
    <3> QED  BY <1>1, <1>6, <1>7, <3>1
  <2>2. CASE plan[p].mode # "SYSTEM"
    <3>1. left = 0 /\ ForecastNew(p) = Least({DailyNewLimit, 0})  BY <1>4, <2>2
    <3> HIDE DEF S, left
    <3>2. ForecastNew(p) = 0  BY <1>7, <3>1, LearningAssumption
    <3> QED  BY <1>6, <3>1, <3>2
  <2> QED  BY <2>1, <2>2
<1> HIDE DEF S, left
<1>9. IsFiniteSet(FirstOf(left, S))  BY <1>1, <1>3, FS_Subset
<1> QED  BY <1>2, <1>5, <1>8, <1>9

LEMMA NewForecast ==
  ASSUME TInv, PlansApart, Preserved = {}, NEW p \in ActivePlans
  PROVE  Cardinality(TasksOf(Opened, Shown, p, "LEARN")) = ForecastNew(p)
<1> DEFINE N == NewGrammars(p)
           T == TasksOf(Opened, Shown, p, "LEARN")
           learn(g) == [type |-> "LEARN", g |-> g]
           f == [g \in N |-> KeyFor(learn(g))]
<1>0. Shown = Planning  BY ShownIs
<1>1. ASSUME NEW g \in N PROVE f[g] \in T /\ f[g].g = g
  <2>1. PICK c : c = learn(g)  OBVIOUS
  <2>2. c \in Candidates /\ c.type = "LEARN" /\ c.g = g  BY <2>1 DEF Candidates
  <2>3. Level[g] = plan[p].level  BY DEF NewGrammars, FirstOf
  <2>4. KeyFor(c) \in T /\ KeyFor(c).g = g  BY <1>0, <2>2, <2>3, PlannedFor DEF TasksOf
  <2>5. f[g] = KeyFor(c)  BY <2>1
  <2> QED  BY <2>4, <2>5
<1>2. ASSUME NEW k \in T PROVE \E g \in N : f[g] = k
  <2>1. k \in Planning /\ k.type = "LEARN" /\ Opened[k].plan = p  BY <1>0 DEF TasksOf
  <2>2. PICK c \in Candidates : k = KeyFor(c)  BY <2>1 DEF Planning
  <2>3. c.type = "LEARN" /\ Level[c.g] = plan[p].level  BY <2>1, <2>2, PlannedFor
  <2>4. PICK q \in ActivePlans : \E h \in NewGrammars(q) : c = learn(h)
    BY <2>3 DEF Candidates
  <2>5. PICK g \in NewGrammars(q) : c = learn(g)  BY <2>4
  <2>6. Level[g] = plan[q].level /\ c.g = g  BY <2>5 DEF NewGrammars, FirstOf
  <2>7. q = p  BY <2>3, <2>6, PlanOfIs
  <2>8. g \in N /\ f[g] = k  BY <2>2, <2>5, <2>7
  <2> QED  BY <2>8
<1>3. f \in Bijection(N, T)
  <2>1. f \in [N -> T]
    <3>1. \A g \in N : f[g] \in T  BY <1>1
    <3>2. f = [g \in N |-> f[g]]  OBVIOUS
    <3> HIDE DEF f, N, T
    <3> QED  BY <3>1, <3>2
  <2> HIDE DEF f, N, T
  <2>2. \A g, h \in N : f[g] = f[h] => g = h  BY <1>1
  <2>3. f \in Injection(N, T)  BY <2>1, <2>2 DEF Injection, IsInjective
  <2>4. f \in Surjection(N, T)  BY <1>2, <2>1 DEF Surjection
  <2> QED  BY <2>3, <2>4 DEF Bijection
<1>4. IsFiniteSet(N) /\ Cardinality(N) = ForecastNew(p)  BY NewCount
<1> HIDE DEF f, N, T
<1>5. ExistsBijection(N, T)  BY <1>3 DEF ExistsBijection
<1>6. Cardinality(T) = Cardinality(N)  BY <1>4, <1>5, FS_Bijection
<1> QED  BY <1>4, <1>6 DEF T

LEMMA ForecastIs == TInv /\ PlansApart => ForecastMatchesPlan
<1> SUFFICES ASSUME TInv, PlansApart, Preserved = {}, NEW p \in ActivePlans
             PROVE  /\ {k.g : k \in TasksOf(Opened, Shown, p, "REVIEW")} = ForecastReviews(p)
                    /\ Cardinality(TasksOf(Opened, Shown, p, "LEARN")) = ForecastNew(p)
  BY DEF ForecastMatchesPlan
<1> QED  BY ReviewsForecast, NewForecast

(* While nothing was begun, the first day of a running plan's forecast is what *)
(* opening the day plans for it: the same reviews and as many new grammars     *)
(* (forecastPlans, generateDailyTasks).                                        *)
THEOREM ForecastIsThePlan == Spec => []ForecastMatchesPlan
<1>1. TInv /\ PlansApart /\ [Next]_vars => (TInv /\ PlansApart)'  BY TasksStep, PlansStep
<1> QED  BY <1>1, TasksBegin, PlansBegin, ForecastIs, PTL DEF Spec
=============================================================================
