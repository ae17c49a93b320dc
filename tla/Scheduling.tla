----------------------------- MODULE Scheduling -----------------------------
(***************************************************************************)
(* The pure rules of a review (src/src/review and the evidence files of    *)
(* src/src/study-sessions): what an answer is worth, whether it was due,   *)
(* when the grammar comes back and whether it is mastered.                 *)
(*                                                                         *)
(* The assessment of a sentence is one of four classes: there is none, it  *)
(* scores 80 or more with the target right, it scores less with the target *)
(* right, or the target is missing or wrong.  The memory model (FSRS) is   *)
(* kept to what the rules read of it: the next interval in days and        *)
(* whether the stability has reached thirty days (and, of the legacy rule, *)
(* five repetitions), both left open within its bounds.                    *)
(***************************************************************************)
EXTENDS Integers, Sequences, FiniteSets

CONSTANTS
  MaxInterval,    \* longest interval the memory model may answer
  SceneNames      \* the training scenarios, and "" for none

ASSUME IntervalAssumption == MaxInterval \in Nat \ {0}
ASSUME SceneAssumption == "" \in SceneNames

Ratings     == {"FORGOT", "FUZZY", "REMEMBERED"}
Assessments == {"NONE", "GOOD", "WEAK", "WRONG"}
Never       == 0 - 1     \* no review scheduled

(* calculateAdaptiveReview: the interval is clamped to at least one day. *)
Memories == [interval : 1..MaxInterval, mature : BOOLEAN]

(* resolveRating *)
ResolveRating(submitted, ai) ==
  IF ai = "WRONG" THEN "FORGOT"
  ELSE IF ai = "WEAK" /\ submitted = "REMEMBERED" THEN "FUZZY" ELSE submitted

HasScore(ai)        == ai # "NONE"
ConfirmedTarget(ai) == ai \in {"GOOD", "WEAK"}

(* resolveEvidenceRating: hints and missing evidence cap the rating. *)
ResolveEvidenceRating(submitted, ai, hinted) ==
  IF ResolveRating(submitted, ai) = "FORGOT" THEN "FORGOT"
  ELSE IF ~HasScore(ai) \/ ~ConfirmedTarget(ai) \/ hinted THEN "FUZZY"
  ELSE ResolveRating(submitted, ai)

(* isDueReview *)
\* (mutant DueAgain: a second review of the day is due again)
DueAgain(mode, today, startedOn, scheduledOn, previousDue) ==
  /\ mode = "REVIEW" /\ scheduledOn # Never
  /\ scheduledOn <= today /\ scheduledOn <= startedOn

IsDueReview(mode, today, startedOn, scheduledOn, previousDue) ==
  /\ mode = "REVIEW" /\ scheduledOn # Never
  /\ scheduledOn <= today /\ scheduledOn <= startedOn
  /\ previousDue # today

(* The event a completed session leaves. *)
Event ==
  [day : Nat, v2 : BOOLEAN, due : BOOLEAN, qualifies : BOOLEAN, cross : BOOLEAN,
   good : BOOLEAN,      \* it establishes its scene for a later transfer
   affects : BOOLEAN, clean : BOOLEAN, assessed : BOOLEAN, scene : SceneNames]

(* The events the mastery rule reads: due ones and those of the old rule. *)
Counted(e) == e.due \/ (~e.v2 /\ e.affects)
RecentDue(events) ==
  LET among[n \in 0..Len(events)] ==     \* those of the first n
        IF n = 0 THEN <<>>
        ELSE IF Counted(events[n]) THEN Append(among[n - 1], events[n]) ELSE among[n - 1]
  IN among[Len(events)]

LatestOf(seq, n) == SubSeq(seq, IF Len(seq) > n THEN Len(seq) - n + 1 ELSE 1, Len(seq))
DueDay(events)   == LET due == RecentDue(events)
                    IN IF due = <<>> \/ ~due[Len(due)].v2 THEN Never ELSE due[Len(due)].day

(* qualifiesForMastery *)
Qualifies(due, ai, hinted, submitted) ==
  /\ due /\ ai = "GOOD" /\ ~hinted
  /\ submitted = "REMEMBERED" /\ ResolveEvidenceRating(submitted, ai, hinted) = "REMEMBERED"

(* The last clause of resolveEvidenceStatus. *)
\* (mutant ThreeSuccesses: three successes suffice, with other reviews between)
ThreeSuccesses(events) ==
  LET three == LatestOf(SelectSeq(events, LAMBDA e : e.qualifies), 3)
      All   == 1..Len(three)
  IN /\ Len(three) = 3
     /\ Cardinality({three[i].day : i \in All}) = 3
     /\ \E i \in All : three[i].cross

ThreeConfirm(events) ==
  LET three == LatestOf(RecentDue(events), 3)
      All   == 1..Len(three)
  IN /\ Len(three) = 3
     /\ Cardinality({three[i].day : i \in All}) = 3
     /\ \A i \in All : three[i].qualifies
     /\ \E i \in All : three[i].cross

(* resolveEvidenceStatus, with the event e already at the end of events. *)
EvidenceStatus(previous, events, e, rating, submitted, ai, hinted, mature) ==
  IF rating = "FORGOT" \/ ai = "WRONG" THEN "NEEDS_WORK"
  ELSE IF ~HasScore(ai) /\ ~hinted /\ submitted = "REMEMBERED" THEN previous
  ELSE IF rating # "REMEMBERED" \/ hinted THEN "LEARNING"
  ELSE IF ~e.due THEN previous
  ELSE IF ThreeConfirm(events) /\ mature THEN "MASTERED"
  ELSE "LEARNING"

(* calculateEvidenceReview: the schedule [on, mature] after a review. *)
Least(S) == CHOOSE x \in S : \A y \in S : x <= y

AppliesFsrs(rating, ai, due, initial) ==
  HasScore(ai) /\ (due \/ initial \/ rating # "REMEMBERED")

NextKey(on, rating, ai, due, initial, today, memory) ==
  LET success == rating = "REMEMBERED" /\ HasScore(ai)
      kept    == IF on # Never /\ (~HasScore(ai) \/ on > today) THEN {on} ELSE {}
  IN IF ~success THEN Least({today + memory.interval, today + 1} \cup kept)
     ELSE IF ~due /\ ~initial /\ on # Never THEN on
     ELSE today + memory.interval

EvidenceSchedule(schedule, rating, ai, due, initial, today, memory) ==
  [on     |-> NextKey(schedule.on, rating, ai, due, initial, today, memory),
   mature |-> IF AppliesFsrs(rating, ai, due, initial) THEN memory.mature ELSE schedule.mature]

EvidenceAffects(schedule, rating, ai, due, initial, today, memory) ==
  \/ schedule.on = Never
  \/ AppliesFsrs(rating, ai, due, initial)
  \/ NextKey(schedule.on, rating, ai, due, initial, today, memory) # schedule.on

(* resolveProgressStatus, the rule from before the evidence. *)
Affecting(events) == SelectSeq(events, LAMBDA e : e.affects)

LegacyStatus(events, rating, mature) ==
  LET three == LatestOf(Affecting(events), 3)
  IN IF mature /\ Len(three) = 3 /\ \A i \in 1..3 : three[i].clean THEN "MASTERED"
     ELSE IF rating = "FORGOT" THEN "NEEDS_WORK" ELSE "LEARNING"

(* chooseTrainingMode *)
TrainingMode(completed) ==
  IF completed = 0 THEN "UNDERSTAND"
  ELSE IF completed < 3 THEN "SUBSTITUTE"
  ELSE IF completed % 3 = 0 THEN "COMBINE" ELSE "TRANSFER"

Told(past) == SelectSeq(past, LAMBDA scene : scene # "")

(* chooseScenario among the scenes of a grammar, given those of its completed *)
(* sessions; "" is no scenario.  Which fresh scene comes first is left open.  *)
ChooseScenario(scenes, past, mode) ==
  LET told  == Told(past)
      last  == IF told = <<>> THEN "" ELSE told[Len(told)]
      left  == IF mode = "TRANSFER" THEN scenes \ {last} ELSE scenes
      fresh == left \ {told[i] : i \in 1..Len(told)}
  IN IF mode \in {"SUBSTITUTE", "COMBINE"} /\ last \in scenes THEN {last}
     ELSE IF left = {} THEN {""}
     ELSE IF fresh # {} THEN fresh ELSE left
=============================================================================
