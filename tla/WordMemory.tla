------------------------------ MODULE WordMemory ------------------------------
(***************************************************************************)
(* What the account remembers of one catalogue word, over the practices it *)
(* has of it.  The learner marks the word by hand, which outdates every    *)
(* practice of the earlier marking; a practice is assessed as evidence for *)
(* the word at most once, and only the first due one of a day moves the    *)
(* word's next date forward.  The lease of the worker and the allowance    *)
(* are VocabularyPractice's: here one round of a worker is one step.       *)
(***************************************************************************)
EXTENDS Subject

CONSTANTS Drills,          \* practices of the word
          DayLength,       \* of a local day and of the 24 hours of an interval
          Intervals,       \* the days FSRS may choose, 1 and more
          Assessments,     \* the provider's: records [used, target, meaning]
          MaxAttempts,     \* MAX_ATTEMPTS: claims of one job
          MaxRevision      \* the manual changes explored (a bound)

ASSUME DayAssumption == DayLength \in Nat \ {0} /\ Intervals \subseteq Nat \ {0}

VARIABLES word,            \* "VocabularyLearning", None without a row
          drill            \* "VocabularyPractice" of each practice

wordVars == <<word, drill>>

NoDrill == [status |-> "none", revision |-> 0, due |-> FALSE, created |-> 0, challenge |-> FALSE,
            answered |-> FALSE, attempts |-> 0, completed |-> None, counted |-> FALSE]

InitWord == word = None /\ drill = [x \in Drills |-> NoDrill]

SameDay(s, t) == s # None /\ t # None /\ s \div DayLength = t \div DayLength

InUse(x) == drill[x].status \in {"QUEUED", "READY", "ASSESSING"}
NoneOpen == \A x \in Drills : ~InUse(x)

IsEnabled == word # None /\ ~word.paused /\ (word.knowledge = "UNKNOWN" \/ word.practised)

(***************************************************************************)
(* Another practice that was due, was answered, and is over: the evidence  *)
(* its day had to give.                                                    *)
(***************************************************************************)
Spent(x) == drill[x].status \in {"COMPLETED", "FAILED"} /\ drill[x].answered /\ drill[x].due

\* dueLearning with the local day: what the due list and automatic selection take.
DueToday ==
  /\ IsEnabled /\ word.next # None /\ word.next <= now
  /\ \A x \in Drills : Spent(x) => ~SameDay(drill[x].created, now) /\ ~SameDay(drill[x].completed, now)

(***************************************************************************)
(* manualChange: the mark each action sets, or the same for no change.     *)
(***************************************************************************)
Marks == {"UNKNOWN", "PRACTICE", "REMEMBERED", "PAUSE", "RESUME", "STOP_PRACTICE"}

NewWord == [knowledge |-> "UNKNOWN", practised |-> FALSE, paused |-> FALSE, revision |-> 0,
            next |-> now, reviewed |-> None]

Marked(w, mark) ==
  CASE mark = "UNKNOWN" /\ ~(w.knowledge = "UNKNOWN" /\ ~w.practised) ->
         [w EXCEPT !.knowledge = "UNKNOWN", !.practised = FALSE, !.next = now]
    [] mark = "PRACTICE" /\ ~w.practised ->
         [w EXCEPT !.knowledge = IF @ = "UNKNOWN" THEN "KNOWN" ELSE @, !.practised = TRUE,
                   !.next = IF @ = None THEN now ELSE @]
    [] mark = "REMEMBERED" /\ w.knowledge # "REMEMBERED" ->
         [w EXCEPT !.knowledge = "REMEMBERED", !.next = IF w.practised THEN @ ELSE None]
    [] mark = "PAUSE" -> [w EXCEPT !.paused = TRUE]
    [] mark = "RESUME" -> [w EXCEPT !.paused = FALSE]
    [] mark = "STOP_PRACTICE" /\ w.practised ->
         [w EXCEPT !.practised = FALSE, !.next = IF w.knowledge = "UNKNOWN" THEN @ ELSE None]
    [] OTHER -> w

(***************************************************************************)
(* setLearning, under the word's lock: a first mark creates the row; a     *)
(* change raises the revision and ends the practice that is open.          *)
(***************************************************************************)
SetLearning(mark) ==
  LET w == IF word = None THEN NewWord ELSE word
      changed == Marked(w, mark) # w
  IN
  /\ Plays("learner") /\ MayWrite
  /\ word # None \/ mark \in {"UNKNOWN", "PRACTICE", "REMEMBERED"}
  /\ changed => w.revision < MaxRevision
  /\ word' = IF changed THEN [Marked(w, mark) EXCEPT !.revision = @ + 1] ELSE w
  /\ drill' = [x \in Drills |-> IF changed /\ InUse(x) THEN [drill[x] EXCEPT !.status = "FAILED"]
                                ELSE drill[x]]
  /\ UNCHANGED subjectVars

(***************************************************************************)
(* start: the learner names the word, or takes it from the due list, which *)
(* is looked at again under the lock.  An open practice is found again.    *)
(***************************************************************************)
StartDrill(x, automatic) ==
  /\ Plays(x) /\ drill[x].status = "none" /\ MayWrite
  /\ IsEnabled /\ NoneOpen
  /\ automatic => DueToday
  /\ drill' = [drill EXCEPT ![x] =
       [NoDrill EXCEPT !.status = "QUEUED", !.revision = word.revision, !.created = now,
                       !.due = word.next # None /\ word.next <= now]]
  /\ UNCHANGED <<word, subjectVars>>

(***************************************************************************)
(* answer: also of a practice that is over, if no other is open (a unique  *)
(* index); only the answers before an assessment are the practice's own.   *)
(***************************************************************************)
AnswerDrill(x) ==
  /\ MayWrite /\ drill[x].challenge
  /\ drill[x].status \in {"READY", "COMPLETED", "FAILED"}
  /\ \A other \in Drills \ {x} : ~InUse(other)
  /\ drill' = [drill EXCEPT ![x].status = "ASSESSING", ![x].answered = TRUE, ![x].attempts = 0]
  /\ UNCHANGED <<word, subjectVars>>

RetryDrill(x) ==
  /\ drill[x].status = "FAILED" /\ drill[x].attempts < MaxAttempts /\ MayWrite
  /\ IsEnabled /\ drill[x].revision = word.revision /\ NoneOpen
  /\ drill' = [drill EXCEPT ![x].status = IF drill[x].answered THEN "ASSESSING" ELSE "QUEUED"]
  /\ UNCHANGED <<word, subjectVars>>

(***************************************************************************)
(* The worker claims a job while it has attempts left, asks the provider   *)
(* and writes the end of the round.                                        *)
(***************************************************************************)
Current(x) == IsEnabled /\ drill[x].revision = word.revision

Ended(x, status) == [drill[x] EXCEPT !.status = status, !.attempts = @ + 1]

FailDrill(x) ==
  /\ drill[x].status \in {"QUEUED", "ASSESSING"} /\ drill[x].attempts < MaxAttempts
  /\ drill' = [drill EXCEPT ![x] = Ended(x, "FAILED")]
  /\ UNCHANGED <<word, subjectVars>>

Generate(x) ==
  /\ drill[x].status = "QUEUED" /\ drill[x].attempts < MaxAttempts /\ Current(x)
  /\ drill' = [drill EXCEPT ![x].status = "READY", ![x].challenge = TRUE, ![x].attempts = 0]
  /\ UNCHANGED <<word, subjectVars>>

(***************************************************************************)
(* wordOutcome: what an assessment shows of the word.  Whether hints       *)
(* helped only changes the interval FSRS chooses, which is left open.      *)
(***************************************************************************)
WordOutcome(a) ==
  LET verdicts == {a.target, a.meaning} IN
  CASE a.used /\ "wrong" \in verdicts -> "INCORRECT"
    [] a.used /\ verdicts = {"right"} -> "CORRECT"
    [] OTHER -> "UNVERIFIED"

\* (mutant ThatDayOnly: an earlier practice is looked for on its own day)
ThatDayOnly(x) == {y \in Drills \ {x} : Spent(y) /\ SameDay(drill[y].created, drill[x].created)}

Earlier(x) == {y \in Drills \ {x} : /\ Spent(y)
                                    /\ \/ SameDay(drill[y].completed, now)
                                       \/ SameDay(drill[y].created, drill[x].created)}

Eligible(x) == drill[x].due /\ Earlier(x) = {} /\ ~SameDay(word.reviewed, now)

Tomorrow == now + DayLength

(***************************************************************************)
(* scheduleWord: evidence sets the next date by FSRS, a failure by a day;  *)
(* any other failure only brings a later date closer.                      *)
(***************************************************************************)
ScheduleWord(x, outcome, days) ==
  CASE outcome # "UNVERIFIED" /\ Eligible(x) ->
         [word EXCEPT !.reviewed = now,
                      !.next = IF outcome = "INCORRECT" THEN Tomorrow ELSE now + days * DayLength]
    [] outcome = "INCORRECT" /\ ~Eligible(x) ->
         [word EXCEPT !.next = IF @ # None /\ @ > Tomorrow THEN Tomorrow ELSE @]
    [] OTHER -> word

(***************************************************************************)
(* complete: a correction of an assessed practice changes nothing else.    *)
(***************************************************************************)
Assess(x, a, days) ==
  LET outcome == WordOutcome(a)
      first == Current(x) /\ drill[x].completed = None
  IN
  /\ drill[x].status = "ASSESSING" /\ drill[x].attempts < MaxAttempts
  /\ drill' = [drill EXCEPT ![x] =
       IF ~Current(x) THEN Ended(x, "FAILED")
       ELSE IF ~first THEN Ended(x, "COMPLETED")
       ELSE [Ended(x, "COMPLETED") EXCEPT !.completed = now,
                                          !.counted = outcome # "UNVERIFIED" /\ Eligible(x)]]
  /\ word' = IF first THEN ScheduleWord(x, outcome, days) ELSE word
  /\ UNCHANGED subjectVars

NextWord ==
  \/ \E mark \in Marks : SetLearning(mark)
  \/ \E x \in Drills :
       \/ \E automatic \in BOOLEAN : StartDrill(x, automatic)
       \/ AnswerDrill(x) \/ RetryDrill(x) \/ Generate(x) \/ FailDrill(x)
       \/ \E a \in Assessments, days \in Intervals : Assess(x, a, days)
==============================================================================
