---------------------------- MODULE StudySession ----------------------------
(***************************************************************************)
(* The study sessions of one learner and the time they are credited        *)
(* (src/src/study-sessions): heartbeats split by the learner's local day,  *)
(* the daily statistics they feed, the focus timer, and the refresh of a   *)
(* training context that an older release assigned.                        *)
(*                                                                         *)
(* Every handler takes the learner's row lock and then the session's, and  *)
(* reads the clock after them, so each is one action; only get() reads the *)
(* session before it locks it and is two.  One unit of the clock stands    *)
(* for the seconds of the code.                                            *)
(***************************************************************************)
EXTENDS Integers, FiniteSetsExt

CONSTANTS
  Sessions,      \* study sessions the learner may open
  MaxTime,       \* bound of the clock
  Grace,         \* what one heartbeat can credit at most (90 s)
  Minute,        \* units in a minute of the statistics
  Focus, Break,  \* the two phases of the timer (10 minutes each)
  DayLength,     \* units in a local day
  Offsets,       \* UTC offsets of the timezones the learner uses
  Legacy,        \* minutes the first day's statistics hold from before the ledger
  Stale          \* the sessions an earlier release may have opened

ASSUME SessionsAssumption == IsFiniteSet(Sessions) /\ Stale \subseteq Sessions
ASSUME ClockAssumption ==
  /\ MaxTime \in Nat /\ Grace \in Nat /\ Legacy \in Nat
  /\ Minute \in Nat \ {0} /\ Focus \in Nat \ {0} /\ Break \in Nat \ {0}
  /\ DayLength \in Nat \ {0}
  /\ Offsets \subseteq Nat /\ Offsets # {} /\ \A z \in Offsets : z < DayLength

Times == 0..MaxTime
Units == 0 .. MaxTime - 1          \* unit u lasts from instant u to u + 1

(* The local day, under offset z, of the unit that begins at t. *)
LocalDay(z, t) == (t + z) \div DayLength
Days == 0 .. (MaxTime + DayLength) \div DayLength
LegacyOf(d) == IF d = 0 THEN Legacy ELSE 0

Phases == {"FOCUS", "BREAK"}
Timer  == [phase : Phases, start : Nat, end : Nat]

Session ==
  [status  : {"NONE", "ACTIVE", "COMPLETED"},
   task    : BOOLEAN,              \* it serves a task of the plan
   created : Times,
   last    : Times,                \* lastActivityAt
   active  : Nat,                  \* activeSeconds
   ledger  : [Days -> Nat],        \* its StudyActivityDay rows
   timer   : Timer,
   context : {"OLD", "CURRENT"},   \* the release that assigned its training
   answered : BOOLEAN]             \* it has a sentence attempt

VARIABLES
  now,        \* the clock
  offset,     \* User.timezone
  sessions,
  stat,       \* DailyStudyStat: minutes and completed tasks of each day
  reading,    \* sessions a get() found in need of a refresh, not yet locked
  covered     \* history: how often each unit of time was credited

vars == <<now, offset, sessions, stat, reading, covered>>
-----------------------------------------------------------------------------
(* study-timer.ts *)
TimerState(phase, start, length) ==
  [phase |-> phase, start |-> start, end |-> start + length]

\* (mutant CycleFromNow: the time into the cycle is not taken off)
CycleFromNow(anchor, elapsed) ==
  IF elapsed % (Focus + Break) < Focus
  THEN TimerState("FOCUS", anchor + elapsed, Focus)
  ELSE TimerState("BREAK", anchor + elapsed + Focus, Break)

FromCycleStart(anchor, elapsed) ==
  LET into  == elapsed % (Focus + Break)
      cycle == anchor + elapsed - into
  IN IF into < Focus
     THEN TimerState("FOCUS", cycle, Focus)
     ELSE TimerState("BREAK", cycle + Focus, Break)

ResolveTimer(t, at) ==
  CASE at < t.end -> t
    [] at >= t.end /\ t.phase = "FOCUS" /\ at - t.end < Break ->
         TimerState("BREAK", t.end, Break)
    [] at >= t.end /\ t.phase = "FOCUS" /\ at - t.end >= Break ->
         FromCycleStart(t.end + Break, at - t.end - Break)
    [] at >= t.end /\ t.phase = "BREAK" -> FromCycleStart(t.end, at - t.end)

InitialTimer == TimerState("FOCUS", now, Focus)
-----------------------------------------------------------------------------
(* study-session-ledger.ts *)
CeilMinutes(units) == (units + Minute - 1) \div Minute

(* Only sessions with credited ledger rows move the shared cursor. *)
Credited(s) == sessions[s].status # "NONE" /\ \E d \in Days : sessions[s].ledger[d] > 0
\* (mutant OwnCursor: every session counts for itself)
OwnCursor(t) == TRUE

PastCursor(t) == \A s \in Sessions : Credited(s) => sessions[s].last <= t

(* The units a heartbeat of session s credits now. *)
Window(s) ==
  {u \in Units : /\ sessions[s].last <= u /\ now - Grace <= u /\ u < now
                 /\ PastCursor(u)}

(* splitActivityDays: a day gets the units that begin in it. *)
Split(units, z) == [d \in Days |-> Cardinality({u \in units : LocalDay(z, u) = d})]

(* The sum of some rows. *)
Total(rows) == MapThenSumSet(LAMBDA x : rows[x], DOMAIN rows)

LedgerOf(d) == Total([s \in Sessions |-> sessions[s].ledger[d]])

\* (mutant RoundedBySession: each session rounds its own seconds up)
RoundedBySession(s, d, more) ==
  CeilMinutes(sessions[s].ledger[d] + more) - CeilMinutes(sessions[s].ledger[d])

MinuteDelta(s, d, more) ==
  CeilMinutes(LedgerOf(d) + more) - CeilMinutes(LedgerOf(d))

(* creditStudyActivity: the session and the statistics once units are split. *)
CreditedSession(s, split) ==
  [sessions[s] EXCEPT
     !.ledger = [d \in Days |-> @[d] + split[d]],
     !.active = @ + Total(split),
     !.last   = now]

CreditedStat(s, split) ==
  [d \in Days |-> [stat[d] EXCEPT !.minutes = @ + MinuteDelta(s, d, split[d])]]

Cover(units) ==
  covered' = [u \in Units |-> IF u \in units THEN covered[u] + 1 ELSE covered[u]]

(* daily-budget.ts: the minutes of a day that its ledger does not explain. *)
LegacyMinutes(d) ==
  LET surplus == stat[d].minutes - CeilMinutes(LedgerOf(d))
  IN IF surplus > 0 THEN surplus ELSE 0
-----------------------------------------------------------------------------
Fresh(task, context) ==
  [status |-> "ACTIVE", task |-> task, created |-> now, last |-> now,
   active |-> 0, ledger |-> [d \in Days |-> 0], timer |-> InitialTimer,
   context |-> context, answered |-> FALSE]

NoSession == [Fresh(FALSE, "CURRENT") EXCEPT !.status = "NONE"]

(* A session may have been opened under an earlier practice catalogue. *)
Init ==
  /\ now = 0 /\ offset \in Offsets
  /\ sessions \in [Sessions -> {NoSession, Fresh(FALSE, "OLD")}]
  /\ \A s \in Sessions \ Stale : sessions[s] = NoSession
  /\ stat = [d \in Days |-> [minutes |-> LegacyOf(d), tasks |-> 0]]
  /\ reading = {} /\ covered = [u \in Units |-> 0]

(* createStudySession, once its checks have let it through (Learning.tla). *)
Create(s, task) ==
  /\ sessions[s].status = "NONE"
  /\ sessions' = [sessions EXCEPT ![s] = Fresh(task, "CURRENT")]
  /\ UNCHANGED <<now, offset, stat, reading, covered>>

(* recordStudyActivity reads the timezone of the user's row. *)
Heartbeat(s) ==
  /\ sessions[s].status = "ACTIVE"
  /\ LET window == Window(s)
         split  == Split(window, offset)
     IN /\ sessions' = [sessions EXCEPT ![s] = CreditedSession(s, split)]
        /\ stat' = CreditedStat(s, split)
        /\ Cover(window)
  /\ UNCHANGED <<now, offset, reading>>

MayComplete(s) == sessions[s].status = "ACTIVE"

(* completeStudySession ends in finishEvidenceSession; its timezone is the   *)
(* one the request was authenticated with, which the row may have left.      *)
Complete(s, z) ==
  /\ MayComplete(s)
  /\ LET window == Window(s)
         split  == Split(window, z)
         tasks  == IF sessions[s].task THEN 1 ELSE 0
     IN /\ sessions' = [sessions EXCEPT ![s] =
                          [CreditedSession(s, split) EXCEPT !.status = "COMPLETED"]]
        /\ stat' = [CreditedStat(s, split) EXCEPT ![LocalDay(z, now)].tasks = @ + tasks]
        /\ Cover(window)
  /\ UNCHANGED <<now, offset, reading>>

AdvanceTimer(s) ==
  /\ sessions[s].status = "ACTIVE"
  /\ ResolveTimer(sessions[s].timer, now) # sessions[s].timer
  /\ sessions' = [sessions EXCEPT ![s].timer = ResolveTimer(@, now)]
  /\ UNCHANGED <<now, offset, stat, reading, covered>>

(* SentenceReviewsService.create: an attempt answers the context of the session. *)
SubmitAttempt(s) ==
  /\ sessions[s].status = "ACTIVE"
  /\ sessions' = [sessions EXCEPT ![s].answered = TRUE]
  /\ UNCHANGED <<now, offset, stat, reading, covered>>

NeedsTrainingRefresh(s) ==
  /\ sessions[s].status = "ACTIVE" /\ ~sessions[s].answered
  /\ sessions[s].context = "OLD"

(* get() reads the session without a lock ... *)
Get(s) ==
  /\ NeedsTrainingRefresh(s) /\ s \notin reading
  /\ reading' = reading \cup {s}
  /\ UNCHANGED <<now, offset, sessions, stat, covered>>

(* ... and refreshTrainingContext decides again under the locks. *)
\* (mutant NeededBefore: the snapshot of the unlocked read decides)
NeededBefore(s) == TRUE

StillNeeded(s) == NeedsTrainingRefresh(s)

RefreshTrainingContext(s) ==
  /\ s \in reading /\ reading' = reading \ {s}
  /\ sessions' = IF StillNeeded(s)
                 THEN [sessions EXCEPT ![s].context = "CURRENT"] ELSE sessions
  /\ UNCHANGED <<now, offset, stat, covered>>

(* PUT me/preferences *)
ChangeTimezone(z) ==
  /\ offset # z /\ offset' = z
  /\ UNCHANGED <<now, sessions, stat, reading, covered>>

Tick ==
  /\ now < MaxTime /\ now' = now + 1
  /\ UNCHANGED <<offset, sessions, stat, reading, covered>>

Next ==
  \/ Tick \/ \E z \in Offsets : ChangeTimezone(z)
  \/ \E s \in Sessions :
       \/ \E task \in BOOLEAN : Create(s, task)
       \/ \E z \in Offsets : Complete(s, z)
       \/ Heartbeat(s) \/ AdvanceTimer(s) \/ SubmitAttempt(s)
       \/ Get(s) \/ RefreshTrainingContext(s)

Spec == Init /\ [][Next]_vars
=============================================================================
