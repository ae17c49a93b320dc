----------------------------- MODULE TimeProofs -----------------------------
(***************************************************************************)
(* Time that must not be counted twice nor be lost: the seconds a member   *)
(* studies and the membership a member buys.                               *)
(*                                                                         *)
(* No second of study is credited twice, for any number of sessions, any   *)
(* timezones and any lengths of heartbeat, minute, phase and day.  The     *)
(* reason is the cursor: a unit that was credited lies before the last     *)
(* activity of a session that has rows in the ledger, and a heartbeat      *)
(* takes no unit before the last activity of any such session.             *)
(*                                                                         *)
(* Then: the timer keeps its rhythm and an answered training stays, and    *)
(* the statistics are the ledger, for which sums over days are needed.     *)
(*                                                                         *)
(* Purchased time is neither lost nor gained, and membership ends when it  *)
(* is all consumed, for any finite set of orders, any durations and any    *)
(* second.  The reason is the timetable: the grants in effect follow each  *)
(* other without gap or overlap, whatever was suspended, revoked or laid   *)
(* again.                                                                  *)
(***************************************************************************)
EXTENDS StudyProperties, EntitlementProperties, FiniteSetTheorems, WellFoundedInduction, TLAPS

Fields == {"status", "task", "created", "last", "active", "ledger", "timer", "context", "answered"}

(* What the credit reads of a session; of the rest only that it is there. *)
Sound(s) ==
  /\ DOMAIN sessions[s] = Fields
  /\ sessions[s] = [f \in Fields |-> sessions[s][f]]
  /\ sessions[s].last \in Nat /\ sessions[s].last <= now
  /\ sessions[s].ledger \in [Days -> Nat]

Typed ==
  /\ now \in Nat /\ offset \in Offsets
  /\ DOMAIN sessions = Sessions /\ sessions = [s \in Sessions |-> sessions[s]]
  /\ \A s \in Sessions : Sound(s)
  /\ covered \in [Units -> Nat]

(* A credited unit lies before the cursor. *)
BeforeCursor(u) == \E s \in Sessions : Credited(s) /\ u < sessions[s].last

CreditedIsPast == \A u \in Units : covered[u] # 0 => BeforeCursor(u)

IInv == Typed /\ CreditedIsPast /\ TimeCountedOnce
-----------------------------------------------------------------------------
(* Moments and days are numbers, and the day of every moment has a row. *)
LEMMA DayOfTime ==
  ASSUME NEW z \in Offsets, NEW u \in Times
  PROVE  LocalDay(z, u) \in Days
<1>1. MaxTime \in Nat /\ DayLength \in Nat /\ DayLength > 0 /\ z \in Nat /\ z < DayLength
  BY ClockAssumption
<1>2. u \in Nat /\ u + z <= MaxTime + DayLength  BY <1>1 DEF Times
<1>3. (u + z) \div DayLength \in Nat
      /\ (u + z) \div DayLength <= (MaxTime + DayLength) \div DayLength
  <2> DEFINE n == DayLength
             a == u + z
             b == MaxTime + DayLength
  <2>1. a \in Nat /\ b \in Nat /\ a <= b /\ n \in Nat /\ n > 0  BY <1>1, <1>2
  <2> HIDE DEF n, a, b
  <2>2. a = n * (a \div n) + (a % n) /\ 0 <= a % n /\ a % n < n /\ a \div n \in Int
    BY <2>1, Z3
  <2>3. b = n * (b \div n) + (b % n) /\ 0 <= b % n /\ b % n < n /\ b \div n \in Int
    BY <2>1, Z3
  <2>4. a \div n \in Nat /\ a \div n <= b \div n  BY <2>1, <2>2, <2>3, Z3
  <2> QED  BY <2>4 DEF n, a, b
<1> QED  BY <1>3, <1>1 DEF LocalDay, Days

LEMMA DayOfUnit ==
  ASSUME NEW z \in Offsets, NEW u \in Units
  PROVE  LocalDay(z, u) \in Days
<1>1. u \in Times  BY ClockAssumption DEF Units, Times
<1> QED  BY <1>1, DayOfTime

(* The rows a window adds are numbers, and a window that is not empty adds *)
(* to the day of each of its units.                                        *)
LEMMA SplitCounts ==
  ASSUME NEW z \in Offsets, NEW units \in SUBSET Units
  PROVE  /\ Split(units, z) \in [Days -> Nat]
         /\ \A u \in units : Split(units, z)[LocalDay(z, u)] > 0
<1>1. IsFiniteSet(Units)  BY FS_Interval, ClockAssumption DEF Units
<1>2. ASSUME NEW d \in Days
      PROVE  IsFiniteSet({u \in units : LocalDay(z, u) = d})
  BY <1>1, FS_Subset
<1>3. \A d \in Days : Cardinality({u \in units : LocalDay(z, u) = d}) \in Nat
  BY <1>2, FS_CardinalityType
<1>4. ASSUME NEW u \in units
      PROVE  Split(units, z)[LocalDay(z, u)] > 0
  <2>1. LocalDay(z, u) \in Days  BY DayOfUnit
  <2> DEFINE S == {v \in units : LocalDay(z, v) = LocalDay(z, u)}
  <2>2. IsFiniteSet(S) /\ S # {} /\ Split(units, z)[LocalDay(z, u)] = Cardinality(S)
    BY <1>2, <2>1 DEF Split
  <2>3. Cardinality(S) \in Nat /\ Cardinality(S) # 0
    BY <2>2, FS_EmptySet, FS_CardinalityType
  <2> QED  BY <2>2, <2>3
<1> QED  BY <1>3, <1>4 DEF Split
-----------------------------------------------------------------------------
(* A heartbeat, or the completion of a session: whatever else it changes,  *)
(* the session's last activity and its rows become those of the credit.    *)
LEMMA CreditKeeps ==
  ASSUME IInv, NEW s \in Sessions, NEW z \in Offsets, NEW x,
         sessions[s].status # "NONE",
         DOMAIN x = Fields, x = [f \in Fields |-> x[f]],
         x.status # "NONE", x.last = now,
         x.ledger = [d \in Days |-> sessions[s].ledger[d] + Split(Window(s), z)[d]],
         sessions' = [sessions EXCEPT ![s] = x],
         Cover(Window(s)), now' = now, offset' = offset
  PROVE  IInv'
<1> DEFINE split == Split(Window(s), z)
<1>1. Window(s) \subseteq Units  BY DEF Window
<1>2. split \in [Days -> Nat] /\ \A u \in Window(s) : split[LocalDay(z, u)] > 0
  BY <1>1, SplitCounts
<1>3. sessions'[s] = x /\ \A o \in Sessions \ {s} : sessions'[o] = sessions[o]
  BY DEF IInv, Typed
<1> HIDE DEF split
<1>4. x.ledger \in [Days -> Nat] /\ \A d \in Days : x.ledger[d] = sessions[s].ledger[d] + split[d]
  <2>1. sessions[s].ledger \in [Days -> Nat]  BY DEF IInv, Typed, Sound
  <2> QED  BY <2>1, <1>2 DEF split
<1>5. \A o \in Sessions : Credited(o) => Credited(o)' /\ sessions'[o].last >= sessions[o].last
  <2> SUFFICES ASSUME NEW o \in Sessions, Credited(o)
               PROVE  Credited(o)' /\ sessions'[o].last >= sessions[o].last
    OBVIOUS
  <2>1. Sound(o)  BY DEF IInv, Typed
  <2>2. CASE o # s  BY <2>1, <2>2, <1>3 DEF Credited, Sound
  <2>3. CASE o = s
    <3>1. PICK d \in Days : sessions[s].ledger[d] > 0  BY <2>3 DEF Credited
    <3>2. sessions[s].ledger[d] \in Nat /\ split[d] \in Nat  BY <2>1, <2>3, <1>2 DEF Sound
    <3>3. x.ledger[d] > 0  BY <3>1, <3>2, <1>4
    <3>4. now >= sessions[s].last  BY <2>1, <2>3 DEF Sound, IInv, Typed
    <3> QED  BY <2>3, <3>3, <3>4, <1>3 DEF Credited
  <2> QED  BY <2>2, <2>3
<1>6. Typed'
  <2>1. covered' \in [Units -> Nat]
    BY DEF IInv, Typed, Cover
  <2>2. ASSUME NEW o \in Sessions PROVE Sound(o)'
    <3>1. CASE o = s  BY <3>1, <1>3, <1>4 DEF Sound, IInv, Typed
    <3>2. CASE o # s  BY <3>2, <1>3 DEF Sound, IInv, Typed
    <3> QED  BY <3>1, <3>2
  <2>3. DOMAIN sessions' = Sessions /\ sessions' = [o \in Sessions |-> sessions'[o]]
    BY DEF IInv, Typed
  <2> QED  BY <2>1, <2>2, <2>3 DEF IInv, Typed
<1>7. ASSUME NEW u \in Window(s)
      PROVE  BeforeCursor(u)' /\ covered'[u] = 1
  <2>1. u \in Units /\ u < now /\ PastCursor(u)  BY DEF Window
  <2>2. LocalDay(z, u) \in Days  BY <2>1, DayOfUnit
  <2>3. x.ledger[LocalDay(z, u)] > 0
    <3>1. sessions[s].ledger[LocalDay(z, u)] \in Nat  BY <2>2 DEF IInv, Typed, Sound
    <3>2. split[LocalDay(z, u)] \in Nat /\ split[LocalDay(z, u)] > 0  BY <1>2, <2>2
    <3> QED  BY <3>1, <3>2, <2>2, <1>4
  <2>4. Credited(s)' /\ u < sessions'[s].last  BY <2>1, <2>2, <2>3, <1>3 DEF Credited
  <2>5. covered[u] = 0
    <3>1. u \in Int  BY <2>1, ClockAssumption DEF Units
    <3>2. \A o \in Sessions : Credited(o) => sessions[o].last <= u /\ sessions[o].last \in Nat
      BY <2>1 DEF PastCursor, IInv, Typed, Sound
    <3> QED  BY <2>1, <3>1, <3>2 DEF IInv, CreditedIsPast, BeforeCursor
  <2> QED  BY <2>1, <2>4, <2>5 DEF BeforeCursor, Cover
<1>8. ASSUME NEW u \in Units \ Window(s)
      PROVE  covered'[u] = covered[u] /\ (BeforeCursor(u) => BeforeCursor(u)')
  <2>1. covered'[u] = covered[u]  BY DEF Cover
  <2>2. ASSUME BeforeCursor(u) PROVE BeforeCursor(u)'
    <3>1. PICK o \in Sessions : Credited(o) /\ u < sessions[o].last  BY <2>2 DEF BeforeCursor
    <3>2. u \in Int /\ sessions[o].last \in Nat /\ sessions'[o].last \in Nat
      BY <1>6, ClockAssumption, SMTT(30) DEF Units, IInv, Typed, Sound
    <3> QED  BY <3>1, <3>2, <1>5 DEF BeforeCursor
  <2> QED  BY <2>1, <2>2
<1> QED  BY <1>6, <1>7, <1>8 DEF IInv, CreditedIsPast, TimeCountedOnce

(* A step that leaves the credit alone: what it read and wrote stays. *)
LEMMA CalmKeeps ==
  ASSUME IInv, covered' = covered, now' \in Nat, now' >= now, offset' \in Offsets,
         DOMAIN sessions' = Sessions, sessions' = [s \in Sessions |-> sessions'[s]],
         \A s \in Sessions : Sound(s)',
         \A s \in Sessions : Credited(s) => Credited(s)' /\ sessions'[s].last = sessions[s].last
  PROVE  IInv'
<1>1. Typed'  BY DEF IInv, Typed
<1>2. \A u \in Units : BeforeCursor(u) => BeforeCursor(u)'  BY DEF BeforeCursor
<1> QED  BY <1>1, <1>2 DEF IInv, CreditedIsPast, TimeCountedOnce

(* The same when one session is exchanged for one with the same credit. *)
LEMMA OneCalmKeeps ==
  ASSUME IInv, NEW s \in Sessions, NEW x,
         DOMAIN x = Fields, x = [f \in Fields |-> x[f]],
         x.status = sessions[s].status, x.last = sessions[s].last, x.ledger = sessions[s].ledger,
         sessions' = [sessions EXCEPT ![s] = x],
         covered' = covered, now' = now, offset' = offset
  PROVE  IInv'
<1>1. sessions'[s] = x /\ \A o \in Sessions \ {s} : sessions'[o] = sessions[o]
  BY DEF IInv, Typed
<1>2. DOMAIN sessions' = Sessions /\ sessions' = [o \in Sessions |-> sessions'[o]]
  BY DEF IInv, Typed
<1>3. ASSUME NEW o \in Sessions
      PROVE  Sound(o)' /\ (Credited(o) => Credited(o)' /\ sessions'[o].last = sessions[o].last)
  <2>1. CASE o = s
    <3>1. Sound(s) /\ now' = now  BY DEF IInv, Typed
    <3>2. Sound(s)'  BY <3>1, <1>1 DEF Sound
    <3>3. Credited(s) => Credited(s)'  BY <1>1 DEF Credited
    <3> QED  BY <2>1, <3>2, <3>3, <1>1
  <2>2. CASE o # s  BY <2>2, <1>1 DEF Sound, Credited, IInv, Typed
  <2> QED  BY <2>1, <2>2
<1>4. now' \in Nat /\ now' >= now /\ offset' \in Offsets  BY DEF IInv, Typed
<1> QED  BY <1>2, <1>3, <1>4, CalmKeeps
-----------------------------------------------------------------------------
(* A session is opened with nothing credited. *)
LEMMA FreshIsSound ==
  ASSUME now \in Nat, NEW task, NEW context
  PROVE  LET x == Fresh(task, context) IN
         /\ DOMAIN x = Fields /\ x = [f \in Fields |-> x[f]]
         /\ x.status = "ACTIVE" /\ x.last = now
         /\ x.ledger = [d \in Days |-> 0]
BY DEF Fresh, Fields

LEMMA InitKeeps == Init => IInv
<1> SUFFICES ASSUME Init PROVE IInv
  OBVIOUS
<1>1. now \in Nat /\ now = 0 /\ offset \in Offsets /\ covered = [u \in Units |-> 0]
  BY DEF Init
<1> DEFINE old == Fresh(FALSE, "OLD")
           none == NoSession
<1>2. /\ DOMAIN old = Fields /\ old = [f \in Fields |-> old[f]]
      /\ old.last = now /\ old.ledger = [d \in Days |-> 0]
  BY <1>1, FreshIsSound
<1>3. /\ DOMAIN none = Fields /\ none = [f \in Fields |-> none[f]]
      /\ none.last = now /\ none.ledger = [d \in Days |-> 0]
  BY <1>1 DEF NoSession, Fresh, Fields
<1>4. sessions \in [Sessions -> {none, old}]  BY DEF Init
<1> HIDE DEF old, none
<1>5. \A s \in Sessions : Sound(s)
  <2> SUFFICES ASSUME NEW s \in Sessions PROVE Sound(s)
    OBVIOUS
  <2>1. sessions[s] = none \/ sessions[s] = old  BY <1>4
  <2> QED  BY <2>1, <1>1, <1>2, <1>3 DEF Sound
<1>6. Typed  BY <1>1, <1>4, <1>5 DEF Typed
<1> QED  BY <1>1, <1>6 DEF IInv, CreditedIsPast, TimeCountedOnce

LEMMA CreateKeeps ==
  ASSUME IInv, NEW s \in Sessions, NEW task \in BOOLEAN, Create(s, task)
  PROVE  IInv'
<1> DEFINE x == Fresh(task, "CURRENT")
<1>1. /\ DOMAIN x = Fields /\ x = [f \in Fields |-> x[f]]
      /\ x.last = now /\ x.ledger = [d \in Days |-> 0]
  BY FreshIsSound DEF IInv, Typed
<1>2. /\ sessions[s].status = "NONE" /\ sessions' = [sessions EXCEPT ![s] = x]
      /\ covered' = covered /\ now' = now /\ offset' = offset
  BY DEF Create
<1> HIDE DEF x
<1>3. sessions'[s] = x /\ \A o \in Sessions \ {s} : sessions'[o] = sessions[o]
  BY <1>2 DEF IInv, Typed
<1>4. DOMAIN sessions' = Sessions /\ sessions' = [o \in Sessions |-> sessions'[o]]
  BY <1>2 DEF IInv, Typed
<1>5. ASSUME NEW o \in Sessions
      PROVE  Sound(o)' /\ (Credited(o) => Credited(o)' /\ sessions'[o].last = sessions[o].last)
  <2>1. CASE o = s
    <3>1. Sound(s)'  BY <1>1, <1>2, <1>3, SMTT(30) DEF Sound, IInv, Typed
    <3> QED  BY <2>1, <3>1, <1>2 DEF Credited
  <2>2. CASE o # s  BY <2>2, <1>2, <1>3 DEF Sound, Credited, IInv, Typed
  <2> QED  BY <2>1, <2>2
<1>6. now' \in Nat /\ now' >= now /\ offset' \in Offsets  BY <1>2 DEF IInv, Typed
<1> QED  BY <1>2, <1>4, <1>5, <1>6, CalmKeeps

LEMMA HeartbeatKeeps ==
  ASSUME IInv, NEW s \in Sessions, Heartbeat(s)
  PROVE  IInv'
<1> DEFINE x == CreditedSession(s, Split(Window(s), offset))
<1>1. DOMAIN sessions[s] = Fields /\ sessions[s] = [f \in Fields |-> sessions[s][f]]
  BY DEF IInv, Typed, Sound
<1>2. /\ DOMAIN x = Fields /\ x = [f \in Fields |-> x[f]]
      /\ x.status = sessions[s].status /\ x.last = now
      /\ x.ledger = [d \in Days |-> sessions[s].ledger[d] + Split(Window(s), offset)[d]]
  BY <1>1 DEF CreditedSession, Fields
<1>3. /\ sessions[s].status = "ACTIVE" /\ sessions' = [sessions EXCEPT ![s] = x]
      /\ Cover(Window(s)) /\ now' = now /\ offset' = offset /\ offset \in Offsets
  BY DEF Heartbeat, IInv, Typed
<1> HIDE DEF x
<1>4. x.status # "NONE" /\ sessions[s].status # "NONE"  BY <1>2, <1>3
<1> QED  BY <1>2, <1>3, <1>4, CreditKeeps

LEMMA CompleteKeeps ==
  ASSUME IInv, NEW s \in Sessions, NEW z \in Offsets, Complete(s, z)
  PROVE  IInv'
<1> DEFINE y == CreditedSession(s, Split(Window(s), z))
           x == [y EXCEPT !.status = "COMPLETED"]
<1>1. DOMAIN sessions[s] = Fields /\ sessions[s] = [f \in Fields |-> sessions[s][f]]
  BY DEF IInv, Typed, Sound
<1>2. /\ DOMAIN y = Fields /\ y = [f \in Fields |-> y[f]] /\ y.last = now
      /\ y.ledger = [d \in Days |-> sessions[s].ledger[d] + Split(Window(s), z)[d]]
  BY <1>1 DEF CreditedSession, Fields
<1>3. /\ sessions[s].status = "ACTIVE" /\ sessions' = [sessions EXCEPT ![s] = x]
      /\ Cover(Window(s)) /\ now' = now /\ offset' = offset
  BY DEF Complete, MayComplete
<1> HIDE DEF y
<1>4. /\ DOMAIN x = Fields /\ x = [f \in Fields |-> x[f]]
      /\ x.status = "COMPLETED" /\ x.last = now
      /\ x.ledger = [d \in Days |-> sessions[s].ledger[d] + Split(Window(s), z)[d]]
  BY <1>2 DEF Fields
<1> HIDE DEF x
<1>5. x.status # "NONE" /\ sessions[s].status # "NONE"  BY <1>3, <1>4
<1> QED  BY <1>3, <1>4, <1>5, CreditKeeps

(* The timer, an answer and a new training change other fields. *)
LEMMA TimerKeeps ==
  ASSUME IInv, NEW s \in Sessions, AdvanceTimer(s)
  PROVE  IInv'
<1> DEFINE x == [sessions[s] EXCEPT !.timer = ResolveTimer(sessions[s].timer, now)]
<1>1. DOMAIN sessions[s] = Fields /\ sessions[s] = [f \in Fields |-> sessions[s][f]]
  BY DEF IInv, Typed, Sound
<1>2. /\ DOMAIN x = Fields /\ x = [f \in Fields |-> x[f]] /\ x.status = sessions[s].status
      /\ x.last = sessions[s].last /\ x.ledger = sessions[s].ledger
  BY <1>1 DEF Fields
<1>3. /\ sessions' = [sessions EXCEPT ![s] = x]
      /\ covered' = covered /\ now' = now /\ offset' = offset
  BY DEF AdvanceTimer
<1> HIDE DEF x
<1> QED  BY <1>2, <1>3, OneCalmKeeps

LEMMA AttemptKeeps ==
  ASSUME IInv, NEW s \in Sessions, SubmitAttempt(s)
  PROVE  IInv'
<1> DEFINE x == [sessions[s] EXCEPT !.answered = TRUE]
<1>1. DOMAIN sessions[s] = Fields /\ sessions[s] = [f \in Fields |-> sessions[s][f]]
  BY DEF IInv, Typed, Sound
<1>2. /\ DOMAIN x = Fields /\ x = [f \in Fields |-> x[f]] /\ x.status = sessions[s].status
      /\ x.last = sessions[s].last /\ x.ledger = sessions[s].ledger
  BY <1>1 DEF Fields
<1>3. /\ sessions' = [sessions EXCEPT ![s] = x]
      /\ covered' = covered /\ now' = now /\ offset' = offset
  BY DEF SubmitAttempt
<1> HIDE DEF x
<1> QED  BY <1>2, <1>3, OneCalmKeeps

LEMMA RefreshKeeps ==
  ASSUME IInv, NEW s \in Sessions, RefreshTrainingContext(s)
  PROVE  IInv'
<1>1. covered' = covered /\ now' = now /\ offset' = offset  BY DEF RefreshTrainingContext
<1>2. CASE StillNeeded(s)
  <2> DEFINE x == [sessions[s] EXCEPT !.context = "CURRENT"]
  <2>1. DOMAIN sessions[s] = Fields /\ sessions[s] = [f \in Fields |-> sessions[s][f]]
    BY DEF IInv, Typed, Sound
  <2>2. /\ DOMAIN x = Fields /\ x = [f \in Fields |-> x[f]] /\ x.status = sessions[s].status
        /\ x.last = sessions[s].last /\ x.ledger = sessions[s].ledger
    BY <2>1 DEF Fields
  <2>3. sessions' = [sessions EXCEPT ![s] = x]  BY <1>2 DEF RefreshTrainingContext
  <2> HIDE DEF x
  <2> QED  BY <1>1, <2>2, <2>3, OneCalmKeeps
<1>3. CASE ~StillNeeded(s)
  <2>1. sessions' = sessions  BY <1>3 DEF RefreshTrainingContext
  <2>2. \A o \in Sessions : Sound(o)' /\ (Credited(o) => Credited(o)')
    BY <1>1, <2>1 DEF Sound, Credited, IInv, Typed
  <2>3. now' \in Nat /\ now' >= now /\ offset' \in Offsets  BY <1>1 DEF IInv, Typed
  <2>4. DOMAIN sessions' = Sessions /\ sessions' = [o \in Sessions |-> sessions'[o]]
    BY <2>1 DEF IInv, Typed
  <2> QED  BY <1>1, <2>1, <2>2, <2>3, <2>4, CalmKeeps
<1> QED  BY <1>2, <1>3

(* The clock, the timezone and an unlocked read touch no session. *)
LEMMA ElsewhereKeeps ==
  ASSUME IInv, sessions' = sessions, covered' = covered,
         now' \in Nat, now' >= now, offset' \in Offsets
  PROVE  IInv'
<1>1. ASSUME NEW o \in Sessions PROVE Sound(o)' /\ (Credited(o) => Credited(o)')
  <2>1. Sound(o)  BY DEF IInv, Typed
  <2>2. now \in Nat  BY DEF IInv, Typed
  <2> QED  BY <2>1, <2>2 DEF Sound, Credited
<1>2. DOMAIN sessions' = Sessions /\ sessions' = [o \in Sessions |-> sessions'[o]]
  BY DEF IInv, Typed
<1> QED  BY <1>1, <1>2, CalmKeeps

LEMMA StepKeeps == IInv /\ [Next]_vars => IInv'
<1> SUFFICES ASSUME IInv, [Next]_vars PROVE IInv'
  OBVIOUS
<1> USE DEF Next
<1>0. now \in Nat /\ offset \in Offsets  BY DEF IInv, Typed
<1>1. CASE Tick  BY <1>0, <1>1, ElsewhereKeeps DEF Tick
<1>2. CASE \E z \in Offsets : ChangeTimezone(z)
  BY <1>0, <1>2, ElsewhereKeeps DEF ChangeTimezone
<1>3. ASSUME NEW s \in Sessions, NEW task \in BOOLEAN, Create(s, task) PROVE IInv'
  BY <1>3, CreateKeeps
<1>4. ASSUME NEW s \in Sessions, NEW z \in Offsets, Complete(s, z) PROVE IInv'
  BY <1>4, CompleteKeeps
<1>5. ASSUME NEW s \in Sessions, Heartbeat(s) PROVE IInv'  BY <1>5, HeartbeatKeeps
<1>6. ASSUME NEW s \in Sessions, AdvanceTimer(s) PROVE IInv'  BY <1>6, TimerKeeps
<1>7. ASSUME NEW s \in Sessions, SubmitAttempt(s) PROVE IInv'  BY <1>7, AttemptKeeps
<1>8. ASSUME NEW s \in Sessions, Get(s) PROVE IInv'
  BY <1>0, <1>8, ElsewhereKeeps DEF Get
<1>9. ASSUME NEW s \in Sessions, RefreshTrainingContext(s) PROVE IInv'
  BY <1>9, RefreshKeeps
<1>10. CASE UNCHANGED vars  BY <1>0, <1>10, ElsewhereKeeps DEF vars
<1> QED  BY <1>1, <1>2, <1>3, <1>4, <1>5, <1>6, <1>7, <1>8, <1>9, <1>10

(* No second of the learner's day is credited twice, however many sessions *)
(* and devices send heartbeats (creditStudyActivity).                      *)
THEOREM CreditedOnce == Spec => []TimeCountedOnce
<1>1. IInv => TimeCountedOnce  BY DEF IInv
<1> QED  BY InitKeeps, StepKeeps, <1>1, PTL DEF Spec
-----------------------------------------------------------------------------
(***************************************************************************)
(* The timer.  Focus and break alternate from the moment the session was   *)
(* created, and the stored timer is always the phase of some earlier       *)
(* moment; resolving it now gives the phase of now, whichever that moment  *)
(* was, because what was left out is a whole number of cycles.             *)
(***************************************************************************)
Cycle == Focus + Break

(* The phase of moment n in a session created at c. *)
Schedule(c, n) ==
  LET into == (n - c) % Cycle
  IN IF into < Focus THEN TimerState("FOCUS", n - into, Focus)
                     ELSE TimerState("BREAK", n - into + Focus, Break)

LEMMA CycleIsNumber == Cycle \in Nat /\ Cycle > 0 /\ Focus \in Nat /\ Break \in Nat
                       /\ Focus > 0 /\ Break > 0 /\ Cycle = Focus + Break
BY ClockAssumption DEF Cycle

LEMMA Division ==
  ASSUME NEW m \in Nat, m > 0, NEW a \in Int
  PROVE  a \div m \in Int /\ a % m \in 0 .. m - 1 /\ a = m * (a \div m) + (a % m)
<1>1. a \div m \in Int /\ a % m \in Int /\ 0 <= a % m /\ a % m < m
      /\ a = m * (a \div m) + (a % m)
  BY Z3
<1> QED  BY <1>1

LEMMA Remainder ==
  ASSUME NEW m \in Nat, m > 0, NEW q \in Int, NEW r \in 0 .. m - 1,
         NEW a \in Int, a = m * q + r
  PROVE  a % m = r
<1>1. PICK p \in Int, t \in 0 .. m - 1 : a = m * p + t /\ t = a % m  BY Division
<1>2. PICK d \in Int : d = q - p  BY <1>1
<1>3. m * d = t - r
  <2>1. m * q = m * d + m * p  BY <1>1, <1>2, Z3
  <2> QED  BY <1>1, <2>1
<1>4. ~(d >= 1)
  <2> SUFFICES ASSUME d >= 1 PROVE FALSE
    OBVIOUS
  <2>1. m * d >= m  BY Z3
  <2> QED  BY <1>1, <1>3, <2>1
<1>5. ~(d <= -1)
  <2> SUFFICES ASSUME d <= -1 PROVE FALSE
    OBVIOUS
  <2>1. m * d <= -m  BY Z3
  <2> QED  BY <1>1, <1>3, <2>1
<1>6. d = 0  BY <1>4, <1>5
<1> QED  BY <1>1, <1>3, <1>6, Z3

(* Whole cycles do not matter: taken from the start of a's cycle, b is as  *)
(* far into its own.                                                       *)
LEMMA SameInCycle ==
  ASSUME NEW a \in Nat, NEW b \in Nat
  PROVE  (b - (a - (a % Cycle))) % Cycle = b % Cycle
<1>1. PICK m \in Nat : m = Cycle /\ m > 0  BY CycleIsNumber
<1>2. PICK q \in Int, i \in 0 .. m - 1 : a = m * q + i /\ i = a % m  BY <1>1, Division
<1>3. PICK c \in Int : c = b - (a - i)  BY <1>2
<1>4. PICK p \in Int, r \in 0 .. m - 1 : c = m * p + r /\ r = c % m  BY <1>1, Division
<1>5. b = m * (p + q) + r
  <2>1. PICK x \in Int, y \in Int : x = m * q /\ y = m * p  OBVIOUS
  <2>2. m * (p + q) = y + x  BY <2>1, Z3
  <2>3. a = x + i /\ c = y + r  BY <1>2, <1>4, <2>1
  <2>4. b = y + x + r  BY <1>3, <2>3
  <2> QED  BY <2>2, <2>4
<1>6. p + q \in Int  OBVIOUS
<1>7. b % m = r  BY <1>1, <1>5, <1>6, Remainder
<1> QED  BY <1>1, <1>2, <1>3, <1>4, <1>7

LEMMA WithinCycle == ASSUME NEW x \in Nat, x < Cycle PROVE x % Cycle = x
<1>1. PICK m \in Nat : m = Cycle /\ m > 0  BY CycleIsNumber
<1>2. x \in 0 .. m - 1 /\ x = m * 0 + x  BY <1>1
<1> QED  BY <1>1, <1>2, Remainder

LEMMA OneCycleLess == ASSUME NEW x \in Nat PROVE (x - Cycle) % Cycle = x % Cycle
<1>1. PICK m \in Nat : m = Cycle /\ m > 0  BY CycleIsNumber
<1>2. m = m * 1 + 0 /\ 0 \in 0 .. m - 1  BY <1>1
<1>3. m % m = 0  BY <1>1, <1>2, Remainder
<1>4. (x - (m - (m % m))) % m = x % m  BY <1>1, SameInCycle
<1> QED  BY <1>1, <1>3, <1>4

(* From the start of the next cycle the rest is computed. *)
LEMMA FromNextCycle ==
  ASSUME NEW c \in Nat, NEW n \in Nat, NEW b \in Int, NEW x \in Nat,
         x = n - b, x >= Cycle, x % Cycle = (n - c) % Cycle
  PROVE  FromCycleStart(b + Cycle, x - Cycle) = Schedule(c, n)
<1>1. PICK m \in Nat : m = Cycle /\ m > 0  BY CycleIsNumber
<1>2. PICK j \in Int : j = (n - c) % Cycle /\ (x - Cycle) % Cycle = j
  BY <1>1, OneCycleLess, Division
<1>3. b + Cycle + (x - Cycle) - j = n - j  BY <1>1, <1>2
<1> QED  BY <1>2, <1>3 DEF FromCycleStart, Schedule, Cycle

(* Resolving the phase of an earlier moment gives the phase of now. *)
LEMMA Resolves ==
  ASSUME NEW c \in Nat, NEW a \in Nat, NEW n \in Nat, c <= a, a <= n
  PROVE  ResolveTimer(Schedule(c, a), n) = Schedule(c, n)
<1>1. PICK m \in Nat : m = Cycle /\ m = Focus + Break /\ m > 0 /\ Focus \in Nat /\ Break \in Nat
  BY CycleIsNumber
<1>2. PICK i \in 0 .. m - 1 : i = (a - c) % Cycle
  <2>1. a - c \in Int  OBVIOUS
  <2> QED  BY <1>1, <2>1, Division
<1>3. PICK b \in Int : b = a - i  OBVIOUS
<1>4. PICK x \in Nat : x = n - b /\ x >= i  BY <1>3
<1>5. x % Cycle = (n - c) % Cycle
  <2>1. a - c \in Nat /\ n - c \in Nat /\ (n - c) - ((a - c) - i) = x  BY <1>3, <1>4
  <2> QED  BY <1>2, <2>1, SameInCycle
<1>6. ASSUME x < m PROVE x = (n - c) % Cycle /\ n - x = b
  BY <1>1, <1>3, <1>4, <1>5, <1>6, WithinCycle
<1>7. ASSUME x >= m PROVE FromCycleStart(b + m, x - m) = Schedule(c, n)
  BY <1>1, <1>4, <1>5, <1>7, FromNextCycle
<1>8. CASE i < Focus
  <2> DEFINE t == TimerState("FOCUS", b, Focus)
  <2>1. Schedule(c, a) = t /\ t.phase = "FOCUS" /\ t.end = b + Focus
    BY <1>2, <1>3, <1>8 DEF Schedule, TimerState
  <2>2. CASE x < Focus
    <3>1. Schedule(c, n) = t
      <4>1. x < m  BY <1>1, <2>2
      <4> QED  BY <1>6, <2>2, <4>1 DEF Schedule
    <3>2. n < t.end /\ ~(n >= t.end)  BY <1>1, <1>4, <2>1, <2>2
    <3> HIDE DEF t
    <3> QED  BY <2>1, <3>1, <3>2 DEF ResolveTimer
  <2>3. CASE x >= Focus /\ x < m
    <3>1. Schedule(c, n) = TimerState("BREAK", b + Focus, Break)
      <4>1. n - x = b /\ ~(x < Focus)  BY <1>1, <1>6, <2>3
      <4> QED  BY <1>6, <2>3, <4>1 DEF Schedule
    <3>2. n >= t.end /\ ~(n < t.end) /\ n - t.end < Break /\ ~(n - t.end >= Break)
      BY <1>1, <1>4, <2>1, <2>3
    <3> HIDE DEF t
    <3> QED  BY <2>1, <3>1, <3>2 DEF ResolveTimer
  <2>4. CASE x >= m
    <3>1. /\ n >= t.end /\ ~(n < t.end) /\ ~(n - t.end < Break) /\ n - t.end >= Break
          /\ t.end + Break = b + m /\ n - t.end - Break = x - m
      BY <1>1, <1>4, <2>1, <2>4
    <3> HIDE DEF t
    <3> QED  BY <1>7, <2>1, <2>4, <3>1 DEF ResolveTimer
  <2> QED  BY <1>1, <2>2, <2>3, <2>4
<1>9. CASE ~(i < Focus)
  <2> DEFINE t == TimerState("BREAK", b + Focus, Break)
  <2>0. b + Focus + Break = b + m  BY <1>1
  <2>1. Schedule(c, a) = t /\ t.phase = "BREAK" /\ t.end = b + m
    BY <1>2, <1>3, <1>9, <2>0 DEF Schedule, TimerState
  <2>2. CASE x < m
    <3>1. Schedule(c, n) = t
      <4>1. n - x = b /\ ~(x < Focus)  BY <1>1, <1>4, <1>6, <1>9, <2>2
      <4> QED  BY <1>6, <2>2, <4>1 DEF Schedule
    <3>2. n < t.end /\ ~(n >= t.end)  BY <1>1, <1>4, <2>1, <2>2
    <3> HIDE DEF t
    <3> QED  BY <2>1, <3>1, <3>2 DEF ResolveTimer
  <2>3. CASE x >= m
    <3>1. n >= t.end /\ ~(n < t.end) /\ n - t.end = x - m  BY <1>1, <1>4, <2>1, <2>3
    <3> HIDE DEF t
    <3> QED  BY <1>7, <2>1, <2>3, <3>1 DEF ResolveTimer
  <2> QED  BY <1>1, <2>2, <2>3
<1> QED  BY <1>8, <1>9
-----------------------------------------------------------------------------
(***************************************************************************)
(* What a session keeps beside its credit: a session that was not opened   *)
(* holds no answer, and the timer shows a moment since it was created.     *)
(***************************************************************************)
Kept(x, n) ==
  /\ x.created \in Nat
  /\ x.status = "NONE" => x.answered = FALSE
  /\ \E a \in Nat : x.created <= a /\ a <= n /\ x.timer = Schedule(x.created, a)

KInv == IInv /\ \A s \in Sessions : Kept(sessions[s], now)

(* The training of an answered or completed session. *)
Frozen(x, y) == x.answered \/ x.status = "COMPLETED" => y.context = x.context

LEMMA FreshIsKept ==
  ASSUME now \in Nat, NEW task, NEW context
  PROVE  /\ Kept(Fresh(task, context), now)
         /\ Kept([Fresh(task, context) EXCEPT !.status = "NONE"], now)
<1>1. Schedule(now, now) = InitialTimer
  <2>1. PICK m \in Nat : m = Cycle /\ m > 0 /\ Focus > 0  BY CycleIsNumber
  <2>2. now - now = 0 /\ (now - now) % m = 0 /\ now - 0 = now
    <3>1. 0 % Cycle = 0  BY <2>1, WithinCycle
    <3> QED  BY <2>1, <3>1
  <2> QED  BY <2>1, <2>2 DEF Schedule, InitialTimer
<1>2. now <= now  OBVIOUS
<1> QED  BY <1>1, <1>2 DEF Fresh, Kept

LEMMA TimeKeepsKept ==
  ASSUME NEW x, NEW n \in Nat, NEW m \in Nat, n <= m, Kept(x, n)
  PROVE  Kept(x, m)
BY DEF Kept

(* A row that is written with the same creation and the same timer. *)
LEMMA KeptCopies ==
  ASSUME NEW x, NEW y, NEW n, Kept(x, n), y.created = x.created, y.timer = x.timer, y.status # "NONE"
  PROVE  Kept(y, n)
BY DEF Kept

LEMMA KeptAdvances ==
  ASSUME NEW x, NEW y, NEW n \in Nat, Kept(x, n), y.created = x.created, y.status # "NONE",
         y.timer = ResolveTimer(x.timer, n)
  PROVE  Kept(y, n)
<1>1. PICK a \in Nat : x.created <= a /\ a <= n /\ x.timer = Schedule(x.created, a)
  BY DEF Kept
<1>2. y.timer = Schedule(x.created, n)  BY <1>1, Resolves DEF Kept
<1>3. x.created <= n  BY <1>1 DEF Kept
<1> QED  BY <1>2, <1>3 DEF Kept

LEMMA KInvBegins == Init => KInv
<1> SUFFICES ASSUME Init PROVE KInv
  OBVIOUS
<1>1. now \in Nat  BY DEF Init
<1>2. Kept(NoSession, now) /\ Kept(Fresh(FALSE, "OLD"), now)  BY <1>1, FreshIsKept DEF NoSession
<1>3. \A s \in Sessions : sessions[s] = NoSession \/ sessions[s] = Fresh(FALSE, "OLD")
  BY DEF Init
<1> QED  BY <1>2, <1>3, InitKeeps DEF KInv

(* One session is written, and its row is kept and frozen. *)
LEMMA OneWritten ==
  ASSUME KInv, NEW s \in Sessions, NEW x, Kept(x, now), Frozen(sessions[s], x),
         sessions' = [sessions EXCEPT ![s] = x], now' = now
  PROVE  \A o \in Sessions : Kept(sessions'[o], now') /\ Frozen(sessions[o], sessions'[o])
<1>1. sessions'[s] = x /\ \A o \in Sessions \ {s} : sessions'[o] = sessions[o]
  BY DEF KInv, IInv, Typed
<1> QED  BY <1>1 DEF KInv, Frozen

LEMMA NoneWritten ==
  ASSUME KInv, sessions' = sessions, now' \in Nat, now <= now'
  PROVE  \A o \in Sessions : Kept(sessions'[o], now') /\ Frozen(sessions[o], sessions'[o])
BY TimeKeepsKept DEF KInv, IInv, Typed, Frozen

LEMMA RowsStep ==
  ASSUME KInv, [Next]_vars
  PROVE  \A o \in Sessions : Kept(sessions'[o], now') /\ Frozen(sessions[o], sessions'[o])
<1> DEFINE Goal == \A o \in Sessions : Kept(sessions'[o], now') /\ Frozen(sessions[o], sessions'[o])
<1>0. now \in Nat /\ now <= now  BY DEF KInv, IInv, Typed
<1>r. ASSUME NEW s \in Sessions
      PROVE  /\ DOMAIN sessions[s] = Fields /\ sessions[s] = [f \in Fields |-> sessions[s][f]]
             /\ Kept(sessions[s], now)
  BY DEF KInv, IInv, Typed, Sound
<1>1. CASE Tick
  <2>1. sessions' = sessions /\ now' \in Nat /\ now <= now'  BY <1>0, <1>1 DEF Tick
  <2> QED  BY <2>1, NoneWritten
<1>2. ASSUME NEW s \in Sessions, NEW task \in BOOLEAN, Create(s, task) PROVE Goal
  <2>1. PICK x : x = Fresh(task, "CURRENT")  OBVIOUS
  <2>2. Kept(x, now)  BY <1>0, <2>1, FreshIsKept
  <2>3. sessions[s].status = "NONE" /\ sessions' = [sessions EXCEPT ![s] = x] /\ now' = now
    BY <1>2, <2>1 DEF Create
  <2>4. Frozen(sessions[s], x)  BY <1>r, <2>3 DEF Frozen, Kept
  <2> QED  BY <2>2, <2>3, <2>4, OneWritten
<1>3. ASSUME NEW s \in Sessions, NEW split, NEW status, sessions[s].status = "ACTIVE",
             status \in {"ACTIVE", "COMPLETED"}, now' = now,
             sessions' = [sessions EXCEPT ![s] = [CreditedSession(s, split) EXCEPT !.status = status]]
      PROVE  Goal
  <2>1. PICK x : x = [CreditedSession(s, split) EXCEPT !.status = status]  OBVIOUS
  <2>2. /\ x.created = sessions[s].created /\ x.timer = sessions[s].timer
        /\ x.context = sessions[s].context /\ x.status = status
    BY <1>r, <2>1 DEF CreditedSession, Fields
  <2>3. Kept(x, now)  BY <1>3, <1>r, <2>2, KeptCopies
  <2>4. Frozen(sessions[s], x)  BY <2>2 DEF Frozen
  <2> QED  BY <1>3, <2>1, <2>3, <2>4, OneWritten
<1>4. ASSUME NEW s \in Sessions, NEW z \in Offsets, Complete(s, z) PROVE Goal
  BY <1>3, <1>4 DEF Complete, MayComplete
<1>5. ASSUME NEW s \in Sessions, Heartbeat(s) PROVE Goal
  <2>1. PICK x : x = CreditedSession(s, Split(Window(s), offset))  OBVIOUS
  <2>2. /\ sessions[s].status = "ACTIVE" /\ sessions' = [sessions EXCEPT ![s] = x] /\ now' = now
    BY <1>5, <2>1 DEF Heartbeat
  <2>3. [x EXCEPT !.status = "ACTIVE"] = x
    BY <1>r, <2>1, <2>2 DEF CreditedSession, Fields
  <2> QED  BY <1>3, <2>1, <2>2, <2>3
<1>6. ASSUME NEW s \in Sessions, AdvanceTimer(s) PROVE Goal
  <2>1. PICK x : x = [sessions[s] EXCEPT !.timer = ResolveTimer(sessions[s].timer, now)]  OBVIOUS
  <2>2. sessions[s].status = "ACTIVE" /\ sessions' = [sessions EXCEPT ![s] = x] /\ now' = now
    BY <1>6, <2>1 DEF AdvanceTimer
  <2>3. /\ x.created = sessions[s].created /\ x.context = sessions[s].context
        /\ x.status = "ACTIVE" /\ x.timer = ResolveTimer(sessions[s].timer, now)
    BY <1>r, <2>1, <2>2 DEF Fields
  <2>4. Kept(x, now)  BY <1>0, <1>r, <2>3, KeptAdvances
  <2>5. Frozen(sessions[s], x)  BY <2>3 DEF Frozen
  <2> QED  BY <2>2, <2>4, <2>5, OneWritten
<1>7. ASSUME NEW s \in Sessions, SubmitAttempt(s) PROVE Goal
  <2>1. PICK x : x = [sessions[s] EXCEPT !.answered = TRUE]  OBVIOUS
  <2>2. sessions[s].status = "ACTIVE" /\ sessions' = [sessions EXCEPT ![s] = x] /\ now' = now
    BY <1>7, <2>1 DEF SubmitAttempt
  <2>3. /\ x.created = sessions[s].created /\ x.context = sessions[s].context
        /\ x.status = "ACTIVE" /\ x.timer = sessions[s].timer
    BY <1>r, <2>1, <2>2 DEF Fields
  <2>4. Kept(x, now)  BY <1>r, <2>3, KeptCopies
  <2>5. Frozen(sessions[s], x)  BY <2>3 DEF Frozen
  <2> QED  BY <2>2, <2>4, <2>5, OneWritten
<1>8. ASSUME NEW s \in Sessions, RefreshTrainingContext(s) PROVE Goal
  <2>1. now' = now  BY <1>8 DEF RefreshTrainingContext
  <2>2. CASE ~StillNeeded(s)
    BY <1>0, <1>8, <2>1, <2>2, NoneWritten DEF RefreshTrainingContext
  <2>3. CASE StillNeeded(s)
    <3>1. PICK x : x = [sessions[s] EXCEPT !.context = "CURRENT"]  OBVIOUS
    <3>2. sessions[s].status = "ACTIVE" /\ ~sessions[s].answered /\ sessions' = [sessions EXCEPT ![s] = x]
      BY <1>8, <2>3, <3>1 DEF RefreshTrainingContext, StillNeeded, NeedsTrainingRefresh
    <3>3. x.created = sessions[s].created /\ x.status = "ACTIVE" /\ x.timer = sessions[s].timer
      BY <1>r, <3>1, <3>2 DEF Fields
    <3>4. Kept(x, now)  BY <1>r, <3>3, KeptCopies
    <3>5. Frozen(sessions[s], x)  BY <3>2 DEF Frozen
    <3> QED  BY <2>1, <3>2, <3>4, <3>5, OneWritten
  <2> QED  BY <2>2, <2>3
<1>9. ASSUME \/ \E z \in Offsets : ChangeTimezone(z)
             \/ \E s \in Sessions : Get(s)
             \/ UNCHANGED vars
      PROVE  Goal
  <2>1. sessions' = sessions /\ now' = now  BY <1>9 DEF ChangeTimezone, Get, vars
  <2> QED  BY <1>0, <2>1, NoneWritten
<1> QED  BY <1>1, <1>2, <1>4, <1>5, <1>6, <1>7, <1>8, <1>9 DEF Next

LEMMA KInvStep == KInv /\ [Next]_vars => KInv'
<1> SUFFICES ASSUME KInv, [Next]_vars PROVE KInv'
  OBVIOUS
<1>1. IInv'  BY StepKeeps DEF KInv
<1> QED  BY <1>1, RowsStep DEF KInv

LEMMA KInvAlways == Spec => []KInv
BY KInvBegins, KInvStep, PTL DEF Spec

LEMMA OnSchedule == KInv => TimerOnSchedule
<1> SUFFICES ASSUME KInv, NEW s \in Sessions
             PROVE  ResolveTimer(sessions[s].timer, now) = Schedule(sessions[s].created, now)
  BY DEF TimerOnSchedule, Schedule, TimerState, Cycle
<1>1. now \in Nat /\ Kept(sessions[s], now)  BY DEF KInv, IInv, Typed
<1> QED  BY <1>1, Resolves DEF Kept

(* However rarely it is advanced, the timer shows the phase that focus and *)
(* break alternating since the creation give (resolveTimer, advanceTimer). *)
THEOREM TimerKeepsRhythm == Spec => []TimerOnSchedule
BY KInvAlways, OnSchedule, PTL

(* A refresh that was decided before the locks never exchanges a training  *)
(* that was answered or completed since (refreshTrainingContext).          *)
THEOREM TrainingStays == Spec => ContextFrozen
<1>1. KInv /\ [Next]_vars =>
        [\A s \in Sessions :
           (sessions[s].answered \/ sessions[s].status = "COMPLETED")
             => sessions'[s].context = sessions[s].context]_vars
  BY RowsStep DEF Frozen
<1> QED  BY <1>1, KInvAlways, PTL DEF Spec, ContextFrozen
-----------------------------------------------------------------------------
(***************************************************************************)
(* Recursion over the subsets of a finite set.  That every subset has a    *)
(* property P is shown by taking one of the fewest members that has it     *)
(* not: P is a set here, so no operator has to be instantiated.            *)
(***************************************************************************)
LEMMA Least ==
  ASSUME NEW T \in SUBSET Nat, T # {}
  PROVE  \E n \in T : \A m \in T : n <= m
<1> DEFINE R == {p \in Nat \X Nat : p[1] < p[2]}
<1>1. IsWellFoundedOn(R, Nat)
  <2>1. IsWellFoundedOn({p \in Nat \X Nat : p[1] < p[2]}, Nat)
    BY NatLessThanWellFounded DEF OpToRel
  <2> QED  BY <2>1
<1>2. PICK n \in T : \A m \in T : <<m, n>> \notin R
  <2> HIDE DEF R
  <2> QED  BY <1>1, WFMin
<1>3. \A m \in T : ~(m < n)  BY <1>2
<1>4. n \in Nat /\ \A m \in T : m \in Nat  OBVIOUS
<1> QED  BY <1>3, <1>4

(* Without one member a subset is smaller. *)
LEMMA OneLess ==
  ASSUME NEW S, IsFiniteSet(S), NEW s \in SUBSET S, NEW x \in s
  PROVE  /\ s \ {x} \in SUBSET S
         /\ Cardinality(s) \in Nat /\ Cardinality(s \ {x}) \in Nat
         /\ Cardinality(s) = Cardinality(s \ {x}) + 1
<1>1. IsFiniteSet(s)  BY FS_Subset
<1>2. Cardinality(s \ {x}) = Cardinality(s) - 1 /\ IsFiniteSet(s \ {x})  BY <1>1, FS_RemoveElement
<1> QED  BY <1>1, <1>2, FS_CardinalityType

(* What every subset has when it has it with one member less, whichever that is. *)
LEMMA SubsetsGrow ==
  ASSUME NEW S, IsFiniteSet(S), NEW P, {} \in P,
         \A s \in SUBSET S : s # {} /\ (\A x \in s : s \ {x} \in P) => s \in P
  PROVE  \A s \in SUBSET S : s \in P
<1> SUFFICES ASSUME NEW t \in SUBSET S, t \notin P PROVE FALSE
  OBVIOUS
<1> DEFINE T == {Cardinality(s) : s \in {r \in SUBSET S : r \notin P}}
<1>1. \A s \in SUBSET S : Cardinality(s) \in Nat  BY FS_Subset, FS_CardinalityType
<1>2. T \in SUBSET Nat /\ T # {}  BY <1>1
<1>3. PICK n \in T : \A m \in T : n <= m
  <2> HIDE DEF T
  <2> QED  BY <1>2, Least
<1>4. PICK s \in SUBSET S : s \notin P /\ n = Cardinality(s)  BY <1>3
<1>5. s # {}  BY <1>4
<1>6. ASSUME NEW x \in s PROVE s \ {x} \in P
  <2> SUFFICES ASSUME s \ {x} \notin P PROVE FALSE
    OBVIOUS
  <2>1. /\ s \ {x} \in SUBSET S /\ Cardinality(s) = Cardinality(s \ {x}) + 1
        /\ Cardinality(s \ {x}) \in Nat
    BY <1>4, OneLess
  <2>2. Cardinality(s \ {x}) \in T  BY <2>1
  <2>3. n <= Cardinality(s \ {x})  BY <1>3, <2>2
  <2> QED  BY <1>4, <2>1, <2>3
<1> QED  BY <1>4, <1>5, <1>6

(* A recursion over the subsets that takes one member at a time defines a function. *)
Folded(g, S, c, b, F) ==
  \A s \in SUBSET S : g[s] = IF s = {} THEN b ELSE F[<<g[s \ {c[s]}], c[s]>>]

LEMMA FoldExists ==
  ASSUME NEW S, IsFiniteSet(S), NEW c, \A s \in SUBSET S : s # {} => c[s] \in s,
         NEW A, NEW b \in A, NEW F \in [A \X S -> A]
  PROVE  \E g \in [SUBSET S -> A] : Folded(g, S, c, b, F)
<1> DEFINE Upto(n) == {s \in SUBSET S : Cardinality(s) <= n}
           Less(s) == s \ {c[s]}
           Right(g, n) == \A s \in Upto(n) :
             g[s] = IF s = {} THEN b ELSE F[<<g[Less(s)], c[s]>>]
           T == {n \in Nat : ~ \E g \in [Upto(n) -> A] : Right(g, n)}
<1>1. ASSUME NEW s \in SUBSET S, s # {}
      PROVE  /\ c[s] \in S /\ Less(s) \in SUBSET S /\ Cardinality(s) \in Nat
             /\ Cardinality(Less(s)) \in Nat /\ Cardinality(s) = Cardinality(Less(s)) + 1
  <2>1. c[s] \in s  BY <1>1
  <2> QED  BY <2>1, OneLess
<1>2. T = {}
  <2> SUFFICES ASSUME T # {} PROVE FALSE
    OBVIOUS
  <2>1. PICK n \in T : \A m \in T : n <= m
    <3>1. T \in SUBSET Nat  OBVIOUS
    <3> HIDE DEF T
    <3> QED  BY <3>1, Least
  <2>2. n \in Nat /\ ~ \E g \in [Upto(n) -> A] : Right(g, n)  BY <2>1
  <2>3. CASE n = 0
    <3> DEFINE g == [s \in Upto(0) |-> b]
    <3>1. ASSUME NEW s \in Upto(0) PROVE s = {}
      <4>1. s \in SUBSET S /\ Cardinality(s) <= 0  BY <3>1
      <4>2. s # {} => /\ Cardinality(s) = Cardinality(Less(s)) + 1
                      /\ Cardinality(Less(s)) \in Nat
        BY <1>1, <4>1
      <4> HIDE DEF Less
      <4> QED  BY <4>1, <4>2
    <3>2. g \in [Upto(0) -> A] /\ Right(g, 0)  BY <3>1
    <3>3. ~ \E f \in [Upto(0) -> A] : Right(f, 0)  BY <2>2, <2>3
    <3> HIDE DEF g, Right, Upto
    <3> QED  BY <3>2, <3>3
  <2>4. CASE n # 0
    <3>1. n - 1 \in Nat /\ n - 1 \notin T
      <4> HIDE DEF T
      <4> QED  BY <2>1, <2>2, <2>4
    <3>2. PICK g \in [Upto(n - 1) -> A] : Right(g, n - 1)  BY <3>1
    <3> DEFINE h == [s \in Upto(n) |-> IF s \in Upto(n - 1) THEN g[s]
                                       ELSE F[<<g[Less(s)], c[s]>>]]
    <3>3. ASSUME NEW s \in Upto(n), s # {}
          PROVE  Less(s) \in Upto(n - 1) /\ Less(s) \in Upto(n) /\ c[s] \in S
      BY <1>1, <2>2, <3>3
    <3>4. ASSUME NEW s \in Upto(n), s = {} PROVE s \in Upto(n - 1)
      BY <2>2, <3>1, <3>4, FS_EmptySet
    <3>5. ASSUME NEW s \in Upto(n)
          PROVE  h[s] = IF s = {} THEN b ELSE F[<<h[Less(s)], c[s]>>]
      <4>1. CASE s = {}
        <5>1. g[s] = b  BY <3>2, <3>4, <4>1
        <5> QED  BY <3>4, <4>1, <5>1
      <4>2. CASE s # {}
        <5>1. h[Less(s)] = g[Less(s)]  BY <3>3, <4>2
        <5>2. s \in Upto(n - 1) => g[s] = F[<<g[Less(s)], c[s]>>]  BY <3>2, <4>2
        <5> QED  BY <4>2, <5>1, <5>2
      <4> QED  BY <4>1, <4>2
    <3>6. ASSUME NEW s \in Upto(n) PROVE h[s] \in A
      <4>1. CASE s \in Upto(n - 1)  BY <3>2, <4>1
      <4>2. CASE s \notin Upto(n - 1)
        <5>1. s # {}  BY <3>4, <4>2
        <5>2. g[Less(s)] \in A /\ c[s] \in S  BY <3>2, <3>3, <5>1
        <5>3. h[s] = F[<<g[Less(s)], c[s]>>]  BY <4>2
        <5> QED  BY <5>2, <5>3
      <4> QED  BY <4>1, <4>2
    <3>7. h \in [Upto(n) -> A] /\ Right(h, n)
      <4>1. h = [s \in Upto(n) |-> h[s]]  OBVIOUS
      <4> HIDE DEF h, Upto
      <4> QED  BY <3>5, <3>6, <4>1
    <3> QED  BY <2>2, <3>7
  <2> QED  BY <2>3, <2>4
<1>3. PICK n \in Nat : n = Cardinality(S)  BY FS_CardinalityType
<1>4. PICK g \in [Upto(n) -> A] : Right(g, n)
  <2>1. n \notin T  BY <1>2
  <2> HIDE DEF Right, Upto
  <2> QED BY <2>1
<1>5. Upto(n) = SUBSET S  BY <1>3, FS_Subset
<1>6. Folded(g, S, c, b, F)  BY <1>4, <1>5 DEF Folded
<1> QED  BY <1>4, <1>5, <1>6
-----------------------------------------------------------------------------
(* Sums.  Total takes its rows in the order of CHOOSE; what it adds up to  *)
(* is found subset by subset.                                              *)
Elem(s) == CHOOSE x \in s : TRUE
Rest(s) == s \ {Elem(s)}

(* A partial sum for every subset of the rows. *)
Sums(g, rows) ==
  g = [s \in SUBSET DOMAIN rows |-> IF s = {} THEN 0 ELSE rows[Elem(s)] + g[Rest(s)]]

LEMMA RestIsPart ==
  ASSUME NEW S, NEW s \in SUBSET S, s # {}
  PROVE  Elem(s) \in s /\ Rest(s) \in SUBSET S
BY DEF Elem, Rest

LEMMA SubsetsInduct ==
  ASSUME NEW S, IsFiniteSet(S), NEW P, {} \in P,
         \A s \in SUBSET S : s # {} /\ Rest(s) \in P => s \in P
  PROVE  \A s \in SUBSET S : s \in P
<1>1. ASSUME NEW s \in SUBSET S, s # {}, \A x \in s : s \ {x} \in P PROVE s \in P
  <2>1. Rest(s) \in P  BY <1>1, RestIsPart DEF Rest
  <2> QED  BY <1>1, <2>1
<1> QED  BY <1>1, SubsetsGrow

(* The recursion defines a sum. *)
LEMMA SumsExist ==
  ASSUME NEW rows, IsFiniteSet(DOMAIN rows), \A x \in DOMAIN rows : rows[x] \in Int
  PROVE  \E g : Sums(g, rows)
<1> DEFINE S == DOMAIN rows
           c == [s \in SUBSET S |-> Elem(s)]
           F == [p \in Int \X S |-> rows[p[2]] + p[1]]
<1>1. \A s \in SUBSET S : s # {} => c[s] \in s  BY RestIsPart
<1>2. F \in [Int \X S -> Int] /\ \A n \in Int, x \in S : F[<<n, x>>] = rows[x] + n  OBVIOUS
<1>3. PICK g \in [SUBSET S -> Int] : Folded(g, S, c, 0, F)
  <2>1. IsFiniteSet(S) /\ 0 \in Int /\ F \in [Int \X S -> Int]  BY <1>2
  <2> HIDE DEF S, c, F
  <2> QED  BY <1>1, <2>1, FoldExists
<1>4. ASSUME NEW s \in SUBSET S
      PROVE  g[s] = IF s = {} THEN 0 ELSE rows[Elem(s)] + g[Rest(s)]
  <2>1. CASE s = {}  BY <1>3, <2>1 DEF Folded
  <2>2. CASE s # {}
    <3>1. c[s] = Elem(s) /\ Elem(s) \in S /\ Rest(s) \in SUBSET S  BY <2>2, RestIsPart
    <3>2. g[s] = F[<<g[Rest(s)], Elem(s)>>]  BY <1>3, <2>2, <3>1 DEF Folded, Rest
    <3> HIDE DEF S, c, F
    <3> QED  BY <1>2, <1>3, <2>2, <3>1, <3>2
  <2> QED  BY <2>1, <2>2
<1>5. Sums(g, rows)  BY <1>3, <1>4 DEF Sums
<1> QED  BY <1>5

LEMMA TotalIs ==
  ASSUME NEW rows, IsFiniteSet(DOMAIN rows), \A x \in DOMAIN rows : rows[x] \in Int
  PROVE  \E g : Sums(g, rows) /\ Total(rows) = g[DOMAIN rows]
<1> DEFINE g == CHOOSE h : Sums(h, rows)
<1>1. Sums(g, rows)  BY SumsExist
<1>2. Total(rows) = g[DOMAIN rows]
  BY DEF Total, MapThenSumSet, MapThenFoldSet, Sums, Elem, Rest
<1> QED BY <1>1, <1>2

(* What a sum is made of. *)
LEMMA SumNat ==
  ASSUME NEW rows, IsFiniteSet(DOMAIN rows), \A x \in DOMAIN rows : rows[x] \in Nat
  PROVE  Total(rows) \in Nat
<1>1. PICK g : Sums(g, rows) /\ Total(rows) = g[DOMAIN rows]  BY TotalIs
<1> DEFINE P == {s \in SUBSET DOMAIN rows : g[s] \in Nat}
<1>2. {} \in P  BY <1>1 DEF Sums
<1>3. ASSUME NEW s \in SUBSET DOMAIN rows, s # {}, Rest(s) \in P  PROVE  s \in P
  <2>1. Elem(s) \in s  BY <1>3, RestIsPart
  <2>2. g[s] = rows[Elem(s)] + g[Rest(s)]  BY <1>1, <1>3 DEF Sums
  <2> QED  BY <1>3, <2>1, <2>2
<1>4. \A s \in SUBSET DOMAIN rows : s \in P
  <2> HIDE DEF P
  <2> QED  BY <1>2, <1>3, SubsetsInduct
<1> QED  BY <1>1, <1>4

LEMMA SumAdd ==
  ASSUME NEW S, IsFiniteSet(S), NEW f \in [S -> Nat], NEW e \in [S -> Nat], NEW h \in [S -> Nat],
         \A x \in S : h[x] = f[x] + e[x]
  PROVE  Total(h) = Total(f) + Total(e)
<1>1. PICK F : Sums(F, f) /\ Total(f) = F[S]  BY TotalIs
<1>2. PICK E : Sums(E, e) /\ Total(e) = E[S]  BY TotalIs
<1>3. PICK H : Sums(H, h) /\ Total(h) = H[S]  BY TotalIs
<1> DEFINE P == {s \in SUBSET S : F[s] \in Nat /\ E[s] \in Nat /\ H[s] = F[s] + E[s]}
<1>4. {} \in P  BY <1>1, <1>2, <1>3 DEF Sums
<1>5. ASSUME NEW s \in SUBSET S, s # {}, Rest(s) \in P  PROVE  s \in P
  <2>1. Elem(s) \in S /\ DOMAIN f = S /\ DOMAIN e = S /\ DOMAIN h = S  BY <1>5, RestIsPart
  <2>2. F[s] = f[Elem(s)] + F[Rest(s)]  BY <1>1, <1>5, <2>1 DEF Sums
  <2>3. E[s] = e[Elem(s)] + E[Rest(s)]  BY <1>2, <1>5, <2>1 DEF Sums
  <2>4. H[s] = h[Elem(s)] + H[Rest(s)]  BY <1>3, <1>5, <2>1 DEF Sums
  <2>5. /\ f[Elem(s)] \in Nat /\ e[Elem(s)] \in Nat
        /\ h[Elem(s)] = f[Elem(s)] + e[Elem(s)]
    BY <2>1
  <2> QED  BY <1>5, <2>2, <2>3, <2>4, <2>5
<1>6. \A s \in SUBSET S : s \in P
  <2> HIDE DEF P
  <2> QED  BY <1>4, <1>5, SubsetsInduct
<1> QED  BY <1>1, <1>2, <1>3, <1>6

(* The size of a set, counted member by member. *)
LEMMA SumMembers ==
  ASSUME NEW S, IsFiniteSet(S), NEW W \in SUBSET S
  PROVE  Total([x \in S |-> IF x \in W THEN 1 ELSE 0]) = Cardinality(W)
<1> DEFINE f == [x \in S |-> IF x \in W THEN 1 ELSE 0]
<1>1. PICK F : Sums(F, f) /\ Total(f) = F[S]
  <2>1. IsFiniteSet(DOMAIN f) /\ DOMAIN f = S  OBVIOUS
  <2>2. \A x \in DOMAIN f : f[x] \in Int  OBVIOUS
  <2> HIDE DEF f
  <2> QED  BY <2>1, <2>2, TotalIs
<1> DEFINE P == {s \in SUBSET S : F[s] = Cardinality(s \cap W)}
<1>2. {} \in P  BY <1>1, FS_EmptySet DEF Sums
<1>3. ASSUME NEW s \in SUBSET S, s # {}, Rest(s) \in P  PROVE  s \in P
  <2>1. PICK x : x = Elem(s) /\ x \in s  BY <1>3, RestIsPart
  <2>2. F[s] = f[x] + F[Rest(s)]  BY <1>1, <1>3, <2>1 DEF Sums
  <2>3. Rest(s) \cap W = (s \cap W) \ {x}  BY <2>1 DEF Rest
  <2>4. IsFiniteSet(s \cap W)  BY FS_Subset
  <2>5. Cardinality(s \cap W) \in Nat  BY <2>4, FS_CardinalityType
  <2>6. Cardinality((s \cap W) \ {x})
          = IF x \in s \cap W THEN Cardinality(s \cap W) - 1 ELSE Cardinality(s \cap W)
    BY <2>4, FS_RemoveElement
  <2>7. F[Rest(s)] = Cardinality((s \cap W) \ {x})  BY <1>3, <2>3
  <2>8. f[x] = IF x \in s \cap W THEN 1 ELSE 0  BY <2>1
  <2> QED  BY <2>2, <2>5, <2>6, <2>7, <2>8
<1>4. \A s \in SUBSET S : s \in P
  <2> HIDE DEF P
  <2> QED  BY <1>2, <1>3, SubsetsInduct
<1>5. S \cap W = W  OBVIOUS
<1> QED  BY <1>1, <1>4, <1>5

(* Rows that are all nothing add up to nothing. *)
LEMMA SumZero ==
  ASSUME NEW S, IsFiniteSet(S), NEW f \in [S -> Nat], \A x \in S : f[x] = 0
  PROVE  Total(f) = 0
<1>2. Total(f) = Total(f) + Total(f)
  <2>1. \A x \in S : f[x] = f[x] + f[x]  OBVIOUS
  <2> QED  BY <2>1, SumAdd
<1>3. Total(f) \in Nat  BY SumNat
<1> DEFINE n == Total(f)
<1>4. n \in Nat /\ n = n + n  BY <1>2, <1>3
<1> HIDE DEF n
<1>5. n = 0  BY <1>4
<1> QED  BY <1>5 DEF n

(* One row takes it all. *)
LEMMA SumOne ==
  ASSUME NEW S, IsFiniteSet(S), NEW a \in S, NEW n \in Nat, NEW f \in [S -> Nat],
         \A x \in S : f[x] = IF x = a THEN n ELSE 0
  PROVE  Total(f) = n
<1>1. PICK F : Sums(F, f) /\ Total(f) = F[S]  BY TotalIs
<1> DEFINE P == {s \in SUBSET S : F[s] = IF a \in s THEN n ELSE 0}
<1>2. {} \in P  BY <1>1 DEF Sums
<1>3. ASSUME NEW s \in SUBSET S, s # {}, Rest(s) \in P  PROVE  s \in P
  <2>1. PICK x : x = Elem(s) /\ x \in s  BY <1>3, RestIsPart
  <2>2. F[s] = f[x] + F[Rest(s)]  BY <1>1, <1>3, <2>1 DEF Sums
  <2>3. a \in Rest(s) <=> a \in s /\ a # x  BY <2>1 DEF Rest
  <2>4. F[Rest(s)] = IF a \in Rest(s) THEN n ELSE 0  BY <1>3
  <2>5. f[x] = IF x = a THEN n ELSE 0  BY <2>1
  <2> QED  BY <2>1, <2>2, <2>3, <2>4, <2>5
<1>4. \A s \in SUBSET S : s \in P
  <2> HIDE DEF P
  <2> QED  BY <1>2, <1>3, SubsetsInduct
<1> QED  BY <1>1, <1>4

(* One row grows. *)
LEMMA SumGrows ==
  ASSUME NEW S, IsFiniteSet(S), NEW a \in S, NEW n \in Nat, NEW f \in [S -> Nat], NEW h \in [S -> Nat],
         \A x \in S : h[x] = f[x] + IF x = a THEN n ELSE 0
  PROVE  Total(h) = Total(f) + n
<1> DEFINE e == [x \in S |-> IF x = a THEN n ELSE 0]
<1>1. /\ e \in [S -> Nat] /\ \A x \in S : e[x] = IF x = a THEN n ELSE 0
      /\ \A x \in S : h[x] = f[x] + e[x]
  OBVIOUS
<1> HIDE DEF e
<1>2. Total(e) = n  BY <1>1, SumOne
<1> QED  BY <1>1, <1>2, SumAdd
-----------------------------------------------------------------------------
(***************************************************************************)
(* The statistics.  What a credit adds to a session's rows, to its seconds *)
(* and to the units credited is one number, the size of the window; what   *)
(* it adds to a day's minutes is the difference of two roundings of that   *)
(* day's rows, before and after; and a task is counted by the completion   *)
(* that puts its session among the completed ones.                         *)
(***************************************************************************)
ZeroRows == [d \in Days |-> 0]

Booked(x) ==
  /\ x.task \in BOOLEAN /\ x.active = Total(x.ledger)
  /\ x.status = "NONE" => x.ledger = ZeroRows

DayRow(row) == DOMAIN row = {"minutes", "tasks"} /\ row.tasks \in Nat

Ledger == [d \in Days |-> LedgerOf(d)]
Tasks  == [d \in Days |-> stat[d].tasks]
Done   == {s \in Sessions : sessions[s].task /\ sessions[s].status = "COMPLETED"}

LedgerBooked ==
  /\ \A d \in Days : stat[d].minutes = LegacyOf(d) + CeilMinutes(LedgerOf(d))
  /\ Total(covered) = Total(Ledger)

TasksCounted == Total(Tasks) = Cardinality(Done)

SInv ==
  /\ KInv /\ now \in Times
  /\ \A s \in Sessions : Booked(sessions[s])
  /\ DOMAIN stat = Days /\ \A d \in Days : DayRow(stat[d])
  /\ LedgerBooked /\ TasksCounted

LEMMA SetsAreFinite == IsFiniteSet(Days) /\ IsFiniteSet(Units) /\ IsFiniteSet(Sessions)
<1>1. MaxTime \in Nat /\ (MaxTime + DayLength) \div DayLength \in Int
  <2>1. MaxTime \in Nat /\ DayLength \in Nat /\ DayLength > 0  BY ClockAssumption
  <2>2. MaxTime + DayLength \in Int  BY <2>1
  <2> QED  BY <2>1, <2>2, Division
<1> QED  BY <1>1, FS_Interval, SessionsAssumption DEF Days, Units

LEMMA NothingRecorded == ZeroRows \in [Days -> Nat] /\ Total(ZeroRows) = 0
<1>1. ZeroRows \in [Days -> Nat] /\ \A d \in Days : ZeroRows[d] = 0  BY DEF ZeroRows
<1> QED  BY <1>1, SetsAreFinite, SumZero

(* A window is split without loss. *)
LEMMA SplitTotal ==
  ASSUME NEW z \in Offsets, NEW W \in SUBSET Units
  PROVE  Total(Split(W, z)) = Cardinality(W)
<1> DEFINE P == {w \in SUBSET Units : Total(Split(w, z)) = Cardinality(w)}
<1>1. {} \in P
  <2>1. \A d \in Days : Split({}, z)[d] = 0
    <3>1. \A d \in Days : {u \in {} : LocalDay(z, u) = d} = {}  OBVIOUS
    <3> QED  BY <3>1, FS_EmptySet DEF Split
  <2>2. Split({}, z) \in [Days -> Nat]  BY SplitCounts
  <2>3. Total(Split({}, z)) = 0  BY <2>1, <2>2, SetsAreFinite, SumZero
  <2> QED  BY <2>3, FS_EmptySet
<1>2. ASSUME NEW w \in SUBSET Units, w # {}, Rest(w) \in P  PROVE  w \in P
  <2>1. PICK u : u = Elem(w) /\ u \in w /\ Rest(w) = w \ {u}
    BY <1>2, SetsAreFinite, RestIsPart DEF Rest
  <2>2. PICK a \in Days : a = LocalDay(z, u)  BY <2>1, DayOfUnit
  <2> DEFINE f == Split(Rest(w), z)
             h == Split(w, z)
  <2>3. f \in [Days -> Nat] /\ h \in [Days -> Nat]  BY <2>1, SplitCounts
  <2>4. ASSUME NEW d \in Days PROVE h[d] = f[d] + IF d = a THEN 1 ELSE 0
    <3> DEFINE A == {v \in w : LocalDay(z, v) = d}
    <3>1. f[d] = Cardinality(A \ {u})
      <4>1. {v \in Rest(w) : LocalDay(z, v) = d} = A \ {u}  BY <2>1
      <4> QED  BY <4>1 DEF Split
    <3>2. h[d] = Cardinality(A)  BY DEF Split
    <3>3. IsFiniteSet(A)  BY SetsAreFinite, FS_Subset
    <3>4. u \in A <=> d = a  BY <2>1, <2>2
    <3>5. Cardinality(A) \in Nat  BY <3>3, FS_CardinalityType
    <3>6. Cardinality(A \ {u}) = IF u \in A THEN Cardinality(A) - 1 ELSE Cardinality(A)
      BY <3>3, FS_RemoveElement
    <3> HIDE DEF A, f, h
    <3> QED  BY <3>1, <3>2, <3>4, <3>5, <3>6
  <2>6. Total(h) = Total(f) + 1
    <3> HIDE DEF f, h
    <3> QED  BY <2>3, <2>4, SetsAreFinite, SumGrows
  <2>7. Cardinality(w) = Cardinality(Rest(w)) + 1  BY <1>2, <2>1, SetsAreFinite, OneLess DEF Rest
  <2>8. Total(f) = Cardinality(Rest(w))  BY <1>2
  <2> QED  BY <2>6, <2>7, <2>8
<1>3. \A w \in SUBSET Units : w \in P
  <2> HIDE DEF P
  <2> QED  BY <1>1, <1>2, SetsAreFinite, SubsetsInduct
<1> QED  BY <1>3

(* Crediting one more unit of each member of a window adds its size. *)
LEMMA CoverAdds ==
  ASSUME covered \in [Units -> Nat], NEW W \in SUBSET Units, Cover(W)
  PROVE  Total(covered') = Total(covered) + Cardinality(W)
<1> DEFINE e == [u \in Units |-> IF u \in W THEN 1 ELSE 0]
<1>1. e \in [Units -> Nat] /\ covered' \in [Units -> Nat]  BY DEF Cover
<1>2. \A u \in Units : covered'[u] = covered[u] + e[u]  BY DEF Cover
<1>3. Total(e) = Cardinality(W)  BY SetsAreFinite, SumMembers
<1> HIDE DEF e
<1> QED  BY <1>1, <1>2, <1>3, SetsAreFinite, SumAdd

LEMMA LedgerIsNumber ==
  ASSUME KInv PROVE Ledger \in [Days -> Nat]
<1> SUFFICES ASSUME NEW d \in Days PROVE LedgerOf(d) \in Nat
  BY DEF Ledger
<1> DEFINE f == [s \in Sessions |-> sessions[s].ledger[d]]
<1>1. f \in [Sessions -> Nat]  BY DEF KInv, IInv, Typed, Sound
<1>2. LedgerOf(d) = Total(f)  BY DEF LedgerOf
<1> HIDE DEF f
<1> QED  BY <1>1, <1>2, SetsAreFinite, SumNat

LEMMA CeilIsNumber == ASSUME NEW n \in Nat PROVE CeilMinutes(n) \in Nat
<1>1. PICK m \in Nat : m = Minute /\ m > 0  BY ClockAssumption
<1>2. PICK a \in Nat : a = n + m - 1  BY <1>1
<1>3. a \div m \in Int /\ a % m \in 0 .. m - 1 /\ a = m * (a \div m) + (a % m)
  BY <1>1, Division
<1>4. a \div m \in Nat  BY <1>1, <1>2, Z3
<1> QED  BY <1>1, <1>2, <1>4 DEF CeilMinutes

(* One session's rows grow by a split. *)
Written(s, x, split) ==
  /\ x.task = sessions[s].task /\ x.status # "NONE"
  /\ x.ledger = [d \in Days |-> sessions[s].ledger[d] + split[d]]
  /\ x.active = sessions[s].active + Total(split)
  /\ sessions' = [sessions EXCEPT ![s] = x] /\ Cover(Window(s))
  /\ \A d \in Days : stat'[d].minutes = stat[d].minutes + MinuteDelta(s, d, split[d])

LEMMA CreditBooks ==
  ASSUME SInv, KInv', NEW s \in Sessions, NEW z \in Offsets, NEW x, NEW split,
         split = Split(Window(s), z), Written(s, x, split)
  PROVE  LedgerBooked' /\ \A o \in Sessions : Booked(sessions'[o])
<1> USE DEF Written
<1>1. Window(s) \in SUBSET Units  BY DEF Window
<1>2. split \in [Days -> Nat] /\ Total(split) = Cardinality(Window(s))
  BY <1>1, SplitCounts, SplitTotal
<1>3. sessions'[s] = x /\ \A o \in Sessions \ {s} : sessions'[o] = sessions[o]
  BY DEF SInv, KInv, IInv, Typed
<1>4. \A o \in Sessions : sessions[o].ledger \in [Days -> Nat] /\ sessions'[o].ledger \in [Days -> Nat]
  BY DEF SInv, KInv, IInv, Typed, Sound
<1>5. ASSUME NEW d \in Days PROVE LedgerOf(d)' = LedgerOf(d) + split[d]
  <2>1. PICK f \in [Sessions -> Nat] : f = [o \in Sessions |-> sessions[o].ledger[d]]  BY <1>4
  <2>2. PICK h \in [Sessions -> Nat] : h = [o \in Sessions |-> sessions'[o].ledger[d]]  BY <1>4
  <2>3. PICK n \in Nat : n = split[d]  BY <1>2
  <2>4. ASSUME NEW o \in Sessions PROVE h[o] = f[o] + IF o = s THEN n ELSE 0
    <3>1. CASE o = s  BY <3>1, <1>3, <2>1, <2>2, <2>3
    <3>2. CASE o # s
      <4>1. sessions[o].ledger[d] \in Nat  BY <1>4
      <4> QED  BY <3>2, <4>1, <1>3, <2>1, <2>2
    <3> QED  BY <3>1, <3>2
  <2>5. LedgerOf(d) = Total(f) /\ LedgerOf(d)' = Total(h)  BY <2>1, <2>2 DEF LedgerOf
  <2> HIDE DEF Written
  <2>6. Total(h) = Total(f) + n  BY <2>4, SetsAreFinite, SumGrows, Z3
  <2> QED  BY <2>3, <2>5, <2>6
<1>6. Ledger \in [Days -> Nat] /\ Ledger' \in [Days -> Nat]
  <2>1. Ledger \in [Days -> Nat]  BY LedgerIsNumber DEF SInv
  <2>2. \A d \in Days : LedgerOf(d) \in Nat  BY <2>1 DEF Ledger
  <2>3. \A d \in Days : LedgerOf(d)' \in Nat  BY <1>2, <1>5, <2>2
  <2> QED  BY <2>1, <2>3 DEF Ledger
<1>7. Total(Ledger') = Total(Ledger) + Total(split)
  <2>1. PICK h \in [Days -> Nat] : h = Ledger'  BY <1>6
  <2>2. \A d \in Days : Ledger'[d] = Ledger[d] + split[d]  BY <1>5 DEF Ledger
  <2>3. \A d \in Days : h[d] = Ledger[d] + split[d]  BY <2>1, <2>2
  <2>4. Total(h) = Total(Ledger) + Total(split)  BY <1>2, <1>6, <2>3, SetsAreFinite, SumAdd
  <2> QED  BY <2>1, <2>4
<1>8. Total(covered') = Total(covered) + Cardinality(Window(s))
  BY <1>1, CoverAdds DEF SInv, KInv, IInv, Typed
<1>9. ASSUME NEW d \in Days
      PROVE  stat'[d].minutes = LegacyOf(d) + CeilMinutes(LedgerOf(d)')
  <2>1. stat[d].minutes = LegacyOf(d) + CeilMinutes(LedgerOf(d))  BY DEF SInv, LedgerBooked
  <2>2. MinuteDelta(s, d, split[d]) = CeilMinutes(LedgerOf(d)') - CeilMinutes(LedgerOf(d))
    BY <1>5 DEF MinuteDelta
  <2>3. LegacyOf(d) \in Int  BY ClockAssumption DEF LegacyOf
  <2>4. CeilMinutes(LedgerOf(d)) \in Int /\ CeilMinutes(LedgerOf(d)') \in Int
    BY <1>6, CeilIsNumber DEF Ledger
  <2> QED  BY <2>1, <2>2, <2>3, <2>4
<1>10. LedgerBooked'
  <2>1. Total(covered') = Total(Ledger')  BY <1>2, <1>7, <1>8 DEF SInv, LedgerBooked
  <2> QED  BY <1>9, <2>1 DEF LedgerBooked
<1>11. Booked(x)
  <2>1. x.ledger \in [Days -> Nat] /\ \A d \in Days : x.ledger[d] = sessions[s].ledger[d] + split[d]
    BY <1>3, <1>4
  <2>2. Total(x.ledger) = Total(sessions[s].ledger) + Total(split)
    BY <1>2, <1>4, <2>1, SetsAreFinite, SumAdd
  <2> QED  BY <2>2 DEF Booked, SInv
<1> QED  BY <1>3, <1>10, <1>11 DEF SInv

(* No rows are written. *)
LEMMA RowsBooked ==
  ASSUME SInv, \A o \in Sessions : sessions'[o].ledger = sessions[o].ledger,
         covered' = covered, stat' = stat
  PROVE  LedgerBooked'
<1>1. \A d \in Days : LedgerOf(d)' = LedgerOf(d)
  <2> SUFFICES ASSUME NEW d \in Days PROVE LedgerOf(d)' = LedgerOf(d)
    OBVIOUS
  <2>1. [o \in Sessions |-> sessions'[o].ledger[d]] = [o \in Sessions |-> sessions[o].ledger[d]]
    OBVIOUS
  <2> QED  BY <2>1 DEF LedgerOf
<1>2. Ledger' = Ledger  BY <1>1 DEF Ledger
<1> QED  BY <1>1, <1>2 DEF LedgerBooked, SInv

(* One session is written that was not completed before. *)
LEMMA TaskBooked ==
  ASSUME SInv, NEW s \in Sessions, NEW x, NEW a \in Days,
         sessions[s].status # "COMPLETED", sessions' = [sessions EXCEPT ![s] = x],
         x.task \in BOOLEAN,
         \A d \in Days : stat'[d].tasks =
           stat[d].tasks + IF d = a /\ x.task /\ x.status = "COMPLETED" THEN 1 ELSE 0
  PROVE  TasksCounted'
<1>1. Tasks \in [Days -> Nat] /\ Tasks' \in [Days -> Nat]
  BY DEF Tasks, SInv, DayRow
<1>2. PICK n \in Nat : n = IF x.task /\ x.status = "COMPLETED" THEN 1 ELSE 0  OBVIOUS
<1>3. PICK f \in [Days -> Nat], h \in [Days -> Nat] : f = Tasks /\ h = Tasks'  BY <1>1
<1>4. \A d \in Days : h[d] = f[d] + IF d = a THEN n ELSE 0  BY <1>2, <1>3 DEF Tasks
<1>5. Total(h) = Total(f) + n  BY <1>4, SetsAreFinite, SumGrows, Z3
<1>6. sessions'[s] = x /\ \A o \in Sessions \ {s} : sessions'[o] = sessions[o]
  BY DEF SInv, KInv, IInv, Typed
<1>7. Done' = IF x.task /\ x.status = "COMPLETED" THEN Done \cup {s} ELSE Done
  BY <1>6 DEF Done
<1>8. IsFiniteSet(Done) /\ Done \subseteq Sessions /\ s \notin Done
  BY SetsAreFinite, FS_Subset DEF Done
<1>9. Cardinality(Done \cup {s}) = Cardinality(Done) + 1  BY <1>8, FS_AddElement
<1>10. Cardinality(Done) \in Nat  BY <1>8, FS_CardinalityType
<1>11. Cardinality(Done') = Cardinality(Done) + n  BY <1>2, <1>7, <1>9, <1>10
<1> QED  BY <1>3, <1>5, <1>11 DEF TasksCounted, SInv

LEMMA TasksStay ==
  ASSUME SInv, stat' = stat,
         \A o \in Sessions : sessions'[o].task = sessions[o].task /\ sessions'[o].status = sessions[o].status
  PROVE  TasksCounted'
<1>1. Tasks' = Tasks /\ Done' = Done  BY DEF Tasks, Done
<1> QED  BY <1>1 DEF TasksCounted, SInv

LEMMA CeilZero == CeilMinutes(0) = 0
<1>1. PICK m \in Nat : m = Minute /\ m > 0  BY ClockAssumption
<1>2. PICK a \in Nat : a = 0 + m - 1 /\ a < m  BY <1>1
<1>3. a \div m = 0
  <2>1. PICK q \in Int, r \in 0 .. m - 1 : a = m * q + r /\ q = a \div m  BY <1>1, Division
  <2>2. ~(q >= 1)
    <3> SUFFICES ASSUME q >= 1 PROVE FALSE
      OBVIOUS
    <3>1. m * q >= m  BY <1>1, <2>1, Z3
    <3> QED  BY <1>2, <2>1, <3>1
  <2>3. ~(q <= -1)
    <3> SUFFICES ASSUME q <= -1 PROVE FALSE
      OBVIOUS
    <3>1. m * q <= -m  BY <1>1, <2>1, Z3
    <3> QED  BY <1>2, <2>1, <3>1
  <2> QED  BY <2>1, <2>2, <2>3
<1> QED  BY <1>1, <1>2, <1>3 DEF CeilMinutes

LEMMA FreshIsBooked ==
  ASSUME NEW task \in BOOLEAN, NEW context
  PROVE  Booked(Fresh(task, context)) /\ Booked([Fresh(task, context) EXCEPT !.status = "NONE"])
<1>1. PICK x : x = Fresh(task, context)  OBVIOUS
<1>2. PICK y : y = [x EXCEPT !.status = "NONE"]  OBVIOUS
<1>3. x.task = task /\ x.active = 0 /\ x.ledger = ZeroRows /\ x.status = "ACTIVE"
  BY <1>1 DEF Fresh, ZeroRows
<1>4. y.task = task /\ y.active = 0 /\ y.ledger = ZeroRows
  BY <1>1, <1>2, <1>3 DEF Fresh
<1>5. Booked(x) /\ Booked(y)  BY <1>3, <1>4, NothingRecorded DEF Booked
<1> QED  BY <1>1, <1>2, <1>5

LEMMA SInvBegins == Init => SInv
<1> SUFFICES ASSUME Init PROVE SInv
  OBVIOUS
<1>1. KInv /\ now \in Times
  <2>1. now = 0 /\ MaxTime \in Nat  BY ClockAssumption DEF Init
  <2> QED  BY <2>1, KInvBegins DEF Times
<1>2. stat = [d \in Days |-> [minutes |-> LegacyOf(d), tasks |-> 0]] /\ covered = [u \in Units |-> 0]
  BY DEF Init
<1>3. ASSUME NEW s \in Sessions
      PROVE  /\ Booked(sessions[s]) /\ sessions[s].ledger = ZeroRows
             /\ sessions[s].status # "COMPLETED"
  <2>1. sessions[s] = NoSession \/ sessions[s] = Fresh(FALSE, "OLD")  BY DEF Init
  <2>2. Booked(NoSession) /\ Booked(Fresh(FALSE, "OLD"))  BY FreshIsBooked DEF NoSession
  <2>3. /\ NoSession.ledger = ZeroRows /\ Fresh(FALSE, "OLD").ledger = ZeroRows
        /\ NoSession.status = "NONE" /\ Fresh(FALSE, "OLD").status = "ACTIVE"
    BY DEF NoSession, Fresh, ZeroRows
  <2> QED  BY <2>1, <2>2, <2>3
<1>4. \A d \in Days : LedgerOf(d) = 0
  <2> SUFFICES ASSUME NEW d \in Days PROVE LedgerOf(d) = 0
    OBVIOUS
  <2>0. \A s \in Sessions : sessions[s].ledger[d] = 0  BY <1>3 DEF ZeroRows
  <2> DEFINE f == [s \in Sessions |-> sessions[s].ledger[d]]
  <2>1. f \in [Sessions -> Nat] /\ \A s \in Sessions : f[s] = 0  BY <2>0
  <2>2. LedgerOf(d) = Total(f)  BY DEF LedgerOf
  <2>3. PICK g \in [Sessions -> Nat] : g = f /\ \A s \in Sessions : g[s] = 0  BY <2>1
  <2>4. Total(g) = 0  BY <2>3, SetsAreFinite, SumZero, Z3
  <2> QED  BY <2>2, <2>3, <2>4
<1>5. LedgerBooked
  <2>1. Ledger = ZeroRows  BY <1>4 DEF Ledger, ZeroRows
  <2>2. Total(covered) = 0
    <3>1. PICK f \in [Units -> Nat] : f = covered /\ \A u \in Units : f[u] = 0  BY <1>2
    <3>2. Total(f) = 0  BY <3>1, SetsAreFinite, SumZero, Z3
    <3> QED  BY <3>1, <3>2
  <2>3. \A d \in Days : stat[d].minutes = LegacyOf(d) + 0
    BY <1>2, ClockAssumption DEF LegacyOf
  <2> QED  BY <1>4, <2>1, <2>2, <2>3, NothingRecorded, CeilZero DEF LedgerBooked
<1>6. TasksCounted
  <2>1. Tasks = ZeroRows  BY <1>2 DEF Tasks, ZeroRows
  <2>2. Done = {}  BY <1>3 DEF Done
  <2> QED  BY <2>1, <2>2, NothingRecorded, FS_EmptySet DEF TasksCounted
<1>7. DOMAIN stat = Days /\ \A d \in Days : DayRow(stat[d])  BY <1>2 DEF DayRow
<1> QED  BY <1>1, <1>3, <1>5, <1>6, <1>7 DEF SInv

(* One row of sessions is written without a credit. *)
LEMMA UncreditedBooks ==
  ASSUME SInv, KInv', NEW s \in Sessions, NEW x, sessions' = [sessions EXCEPT ![s] = x],
         now' = now, stat' = stat, covered' = covered,
         Booked(x), x.ledger = sessions[s].ledger,
         x.status # "COMPLETED", sessions[s].status # "COMPLETED"
  PROVE  SInv'
<1>1. sessions'[s] = x /\ \A o \in Sessions \ {s} : sessions'[o] = sessions[o]
  BY DEF SInv, KInv, IInv, Typed
<1>2. LedgerBooked'  BY <1>1, RowsBooked
<1>3. Tasks' = Tasks /\ Done' = Done  BY <1>1 DEF Tasks, Done
<1> QED  BY <1>1, <1>2, <1>3 DEF SInv, TasksCounted

(* No session is written. *)
LEMMA ElsewhereBooks ==
  ASSUME SInv, KInv', sessions' = sessions, stat' = stat, covered' = covered, now' \in Times
  PROVE  SInv'
<1>1. LedgerBooked'  BY RowsBooked
<1>2. TasksCounted'  BY TasksStay
<1> QED  BY <1>1, <1>2 DEF SInv

LEMMA HeartbeatBooks ==
  ASSUME SInv, KInv', NEW s \in Sessions, Heartbeat(s)
  PROVE  SInv'
<1>1. PICK split : split = Split(Window(s), offset)  OBVIOUS
<1>2. PICK z \in Offsets : z = offset  BY DEF SInv, KInv, IInv, Typed
<1>3. PICK x : x = CreditedSession(s, split)  OBVIOUS
<1>4. /\ sessions[s].status = "ACTIVE" /\ sessions' = [sessions EXCEPT ![s] = x]
      /\ Cover(Window(s)) /\ stat' = CreditedStat(s, split) /\ now' = now
  BY <1>1, <1>3 DEF Heartbeat
<1>5. DOMAIN sessions[s] = Fields  BY DEF SInv, KInv, IInv, Typed, Sound
<1>6. /\ x.task = sessions[s].task /\ x.status = sessions[s].status
      /\ x.ledger = [d \in Days |-> sessions[s].ledger[d] + split[d]]
      /\ x.active = sessions[s].active + Total(split)
  BY <1>3, <1>5 DEF CreditedSession, Fields
<1>7. ASSUME NEW d \in Days
      PROVE  /\ stat'[d].minutes = stat[d].minutes + MinuteDelta(s, d, split[d])
             /\ stat'[d].tasks = stat[d].tasks /\ DayRow(stat'[d])
  BY <1>4 DEF CreditedStat, SInv, DayRow
<1>8. LedgerBooked' /\ \A o \in Sessions : Booked(sessions'[o])
  <2>1. split = Split(Window(s), z) /\ x.status # "NONE"  BY <1>1, <1>2, <1>4, <1>6
  <2>2. Written(s, x, split)  BY <1>4, <1>6, <1>7, <2>1 DEF Written
  <2> QED  BY <2>1, <2>2, CreditBooks
<1>9. TasksCounted'
  <2>1. sessions'[s] = x /\ \A o \in Sessions \ {s} : sessions'[o] = sessions[o]
    BY <1>4 DEF SInv, KInv, IInv, Typed
  <2>2. Tasks' = Tasks  BY <1>7 DEF Tasks
  <2>3. Done' = Done  BY <1>6, <2>1 DEF Done
  <2> QED  BY <2>2, <2>3 DEF TasksCounted, SInv
<1>10. DOMAIN stat' = Days  BY <1>4 DEF CreditedStat
<1> QED  BY <1>4, <1>7, <1>8, <1>9, <1>10 DEF SInv

LEMMA CompleteBooks ==
  ASSUME SInv, KInv', NEW s \in Sessions, NEW z \in Offsets, Complete(s, z)
  PROVE  SInv'
<1>1. PICK split : split = Split(Window(s), z)  OBVIOUS
<1>2. PICK a \in Days : a = LocalDay(z, now)  BY DayOfTime DEF SInv
<1>3. PICK x : x = [CreditedSession(s, split) EXCEPT !.status = "COMPLETED"]  OBVIOUS
<1>4. PICK n \in Nat : n = IF sessions[s].task THEN 1 ELSE 0  OBVIOUS
<1>5. /\ sessions[s].status = "ACTIVE" /\ sessions' = [sessions EXCEPT ![s] = x]
      /\ Cover(Window(s)) /\ now' = now
      /\ stat' = [CreditedStat(s, split) EXCEPT ![a].tasks = @ + n]
  BY <1>1, <1>2, <1>3, <1>4 DEF Complete, MayComplete
<1>6. DOMAIN sessions[s] = Fields  BY DEF SInv, KInv, IInv, Typed, Sound
<1>7. /\ x.task = sessions[s].task /\ x.status = "COMPLETED"
      /\ x.ledger = [d \in Days |-> sessions[s].ledger[d] + split[d]]
      /\ x.active = sessions[s].active + Total(split)
  BY <1>3, <1>6 DEF CreditedSession, Fields
<1>8. ASSUME NEW d \in Days
      PROVE  /\ stat'[d].minutes = stat[d].minutes + MinuteDelta(s, d, split[d])
             /\ stat'[d].tasks = stat[d].tasks + IF d = a THEN n ELSE 0
             /\ DayRow(stat'[d])
  <2>1. DOMAIN stat[d] = {"minutes", "tasks"} /\ stat[d].tasks \in Nat  BY DEF SInv, DayRow
  <2>2. PICK c : c = CreditedStat(s, split)  OBVIOUS
  <2>3. PICK r : r = [stat[d] EXCEPT !.minutes = @ + MinuteDelta(s, d, split[d])]  OBVIOUS
  <2>4. DOMAIN c = Days /\ c[d] = r  BY <2>2, <2>3 DEF CreditedStat
  <2>5. stat' = [c EXCEPT ![a].tasks = @ + n]  BY <1>5, <2>2
  <2>6. /\ r.minutes = stat[d].minutes + MinuteDelta(s, d, split[d])
        /\ r.tasks = stat[d].tasks /\ DOMAIN r = {"minutes", "tasks"}
    BY <2>1, <2>3
  <2>7. CASE d = a
    <3>1. stat'[d] = [r EXCEPT !.tasks = @ + n]  BY <2>4, <2>5, <2>7
    <3>2. /\ stat'[d].minutes = r.minutes /\ stat'[d].tasks = r.tasks + n
          /\ DOMAIN stat'[d] = {"minutes", "tasks"}
      BY <2>6, <3>1
    <3> QED  BY <2>1, <2>6, <2>7, <3>2 DEF DayRow
  <2>8. CASE d # a
    <3>1. stat'[d] = r  BY <2>4, <2>5, <2>8
    <3> QED  BY <2>1, <2>6, <2>8, <3>1 DEF DayRow
  <2> QED  BY <2>7, <2>8
<1>9. LedgerBooked' /\ \A o \in Sessions : Booked(sessions'[o])
  <2>1. Written(s, x, split)  BY <1>5, <1>7, <1>8 DEF Written
  <2> QED  BY <1>1, <2>1, CreditBooks
<1>10. TasksCounted'
  <2>1. x.task \in BOOLEAN  BY <1>7 DEF SInv, Booked
  <2>2. \A d \in Days : stat'[d].tasks =
          stat[d].tasks + IF d = a /\ x.task /\ x.status = "COMPLETED" THEN 1 ELSE 0
    BY <1>4, <1>7, <1>8
  <2>3. sessions[s].status # "COMPLETED"  BY <1>5
  <2> QED  BY <1>5, <2>1, <2>2, <2>3, TaskBooked
<1>11. DOMAIN stat' = Days  BY <1>5 DEF CreditedStat
<1> QED  BY <1>5, <1>8, <1>9, <1>10, <1>11 DEF SInv

LEMMA RefreshBooks ==
  ASSUME SInv, KInv', NEW s \in Sessions,
         AdvanceTimer(s) \/ SubmitAttempt(s) \/ RefreshTrainingContext(s)
  PROVE  SInv'
<1>1. now' = now /\ now \in Times /\ stat' = stat /\ covered' = covered
  BY DEF AdvanceTimer, SubmitAttempt, RefreshTrainingContext, SInv
<1>2. DOMAIN sessions[s] = Fields /\ Booked(sessions[s])  BY DEF SInv, KInv, IInv, Typed, Sound
<1>3. ASSUME NEW x, sessions' = [sessions EXCEPT ![s] = x], sessions[s].status = "ACTIVE",
             x.task = sessions[s].task, x.active = sessions[s].active,
             x.ledger = sessions[s].ledger, x.status = "ACTIVE"
      PROVE  SInv'
  <2>1. Booked(x)  BY <1>2, <1>3 DEF Booked
  <2> QED  BY <1>1, <1>3, <2>1, UncreditedBooks
<1>4. CASE AdvanceTimer(s)
  <2>1. PICK x : x = [sessions[s] EXCEPT !.timer = ResolveTimer(sessions[s].timer, now)]  OBVIOUS
  <2>2. sessions[s].status = "ACTIVE" /\ sessions' = [sessions EXCEPT ![s] = x]
    BY <1>4, <2>1 DEF AdvanceTimer
  <2> QED  BY <1>2, <1>3, <2>1, <2>2 DEF Fields
<1>5. CASE SubmitAttempt(s)
  <2>1. PICK x : x = [sessions[s] EXCEPT !.answered = TRUE]  OBVIOUS
  <2>2. sessions[s].status = "ACTIVE" /\ sessions' = [sessions EXCEPT ![s] = x]
    BY <1>5, <2>1 DEF SubmitAttempt
  <2> QED  BY <1>2, <1>3, <2>1, <2>2 DEF Fields
<1>6. CASE RefreshTrainingContext(s) /\ StillNeeded(s)
  <2>1. PICK x : x = [sessions[s] EXCEPT !.context = "CURRENT"]  OBVIOUS
  <2>2. sessions[s].status = "ACTIVE" /\ sessions' = [sessions EXCEPT ![s] = x]
    BY <1>6, <2>1 DEF RefreshTrainingContext, StillNeeded, NeedsTrainingRefresh
  <2> QED  BY <1>2, <1>3, <2>1, <2>2 DEF Fields
<1>7. CASE RefreshTrainingContext(s) /\ ~StillNeeded(s)
  <2>1. sessions' = sessions  BY <1>7 DEF RefreshTrainingContext
  <2> QED  BY <1>1, <2>1, ElsewhereBooks
<1> QED  BY <1>4, <1>5, <1>6, <1>7

LEMMA CreateBooks ==
  ASSUME SInv, KInv', NEW s \in Sessions, NEW task \in BOOLEAN, Create(s, task)
  PROVE  SInv'
<1>1. PICK x : x = Fresh(task, "CURRENT")  OBVIOUS
<1>2. /\ sessions[s].status = "NONE" /\ sessions' = [sessions EXCEPT ![s] = x]
      /\ now' = now /\ stat' = stat /\ covered' = covered
  BY <1>1 DEF Create
<1>3. Booked(x)  BY <1>1, FreshIsBooked
<1>4. x.status = "ACTIVE" /\ x.ledger = ZeroRows  BY <1>1 DEF Fresh, ZeroRows
<1>5. sessions[s].ledger = ZeroRows  BY <1>2 DEF SInv, Booked
<1> QED  BY <1>2, <1>3, <1>4, <1>5, UncreditedBooks

LEMMA SInvStep == SInv /\ [Next]_vars => SInv'
<1> SUFFICES ASSUME SInv, [Next]_vars PROVE SInv'
  OBVIOUS
<1>0. KInv' /\ now \in Times  BY KInvStep DEF SInv
<1>1. CASE Tick
  <2>1. now' \in Times  BY <1>1, ClockAssumption DEF Tick, SInv, Times
  <2> QED  BY <1>0, <1>1, <2>1, ElsewhereBooks DEF Tick
<1>2. CASE (\E z \in Offsets : ChangeTimezone(z)) \/ (\E s \in Sessions : Get(s)) \/ UNCHANGED vars
  <2>1. sessions' = sessions /\ stat' = stat /\ covered' = covered /\ now' = now
    BY <1>2 DEF ChangeTimezone, Get, vars
  <2> QED  BY <1>0, <2>1, ElsewhereBooks
<1>3. ASSUME NEW s \in Sessions, NEW task \in BOOLEAN, Create(s, task) PROVE SInv'
  BY <1>0, <1>3, CreateBooks
<1>4. ASSUME NEW s \in Sessions, NEW z \in Offsets, Complete(s, z) PROVE SInv'
  BY <1>0, <1>4, CompleteBooks
<1>5. ASSUME NEW s \in Sessions, Heartbeat(s) PROVE SInv'
  BY <1>0, <1>5, HeartbeatBooks
<1>6. ASSUME NEW s \in Sessions,
             AdvanceTimer(s) \/ SubmitAttempt(s) \/ RefreshTrainingContext(s)
      PROVE  SInv'
  BY <1>0, <1>6, RefreshBooks
<1> QED  BY <1>1, <1>2, <1>3, <1>4, <1>5, <1>6 DEF Next

LEMMA StatisticsAgree == SInv => StatsMatchLedger
<1> SUFFICES ASSUME SInv PROVE StatsMatchLedger
  OBVIOUS
<1>1. ASSUME NEW d \in Days
      PROVE  /\ stat[d].minutes = LegacyOf(d) + CeilMinutes(LedgerOf(d))
             /\ LegacyMinutes(d) = LegacyOf(d)
  <2>1. LedgerOf(d) \in Nat  BY LedgerIsNumber DEF SInv, Ledger
  <2>2. PICK c \in Nat : c = CeilMinutes(LedgerOf(d))  BY <2>1, CeilIsNumber
  <2>3. PICK l \in Nat : l = LegacyOf(d)  BY ClockAssumption DEF LegacyOf
  <2>4. stat[d].minutes = l + c  BY <2>2, <2>3 DEF SInv, LedgerBooked
  <2>5. stat[d].minutes - c = l  BY <2>4
  <2> QED  BY <2>2, <2>3, <2>4, <2>5 DEF LegacyMinutes
<1> QED  BY <1>1 DEF StatsMatchLedger, SInv, Booked, LedgerBooked, TasksCounted, Ledger, Tasks, Done

(* A session's seconds are its rows, the units credited are all rows, the  *)
(* minutes of a day are its rows rounded up once beside what it had before *)
(* the ledger, and a completed task is counted once (creditStudyActivity,  *)
(* finishEvidenceSession).                                                 *)
THEOREM StatisticsAreTheLedger == Spec => []StatsMatchLedger
BY SInvBegins, SInvStep, StatisticsAgree, PTL DEF Spec
-----------------------------------------------------------------------------
(* The larger and the smaller of two numbers (Math.max, Math.min). *)
LEMMA LargerOfTwo ==
  ASSUME NEW x \in Int, NEW y \in Int
  PROVE  Max({x, y}) = IF x >= y THEN x ELSE y
<1> DEFINE m == IF x >= y THEN x ELSE y
<1>1. m \in {x, y} /\ \A z \in {x, y} : m >= z  OBVIOUS
<1>2. \A n \in {x, y} : (\A z \in {x, y} : n >= z) => n = m  OBVIOUS
<1> QED  BY <1>1, <1>2 DEF Max

LEMMA SmallerOfTwo ==
  ASSUME NEW x \in Int, NEW y \in Int
  PROVE  Min({x, y}) = IF x <= y THEN x ELSE y
<1> DEFINE m == IF x <= y THEN x ELSE y
<1>1. m \in {x, y} /\ \A z \in {x, y} : m <= z  OBVIOUS
<1>2. \A n \in {x, y} : (\A z \in {x, y} : n <= z) => n = m  OBVIOUS
<1> QED  BY <1>1, <1>2 DEF Min
-----------------------------------------------------------------------------
(***************************************************************************)
(* The timeline.  Rows and their numbers first, then the order of the      *)
(* grants that are not finished, the loop that lays them, the invariant,   *)
(* and what each operation does to it.                                     *)
(***************************************************************************)
Exists(gs, s) == gs[s].status # "NONE"

(* Rows as the operations find them. *)
Sane(gs) ==
  /\ gs \in [Sources -> Grant]
  /\ \A s \in Sources :
       /\ gs[s].startsAt <= gs[s].endsAt /\ gs[s].endsAt <= gs[s].startsAt + Duration(s)
       /\ gs[s].remainingSeconds <= DurationSeconds[s]

(* Rows are numbered as they are inserted. *)
Numbered(gs) ==
  /\ \A s \in Sources : Exists(gs, s) => gs[s].createdAt <= Rows(gs)
  /\ \A s \in Sources : \A t \in Sources \ {s} :
       Exists(gs, s) /\ Exists(gs, t) => gs[s].createdAt # gs[t].createdAt

(* Constants. *)
LEMMA SourcesFinite == IsFiniteSet(Sources)
<1>1. IsFiniteSet(Orders) /\ IsFiniteSet({Gift})  BY EntitlementAssumption, FS_Singleton
<1> QED  BY <1>1, FS_Union DEF Sources

LEMMA DurationIs ==
  /\ Second \in Nat /\ Second > 0
  /\ \A s \in Sources : /\ DurationSeconds[s] \in Nat /\ DurationSeconds[s] > 0
                        /\ Duration(s) = DurationSeconds[s] * Second
                        /\ Duration(s) \in Nat /\ Duration(s) > 0
<1>1. Second \in Nat /\ Second > 0  BY EntitlementAssumption
<1>2. \A s \in Sources : DurationSeconds[s] \in Nat /\ DurationSeconds[s] > 0
  BY EntitlementAssumption
<1>3. \A m \in Nat, n \in Nat : m > 0 /\ n > 0 => m * n \in Nat /\ m * n > 0  OBVIOUS
<1> QED  BY <1>1, <1>2, <1>3 DEF Duration

(* A suspension rounds up, by less than a second. *)
LEMMA SecondsRound ==
  ASSUME NEW ticks \in Nat
  PROVE  /\ Seconds(ticks) \in Nat
         /\ ticks <= Seconds(ticks) * Second /\ Seconds(ticks) * Second <= ticks + (Second - 1)
         /\ \A n \in Nat : ticks <= n * Second => Seconds(ticks) <= n
<1> DEFINE q == Seconds(ticks)
<1>1. Second \in Nat /\ Second > 0  BY DurationIs
<1>2. /\ q \in Int
      /\ q * Second <= ticks + Second - 1 /\ ticks + Second - 1 < (q + 1) * Second
  <2>1. \A x \in Int, d \in Nat : d > 0 =>
          /\ x \div d \in Int /\ (x \div d) * d <= x /\ x < ((x \div d) + 1) * d
    OBVIOUS
  <2>2. ticks + Second - 1 \in Int  BY <1>1
  <2> QED  BY <1>1, <2>1, <2>2 DEF Seconds
<1> HIDE DEF q
<1>3. (q + 1) * Second = q * Second + Second /\ q * Second \in Int  BY <1>1, <1>2
<1>4. q >= 0
  <2>1. \A m \in Int, d \in Nat : m + 1 <= 0 => (m + 1) * d <= 0  OBVIOUS
  <2> QED  BY <1>1, <1>2, <2>1
<1>5. ASSUME NEW n \in Nat, ticks <= n * Second PROVE q <= n
  <2> SUFFICES ASSUME q >= n + 1 PROVE FALSE
    BY <1>2
  <2>1. (n + 1) * Second <= q * Second
    <3>1. \A a \in Nat, m \in Nat, d \in Nat : a <= m => a * d <= m * d  OBVIOUS
    <3> QED  BY <1>1, <1>2, <1>4, <3>1
  <2>2. (n + 1) * Second = n * Second + Second /\ n * Second \in Int  BY <1>1
  <2> QED  BY <1>1, <1>2, <1>3, <1>5, <2>1, <2>2
<1>6. q \in Nat /\ ticks <= q * Second /\ q * Second <= ticks + (Second - 1)
  BY <1>1, <1>2, <1>3, <1>4
<1> QED  BY <1>5, <1>6 DEF q

(* Of grants that are not finished there is a last one. *)
LEMMA LatestIs ==
  ASSUME NEW gs, Sane(gs), Numbered(gs), NEW S \in SUBSET Unfinished(gs), S # {}
  PROVE  /\ Latest(gs, S) \in S
         /\ \A t \in S \ {Latest(gs, S)} : Earlier(gs[t], gs[Latest(gs, S)])
<1> DEFINE U == Unfinished(gs)
           Last(s, x) == \A t \in s \ {x} : Earlier(gs[t], gs[x])
           P == {s \in SUBSET U : s # {} => \E x \in s : Last(s, x)}
<1>1. U \in SUBSET Sources /\ IsFiniteSet(U)
  <2>1. U \in SUBSET Sources  BY DEF Unfinished
  <2> QED  BY <2>1, SourcesFinite, FS_Subset
<1>2. ASSUME NEW s \in U, NEW t \in U, s # t
      PROVE  Earlier(gs[s], gs[t]) \/ Earlier(gs[t], gs[s])
  <2>1. Exists(gs, s) /\ Exists(gs, t) /\ s \in Sources /\ t \in Sources
    BY DEF Unfinished, Exists
  <2>2. gs[s].createdAt # gs[t].createdAt  BY <1>2, <2>1 DEF Numbered
  <2>3. /\ gs[s].startsAt \in Nat /\ gs[t].startsAt \in Nat
        /\ gs[s].createdAt \in Nat /\ gs[t].createdAt \in Nat
    BY <2>1 DEF Sane, Grant
  <2> QED  BY <2>2, <2>3 DEF Earlier
<1>3. ASSUME NEW s \in U, NEW t \in U, NEW u \in U,
             Earlier(gs[s], gs[t]), Earlier(gs[t], gs[u])
      PROVE  Earlier(gs[s], gs[u])
  <2>1. \A x \in U : gs[x].startsAt \in Nat /\ gs[x].createdAt \in Nat
    BY <1>1 DEF Sane, Grant
  <2> QED  BY <1>3, <2>1 DEF Earlier
<1>4. {} \in P  OBVIOUS
<1>5. ASSUME NEW s \in SUBSET U, s # {}, \A x \in s : s \ {x} \in P  PROVE s \in P
  <2>1. PICK x \in s : TRUE  BY <1>5
  <2>2. CASE s \ {x} = {}
    <3>1. Last(s, x)  BY <2>2
    <3> QED  BY <2>1, <3>1
  <2>3. CASE s \ {x} # {}
    <3>1. PICK y \in s \ {x} : Last(s \ {x}, y)  BY <1>5, <2>1, <2>3
    <3>2. CASE Earlier(gs[x], gs[y])
      <4>1. Last(s, y)  BY <3>1, <3>2
      <4> QED  BY <3>1, <4>1
    <3>3. CASE Earlier(gs[y], gs[x])
      <4>1. Last(s, x)  BY <1>3, <2>1, <3>1, <3>3
      <4> QED  BY <2>1, <4>1
    <3> QED  BY <1>2, <2>1, <3>1, <3>2, <3>3
  <2> QED  BY <2>2, <2>3
<1>6. S \in P
  <2>1. S \in SUBSET U  OBVIOUS
  <2> HIDE DEF P, U
  <2> QED  BY <1>1, <1>4, <1>5, <2>1, SubsetsGrow
<1>7. \E x \in S : \A t \in S \ {x} : Earlier(gs[t], gs[x])  BY <1>6
<1> QED  BY <1>7 DEF Latest

(* What a grant has left is a number, and no more than it had. *)
LEMMA RemainingIs ==
  ASSUME clock \in Nat, NEW g \in Grant, g.startsAt <= g.endsAt
  PROVE  /\ Remaining(g) \in Nat
         /\ g.status = "SUSPENDED" => Remaining(g) = g.remainingSeconds * Second
         /\ g.status # "SUSPENDED" =>
              Remaining(g) = IF g.endsAt <= clock THEN 0
                             ELSE g.endsAt - (IF g.startsAt >= clock THEN g.startsAt ELSE clock)
<1>1. g.startsAt \in Nat /\ g.endsAt \in Nat /\ g.remainingSeconds \in Nat  BY DEF Grant
<1>2. Second \in Nat  BY DurationIs
<1>3. g.remainingSeconds * Second \in Nat  BY <1>1, <1>2
<1>4. Max({clock, g.startsAt}) = IF clock >= g.startsAt THEN clock ELSE g.startsAt
  BY <1>1, LargerOfTwo
<1> DEFINE n == g.endsAt - Max({clock, g.startsAt})
<1>5. Max({0, n}) = IF 0 >= n THEN 0 ELSE n
  <2>1. n \in Int  BY <1>1, <1>4
  <2> HIDE DEF n
  <2> QED  BY <2>1, LargerOfTwo
<1>6. Remaining(g) = IF g.status = "SUSPENDED" THEN g.remainingSeconds * Second ELSE Max({0, n})
  BY DEF Remaining
<1> QED  BY <1>1, <1>3, <1>4, <1>5, <1>6

LEMMA RemainingFits ==
  ASSUME clock \in Nat, NEW gs, Sane(gs), NEW s \in Sources
  PROVE  /\ Remaining(gs[s]) \in Nat /\ Remaining(gs[s]) <= Duration(s)
         /\ Seconds(Remaining(gs[s])) \in Nat /\ Seconds(Remaining(gs[s])) <= DurationSeconds[s]
<1> DEFINE g == gs[s]
<1>1. /\ g \in Grant /\ g.startsAt <= g.endsAt /\ g.endsAt <= g.startsAt + Duration(s)
      /\ g.remainingSeconds <= DurationSeconds[s]
  BY DEF Sane
<1>2. g.startsAt \in Nat /\ g.endsAt \in Nat /\ g.remainingSeconds \in Nat  BY <1>1 DEF Grant
<1>3. /\ Second \in Nat /\ DurationSeconds[s] \in Nat
      /\ Duration(s) = DurationSeconds[s] * Second /\ Duration(s) \in Nat
  BY DurationIs
<1> HIDE DEF g
<1>4. g.remainingSeconds * Second <= DurationSeconds[s] * Second
  <2>1. \A a \in Nat, b \in Nat, d \in Nat : a <= b => a * d <= b * d  OBVIOUS
  <2> QED  BY <1>1, <1>2, <1>3, <2>1
<1>5. Remaining(g) \in Nat /\ Remaining(g) <= Duration(s)
  BY <1>1, <1>2, <1>3, <1>4, RemainingIs
<1>6. Seconds(Remaining(g)) \in Nat /\ Seconds(Remaining(g)) <= DurationSeconds[s]
  BY <1>3, <1>5, SecondsRound
<1> QED  BY <1>5, <1>6 DEF g

(* What the loop of changeOrderGrant() carries from one grant to the next. *)
Ordered(gs) == gs \in [Sources -> Grant] /\ \A s \in Sources : gs[s].startsAt <= gs[s].endsAt
Lays == [tail : Nat, grant : {gs \in [Sources -> Grant] : Ordered(gs)}]

(* What one turn of that loop does. *)
LEMMA LayIs ==
  ASSUME clock \in Nat, NEW laid \in Lays, NEW s \in Sources
  PROVE  LET next   == Lay(laid, s)
             length == Remaining(laid.grant[s])
         IN  /\ next \in Lays /\ length \in Nat
             /\ \A t \in Sources \ {s} : next.grant[t] = laid.grant[t]
             /\ s = Gift =>
                  /\ next.grant = laid.grant
                  /\ next.tail = IF laid.tail >= laid.grant[s].endsAt THEN laid.tail
                                                                     ELSE laid.grant[s].endsAt
             /\ s # Gift =>
                  /\ next.tail = laid.tail + length
                  /\ next.grant[s] = [laid.grant[s] EXCEPT !.startsAt = laid.tail,
                                                          !.endsAt = laid.tail + length,
                                                          !.remainingSeconds = Seconds(length)]
<1> DEFINE g == laid.grant[s]
           length == Remaining(g)
           moved == [g EXCEPT !.startsAt = laid.tail, !.endsAt = laid.tail + length,
                              !.remainingSeconds = Seconds(length)]
<1>1. /\ laid.tail \in Nat /\ laid.grant \in [Sources -> Grant] /\ Ordered(laid.grant)
      /\ laid = [tail |-> laid.tail, grant |-> laid.grant]
  BY DEF Lays
<1>2. g \in Grant /\ g.startsAt <= g.endsAt /\ g.endsAt \in Nat  BY <1>1 DEF Ordered, Grant
<1>3. length \in Nat  BY <1>2, RemainingIs
<1>4. CASE s = Gift
  <2> DEFINE end == IF laid.tail >= g.endsAt THEN laid.tail ELSE g.endsAt
  <2>1. Max({laid.tail, g.endsAt}) = end  BY <1>1, <1>2, LargerOfTwo
  <2>2. Lay(laid, s) = [tail |-> end, grant |-> laid.grant]  BY <1>1, <1>4, <2>1 DEF Lay
  <2>3. end \in Nat  BY <1>1, <1>2
  <2> HIDE DEF end, g
  <2>4. Lay(laid, s) \in Lays  BY <1>1, <2>2, <2>3 DEF Lays
  <2> QED  BY <1>3, <1>4, <2>2, <2>4 DEF end, g
<1>5. CASE s # Gift
  <2>1. /\ moved \in Grant /\ moved.startsAt <= moved.endsAt
    <3>1. /\ laid.tail + length \in Nat /\ Seconds(length) \in Nat
          /\ laid.tail <= laid.tail + length
      BY <1>1, <1>3, SecondsRound
    <3> HIDE DEF g, length
    <3>2. moved \in Grant  BY <1>1, <1>2, <3>1 DEF Grant
    <3>3. moved.startsAt = laid.tail /\ moved.endsAt = laid.tail + length  BY <1>2 DEF Grant
    <3> QED  BY <3>1, <3>2, <3>3
  <2>2. Lay(laid, s) = [tail |-> laid.tail + length, grant |-> [laid.grant EXCEPT ![s] = moved]]
    BY <1>1, <1>5 DEF Lay
  <2> HIDE DEF moved, g, length
  <2>3. Lay(laid, s) \in Lays
    <3>1. [laid.grant EXCEPT ![s] = moved] \in [Sources -> Grant]  BY <1>1, <2>1
    <3>2. Ordered([laid.grant EXCEPT ![s] = moved])  BY <1>1, <2>1, <3>1 DEF Ordered
    <3>3. laid.tail + length \in Nat  BY <1>1, <1>3
    <3> QED  BY <2>2, <3>1, <3>2, <3>3 DEF Lays
  <2>4. /\ Lay(laid, s).tail = laid.tail + length
        /\ Lay(laid, s).grant = [laid.grant EXCEPT ![s] = moved]
    BY <2>2
  <2>5. /\ Lay(laid, s).grant[s] = moved
        /\ \A t \in Sources \ {s} : Lay(laid, s).grant[t] = laid.grant[t]
    BY <1>1, <2>4
  <2> QED  BY <1>3, <1>5, <2>3, <2>4, <2>5 DEF moved, g, length
<1> QED  BY <1>4, <1>5

(* The recursions of the timeline, as equations. *)
Laid(laid, gs) ==
  laid = [S \in SUBSET Unfinished(gs) |->
            IF S = {} THEN [tail |-> clock, grant |-> gs]
            ELSE LET last == Latest(gs, S) IN Lay(laid[S \ {last}], last)]

Chain(chain, gs) ==
  chain = [S \in SUBSET Unfinished(gs) |->
             IF S = {} THEN clock
             ELSE LET last == Latest(gs, S) IN Reach(gs, chain[S \ {last}], last)]

LEMMA UnfinishedIs ==
  ASSUME NEW gs
  PROVE  /\ Unfinished(gs) \in SUBSET Sources /\ IsFiniteSet(Unfinished(gs))
         /\ \A s \in Unfinished(gs) : gs[s].status = "ACTIVE" /\ gs[s].endsAt > clock
<1>1. Unfinished(gs) \in SUBSET Sources  BY DEF Unfinished
<1> QED  BY <1>1, SourcesFinite, FS_Subset DEF Unfinished

(* They define what they are meant to: the loop and the chain exist. *)
LEMMA RelayIs ==
  ASSUME clock \in Nat, NEW gs, Sane(gs), Numbered(gs)
  PROVE  \E laid \in [SUBSET Unfinished(gs) -> Lays] :
           Laid(laid, gs) /\ Relay(gs) = laid[Unfinished(gs)].grant
<1> DEFINE U == Unfinished(gs)
           c == [S \in SUBSET U |-> Latest(gs, S)]
           b == [tail |-> clock, grant |-> gs]
           F == [p \in Lays \X U |-> Lay(p[1], p[2])]
<1>1. U \in SUBSET Sources /\ IsFiniteSet(U)  BY UnfinishedIs
<1>2. \A S \in SUBSET U : S # {} => Latest(gs, S) \in S  BY LatestIs
<1>3. b \in Lays  BY DEF Lays, Ordered, Sane
<1>4. ASSUME NEW l \in Lays, NEW s \in U PROVE Lay(l, s) \in Lays  BY <1>1, LayIs
<1>5. F \in [Lays \X U -> Lays] /\ \A l \in Lays, s \in U : F[<<l, s>>] = Lay(l, s)  BY <1>4
<1>6. PICK g \in [SUBSET U -> Lays] : Folded(g, U, c, b, F)
  <2>1. \A S \in SUBSET U : S # {} => c[S] \in S  BY <1>2
  <2> HIDE DEF U, c, b, F
  <2> QED  BY <1>1, <1>3, <1>5, <2>1, FoldExists
<1>7. Laid(g, gs)
  <2>1. ASSUME NEW S \in SUBSET U
        PROVE  g[S] = IF S = {} THEN b
                      ELSE LET last == Latest(gs, S) IN Lay(g[S \ {last}], last)
    <3>1. c[S] = Latest(gs, S)  OBVIOUS
    <3>2. CASE S = {}  BY <1>6, <3>2 DEF Folded
    <3>3. CASE S # {}
      <4>1. Latest(gs, S) \in U /\ S \ {Latest(gs, S)} \in SUBSET U  BY <1>2, <3>3
      <4>2. g[S] = F[<<g[S \ {c[S]}], c[S]>>]  BY <1>6, <3>3 DEF Folded
      <4> HIDE DEF F, U, c, b
      <4> QED  BY <1>5, <1>6, <3>1, <3>3, <4>1, <4>2
    <3> QED  BY <3>2, <3>3
  <2> QED  BY <1>6, <2>1 DEF Laid
<1> DEFINE h == CHOOSE l : Laid(l, gs)
<1>8. Laid(h, gs)  BY <1>7
<1>9. Relay(gs) = h[U].grant  BY DEF Relay, Laid
<1> HIDE DEF h
<1>10. h \in [SUBSET U -> Lays]
  <2> DEFINE P == {S \in SUBSET U : h[S] \in Lays}
  <2>1. \A S \in SUBSET U : h[S] = IF S = {} THEN b
                      ELSE LET last == Latest(gs, S) IN Lay(h[S \ {last}], last)
    BY <1>8 DEF Laid
  <2>2. {} \in P  BY <1>3, <2>1
  <2>3. ASSUME NEW S \in SUBSET U, S # {}, \A x \in S : S \ {x} \in P  PROVE  S \in P
    <3>1. Latest(gs, S) \in U /\ h[S \ {Latest(gs, S)}] \in Lays  BY <1>2, <2>3
    <3>2. h[S] = Lay(h[S \ {Latest(gs, S)}], Latest(gs, S))  BY <2>1, <2>3
    <3> HIDE DEF U
    <3> QED  BY <1>4, <3>1, <3>2
  <2>4. \A S \in SUBSET U : S \in P
    <3> HIDE DEF P, U
    <3> QED  BY <1>1, <2>2, <2>3, SubsetsGrow
  <2> QED  BY <1>8, <2>4 DEF Laid
<1> QED  BY <1>8, <1>9, <1>10

LEMMA MemberUntilIs ==
  ASSUME clock \in Nat, NEW gs, Sane(gs), Numbered(gs)
  PROVE  \E chain \in [SUBSET Unfinished(gs) -> Nat] :
           Chain(chain, gs) /\ MemberUntil(gs) = chain[Unfinished(gs)]
<1> DEFINE U == Unfinished(gs)
           c == [S \in SUBSET U |-> Latest(gs, S)]
           F == [p \in Nat \X U |-> Reach(gs, p[1], p[2])]
<1>1. U \in SUBSET Sources /\ IsFiniteSet(U)  BY UnfinishedIs
<1>2. \A S \in SUBSET U : S # {} => Latest(gs, S) \in S  BY LatestIs
<1>4. ASSUME NEW n \in Nat, NEW s \in U PROVE Reach(gs, n, s) \in Nat
  <2>1. gs[s].endsAt \in Nat  BY <1>1 DEF Sane, Grant
  <2>2. Max({n, gs[s].endsAt}) = IF n >= gs[s].endsAt THEN n ELSE gs[s].endsAt
    BY <2>1, LargerOfTwo
  <2> QED  BY <2>1, <2>2 DEF Reach
<1>5. F \in [Nat \X U -> Nat] /\ \A n \in Nat, s \in U : F[<<n, s>>] = Reach(gs, n, s)  BY <1>4
<1>6. PICK g \in [SUBSET U -> Nat] : Folded(g, U, c, clock, F)
  <2>1. \A S \in SUBSET U : S # {} => c[S] \in S  BY <1>2
  <2> HIDE DEF U, c, F
  <2> QED  BY <1>1, <1>5, <2>1, FoldExists
<1>7. Chain(g, gs)
  <2>1. ASSUME NEW S \in SUBSET U
        PROVE  g[S] = IF S = {} THEN clock
                      ELSE LET last == Latest(gs, S) IN Reach(gs, g[S \ {last}], last)
    <3>1. c[S] = Latest(gs, S)  OBVIOUS
    <3>2. CASE S = {}  BY <1>6, <3>2 DEF Folded
    <3>3. CASE S # {}
      <4>1. Latest(gs, S) \in U /\ S \ {Latest(gs, S)} \in SUBSET U  BY <1>2, <3>3
      <4>2. g[S] = F[<<g[S \ {c[S]}], c[S]>>]  BY <1>6, <3>3 DEF Folded
      <4> HIDE DEF F, U, c
      <4> QED  BY <1>5, <1>6, <3>1, <3>3, <4>1, <4>2
    <3> QED  BY <3>2, <3>3
  <2> QED  BY <1>6, <2>1 DEF Chain
<1> DEFINE h == CHOOSE l : Chain(l, gs)
<1>8. Chain(h, gs)  BY <1>7
<1>9. MemberUntil(gs) = h[U]  BY DEF MemberUntil, Chain
<1> HIDE DEF h
<1>10. h \in [SUBSET U -> Nat]
  <2> DEFINE P == {S \in SUBSET U : h[S] \in Nat}
  <2>1. \A S \in SUBSET U : h[S] = IF S = {} THEN clock
                      ELSE LET last == Latest(gs, S) IN Reach(gs, h[S \ {last}], last)
    BY <1>8 DEF Chain
  <2>2. {} \in P  BY <2>1
  <2>3. ASSUME NEW S \in SUBSET U, S # {}, \A x \in S : S \ {x} \in P  PROVE  S \in P
    <3>1. Latest(gs, S) \in U /\ h[S \ {Latest(gs, S)}] \in Nat  BY <1>2, <2>3
    <3>2. h[S] = Reach(gs, h[S \ {Latest(gs, S)}], Latest(gs, S))  BY <2>1, <2>3
    <3> HIDE DEF U
    <3> QED  BY <1>4, <3>1, <3>2
  <2>4. \A S \in SUBSET U : S \in P
    <3> HIDE DEF P, U
    <3> QED  BY <1>1, <2>2, <2>3, SubsetsGrow
  <2> QED  BY <1>8, <2>4 DEF Chain
<1> QED  BY <1>8, <1>9, <1>10

(* The gift comes before everything that was bought, and does not move. *)
GiftFirst(gs) ==
  /\ gs[Gift].status \in {"NONE", "ACTIVE"}
  /\ Exists(gs, Gift) => gs[Gift].startsAt = LaunchAt
  /\ \A s \in Sources : Exists(gs, s) =>
       /\ LaunchAt <= clock /\ LaunchAt <= gs[s].startsAt
       /\ s # Gift /\ Exists(gs, Gift) => gs[Gift].createdAt < gs[s].createdAt
       /\ giftHolder => Exists(gs, Gift)

(* The grants not finished last, follow each other, and never overlap. *)
Lasting(gs) == \A s \in Unfinished(gs) : gs[s].startsAt < gs[s].endsAt

Unbroken(gs) ==
  \A s \in Unfinished(gs) :
    gs[s].startsAt <= clock \/ \E t \in Unfinished(gs) : gs[t].endsAt = gs[s].startsAt

Apart(gs) ==
  \A s \in Unfinished(gs) : \A t \in Unfinished(gs) \ {s} :
    gs[s].endsAt <= gs[t].startsAt \/ gs[t].endsAt <= gs[s].startsAt

(* What relaying leaves as it was. *)
Preserved(laid, S, gs) ==
  /\ laid.tail >= clock
  /\ \A s \in Sources :
       /\ laid.grant[s].status = gs[s].status /\ laid.grant[s].createdAt = gs[s].createdAt
       /\ Remaining(laid.grant[s]) = Remaining(gs[s])
       /\ laid.grant[s].endsAt <= laid.grant[s].startsAt + Duration(s)
       /\ laid.grant[s].remainingSeconds <= DurationSeconds[s]
       /\ s \notin S \/ s = Gift => laid.grant[s] = gs[s]

(* Laid so far: one behind the other from now on, up to the tail. *)
Tiled(laid, S) ==
  /\ \A s \in S :
       /\ laid.grant[s].startsAt < laid.grant[s].endsAt
       /\ clock < laid.grant[s].endsAt /\ laid.grant[s].endsAt <= laid.tail
       /\ \/ laid.grant[s].startsAt <= clock
          \/ \E t \in S : laid.grant[t].endsAt = laid.grant[s].startsAt
       /\ s = Gift \/ clock <= laid.grant[s].startsAt
       /\ \A t \in S \ {s} : \/ laid.grant[s].endsAt <= laid.grant[t].startsAt
                             \/ laid.grant[t].endsAt <= laid.grant[s].startsAt
  /\ laid.tail <= clock \/ \E t \in S : laid.grant[t].endsAt = laid.tail

(* One grant more. *)
LEMMA LayKeeps ==
  ASSUME clock \in Nat, NEW gs, Sane(gs), NEW laid \in Lays,
         NEW S \in SUBSET Unfinished(gs), NEW s \in Unfinished(gs), s \notin S, Preserved(laid, S, gs)
  PROVE  Preserved(Lay(laid, s), S \cup {s}, gs)
<1> DEFINE next == Lay(laid, s)
           length == Remaining(laid.grant[s])
<1>1. s \in Sources /\ gs[s].status = "ACTIVE"  BY UnfinishedIs
<1>2. laid.tail \in Nat /\ laid.grant \in [Sources -> Grant]  BY DEF Lays
<1>3. /\ length \in Nat /\ length <= Duration(s)
      /\ Seconds(length) \in Nat /\ Seconds(length) <= DurationSeconds[s]
      /\ length = Remaining(gs[s])
  BY <1>1, RemainingFits DEF Preserved
<1>4. /\ next \in Lays /\ \A t \in Sources \ {s} : next.grant[t] = laid.grant[t]
      /\ s = Gift =>
           /\ next.grant = laid.grant
           /\ next.tail = IF laid.tail >= laid.grant[s].endsAt THEN laid.tail
                                                              ELSE laid.grant[s].endsAt
      /\ s # Gift =>
           /\ next.tail = laid.tail + length
           /\ next.grant[s] = [laid.grant[s] EXCEPT !.startsAt = laid.tail,
                                                   !.endsAt = laid.tail + length,
                                                   !.remainingSeconds = Seconds(length)]
  BY <1>1, LayIs
<1> HIDE DEF next
<1>5. next.tail >= clock
  <2>1. laid.grant[s].endsAt \in Nat  BY <1>1, <1>2 DEF Grant
  <2> HIDE DEF length
  <2> QED  BY <1>2, <1>3, <1>4, <2>1 DEF Preserved
<1>6. ASSUME NEW t \in Sources, t # s \/ s = Gift
      PROVE  /\ next.grant[t].status = gs[t].status /\ next.grant[t].createdAt = gs[t].createdAt
             /\ Remaining(next.grant[t]) = Remaining(gs[t])
             /\ next.grant[t].endsAt <= next.grant[t].startsAt + Duration(t)
             /\ next.grant[t].remainingSeconds <= DurationSeconds[t]
             /\ t \notin S \cup {s} \/ t = Gift => next.grant[t] = gs[t]
  <2>1. next.grant[t] = laid.grant[t]  BY <1>4, <1>6
  <2> QED  BY <1>6, <2>1 DEF Preserved
<1>7. ASSUME s # Gift
      PROVE  /\ next.grant[s].status = gs[s].status /\ next.grant[s].createdAt = gs[s].createdAt
             /\ Remaining(next.grant[s]) = Remaining(gs[s])
             /\ next.grant[s].endsAt <= next.grant[s].startsAt + Duration(s)
             /\ next.grant[s].remainingSeconds <= DurationSeconds[s]
  <2> DEFINE m == next.grant[s]
  <2>1. m = [laid.grant[s] EXCEPT !.startsAt = laid.tail, !.endsAt = laid.tail + length,
                                  !.remainingSeconds = Seconds(length)]
    BY <1>4, <1>7
  <2>2. laid.grant[s] \in Grant  BY <1>1, <1>2
  <2> HIDE DEF length, m
  <2>3. /\ m.startsAt = laid.tail /\ m.endsAt = laid.tail + length
        /\ m.remainingSeconds = Seconds(length)
        /\ m.status = laid.grant[s].status /\ m.createdAt = laid.grant[s].createdAt
    BY <2>1, <2>2 DEF Grant
  <2>4. m.status = gs[s].status /\ m.createdAt = gs[s].createdAt  BY <1>1, <2>3 DEF Preserved
  <2>5. m \in Grant /\ m.startsAt <= m.endsAt  BY <1>1, <1>4 DEF Lays, Ordered, m
  <2>6. Duration(s) \in Nat  BY <1>1, DurationIs
  <2>7. Remaining(m) = length
    <3>1. m.status # "SUSPENDED"  BY <1>1, <2>4
    <3>2. Remaining(m) = IF m.endsAt <= clock THEN 0
                         ELSE m.endsAt - (IF m.startsAt >= clock THEN m.startsAt ELSE clock)
      BY <2>5, <3>1, RemainingIs
    <3>3. laid.tail >= clock  BY DEF Preserved
    <3> QED  BY <1>2, <1>3, <2>3, <3>2, <3>3
  <2>8. m.endsAt <= m.startsAt + Duration(s) /\ m.remainingSeconds <= DurationSeconds[s]
    BY <1>2, <1>3, <2>3, <2>6
  <2> QED  BY <1>3, <2>4, <2>7, <2>8 DEF m
<1>8. ASSUME NEW t \in Sources
      PROVE  /\ next.grant[t].status = gs[t].status /\ next.grant[t].createdAt = gs[t].createdAt
             /\ Remaining(next.grant[t]) = Remaining(gs[t])
             /\ next.grant[t].endsAt <= next.grant[t].startsAt + Duration(t)
             /\ next.grant[t].remainingSeconds <= DurationSeconds[t]
             /\ t \notin S \cup {s} \/ t = Gift => next.grant[t] = gs[t]
  <2>1. CASE t # s \/ s = Gift  BY <1>6, <2>1
  <2>2. CASE t = s /\ s # Gift  BY <1>7, <2>2
  <2> QED  BY <2>1, <2>2
<1> QED  BY <1>5, <1>8 DEF Preserved, next

LEMMA LayTiles ==
  ASSUME clock \in Nat, NEW gs, Sane(gs), Lasting(gs), NEW laid \in Lays,
         NEW S \in SUBSET Unfinished(gs), NEW s \in Unfinished(gs), s \notin S,
         Preserved(laid, S, gs), Tiled(laid, S),
         s = Gift => S = {} /\ gs[Gift].startsAt <= clock
  PROVE  Tiled(Lay(laid, s), S \cup {s})
<1> DEFINE next == Lay(laid, s)
           length == Remaining(laid.grant[s])
<1>1. s \in Sources /\ S \in SUBSET Sources /\ gs[s].status = "ACTIVE" /\ clock < gs[s].endsAt
  BY UnfinishedIs
<1>2. laid.tail \in Nat /\ laid.grant \in [Sources -> Grant]  BY DEF Lays
<1>3. \A t \in Sources : laid.grant[t].startsAt \in Nat /\ laid.grant[t].endsAt \in Nat
  BY <1>2 DEF Grant
<1>4. gs[s] \in Grant /\ gs[s].startsAt \in Nat /\ gs[s].endsAt \in Nat /\ gs[s].startsAt < gs[s].endsAt
  BY <1>1 DEF Sane, Lasting, Grant
<1>5. length \in Nat /\ length > 0
  <2>1. length = Remaining(gs[s])  BY <1>1 DEF Preserved
  <2>2. length = gs[s].endsAt - (IF gs[s].startsAt >= clock THEN gs[s].startsAt ELSE clock)
    BY <1>1, <1>4, <2>1, RemainingIs
  <2> HIDE DEF length
  <2> QED  BY <1>1, <1>4, <2>2
<1>6. /\ next \in Lays /\ \A t \in Sources \ {s} : next.grant[t] = laid.grant[t]
      /\ s = Gift =>
           /\ next.grant = laid.grant
           /\ next.tail = IF laid.tail >= laid.grant[s].endsAt THEN laid.tail
                                                              ELSE laid.grant[s].endsAt
      /\ s # Gift =>
           /\ next.tail = laid.tail + length
           /\ next.grant[s] = [laid.grant[s] EXCEPT !.startsAt = laid.tail,
                                                   !.endsAt = laid.tail + length,
                                                   !.remainingSeconds = Seconds(length)]
  BY <1>1, LayIs
<1> HIDE DEF next, length
<1>7. CASE s = Gift
  <2>1. S = {} /\ next.grant[s] = gs[s] /\ gs[s].startsAt <= clock  BY <1>1, <1>6, <1>7 DEF Preserved
  <2>2. laid.tail <= clock  BY <2>1 DEF Tiled
  <2>3. next.tail = gs[s].endsAt /\ laid.grant[s] = gs[s]
    BY <1>1, <1>2, <1>4, <1>6, <1>7, <2>1, <2>2
  <2>4. S \cup {s} = {s}  BY <2>1
  <2>5. Tiled(next, {s})  BY <1>1, <1>4, <1>7, <2>1, <2>3 DEF Tiled
  <2> QED  BY <2>4, <2>5 DEF next
<1>8. CASE s # Gift
  <2> DEFINE m == next.grant[s]
  <2>1. m.startsAt = laid.tail /\ m.endsAt = laid.tail + length /\ next.tail = m.endsAt
    <3>1. laid.grant[s] \in Grant  BY <1>1, <1>2
    <3> QED  BY <1>6, <1>8, <3>1 DEF Grant
  <2>2. \A t \in S : next.grant[t] = laid.grant[t] /\ t # s  BY <1>1, <1>6
  <2>3. laid.tail >= clock  BY DEF Preserved
  <2> HIDE DEF m
  <2>4. m.startsAt < m.endsAt /\ clock < m.endsAt /\ clock <= m.startsAt /\ laid.tail <= m.endsAt
    BY <1>2, <1>5, <2>1, <2>3
  <2>5. \/ m.startsAt <= clock
        \/ \E t \in S \cup {s} : next.grant[t].endsAt = m.startsAt
    BY <2>1, <2>2 DEF Tiled
  <2>6. \A t \in S : next.grant[t].endsAt <= m.startsAt  BY <2>1, <2>2 DEF Tiled
  <2>7. ASSUME NEW t \in S
        PROVE  /\ next.grant[t].startsAt < next.grant[t].endsAt
               /\ clock < next.grant[t].endsAt /\ next.grant[t].endsAt <= next.tail
               /\ \/ next.grant[t].startsAt <= clock
                  \/ \E u \in S \cup {s} : next.grant[u].endsAt = next.grant[t].startsAt
               /\ t = Gift \/ clock <= next.grant[t].startsAt
               /\ \A u \in S \ {t} : \/ next.grant[t].endsAt <= next.grant[u].startsAt
                                     \/ next.grant[u].endsAt <= next.grant[t].startsAt
    <3>1. next.grant[t].endsAt <= next.tail
      <4>1. next.grant[t].endsAt <= laid.tail /\ next.grant[t].endsAt \in Nat
        BY <1>1, <1>3, <2>2 DEF Tiled
      <4>2. m.endsAt \in Nat  BY <1>2, <1>5, <2>1
      <4> QED  BY <1>2, <2>1, <2>4, <4>1, <4>2
    <3>2. \/ next.grant[t].startsAt <= clock
          \/ \E u \in S \cup {s} : next.grant[u].endsAt = next.grant[t].startsAt
      BY <2>2 DEF Tiled
    <3> QED  BY <2>2, <3>1, <3>2 DEF Tiled
  <2>8. ASSUME NEW t \in S \cup {s}
        PROVE  /\ next.grant[t].startsAt < next.grant[t].endsAt
               /\ clock < next.grant[t].endsAt /\ next.grant[t].endsAt <= next.tail
               /\ \/ next.grant[t].startsAt <= clock
                  \/ \E u \in S \cup {s} : next.grant[u].endsAt = next.grant[t].startsAt
               /\ t = Gift \/ clock <= next.grant[t].startsAt
               /\ \A u \in (S \cup {s}) \ {t} : \/ next.grant[t].endsAt <= next.grant[u].startsAt
                                               \/ next.grant[u].endsAt <= next.grant[t].startsAt
    <3>1. CASE t = s
      <4>1. m.endsAt <= next.tail  BY <1>2, <1>5, <2>1
      <4>2. \A u \in (S \cup {s}) \ {s} : next.grant[u].endsAt <= m.startsAt  BY <2>6
      <4> QED  BY <2>4, <2>5, <3>1, <4>1, <4>2 DEF m
    <3>2. CASE t \in S
      <4>1. next.grant[t].endsAt <= next.grant[s].startsAt  BY <2>6, <3>2 DEF m
      <4> QED  BY <2>7, <3>2, <4>1
    <3> QED  BY <3>1, <3>2
  <2>9. \E t \in S \cup {s} : next.grant[t].endsAt = next.tail  BY <2>1 DEF m
  <2>10. Tiled(next, S \cup {s})  BY <2>8, <2>9 DEF Tiled
  <2> QED  BY <2>10 DEF next
<1> QED  BY <1>7, <1>8

(* With a grant, all that come before it. *)
Closed(S, gs) == \A s \in S : \A t \in Unfinished(gs) : Earlier(gs[t], gs[s]) => t \in S

LEMMA EarlierOnce ==
  ASSUME NEW gs, Sane(gs), NEW s \in Sources, NEW t \in Sources,
         Earlier(gs[s], gs[t]), Earlier(gs[t], gs[s])
  PROVE  FALSE
<1>1. /\ gs[s].startsAt \in Nat /\ gs[t].startsAt \in Nat
      /\ gs[s].createdAt \in Nat /\ gs[t].createdAt \in Nat
  BY DEF Sane, Grant
<1> QED  BY <1>1 DEF Earlier

(* The gift is the first grant of the timeline. *)
LEMMA GiftIsFirst ==
  ASSUME clock \in Nat, NEW gs, Sane(gs), GiftFirst(gs), Gift \in Unfinished(gs)
  PROVE  /\ gs[Gift].startsAt <= clock
         /\ \A t \in Unfinished(gs) \ {Gift} : Earlier(gs[Gift], gs[t])
<1>1. Exists(gs, Gift) /\ Gift \in Sources  BY UnfinishedIs DEF Exists
<1>2. gs[Gift].startsAt = LaunchAt /\ LaunchAt <= clock  BY <1>1 DEF GiftFirst
<1>3. ASSUME NEW t \in Unfinished(gs) \ {Gift} PROVE Earlier(gs[Gift], gs[t])
  <2>1. Exists(gs, t) /\ t \in Sources  BY UnfinishedIs DEF Exists
  <2>2. LaunchAt <= gs[t].startsAt /\ gs[Gift].createdAt < gs[t].createdAt
    BY <1>1, <2>1 DEF GiftFirst
  <2>3. LaunchAt \in Nat /\ gs[t].startsAt \in Nat  BY <2>1, EntitlementAssumption DEF Sane, Grant
  <2> QED  BY <1>2, <2>2, <2>3 DEF Earlier
<1> QED  BY <1>2, <1>3

(* changeOrderGrant() lays the grants without gap or overlap, and takes no time from any. *)
LEMMA RelayLays ==
  ASSUME clock \in Nat, NEW gs, Sane(gs), Numbered(gs), GiftFirst(gs), Lasting(gs)
  PROVE  LET R == Relay(gs)
         IN  /\ Sane(R) /\ Unfinished(R) = Unfinished(gs)
             /\ Lasting(R) /\ Unbroken(R) /\ Apart(R)
             /\ \A s \in Sources :
                  /\ R[s].status = gs[s].status /\ R[s].createdAt = gs[s].createdAt
                  /\ Remaining(R[s]) = Remaining(gs[s])
                  /\ s \notin Unfinished(gs) \/ s = Gift => R[s] = gs[s]
                  /\ s \in Unfinished(gs) => s = Gift \/ clock <= R[s].startsAt
<1> DEFINE U == Unfinished(gs)
           R == Relay(gs)
<1>1. U \in SUBSET Sources /\ IsFiniteSet(U)  BY UnfinishedIs
<1>2. PICK laid \in [SUBSET U -> Lays] : Laid(laid, gs) /\ R = laid[U].grant  BY RelayIs
<1>3. \A S \in SUBSET U :
        laid[S] = IF S = {} THEN [tail |-> clock, grant |-> gs]
                  ELSE Lay(laid[S \ {Latest(gs, S)}], Latest(gs, S))
  BY <1>2 DEF Laid
<1> HIDE DEF R
<1> DEFINE P == {S \in SUBSET U : Preserved(laid[S], S, gs) /\ (Closed(S, gs) => Tiled(laid[S], S))}
<1>4. {} \in P
  <2>1. laid[{}] = [tail |-> clock, grant |-> gs]  BY <1>3
  <2>2. Preserved(laid[{}], {}, gs)  BY <2>1 DEF Preserved, Sane
  <2>3. Tiled(laid[{}], {})  BY <2>1 DEF Tiled
  <2> QED  BY <2>2, <2>3
<1>5. ASSUME NEW S \in SUBSET U, S # {}, \A x \in S : S \ {x} \in P  PROVE  S \in P
  <2> DEFINE last == Latest(gs, S)
             T == S \ {last}
  <2>1. last \in S /\ \A t \in T : Earlier(gs[t], gs[last])  BY <1>5, LatestIs
  <2>2. laid[S] = Lay(laid[T], last) /\ laid[T] \in Lays  BY <1>3, <1>5
  <2>3. T \in P /\ S = T \cup {last} /\ last \notin T /\ last \in U /\ T \in SUBSET U
    BY <1>5, <2>1
  <2> HIDE DEF last, T, U
  <2>4. Preserved(laid[S], S, gs)  BY <2>2, <2>3, LayKeeps DEF U
  <2>5. ASSUME Closed(S, gs) PROVE Tiled(laid[S], S)
    <3>1. Closed(T, gs)
      <4> SUFFICES ASSUME NEW s \in T, NEW t \in U, Earlier(gs[t], gs[s]) PROVE t \in T
        BY DEF Closed, U
      <4>1. t \in S  BY <2>3, <2>5 DEF Closed, U
      <4>2. t # last  BY <1>1, <2>1, <2>3, EarlierOnce
      <4> QED  BY <2>3, <4>1, <4>2
    <3>2. Preserved(laid[T], T, gs) /\ Tiled(laid[T], T)  BY <2>3, <3>1
    <3>3. ASSUME last = Gift PROVE T = {} /\ gs[Gift].startsAt <= clock
      <4>1. gs[Gift].startsAt <= clock /\ \A t \in U \ {Gift} : Earlier(gs[Gift], gs[t])
        BY <2>3, <3>3, GiftIsFirst DEF U
      <4>2. \A t \in T : FALSE  BY <1>1, <2>1, <2>3, <3>3, <4>1, EarlierOnce
      <4> QED  BY <4>1, <4>2
    <3> QED  BY <2>2, <2>3, <3>2, <3>3, LayTiles DEF U
  <2> QED  BY <2>4, <2>5
<1>6. \A S \in SUBSET U : S \in P
  <2> HIDE DEF P, U
  <2> QED  BY <1>1, <1>4, <1>5, SubsetsGrow
<1>7. Preserved(laid[U], U, gs) /\ Tiled(laid[U], U)
  <2>1. Closed(U, gs)  BY DEF Closed
  <2> QED  BY <1>6, <2>1
<1>8. R \in [Sources -> Grant] /\ Ordered(R)  BY <1>2 DEF Lays
<1>9. Sane(R)  BY <1>2, <1>7, <1>8 DEF Sane, Preserved, Ordered
<1>10. Unfinished(R) = U
  <2>1. ASSUME NEW s \in Sources PROVE s \in Unfinished(R) <=> s \in U
    <3>1. CASE s \in U  BY <1>2, <1>7, <3>1 DEF Preserved, Tiled, Unfinished
    <3>2. CASE s \notin U  BY <1>2, <1>7, <3>2 DEF Preserved, Unfinished
    <3> QED  BY <3>1, <3>2
  <2>2. Unfinished(R) \in SUBSET Sources  BY UnfinishedIs
  <2> QED  BY <1>1, <2>1, <2>2
<1>11. Lasting(R)  BY <1>2, <1>7, <1>10 DEF Tiled, Lasting
<1>12. Unbroken(R)  BY <1>2, <1>7, <1>10 DEF Tiled, Unbroken
<1>13. Apart(R)  BY <1>2, <1>7, <1>10 DEF Tiled, Apart
<1>14. \A s \in Sources :
        /\ R[s].status = gs[s].status /\ R[s].createdAt = gs[s].createdAt
        /\ Remaining(R[s]) = Remaining(gs[s])
        /\ s \notin U \/ s = Gift => R[s] = gs[s]
        /\ s \in U => s = Gift \/ clock <= R[s].startsAt
  BY <1>2, <1>7 DEF Preserved, Tiled
<1> QED  BY <1>9, <1>10, <1>11, <1>12, <1>13, <1>14 DEF R

(* Everything the timeline rests on. *)
Timetable(gs) ==
  Sane(gs) /\ Numbered(gs) /\ GiftFirst(gs) /\ Lasting(gs) /\ Unbroken(gs) /\ Apart(gs)

(* What was used and what remains make up the duration. *)
Balanced(g, s, u, n) ==
  g.status \in {"ACTIVE", "SUSPENDED"} =>
    /\ Duration(s) <= u + Remaining(g)
    /\ u + Remaining(g) <= Duration(s) + n * (Second - 1)

(* The inductive invariant. *)
TimeInv ==
  /\ clock \in 0..MaxClock /\ giftHolder \in BOOLEAN /\ deleted \in BOOLEAN
  /\ used \in [Sources -> Nat] /\ suspensions \in [Sources -> 0..MaxSuspensions]
  /\ Timetable(grant)
  /\ \A s \in Sources : Balanced(grant[s], s, used[s], suspensions[s])

-----------------------------------------------------------------------------
LEMMA TimetableStays ==
  ASSUME clock' = clock, giftHolder' = giftHolder, Timetable(grant')
  PROVE  Timetable(grant)'
<1>1. Unfinished(grant)' = Unfinished(grant')  BY DEF Unfinished
<1>2. Sane(grant)' /\ Numbered(grant)'
  BY DEF Timetable, Sane, Numbered, Rows, Exists, Duration
<1>3. GiftFirst(grant)'  BY DEF Timetable, GiftFirst, Exists
<1>4. Lasting(grant)' /\ Unbroken(grant)' /\ Apart(grant)'
  BY <1>1 DEF Timetable, Lasting, Unbroken, Apart
<1> QED  BY <1>2, <1>3, <1>4 DEF Timetable

LEMMA RowsGrow ==
  ASSUME NEW gs \in [Sources -> Grant], NEW s \in Sources, ~Exists(gs, s),
         NEW g \in Grant, g.status # "NONE"
  PROVE  Rows(gs) \in Nat /\ Rows([gs EXCEPT ![s] = g]) = Rows(gs) + 1
<1> DEFINE A == {t \in Sources : gs[t].status # "NONE"}
           B == {t \in Sources : [gs EXCEPT ![s] = g][t].status # "NONE"}
<1>1. B = A \cup {s} /\ s \notin A  BY DEF Exists
<1>2. IsFiniteSet(A)  BY SourcesFinite, FS_Subset
<1> HIDE DEF A, B
<1>3. Cardinality(A) \in Nat /\ Cardinality(B) = Cardinality(A) + 1
  BY <1>1, <1>2, FS_CardinalityType, FS_AddElement
<1> QED  BY <1>3 DEF Rows, A, B

(* A grant queued behind the others. *)
LEMMA NewGrantKeeps ==
  ASSUME clock \in Nat, NEW gs, Timetable(gs), NEW s \in Sources, ~Exists(gs, s),
         NEW start \in Nat, LaunchAt <= start, LaunchAt <= clock,
         \A t \in Unfinished(gs) : gs[t].endsAt <= start,
         start <= clock \/ \E t \in Unfinished(gs) : gs[t].endsAt = start,
         s = Gift => start = LaunchAt /\ \A t \in Sources : ~Exists(gs, t),
         s # Gift /\ giftHolder => Exists(gs, Gift)
  PROVE  Timetable([gs EXCEPT ![s] = NewGrant(gs, s, start)])
<1> DEFINE g == NewGrant(gs, s, start)
           new == [gs EXCEPT ![s] = g]
<1>1. gs \in [Sources -> Grant] /\ Sane(gs) /\ Numbered(gs)  BY DEF Timetable, Sane
<1>2. Duration(s) \in Nat /\ Duration(s) > 0 /\ DurationSeconds[s] \in Nat  BY DurationIs
<1>3. Rows(gs) \in Nat
  <2>1. IsFiniteSet({t \in Sources : gs[t].status # "NONE"})  BY SourcesFinite, FS_Subset
  <2> QED  BY <2>1, FS_CardinalityType DEF Rows
<1>4. /\ g \in Grant /\ g.status = "ACTIVE" /\ g.startsAt = start /\ g.endsAt = start + Duration(s)
      /\ g.remainingSeconds = 0 /\ g.createdAt = Rows(gs) + 1
  BY <1>2, <1>3 DEF NewGrant, Grant, Statuses
<1> HIDE DEF g
<1>5. new \in [Sources -> Grant] /\ new[s] = g /\ \A t \in Sources \ {s} : new[t] = gs[t]
  BY <1>1, <1>4
<1>6. Rows(new) = Rows(gs) + 1  BY <1>1, <1>4, RowsGrow
<1> HIDE DEF new
<1>7. /\ \A t \in Sources \ {s} : t \in Unfinished(new) <=> t \in Unfinished(gs)
      /\ s \notin Unfinished(gs)
      /\ Unfinished(new) \in SUBSET Sources
  BY <1>4, <1>5 DEF Unfinished, Exists
<1>8. Sane(new)
  <2>1. ASSUME NEW t \in Sources
        PROVE  /\ new[t].startsAt <= new[t].endsAt /\ new[t].endsAt <= new[t].startsAt + Duration(t)
               /\ new[t].remainingSeconds <= DurationSeconds[t]
    <3>1. CASE t = s  BY <1>2, <1>4, <1>5, <3>1
    <3>2. CASE t # s  BY <1>1, <1>5, <3>2 DEF Sane
    <3> QED  BY <3>1, <3>2
  <2> QED  BY <1>5, <2>1 DEF Sane
<1>9. Numbered(new)
  <2>1. \A t \in Sources : gs[t].createdAt \in Nat  BY <1>1 DEF Grant
  <2>2. \A t \in Sources \ {s} :
          /\ Exists(new, t) <=> Exists(gs, t)
          /\ Exists(new, t) => new[t].createdAt <= Rows(gs)
    BY <1>1, <1>5 DEF Exists, Numbered
  <2>3. ASSUME NEW t \in Sources \ {s}, Exists(new, t)
        PROVE  /\ new[t].createdAt = gs[t].createdAt /\ new[t].createdAt \in Nat
               /\ new[t].createdAt < new[s].createdAt /\ new[t].createdAt <= Rows(new)
    <3>1. new[t] = gs[t] /\ gs[t].createdAt \in Nat /\ gs[t].createdAt <= Rows(gs)
      BY <1>5, <2>1, <2>2, <2>3
    <3>2. new[s].createdAt = Rows(gs) + 1  BY <1>4, <1>5
    <3> QED  BY <1>3, <1>6, <3>1, <3>2
  <2>4. new[s].createdAt <= Rows(new) /\ new[s].createdAt \in Nat  BY <1>3, <1>4, <1>5, <1>6
  <2>5. ASSUME NEW t \in Sources, NEW u \in Sources \ {t}, Exists(new, t), Exists(new, u)
        PROVE  new[t].createdAt # new[u].createdAt
    <3>1. CASE t # s /\ u # s
      <4>1. Exists(gs, t) /\ Exists(gs, u)  BY <2>2, <2>5, <3>1
      <4>2. gs[t].createdAt # gs[u].createdAt  BY <1>1, <2>5, <4>1 DEF Numbered
      <4> QED  BY <2>3, <2>5, <3>1, <4>2
    <3>2. CASE t = s  BY <2>3, <2>4, <2>5, <3>2
    <3>3. CASE u = s  BY <2>3, <2>4, <2>5, <3>3
    <3> QED  BY <3>1, <3>2, <3>3
  <2>6. \A t \in Sources : Exists(new, t) => new[t].createdAt <= Rows(new)  BY <2>3, <2>4
  <2> QED  BY <2>5, <2>6 DEF Numbered
<1>10. GiftFirst(new)
  <2>1. Gift \in Sources  BY DEF Sources
  <2>2. Exists(new, s) /\ \A t \in Sources \ {s} : Exists(new, t) <=> Exists(gs, t)
    BY <1>4, <1>5 DEF Exists
  <2>3. GiftFirst(gs)  BY DEF Timetable
  <2>4. CASE s = Gift
    <3>1. \A t \in Sources \ {s} : ~Exists(new, t)  BY <2>2, <2>4
    <3>2. new[Gift].status = "ACTIVE" /\ new[Gift].startsAt = LaunchAt  BY <1>4, <1>5, <2>4
    <3> QED  BY <2>2, <2>4, <3>1, <3>2 DEF GiftFirst
  <2>5. CASE s # Gift
    <3>1. new[Gift] = gs[Gift] /\ (Exists(new, Gift) <=> Exists(gs, Gift))  BY <1>5, <2>1, <2>2, <2>5
    <3>2. \A t \in Sources \ {s} : Exists(new, t) =>
            /\ LaunchAt <= clock /\ LaunchAt <= new[t].startsAt
            /\ t # Gift /\ Exists(new, Gift) => new[Gift].createdAt < new[t].createdAt
            /\ giftHolder => Exists(new, Gift)
      BY <1>5, <2>2, <2>3, <3>1 DEF GiftFirst
    <3>3. Exists(gs, Gift) => gs[Gift].createdAt < new[s].createdAt
      <4>1. gs[Gift].createdAt \in Nat  BY <1>1, <2>1 DEF Grant
      <4> QED  BY <1>1, <1>3, <1>4, <1>5, <2>1, <4>1 DEF Numbered
    <3>4. new[Gift].status \in {"NONE", "ACTIVE"} /\ (Exists(new, Gift) => new[Gift].startsAt = LaunchAt)
      BY <2>3, <3>1 DEF GiftFirst
    <3>5. LaunchAt <= new[s].startsAt  BY <1>4, <1>5
    <3> QED  BY <2>5, <3>1, <3>2, <3>3, <3>4, <3>5 DEF GiftFirst
  <2> QED  BY <2>4, <2>5
<1>11. Lasting(new)  BY <1>2, <1>4, <1>5, <1>7 DEF Timetable, Lasting
<1>12. Unbroken(new)
  <2>1. ASSUME NEW t \in Unfinished(gs) PROVE t \in Unfinished(new) /\ new[t] = gs[t] /\ t # s
    BY <1>5, <1>7, UnfinishedIs
  <2>2. ASSUME NEW t \in Unfinished(new)
        PROVE  new[t].startsAt <= clock \/ \E u \in Unfinished(new) : new[u].endsAt = new[t].startsAt
    <3>1. CASE t = s  BY <1>4, <1>5, <2>1, <3>1
    <3>2. CASE t # s
      <4>1. t \in Unfinished(gs)  BY <1>7, <3>2
      <4> QED  BY <2>1, <4>1 DEF Timetable, Unbroken
    <3> QED  BY <3>1, <3>2
  <2> QED  BY <2>2 DEF Unbroken
<1>13. Apart(new)
  <2>1. ASSUME NEW t \in Unfinished(new), NEW u \in Unfinished(new) \ {t}
        PROVE  new[t].endsAt <= new[u].startsAt \/ new[u].endsAt <= new[t].startsAt
    <3>1. CASE t # s /\ u # s
      <4>1. t \in Unfinished(gs) /\ u \in Unfinished(gs) /\ new[t] = gs[t] /\ new[u] = gs[u]
        BY <1>5, <1>7, <3>1
      <4> QED  BY <2>1, <4>1 DEF Timetable, Apart
    <3>2. CASE t = s
      <4>1. u \in Unfinished(gs) /\ new[u] = gs[u]  BY <1>5, <1>7, <2>1, <3>2
      <4> QED  BY <1>4, <1>5, <3>2, <4>1
    <3>3. CASE u = s
      <4>1. t \in Unfinished(gs) /\ new[t] = gs[t]  BY <1>5, <1>7, <2>1, <3>3
      <4> QED  BY <1>4, <1>5, <3>3, <4>1
    <3> QED  BY <3>1, <3>2, <3>3
  <2> QED  BY <2>1 DEF Apart
<1> QED  BY <1>8, <1>9, <1>10, <1>11, <1>12, <1>13 DEF Timetable, new, g

(* ensureGift(). *)
LEMMA WithGiftKeeps ==
  ASSUME clock \in Nat, NEW gs, Timetable(gs)
  PROVE  /\ Timetable(WithGift(gs))
         /\ \A o \in Orders : WithGift(gs)[o] = gs[o]
         /\ \/ WithGift(gs)[Gift] = gs[Gift]
            \/ ~Exists(gs, Gift) /\ WithGift(gs)[Gift] = NewGrant(gs, Gift, LaunchAt)
         /\ giftHolder /\ ~deleted /\ LaunchAt <= clock => Exists(WithGift(gs), Gift)
<1> DEFINE due == giftHolder /\ ~deleted /\ LaunchAt <= clock /\ gs[Gift].status = "NONE"
           g == NewGrant(gs, Gift, LaunchAt)
<1>1. Gift \in Sources /\ Gift \notin Orders /\ LaunchAt \in Nat  BY EntitlementAssumption DEF Sources
<1>2. gs \in [Sources -> Grant] /\ GiftFirst(gs)  BY DEF Timetable, Sane
<1>3. CASE ~due
  <2>1. WithGift(gs) = gs  BY <1>3 DEF WithGift
  <2> QED  BY <1>3, <2>1 DEF Exists
<1>4. CASE due
  <2>1. WithGift(gs) = [gs EXCEPT ![Gift] = g]  BY <1>4 DEF WithGift
  <2>2. \A t \in Sources : ~Exists(gs, t)  BY <1>2, <1>4 DEF GiftFirst, Exists
  <2>3. \A t \in Unfinished(gs) : FALSE  BY <2>2, UnfinishedIs DEF Exists
  <2>4. Timetable([gs EXCEPT ![Gift] = g])  BY <1>1, <1>4, <2>2, <2>3, NewGrantKeeps
  <2>5. /\ [gs EXCEPT ![Gift] = g][Gift] = g /\ g.status = "ACTIVE"
        /\ \A o \in Orders : [gs EXCEPT ![Gift] = g][o] = gs[o]
    <3>1. g.status = "ACTIVE"  BY DEF NewGrant
    <3>2. \A o \in Orders : o \in Sources /\ o # Gift  BY <1>1 DEF Sources
    <3> HIDE DEF g
    <3> QED  BY <1>1, <1>2, <3>1, <3>2
  <2> HIDE DEF g
  <2> QED  BY <1>1, <2>1, <2>2, <2>4, <2>5 DEF Exists, g
<1> QED  BY <1>3, <1>4

(* A new grant starts when everything in effect has ended, or when it was paid. *)
LEMMA StartOfIs ==
  ASSUME clock \in Nat, NEW gs, Sane(gs), NEW paidAt \in Nat, paidAt <= clock
  PROVE  LET start == StartOf(gs, paidAt)
         IN  /\ start \in Nat /\ paidAt <= start
             /\ \A t \in Unfinished(gs) : gs[t].endsAt <= start
             /\ start <= clock \/ \E t \in Unfinished(gs) : gs[t].endsAt = start
<1> DEFINE A == {t \in Sources : gs[t].status = "ACTIVE"}
           Ends(T) == {paidAt} \cup {gs[t].endsAt : t \in T}
           P == {T \in SUBSET A : \E m \in Ends(T) : \A y \in Ends(T) : m >= y}
<1>1. \A t \in A : gs[t].endsAt \in Nat  BY DEF Sane, Grant
<1>2. {} \in P  OBVIOUS
<1>3. ASSUME NEW T \in SUBSET A, T # {}, \A x \in T : T \ {x} \in P  PROVE  T \in P
  <2>1. PICK x \in T : TRUE  BY <1>3
  <2>2. PICK e \in Nat : e = gs[x].endsAt  BY <1>1, <2>1
  <2>3. PICK D \in SUBSET Nat : D = Ends(T \ {x})  BY <1>1
  <2>4. PICK m \in D : \A y \in D : m >= y  BY <1>3, <2>1, <2>3
  <2>5. Ends(T) = D \cup {e}  BY <2>1, <2>2, <2>3
  <2>6. \E n \in D \cup {e} : \A y \in D \cup {e} : n >= y
    <3>1. CASE m >= e  BY <2>4, <3>1
    <3>2. CASE e > m
      <4>1. \A y \in D \cup {e} : e >= y  BY <2>4, <3>2
      <4> QED  BY <4>1
    <3> QED  BY <3>1, <3>2
  <2> QED  BY <2>5, <2>6
<1>4. \E m \in Ends(A) : \A y \in Ends(A) : m >= y
  <2>1. IsFiniteSet(A) /\ A \in SUBSET A  BY SourcesFinite, FS_Subset
  <2>2. A \in P
    <3> HIDE DEF P, A
    <3> QED  BY <1>2, <1>3, <2>1, SubsetsGrow
  <2> QED  BY <2>2
<1> DEFINE start == StartOf(gs, paidAt)
<1>5. start \in Ends(A) /\ \A y \in Ends(A) : start >= y
  <2>1. start = CHOOSE m \in Ends(A) : \A y \in Ends(A) : m >= y  BY DEF StartOf, Max
  <2> HIDE DEF start, Ends
  <2> QED  BY <1>4, <2>1
<1> HIDE DEF start
<1>6. start \in Nat /\ paidAt <= start  BY <1>1, <1>5
<1>7. \A t \in Unfinished(gs) : t \in A /\ gs[t].endsAt \in Nat  BY <1>1, UnfinishedIs
<1>8. \A t \in Unfinished(gs) : gs[t].endsAt <= start  BY <1>5, <1>6, <1>7
<1>9. ASSUME start > clock PROVE \E t \in Unfinished(gs) : gs[t].endsAt = start
  <2>1. start # paidAt  BY <1>6, <1>9
  <2>2. PICK t \in A : start = gs[t].endsAt  BY <1>5, <2>1
  <2> QED  BY <1>9, <2>2 DEF Unfinished
<1> QED  BY <1>6, <1>8, <1>9 DEF start

LEMMA SlackIs ==
  \A n \in Nat : /\ n * (Second - 1) \in Nat
                /\ (n + 1) * (Second - 1) = n * (Second - 1) + (Second - 1)
<1>1. Second - 1 \in Nat  BY DurationIs
<1>2. \A n \in Nat, d \in Nat : n * d \in Nat /\ (n + 1) * d = n * d + d  OBVIOUS
<1> QED  BY <1>1, <1>2

(* A new grant starts with all its time, part of which may have passed already. *)
LEMMA NewIsBalanced ==
  ASSUME clock \in Nat, NEW gs, NEW s \in Sources, gs[s] # grant[s],
         gs[s] \in Grant, gs[s].status = "ACTIVE", gs[s].endsAt = gs[s].startsAt + Duration(s)
  PROVE  Elapsed(gs, s) \in Nat /\ Elapsed(gs, s) + Remaining(gs[s]) = Duration(s)
<1> DEFINE g == gs[s]
<1>1. g.startsAt \in Nat /\ g.endsAt \in Nat /\ Duration(s) \in Nat  BY DurationIs DEF Grant
<1>2. Min({clock, g.endsAt}) = IF clock <= g.endsAt THEN clock ELSE g.endsAt  BY <1>1, SmallerOfTwo
<1> DEFINE n == Min({clock, g.endsAt}) - g.startsAt
<1>3. Max({0, n}) = IF 0 >= n THEN 0 ELSE n
  <2>1. n \in Int  BY <1>1, <1>2
  <2> HIDE DEF n
  <2> QED  BY <2>1, LargerOfTwo
<1>4. Elapsed(gs, s) = Max({0, n})  BY DEF Elapsed
<1>5. Remaining(g) = IF g.endsAt <= clock THEN 0
                     ELSE g.endsAt - (IF g.startsAt >= clock THEN g.startsAt ELSE clock)
  BY <1>1, RemainingIs
<1> HIDE DEF g
<1> QED  BY <1>1, <1>2, <1>3, <1>4, <1>5 DEF g

(* The row of a source is as it was, or new. *)
Granted(s) ==
  \/ grant'[s] = grant[s]
  \/ grant'[s].status = "ACTIVE" /\ grant'[s].endsAt = grant'[s].startsAt + Duration(s)

LEMMA GrantingKeeps ==
  ASSUME TimeInv, Timetable(grant'),
         \A s \in Sources : Granted(s),
         used' = [s \in Sources |-> Elapsed(grant', s)],
         UNCHANGED <<clock, giftHolder, deleted, suspensions>>
  PROVE  TimeInv'
<1>1. clock \in Nat  BY EntitlementAssumption DEF TimeInv
<1>2. Timetable(grant)'  BY TimetableStays
<1>3. ASSUME NEW s \in Sources
      PROVE  used'[s] \in Nat /\ Balanced(grant'[s], s, used'[s], suspensions[s])
  <2>1. used'[s] = Elapsed(grant', s)  OBVIOUS
  <2>2. used[s] \in Nat /\ suspensions[s] \in Nat  BY EntitlementAssumption DEF TimeInv
  <2>3. CASE grant'[s] = grant[s]
    <3>1. Elapsed(grant', s) = used[s]  BY <2>3 DEF Elapsed
    <3> QED  BY <2>1, <2>2, <2>3, <3>1 DEF TimeInv
  <2>4. CASE grant'[s] # grant[s]
    <3>1. grant'[s] \in Grant  BY DEF Timetable, Sane
    <3>2. Elapsed(grant', s) \in Nat /\ Elapsed(grant', s) + Remaining(grant'[s]) = Duration(s)
      BY <1>1, <2>4, <3>1, NewIsBalanced DEF Granted
    <3>3. Duration(s) \in Nat /\ suspensions[s] * (Second - 1) \in Nat  BY <2>2, DurationIs, SlackIs
    <3> QED  BY <2>1, <3>2, <3>3 DEF Balanced
  <2> QED  BY <2>3, <2>4
<1>4. \A s \in Sources : Balanced(grant[s], s, used[s], suspensions[s])'
  BY <1>3 DEF Balanced, Remaining, Duration
<1>5. used' \in [Sources -> Nat]  BY <1>3
<1> QED  BY <1>2, <1>4, <1>5 DEF TimeInv

-----------------------------------------------------------------------------
(* The operations, one by one. *)
LEMMA MembershipKeeps == TimeInv /\ Membership => TimeInv'
<1> SUFFICES ASSUME TimeInv, Membership PROVE TimeInv'
  OBVIOUS
<1>1. clock \in Nat /\ Timetable(grant)  BY EntitlementAssumption DEF TimeInv
<1>2. grant' = WithGift(grant)  BY DEF Membership
<1>3. Timetable(grant')  BY <1>1, <1>2, WithGiftKeeps
<1>4. \A s \in Sources : Granted(s)
  <2>1. \A o \in Orders : grant'[o] = grant[o]  BY <1>1, <1>2, WithGiftKeeps
  <2>2. grant'[Gift] = grant[Gift] \/ grant'[Gift] = NewGrant(grant, Gift, LaunchAt)
    BY <1>1, <1>2, WithGiftKeeps
  <2>3. LET g == NewGrant(grant, Gift, LaunchAt)
        IN g.status = "ACTIVE" /\ g.endsAt = g.startsAt + Duration(Gift)
    BY DEF NewGrant
  <2> QED  BY <2>1, <2>2, <2>3 DEF Granted, Sources
<1> QED  BY <1>3, <1>4, GrantingKeeps DEF Membership

LEMMA GrantOrderKeeps ==
  ASSUME TimeInv, NEW o \in Orders, NEW paidAt \in 0..clock, GrantOrder(o, paidAt)
  PROVE  TimeInv'
<1> DEFINE gs == WithGift(grant)
           start == StartOf(gs, paidAt)
<1>1. clock \in Nat /\ Timetable(grant)  BY EntitlementAssumption DEF TimeInv
<1>2. o \in Sources /\ o # Gift /\ LaunchAt \in Nat  BY EntitlementAssumption DEF Sources
<1>3. /\ LaunchAt <= paidAt /\ paidAt <= clock /\ paidAt \in Nat /\ ~deleted
      /\ grant[o].status = "NONE" /\ grant' = [gs EXCEPT ![o] = NewGrant(gs, o, start)]
  BY <1>1, <1>2 DEF GrantOrder
<1>4. /\ Timetable(gs) /\ gs[o] = grant[o] /\ \A t \in Orders : gs[t] = grant[t]
      /\ giftHolder => Exists(gs, Gift)
      /\ gs[Gift] = grant[Gift] \/ gs[Gift] = NewGrant(grant, Gift, LaunchAt)
  <2>1. LaunchAt <= clock  BY <1>1, <1>2, <1>3
  <2> QED  BY <1>1, <1>3, <2>1, WithGiftKeeps
<1> HIDE DEF gs
<1>5. /\ start \in Nat /\ paidAt <= start
      /\ \A t \in Unfinished(gs) : gs[t].endsAt <= start
      /\ start <= clock \/ \E t \in Unfinished(gs) : gs[t].endsAt = start
  BY <1>1, <1>3, <1>4, StartOfIs DEF Timetable
<1> HIDE DEF start
<1>6. LaunchAt <= start /\ LaunchAt <= clock  BY <1>1, <1>2, <1>3, <1>5
<1>7. Timetable(grant')
  <2>1. ~Exists(gs, o)  BY <1>3, <1>4 DEF Exists
  <2> QED  BY <1>1, <1>2, <1>3, <1>4, <1>5, <1>6, <2>1, NewGrantKeeps
<1>8. \A s \in Sources : Granted(s)
  <2>1. \A s \in Sources, g \in {NewGrant(gs, o, start), NewGrant(grant, Gift, LaunchAt)} :
          g.status = "ACTIVE"
    BY DEF NewGrant
  <2>2. /\ NewGrant(gs, o, start).endsAt = NewGrant(gs, o, start).startsAt + Duration(o)
        /\ NewGrant(grant, Gift, LaunchAt).endsAt
             = NewGrant(grant, Gift, LaunchAt).startsAt + Duration(Gift)
    BY DEF NewGrant
  <2>3. gs \in [Sources -> Grant]  BY <1>4 DEF Timetable, Sane
  <2>4. grant'[o] = NewGrant(gs, o, start) /\ \A s \in Sources \ {o} : grant'[s] = gs[s]
    BY <1>2, <1>3, <2>3
  <2> QED  BY <1>2, <1>4, <2>1, <2>2, <2>4 DEF Granted, Sources
<1>9. QED  BY <1>7, <1>8, GrantingKeeps DEF GrantOrder

(* What a change makes of its target. *)
LEMMA ChangedIs ==
  ASSUME clock \in Nat, NEW gs, Sane(gs), NEW o \in Sources, NEW status \in {"ACTIVE", "SUSPENDED", "REVOKED"},
         gs[o].status = "SUSPENDED" \/ status # "ACTIVE"
  PROVE  LET g == Changed(gs[o], status)
         IN  /\ g \in Grant /\ g.status = status /\ g.createdAt = gs[o].createdAt
             /\ g.startsAt <= g.endsAt /\ g.endsAt <= g.startsAt + Duration(o)
             /\ g.remainingSeconds <= DurationSeconds[o]
             /\ status # "ACTIVE" => g.startsAt = gs[o].startsAt
             /\ status = "ACTIVE" => g.startsAt = clock /\ Remaining(g) = Remaining(gs[o])
             /\ status = "SUSPENDED" => /\ Remaining(gs[o]) <= Remaining(g)
                                        /\ Remaining(g) <= Remaining(gs[o]) + (Second - 1)
<1> DEFINE old == gs[o]
           left == Remaining(old)
           g == Changed(old, status)
<1>1. /\ left \in Nat /\ left <= Duration(o)
      /\ Seconds(left) \in Nat /\ Seconds(left) <= DurationSeconds[o]
  BY RemainingFits
<1>2. /\ old \in Grant /\ old.startsAt \in Nat /\ old.endsAt \in Nat
      /\ old.startsAt <= old.endsAt /\ old.endsAt <= old.startsAt + Duration(o)
  BY DEF Sane, Grant
<1>3. left <= Seconds(left) * Second /\ Seconds(left) * Second <= left + (Second - 1)
  BY <1>1, SecondsRound
<1>4. /\ g \in Grant /\ g.status = status /\ g.createdAt = old.createdAt /\ g.remainingSeconds = Seconds(left)
      /\ status # "ACTIVE" => g.startsAt = old.startsAt /\ g.endsAt = old.endsAt
      /\ status = "ACTIVE" => g.startsAt = clock /\ g.endsAt = clock + left
  <2>1. clock + left \in Nat  BY <1>1
  <2> HIDE DEF old, left
  <2>2. CASE status = "ACTIVE"  BY <1>1, <1>2, <2>1, <2>2 DEF Changed, Grant, Statuses, left
  <2>3. CASE status # "ACTIVE"  BY <1>1, <1>2, <2>3 DEF Changed, Grant, Statuses, left
  <2> QED  BY <2>2, <2>3
<1> HIDE DEF g, old, left
<1>5. g.startsAt <= g.endsAt /\ g.endsAt <= g.startsAt + Duration(o)
  BY <1>1, <1>2, <1>4, DurationIs
<1>6. status = "ACTIVE" => Remaining(g) = left
  <2> SUFFICES ASSUME status = "ACTIVE" PROVE Remaining(g) = left
    OBVIOUS
  <2>1. Remaining(g) = IF g.endsAt <= clock THEN 0
                       ELSE g.endsAt - (IF g.startsAt >= clock THEN g.startsAt ELSE clock)
    BY <1>4, <1>5, RemainingIs
  <2> QED  BY <1>1, <1>4, <2>1
<1>7. status = "SUSPENDED" => Remaining(g) = Seconds(left) * Second  BY <1>4, <1>5, RemainingIs
<1> QED  BY <1>1, <1>3, <1>4, <1>5, <1>6, <1>7 DEF g, old, left

(* Numbers and places of the rows depend on what is there, not on how it stands. *)
LEMMA SameRows ==
  ASSUME NEW gs, NEW hs, Numbered(gs),
         \A s \in Sources : (Exists(hs, s) <=> Exists(gs, s)) /\ hs[s].createdAt = gs[s].createdAt
  PROVE  Numbered(hs)
<1>1. {s \in Sources : hs[s].status # "NONE"} = {s \in Sources : gs[s].status # "NONE"}
  BY DEF Exists
<1>2. Rows(hs) = Rows(gs)  BY <1>1 DEF Rows
<1> QED  BY <1>2 DEF Numbered

LEMMA ChangeOrderGrantKeeps ==
  ASSUME TimeInv, NEW o \in Orders, NEW status \in {"ACTIVE", "SUSPENDED", "REVOKED"},
         ChangeOrderGrant(o, status)
  PROVE  TimeInv'
<1> DEFINE g == Changed(grant[o], status)
           gs == [grant EXCEPT ![o] = g]
<1>1. clock \in Nat /\ Timetable(grant) /\ MaxSuspensions \in Nat
  BY EntitlementAssumption DEF TimeInv
<1>2. o \in Sources /\ o # Gift /\ LaunchAt \in Nat /\ Gift \in Sources
  BY EntitlementAssumption DEF Sources
<1>3. grant[o].status \in {"ACTIVE", "SUSPENDED"} /\ grant[o].status # status
  <2>1. grant[o] \in Grant  BY <1>1, <1>2 DEF Timetable, Sane
  <2> QED  BY <2>1 DEF ChangeOrderGrant, Changes, Grant, Statuses
<1>4. grant \in [Sources -> Grant] /\ grant' = Relay(gs)
  BY <1>1 DEF Timetable, Sane, ChangeOrderGrant
<1>5. /\ g \in Grant /\ g.status = status /\ g.createdAt = grant[o].createdAt
      /\ g.startsAt <= g.endsAt /\ g.endsAt <= g.startsAt + Duration(o)
      /\ g.remainingSeconds <= DurationSeconds[o]
      /\ status # "ACTIVE" => g.startsAt = grant[o].startsAt
      /\ status = "ACTIVE" => g.startsAt = clock /\ Remaining(g) = Remaining(grant[o])
      /\ status = "SUSPENDED" => /\ Remaining(grant[o]) <= Remaining(g)
                                 /\ Remaining(g) <= Remaining(grant[o]) + (Second - 1)
  BY <1>1, <1>2, <1>3, ChangedIs DEF Timetable
<1> HIDE DEF g
<1>6. gs \in [Sources -> Grant] /\ gs[o] = g /\ \A s \in Sources \ {o} : gs[s] = grant[s]
  BY <1>2, <1>4, <1>5
<1> HIDE DEF gs
<1>7. \A s \in Sources : (Exists(gs, s) <=> Exists(grant, s)) /\ gs[s].createdAt = grant[s].createdAt
  BY <1>3, <1>5, <1>6 DEF Exists
<1>8. Sane(gs)
  <2>1. ASSUME NEW s \in Sources
        PROVE  /\ gs[s].startsAt <= gs[s].endsAt /\ gs[s].endsAt <= gs[s].startsAt + Duration(s)
               /\ gs[s].remainingSeconds <= DurationSeconds[s]
    <3>1. CASE s = o  BY <1>5, <1>6, <3>1
    <3>2. CASE s # o  BY <1>1, <1>6, <3>2 DEF Timetable, Sane
    <3> QED  BY <3>1, <3>2
  <2> QED  BY <1>6, <2>1 DEF Sane
<1>9. Numbered(gs)  BY <1>1, <1>7, SameRows DEF Timetable
<1>10. GiftFirst(gs)
  <2>1. GiftFirst(grant) /\ gs[Gift] = grant[Gift]  BY <1>1, <1>2, <1>6 DEF Timetable
  <2>2. LaunchAt <= clock /\ LaunchAt <= gs[o].startsAt
    <3>1. Exists(grant, o)  BY <1>3 DEF Exists
    <3>2. LaunchAt <= clock /\ LaunchAt <= grant[o].startsAt  BY <1>2, <2>1, <3>1 DEF GiftFirst
    <3> QED  BY <1>5, <1>6, <3>2
  <2>3. \A s \in Sources : Exists(gs, s) => LaunchAt <= clock /\ LaunchAt <= gs[s].startsAt
    BY <1>6, <1>7, <2>1, <2>2 DEF GiftFirst
  <2> QED  BY <1>2, <1>7, <2>1, <2>3 DEF GiftFirst
<1>11. Lasting(gs)
  <2>1. ASSUME NEW s \in Unfinished(gs) PROVE gs[s].startsAt < gs[s].endsAt
    <3>1. s \in Sources /\ gs[s].status = "ACTIVE" /\ gs[s].endsAt > clock  BY UnfinishedIs
    <3>2. CASE s = o  BY <1>5, <1>6, <3>1, <3>2
    <3>3. CASE s # o
      <4>1. s \in Unfinished(grant) /\ gs[s] = grant[s]  BY <1>6, <3>1, <3>3 DEF Unfinished
      <4> QED  BY <1>1, <4>1 DEF Timetable, Lasting
    <3> QED  BY <3>2, <3>3
  <2> QED  BY <2>1 DEF Lasting
<1>12. /\ Sane(grant') /\ Lasting(grant') /\ Unbroken(grant') /\ Apart(grant')
       /\ \A s \in Sources :
            /\ grant'[s].status = gs[s].status /\ grant'[s].createdAt = gs[s].createdAt
            /\ Remaining(grant'[s]) = Remaining(gs[s])
            /\ s \notin Unfinished(gs) \/ s = Gift => grant'[s] = gs[s]
            /\ s \in Unfinished(gs) => s = Gift \/ clock <= grant'[s].startsAt
  BY <1>1, <1>4, <1>8, <1>9, <1>10, <1>11, RelayLays
<1>13. \A s \in Sources : (Exists(grant', s) <=> Exists(gs, s)) /\ grant'[s].createdAt = gs[s].createdAt
  BY <1>12 DEF Exists
<1>14. Numbered(grant')  BY <1>9, <1>13, SameRows
<1>15. GiftFirst(grant')
  <2>1. grant'[Gift] = gs[Gift]  BY <1>2, <1>12
  <2>2. ASSUME NEW s \in Sources, Exists(gs, s) PROVE LaunchAt <= grant'[s].startsAt
    <3>1. LaunchAt <= clock /\ LaunchAt <= gs[s].startsAt  BY <1>10, <2>2 DEF GiftFirst
    <3>2. CASE s \notin Unfinished(gs) \/ s = Gift  BY <1>12, <3>1, <3>2
    <3>3. CASE s \in Unfinished(gs) /\ s # Gift
      <4>1. clock <= grant'[s].startsAt /\ grant'[s].startsAt \in Nat
        BY <1>12, <3>3 DEF Sane, Grant
      <4> QED  BY <1>1, <1>2, <3>1, <4>1
    <3> QED  BY <3>2, <3>3
  <2> QED  BY <1>10, <1>13, <1>2, <2>1, <2>2 DEF GiftFirst
<1>16. Timetable(grant)'
  <2>1. Timetable(grant')  BY <1>12, <1>14, <1>15 DEF Timetable
  <2> QED  BY <2>1, TimetableStays DEF ChangeOrderGrant
<1>17. suspensions' \in [Sources -> 0..MaxSuspensions]
  BY <1>1, <1>2 DEF ChangeOrderGrant, TimeInv
<1>18. ASSUME NEW s \in Sources PROVE Balanced(grant'[s], s, used[s], suspensions'[s])
  <2>1. Remaining(grant'[s]) = Remaining(gs[s]) /\ grant'[s].status = gs[s].status  BY <1>12
  <2>2. Balanced(grant[s], s, used[s], suspensions[s]) /\ used[s] \in Nat /\ suspensions[s] \in Nat
    BY <1>1 DEF TimeInv
  <2>3. CASE s # o
    <3>1. suspensions'[s] = suspensions[s]  BY <1>2, <2>3 DEF ChangeOrderGrant, TimeInv
    <3> QED  BY <1>6, <2>1, <2>2, <2>3, <3>1 DEF Balanced
  <2>4. CASE s = o
    <3>1. suspensions'[o] = IF status = "SUSPENDED" THEN suspensions[o] + 1 ELSE suspensions[o]
      BY <1>2 DEF ChangeOrderGrant, TimeInv
    <3>2. /\ Duration(o) <= used[o] + Remaining(grant[o])
          /\ used[o] + Remaining(grant[o]) <= Duration(o) + suspensions[o] * (Second - 1)
      BY <1>3, <2>2, <2>4 DEF Balanced
    <3>3. Remaining(grant[o]) \in Nat /\ Remaining(g) \in Nat /\ Duration(o) \in Nat /\ Second \in Nat
      <4>1. Remaining(grant[o]) \in Nat  BY <1>1, <1>2, RemainingFits DEF Timetable
      <4>2. Remaining(g) \in Nat  BY <1>1, <1>5, RemainingIs
      <4> QED  BY <1>2, <4>1, <4>2, DurationIs
    <3>4. /\ suspensions[o] * (Second - 1) \in Nat
          /\ (suspensions[o] + 1) * (Second - 1) = suspensions[o] * (Second - 1) + (Second - 1)
      BY <2>2, <2>4, SlackIs
    <3>5. CASE status = "SUSPENDED"
      <4> DEFINE slack == suspensions[o] * (Second - 1)
                 more == (suspensions[o] + 1) * (Second - 1)
      <4>1. suspensions'[o] * (Second - 1) = more /\ more = slack + (Second - 1) /\ slack \in Nat
        BY <3>1, <3>4, <3>5
      <4>2. /\ Duration(o) <= used[o] + Remaining(g)
            /\ used[o] + Remaining(g) <= Duration(o) + more
        <5> HIDE DEF slack, more
        <5>1. used[o] + Remaining(grant[o]) <= Duration(o) + slack  BY <3>2 DEF slack
        <5> QED  BY <1>5, <2>2, <2>4, <3>2, <3>3, <3>5, <4>1, <5>1
      <4> QED  BY <1>6, <2>1, <2>4, <4>1, <4>2 DEF Balanced
    <3>6. CASE status = "ACTIVE"  BY <1>5, <1>6, <2>1, <2>4, <3>1, <3>2, <3>6 DEF Balanced
    <3>7. CASE status = "REVOKED"  BY <1>5, <1>6, <2>1, <2>4, <3>7 DEF Balanced
    <3> QED  BY <3>5, <3>6, <3>7
  <2> QED  BY <2>3, <2>4
<1>19. \A s \in Sources : Balanced(grant[s], s, used[s], suspensions[s])'
  BY <1>18 DEF Balanced, Remaining, Duration, ChangeOrderGrant
<1> QED  BY <1>16, <1>17, <1>19 DEF TimeInv, ChangeOrderGrant

LEMMA TimelineBegins == TimelineInit => TimeInv
<1> SUFFICES ASSUME TimelineInit PROVE TimeInv
  OBVIOUS
<1>1. /\ clock = 0 /\ MaxClock \in Nat /\ MaxSuspensions \in Nat /\ LaunchAt \in Nat
      /\ Gift \in Sources
  BY EntitlementAssumption DEF TimelineInit, Sources
<1>2. NoGrant \in Grant /\ \A s \in Sources : grant[s] = NoGrant
  BY DEF TimelineInit, NoGrant, Grant, Statuses
<1>3. \A s \in Sources : ~Exists(grant, s)  BY <1>2 DEF NoGrant, Exists
<1>4. \A s \in Unfinished(grant) : FALSE  BY <1>3, UnfinishedIs DEF Exists
<1>5. Sane(grant)
  <2>1. NoGrant.startsAt = 0 /\ NoGrant.endsAt = 0 /\ NoGrant.remainingSeconds = 0  BY DEF NoGrant
  <2> QED  BY <1>2, <2>1, DurationIs DEF Sane, TimelineInit
<1>6. Numbered(grant)  BY <1>3 DEF Numbered
<1>7. GiftFirst(grant)  BY <1>1, <1>2, <1>3 DEF GiftFirst, NoGrant
<1>8. Lasting(grant) /\ Unbroken(grant) /\ Apart(grant)  BY <1>4 DEF Lasting, Unbroken, Apart
<1>9. \A s \in Sources : Balanced(grant[s], s, used[s], suspensions[s])
  <2>1. NoGrant.status = "NONE"  BY DEF NoGrant
  <2>2. \A s \in Sources : grant[s].status = "NONE"  BY <1>2, <2>1
  <2> QED  BY <2>2 DEF Balanced
<1>10. clock \in 0..MaxClock  BY <1>1
<1>11. giftHolder \in BOOLEAN /\ deleted \in BOOLEAN  BY DEF TimelineInit
<1>12. used \in [Sources -> Nat] /\ suspensions \in [Sources -> 0..MaxSuspensions]
  BY <1>1 DEF TimelineInit
<1>13. Timetable(grant)  BY <1>5, <1>6, <1>7, <1>8 DEF Timetable
<1> QED  BY <1>9, <1>10, <1>11, <1>12, <1>13 DEF TimeInv

LEMMA DeletionKeeps == TimeInv /\ DeleteAccount => TimeInv'
<1> SUFFICES ASSUME TimeInv, DeleteAccount PROVE TimeInv'
  OBVIOUS
<1>1. Timetable(grant) /\ Gift \in Sources /\ grant \in [Sources -> Grant]
  BY DEF TimeInv, Timetable, Sane, Sources
<1>2. \A s \in Sources : grant'[s] = IF grant[s].status = "NONE" THEN grant[s]
                                     ELSE [grant[s] EXCEPT !.status = "REVOKED"]
  BY DEF DeleteAccount
<1>3. ASSUME NEW s \in Sources
      PROVE  /\ grant'[s] \in Grant /\ grant'[s].status \in {"NONE", "REVOKED"}
             /\ Exists(grant', s) <=> Exists(grant, s)
             /\ grant'[s].createdAt = grant[s].createdAt /\ grant'[s].startsAt = grant[s].startsAt
             /\ grant'[s].endsAt = grant[s].endsAt
             /\ grant'[s].remainingSeconds = grant[s].remainingSeconds
  <2>1. grant[s] \in Grant  BY <1>1
  <2> QED  BY <1>2, <2>1 DEF Grant, Statuses, Exists
<1>4. Sane(grant')  BY <1>1, <1>3 DEF DeleteAccount, Timetable, Sane
<1>5. Numbered(grant')  BY <1>1, <1>3, SameRows DEF Timetable
<1>6. GiftFirst(grant')
  <2>1. ~Exists(grant, Gift)  BY DEF DeleteAccount, Exists
  <2>2. GiftFirst(grant) /\ grant'[Gift].status = "NONE"
    BY <1>1, <1>3, <2>1 DEF Timetable, Exists
  <2> QED  BY <1>1, <1>3, <2>1, <2>2 DEF GiftFirst
<1>7. \A s \in Unfinished(grant') : FALSE  BY <1>3, UnfinishedIs
<1>8. Lasting(grant') /\ Unbroken(grant') /\ Apart(grant')  BY <1>7 DEF Lasting, Unbroken, Apart
<1>9. Timetable(grant)'
  <2>1. Timetable(grant')  BY <1>4, <1>5, <1>6, <1>8 DEF Timetable
  <2> QED  BY <2>1, TimetableStays DEF DeleteAccount
<1>10. \A s \in Sources : Balanced(grant[s], s, used[s], suspensions[s])'
  BY <1>3 DEF Balanced
<1> QED  BY <1>9, <1>10 DEF TimeInv, DeleteAccount

LEMMA PassTimeKeeps == TimeInv /\ PassTime => TimeInv'
<1> SUFFICES ASSUME TimeInv, PassTime PROVE TimeInv'
  OBVIOUS
<1>1. /\ clock \in Nat /\ clock' \in 0..MaxClock /\ clock' = clock + 1
      /\ grant' = grant /\ giftHolder' = giftHolder /\ suspensions' = suspensions
      /\ Timetable(grant)
  BY EntitlementAssumption DEF TimeInv, PassTime
<1>2. \A s \in Sources : /\ grant[s] \in Grant /\ grant[s].startsAt \in Nat /\ grant[s].endsAt \in Nat
                         /\ grant[s].startsAt <= grant[s].endsAt
  BY <1>1 DEF Timetable, Sane, Grant
<1>3. Unfinished(grant)' \in SUBSET Unfinished(grant)  BY <1>1, <1>2 DEF Unfinished
<1>4. Sane(grant)' /\ Numbered(grant)'
  BY <1>1 DEF Timetable, Sane, Numbered, Rows, Exists, Duration
<1>5. GiftFirst(grant)'
  <2>1. LaunchAt \in Nat  BY EntitlementAssumption
  <2>2. GiftFirst(grant)  BY <1>1 DEF Timetable
  <2>3. \A s \in Sources : Exists(grant, s) => LaunchAt <= clock'  BY <1>1, <2>1, <2>2 DEF GiftFirst
  <2> QED  BY <1>1, <2>2, <2>3 DEF GiftFirst, Exists
<1>6. Lasting(grant)' /\ Apart(grant)'  BY <1>1, <1>3 DEF Timetable, Lasting, Apart
<1>7. Unbroken(grant)'
  <2>1. ASSUME NEW s \in Unfinished(grant)', grant[s].startsAt > clock'
        PROVE  \E t \in Unfinished(grant)' : grant[t].endsAt = grant[s].startsAt
    <3>1. s \in Unfinished(grant) /\ s \in Sources  BY <1>3, <2>1, UnfinishedIs
    <3>2. ~(grant[s].startsAt <= clock)  BY <1>1, <1>2, <2>1, <3>1
    <3>3. PICK t \in Unfinished(grant) : grant[t].endsAt = grant[s].startsAt
      BY <1>1, <3>1, <3>2 DEF Timetable, Unbroken
    <3>4. t \in Unfinished(grant)'  BY <1>1, <2>1, <3>3, UnfinishedIs DEF Unfinished
    <3> QED  BY <3>3, <3>4
  <2>2. \A s \in Unfinished(grant)' : ~(grant[s].startsAt > clock') => grant[s].startsAt <= clock'
    BY <1>1, <1>2, <1>3, UnfinishedIs
  <2> QED  BY <1>1, <2>1, <2>2 DEF Unbroken
<1>8. ASSUME NEW s \in Sources
      PROVE  /\ used'[s] \in Nat
             /\ grant[s].status = "SUSPENDED" => /\ Remaining(grant[s])' = Remaining(grant[s])
                                                 /\ used'[s] = used[s]
             /\ grant[s].status = "ACTIVE" =>
                  used'[s] + Remaining(grant[s])' = used[s] + Remaining(grant[s])
  <2> DEFINE g == grant[s]
             next == IF InEffect(g) THEN used[s] + 1 ELSE used[s]
  <2>1. used'[s] = next /\ used[s] \in Nat  BY DEF PassTime, TimeInv
  <2>2. g \in Grant /\ g.startsAt \in Nat /\ g.endsAt \in Nat /\ g.startsAt <= g.endsAt  BY <1>2
  <2>3. /\ g.status = "SUSPENDED" => Remaining(g) = g.remainingSeconds * Second
        /\ g.status # "SUSPENDED" =>
             Remaining(g) = IF g.endsAt <= clock THEN 0
                            ELSE g.endsAt - (IF g.startsAt >= clock THEN g.startsAt ELSE clock)
    BY <1>1, <2>2, RemainingIs
  <2>4. g.status = "SUSPENDED" => Remaining(g)' = g.remainingSeconds * Second
    BY <1>1 DEF Remaining
  <2>5. g.status = "ACTIVE" =>
          Remaining(g)' = IF g.endsAt <= clock' THEN 0
                          ELSE g.endsAt - (IF g.startsAt >= clock' THEN g.startsAt ELSE clock')
    <3> SUFFICES ASSUME g.status = "ACTIVE"
                 PROVE  Remaining(g)' = IF g.endsAt <= clock' THEN 0
                          ELSE g.endsAt - (IF g.startsAt >= clock' THEN g.startsAt ELSE clock')
      OBVIOUS
    <3> DEFINE n == g.endsAt - Max({clock', g.startsAt})
    <3>1. clock' \in Nat  BY <1>1
    <3>2. Max({clock', g.startsAt}) = IF clock' >= g.startsAt THEN clock' ELSE g.startsAt
      BY <2>2, <3>1, LargerOfTwo
    <3>3. Max({0, n}) = IF 0 >= n THEN 0 ELSE n
      <4>1. n \in Int  BY <2>2, <3>1, <3>2
      <4> HIDE DEF n
      <4> QED  BY <4>1, LargerOfTwo
    <3>4. Remaining(g)' = Max({0, n})  BY <1>1 DEF Remaining
    <3> QED  BY <2>2, <3>1, <3>2, <3>3, <3>4
  <2>6. InEffect(g) <=> g.status = "ACTIVE" /\ g.startsAt <= clock /\ clock < g.endsAt
    BY DEF InEffect
  <2>7. next \in Nat  BY <2>1
  <2>8. g.status = "ACTIVE" => next + Remaining(g)' = used[s] + Remaining(g)
    <3> HIDE DEF g
    <3> QED  BY <1>1, <2>1, <2>2, <2>3, <2>5, <2>6
  <2>9. g.status = "SUSPENDED" => next = used[s]  BY <2>6
  <2> HIDE DEF next
  <2> QED  BY <2>1, <2>3, <2>4, <2>7, <2>8, <2>9
<1>9. used' \in [Sources -> Nat]
  <2>1. used' = [s \in Sources |-> used'[s]]  BY DEF PassTime
  <2> QED  BY <1>8, <2>1
<1>10. ASSUME NEW s \in Sources PROVE Balanced(grant[s], s, used[s], suspensions[s])'
  <2>1. Balanced(grant[s], s, used[s], suspensions[s])  BY DEF TimeInv
  <2> QED  BY <1>1, <1>8, <2>1 DEF Balanced, Duration
<1>11. Timetable(grant)'  BY <1>4, <1>5, <1>6, <1>7 DEF Timetable
<1> QED  BY <1>1, <1>9, <1>10, <1>11 DEF TimeInv, PassTime

LEMMA TimelineStep == TimeInv /\ [TimelineNext]_timelineVars => TimeInv'
<1> SUFFICES ASSUME TimeInv, [TimelineNext]_timelineVars PROVE TimeInv'
  OBVIOUS
<1>1. CASE Membership  BY <1>1, MembershipKeeps
<1>2. ASSUME NEW o \in Orders, NEW paidAt \in 0..clock, GrantOrder(o, paidAt) PROVE TimeInv'
  BY <1>2, GrantOrderKeeps
<1>3. ASSUME NEW o \in Orders, NEW status \in {"ACTIVE", "SUSPENDED", "REVOKED"},
             ChangeOrderGrant(o, status)
      PROVE  TimeInv'
  BY <1>3, ChangeOrderGrantKeeps
<1>4. CASE DeleteAccount  BY <1>4, DeletionKeeps
<1>5. CASE PassTime  BY <1>5, PassTimeKeeps
<1>6. CASE UNCHANGED timelineVars
  <2>1. UNCHANGED <<clock, giftHolder, grant, deleted, used, suspensions>>  BY <1>6 DEF timelineVars
  <2>2. Timetable(grant)'  BY <2>1, TimetableStays DEF TimeInv
  <2>3. \A s \in Sources : Balanced(grant[s], s, used[s], suspensions[s])'
    BY <2>1 DEF TimeInv, Balanced, Remaining, Duration
  <2> QED  BY <2>1, <2>2, <2>3 DEF TimeInv
<1> QED  BY <1>1, <1>2, <1>3, <1>4, <1>5, <1>6 DEF TimelineNext

LEMMA TimelineKeeps == TimelineSpec => []TimeInv
<1>1. TimelineInit => TimeInv  BY TimelineBegins
<1>2. TimeInv /\ [TimelineNext]_timelineVars => TimeInv'  BY TimelineStep
<1> QED  BY <1>1, <1>2, PTL DEF TimelineSpec

(* No order gains or loses purchased time: what was used and what remains  *)
(* add up to its duration, but for the fraction of a second by which each  *)
(* suspension rounds up (changeOrderGrant, remainingMillis).               *)
THEOREM PurchasedTimeKept == TimelineSpec => []TimeConserved
<1>1. TimeInv => TimeConserved  BY DEF TimeInv, TimeConserved, Balanced
<1> QED  BY <1>1, TimelineKeeps, PTL

(* The grants in effect now or later follow each other from now on without *)
(* a gap and never overlap, and the gift, which changeOrderGrant() does    *)
(* not shift, begins at the launch, before every order.                    *)
THEOREM GrantsFollowEachOther ==
  TimelineSpec => [](Lasting(grant) /\ Unbroken(grant) /\ Apart(grant) /\ GiftFirst(grant))
<1>1. TimeInv => Lasting(grant) /\ Unbroken(grant) /\ Apart(grant) /\ GiftFirst(grant)
  BY DEF TimeInv, Timetable
<1> QED  BY <1>1, TimelineKeeps, PTL
-----------------------------------------------------------------------------
(* What is left of some of the unfinished grants. *)
Left(S, gs) == [s \in Unfinished(gs) |-> IF s \in S THEN Remaining(gs[s]) ELSE 0]

(* The grant before which nothing is missing begins where the chain stands. *)
LEMMA ChainMeets ==
  ASSUME clock \in Nat, NEW gs, Timetable(gs), NEW S \in SUBSET Unfinished(gs), S # {}, Closed(S, gs)
  PROVE  LET last == Latest(gs, S)
             T    == S \ {last}
         IN  /\ last \in S /\ Closed(T, gs)
             /\ T = {} => gs[last].startsAt <= clock
             /\ \A e \in T : gs[e].endsAt <= gs[last].startsAt
             /\ T # {} => \E e \in T : gs[e].endsAt = gs[last].startsAt
<1> DEFINE U == Unfinished(gs)
           last == Latest(gs, S)
           T == S \ {last}
<1>1. Sane(gs) /\ Numbered(gs) /\ Lasting(gs) /\ Unbroken(gs) /\ Apart(gs)  BY DEF Timetable
<1>2. last \in S /\ \A t \in T : Earlier(gs[t], gs[last])  BY <1>1, LatestIs
<1>3. U \in SUBSET Sources /\ \A s \in U : gs[s].endsAt > clock  BY UnfinishedIs
<1>4. \A s \in U : /\ gs[s].startsAt \in Nat /\ gs[s].endsAt \in Nat
                   /\ gs[s].startsAt < gs[s].endsAt
  BY <1>1, <1>3 DEF Sane, Grant, Lasting
<1> HIDE DEF last
<1>5. Closed(T, gs)
  <2> SUFFICES ASSUME NEW s \in T, NEW t \in U, Earlier(gs[t], gs[s]) PROVE t \in T
    BY DEF Closed
  <2>1. t \in S  BY DEF Closed
  <2>2. t # last
    <3> SUFFICES ASSUME t = last PROVE FALSE
      OBVIOUS
    <3>1. Earlier(gs[s], gs[t])  BY <1>2
    <3>2. s \in Sources /\ t \in Sources  BY <1>3
    <3> QED  BY <1>1, <3>1, <3>2, EarlierOnce
  <2> QED  BY <2>1, <2>2
<1>6. ASSUME NEW e \in T PROVE gs[e].endsAt <= gs[last].startsAt
  <2>1. e \in U /\ last \in U /\ e # last  BY <1>2
  <2>2. gs[e].endsAt <= gs[last].startsAt \/ gs[last].endsAt <= gs[e].startsAt
    BY <1>1, <2>1 DEF Apart
  <2>3. Earlier(gs[e], gs[last])  BY <1>2
  <2> QED  BY <1>4, <2>1, <2>2, <2>3 DEF Earlier
<1>7. ASSUME ~(gs[last].startsAt <= clock) PROVE \E e \in T : gs[e].endsAt = gs[last].startsAt
  <2>1. PICK t \in U : gs[t].endsAt = gs[last].startsAt  BY <1>1, <1>2, <1>7 DEF Unbroken
  <2>2. gs[t].startsAt < gs[last].startsAt  BY <1>4, <2>1
  <2>3. Earlier(gs[t], gs[last])  BY <2>2 DEF Earlier
  <2>4. t \in S  BY <1>2, <2>3 DEF Closed
  <2>5. t # last
    <3>1. last \in U  BY <1>2
    <3> QED  BY <1>4, <2>2, <3>1
  <2> QED  BY <2>1, <2>4, <2>5
<1>8. T # {} => \E e \in T : gs[e].endsAt = gs[last].startsAt
  <2> SUFFICES ASSUME NEW e \in T PROVE \E t \in T : gs[t].endsAt = gs[last].startsAt
    OBVIOUS
  <2>1. gs[e].endsAt > clock /\ gs[e].endsAt <= gs[last].startsAt /\ e \in U /\ last \in U
    BY <1>2, <1>3, <1>6
  <2>2. ~(gs[last].startsAt <= clock)  BY <1>4, <2>1
  <2> QED  BY <1>7, <2>2
<1> QED  BY <1>2, <1>5, <1>6, <1>7, <1>8 DEF last

(* The chain of membership() ends when what is left of its grants is consumed. *)
LEMMA ChainAdds ==
  ASSUME clock \in Nat, NEW gs, Timetable(gs),
         NEW chain \in [SUBSET Unfinished(gs) -> Nat], Chain(chain, gs)
  PROVE  chain[Unfinished(gs)] = clock + Total(Left(Unfinished(gs), gs))
<1> DEFINE U == Unfinished(gs)
           Adds(S) == chain[S] = clock + Total(Left(S, gs))
           Ends(S) == S # {} => /\ \E t \in S : gs[t].endsAt = chain[S]
                                /\ \A t \in S : gs[t].endsAt <= chain[S]
           P == {S \in SUBSET U : Closed(S, gs) => Adds(S) /\ Ends(S)}
<1>1. Sane(gs) /\ Lasting(gs)  BY DEF Timetable
<1>2. U \in SUBSET Sources /\ IsFiniteSet(U) /\ \A s \in U : gs[s].status = "ACTIVE" /\ gs[s].endsAt > clock
  BY UnfinishedIs
<1>3. \A S \in SUBSET U : chain[S] \in Nat
      /\ chain[S] = IF S = {} THEN clock
                    ELSE LET last == Latest(gs, S) IN Reach(gs, chain[S \ {last}], last)
  BY DEF Chain
<1>4. \A s \in U : Remaining(gs[s]) \in Nat  BY <1>1, <1>2, RemainingFits
<1>5. \A S \in SUBSET U : Left(S, gs) \in [U -> Nat]  BY <1>4 DEF Left
<1>6. {} \in P
  <2>1. chain[{}] = clock  BY <1>3
  <2>2. Left({}, gs) \in [U -> Nat] /\ \A s \in U : Left({}, gs)[s] = 0  BY <1>5 DEF Left
  <2>3. Total(Left({}, gs)) = 0
    <3> HIDE DEF U
    <3> QED  BY <1>2, <2>2, SumZero
  <2>4. Adds({}) /\ Ends({})  BY <2>1, <2>3
  <2> QED  BY <2>4
<1>7. ASSUME NEW S \in SUBSET U, S # {}, \A x \in S : S \ {x} \in P PROVE S \in P
  <2> SUFFICES ASSUME Closed(S, gs) PROVE Adds(S) /\ Ends(S)
    BY <1>7
  <2> DEFINE last == Latest(gs, S)
             T == S \ {last}
  <2>1. /\ last \in S /\ Closed(T, gs)
        /\ T = {} => gs[last].startsAt <= clock
        /\ \A e \in T : gs[e].endsAt <= gs[last].startsAt
        /\ T # {} => \E e \in T : gs[e].endsAt = gs[last].startsAt
    BY <1>7, ChainMeets
  <2>2. chain[S] = Reach(gs, chain[T], last) /\ chain[T] \in Nat  BY <1>3, <1>7
  <2> HIDE DEF last
  <2>3. Adds(T) /\ Ends(T)  BY <1>7, <2>1
  <2>4. T = {} => chain[T] = clock  BY <1>3
  <2>5. last \in U /\ last \in Sources /\ gs[last].endsAt > clock
    BY <1>2, <2>1
  <2>6. /\ gs[last] \in Grant /\ gs[last].startsAt \in Nat /\ gs[last].endsAt \in Nat
        /\ gs[last].startsAt < gs[last].endsAt /\ gs[last].status # "SUSPENDED"
    BY <1>1, <1>2, <2>5 DEF Sane, Grant, Lasting
  <2>7. Remaining(gs[last]) = gs[last].endsAt - (IF gs[last].startsAt >= clock THEN gs[last].startsAt ELSE clock)
    BY <2>5, <2>6, RemainingIs
  <2>8. T # {} => gs[last].startsAt = chain[T] /\ gs[last].startsAt > clock
    <3> SUFFICES ASSUME T # {} PROVE gs[last].startsAt = chain[T] /\ gs[last].startsAt > clock
      OBVIOUS
    <3>1. PICK e \in T : gs[e].endsAt = gs[last].startsAt  BY <2>1
    <3>2. PICK f \in T : gs[f].endsAt = chain[T]  BY <2>3
    <3>3. chain[T] <= gs[last].startsAt /\ gs[last].startsAt <= chain[T]  BY <2>1, <2>3, <3>1, <3>2
    <3>4. gs[last].startsAt > clock  BY <1>2, <3>1
    <3> QED  BY <2>2, <2>6, <3>3, <3>4
  <2>9. gs[last].startsAt <= chain[T] /\ chain[T] < gs[last].endsAt
        /\ Remaining(gs[last]) = gs[last].endsAt - chain[T]
    <3> HIDE DEF T
    <3> QED  BY <2>1, <2>2, <2>4, <2>5, <2>6, <2>7, <2>8
  <2>10. chain[S] = gs[last].endsAt
    <3>1. ~(gs[last].startsAt > chain[T])  BY <2>2, <2>6, <2>9
    <3>2. Max({chain[T], gs[last].endsAt}) = gs[last].endsAt
      <4> DEFINE tail == chain[T]
                 end == gs[last].endsAt
      <4>1. tail \in Int /\ end \in Int /\ tail < end  BY <2>2, <2>6, <2>9
      <4> HIDE DEF tail, end
      <4>2. Max({tail, end}) = IF tail >= end THEN tail ELSE end  BY <4>1, LargerOfTwo
      <4>3. Max({tail, end}) = end  BY <4>1, <4>2
      <4> QED  BY <4>3 DEF tail, end
    <3> QED  BY <2>2, <3>1, <3>2 DEF Reach
  <2>11. Total(Left(S, gs)) = Total(Left(T, gs)) + Remaining(gs[last])
    <3> DEFINE n == Remaining(gs[last])
               f == Left(T, gs)
               h == Left(S, gs)
    <3>1. f \in [U -> Nat] /\ h \in [U -> Nat] /\ n \in Nat  BY <1>4, <1>5, <2>5
    <3>2. \A x \in U : h[x] = f[x] + IF x = last THEN n ELSE 0
      <4> SUFFICES ASSUME NEW x \in U PROVE h[x] = f[x] + IF x = last THEN n ELSE 0
        OBVIOUS
      <4>1. /\ h[x] = IF x \in S THEN Remaining(gs[x]) ELSE 0
            /\ f[x] = IF x \in T THEN Remaining(gs[x]) ELSE 0
        BY DEF Left
      <4>2. Remaining(gs[x]) \in Nat  BY <1>4
      <4> HIDE DEF h, f
      <4> QED  BY <2>1, <4>1, <4>2
    <3> HIDE DEF f, h, n, U
    <3>3. IsFiniteSet(U) /\ last \in U  BY <1>2, <2>5
    <3>4. Total(h) = Total(f) + n  BY <3>1, <3>2, <3>3, SumGrows
    <3> QED  BY <3>4 DEF f, h, n
  <2>12. Adds(S)
    <3>1. chain[T] = clock + Total(Left(T, gs))  BY <2>3
    <3>2. Total(Left(T, gs)) \in Nat
      <4>1. Left(T, gs) \in [U -> Nat]  BY <1>5
      <4> HIDE DEF U, T
      <4> QED  BY <1>2, <4>1, SumNat
    <3> QED  BY <2>2, <2>6, <2>9, <2>10, <2>11, <3>1, <3>2
  <2>13. Ends(S)
    <3>1. \A t \in T : gs[t].endsAt <= gs[last].endsAt
      <4>1. \A t \in T : gs[t].endsAt \in Nat  BY <1>1, <1>2 DEF Sane, Grant
      <4> QED  BY <2>1, <2>6, <4>1
    <3>2. gs[last].endsAt <= gs[last].endsAt  BY <2>6
    <3> QED  BY <2>1, <2>10, <3>1, <3>2
  <2> QED  BY <2>12, <2>13
<1>8. U \in P
  <2>1. \A S \in SUBSET U : S \in P
    <3> HIDE DEF P, U
    <3> QED  BY <1>2, <1>6, <1>7, SubsetsGrow
  <2> QED  BY <2>1
<1>9. Closed(U, gs)  BY DEF Closed
<1> QED  BY <1>8, <1>9

(* Membership ends when everything in effect has been consumed, no sooner  *)
(* and no later: what membership() follows up to the first gap is all that *)
(* grantOrder() and changeOrderGrant() have laid.                          *)
THEOREM MembershipEndsOnTime == TimelineSpec => []ExpiresAfterAll
<1>1. ASSUME TimeInv PROVE ExpiresAfterAll
  <2>1. clock \in Nat /\ Timetable(grant)  BY <1>1, EntitlementAssumption DEF TimeInv
  <2>2. TypeOK  BY <1>1 DEF TimeInv, Timetable, Sane, TypeOK
  <2> DEFINE left == [s \in Unfinished(grant) |-> Remaining(grant[s])]
  <2>3. Left(Unfinished(grant), grant) = left  BY DEF Left
  <2>4. MapThenSumSet(LAMBDA s : left[s], DOMAIN left) = Total(left)  BY DEF Total
  <2>5. PICK chain \in [SUBSET Unfinished(grant) -> Nat] :
          Chain(chain, grant) /\ MemberUntil(grant) = chain[Unfinished(grant)]
    BY <2>1, MemberUntilIs DEF Timetable
  <2>6. chain[Unfinished(grant)] = clock + Total(Left(Unfinished(grant), grant))
    BY <2>1, <2>5, ChainAdds
  <2> QED  BY <2>2, <2>3, <2>4, <2>5, <2>6 DEF ExpiresAfterAll
<1> QED  BY <1>1, TimelineKeeps, PTL
=============================================================================
