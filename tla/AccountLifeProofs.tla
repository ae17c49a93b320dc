-------------------------- MODULE AccountLifeProofs --------------------------
(***************************************************************************)
(* The promises of AccountLifeProperties, for any number of rounds,        *)
(* sessions, orders, tickets, rows, practices and processes, and for any   *)
(* prices, limits and clocks the assumptions of the modules allow.         *)
(*                                                                         *)
(* The parts of the account share its row in "User" and the clock, and     *)
(* nothing else, so each has an invariant of its own.  A part keeps it     *)
(* through its own steps, through those of the other parts, when the clock *)
(* ticks, and when the account is deleted; each invariant also says what   *)
(* the deletion has left of its part, which is how NothingAfterDeletion is *)
(* put together in the end.                                                *)
(***************************************************************************)
EXTENDS AccountLifeProperties, FiniteSetTheorems, SequenceTheorems, TLAPS

SubjectOK == now \in Nat /\ deleted \in BOOLEAN

USE NullAssumption
-----------------------------------------------------------------------------
(***************************************************************************)
(* Private content.  A confirmation that stands is on the candidate, and   *)
(* an entry that exists belongs to a candidate that is linked to it.       *)
(***************************************************************************)
Candidates == [status : Decisions \cup {"none"}, document : Documents \cup {None}, linked : BOOLEAN]

ContentInv ==
  /\ candidate \in [Rows -> Candidates] /\ entry \in [Rows -> Decisions \cup {None}]
  /\ \A r \in Rows :
       /\ candidate[r].status = "VALIDATED" \/ entry[r] = "VALIDATED" => r \in confirmed \ Unsound
       /\ entry[r] # None => candidate[r].linked /\ Known(r)
  /\ deleted =>
       /\ \A r \in Rows : candidate[r] = NoCandidate /\ entry[r] = None
       /\ bookmark = {} /\ exposed = {} /\ expression = {}

LEMMA ContentInit == Init => ContentInv
  BY DecisionsAssumption DEF Init, InitContent, InitSubject, ContentInv, Candidates, NoCandidate, Decisions

LEMMA ContentStep ==
  ASSUME ContentInv, SubjectOK, NextContent
  PROVE  ContentInv'
  <1>1. deleted' = deleted /\ now' = now
    BY DEF NextContent, Preview, Commit, Validate, LookUp, Bookmark, RemoveBookmark, RecordExposure,
           SaveExpression, RemoveExpression, subjectVars
  <1>2. ASSUME NEW d \in Documents, Preview(d) PROVE ContentInv'
    BY <1>1, <1>2 DEF ContentInv, Preview, Candidates, NoCandidate, Known, MayWrite, Decisions
  <1>3. ASSUME NEW d \in Documents, Commit(d) PROVE ContentInv'
    BY <1>1, <1>3 DEF ContentInv, Commit, Candidates, NoCandidate, Known, MayWrite, Decisions, Committable
  <1>4. ASSUME NEW r \in Rows, NEW decision \in Decisions, NEW checked \in BOOLEAN,
               Validate(r, decision, checked)
        PROVE  ContentInv'
    <2>1. candidate \in [Rows -> Candidates] /\ entry \in [Rows -> Decisions \cup {None}]
      BY DEF ContentInv
    <2>2. /\ candidate' \in [Rows -> Candidates] /\ entry' \in [Rows -> Decisions \cup {None}]
          /\ \A q \in Rows : q # r => candidate'[q] = candidate[q] /\ entry'[q] = entry[q]
          /\ candidate'[r].status = decision /\ candidate'[r].linked = candidate[r].linked
          /\ entry'[r] = EntryFollows(r, decision)
      BY <1>4, <2>1 DEF Validate, Candidates, EntryFollows
    <2>3. decision = "VALIDATED" <=> r \in confirmed'
      BY <1>4 DEF Validate
    <2>4. \A q \in Rows : q # r => (q \in confirmed' <=> q \in confirmed)
      BY <1>4 DEF Validate
    <2>5. decision = "VALIDATED" => r \notin Unsound
      BY <1>4 DEF Validate, Sound
    <2>6. entry'[r] # None => candidate'[r].linked /\ Known(r)'
      BY <1>4, <2>2 DEF ContentInv, EntryFollows, Known, Validate, Decisions
    <2>7. entry'[r] = "VALIDATED" => decision = "VALIDATED"
      BY <2>2, DecisionsAssumption DEF ContentInv, EntryFollows, Decisions
    <2>8. ~deleted
      BY <1>4 DEF Validate, MayWrite
    <2> QED
      BY <1>1, <2>2, <2>3, <2>4, <2>5, <2>6, <2>7, <2>8 DEF ContentInv, Known
  <1>5. ASSUME UNCHANGED <<candidate, entry, confirmed>>,
               deleted => bookmark' = {} /\ exposed' = {} /\ expression' = {}
        PROVE  ContentInv'
    BY <1>1, <1>5 DEF ContentInv, Known
  <1>6. ASSUME NEW r \in Rows, LookUp(r) \/ Bookmark(r) \/ RemoveBookmark(r) \/ RecordExposure(r)
        PROVE  ContentInv'
    BY <1>5, <1>6 DEF ContentInv, LookUp, Bookmark, RemoveBookmark, RecordExposure, MayWrite
  <1>7. ASSUME NEW x \in Kept, SaveExpression(x) \/ RemoveExpression(x)
        PROVE  ContentInv'
    BY <1>5, <1>7 DEF ContentInv, SaveExpression, RemoveExpression, MayWrite
  <1> QED
    BY <1>2, <1>3, <1>4, <1>6, <1>7 DEF NextContent

LEMMA ContentDelete ==
  ASSUME ContentInv, DeleteAccount
  PROVE  ContentInv'
  BY DecisionsAssumption DEF ContentInv, DeleteAccount, DeletesContent, Candidates, NoCandidate, Known, Decisions

LEMMA ContentFrame ==
  ASSUME ContentInv, UNCHANGED <<contentVars, deleted>>
  PROVE  ContentInv'
  BY DEF ContentInv, contentVars, Known

LEMMA HiddenByContent == ContentInv => WithdrawnIsHidden
  BY DEF ContentInv, WithdrawnIsHidden, Visible, Offered, InBookmarks
-----------------------------------------------------------------------------
(***************************************************************************)
(* The sweep.  While a process holds the lease, the watermark is the one   *)
(* its window was opened with; what the window leaves out is older than    *)
(* the watermark, or no longer listed.  What was listed when the first     *)
(* page was read, and all that Google had to show by then, is kept or      *)
(* still to come.                                                          *)
(***************************************************************************)
Moments == Nat \cup {None}

Sweeps == [step : {"idle", "claimed", "opening", "pages", "closing", "failed"},
           start : Moments, end : Nat, from : Nat, left : SUBSET Voids]

Opening(w) == sweeper[w].step \in {"opening", "pages", "closing"}
Begun(w)   == sweeper[w].step \in {"pages", "closing"}

InWindowOf(w) ==
  /\ sweeper[w].end <= now
  /\ Holds(w) => sweeper[w].start = WindowStart(sweeper[w].end)

Collected(w) ==
  /\ sweeper[w].step = "closing" => sweeper[w].left = {}
  /\ \A v \in Voids :
       /\ voided[v] # None
       /\ sweeper[w].from <= voided[v] /\ voided[v] + MaxDelay < sweeper[w].end
       => v \in kept \cup sweeper[w].left

SweepInv ==
  /\ voided \in [Voids -> Moments] /\ shown \subseteq Voids
  /\ state \in [token : Sweepers \cup {None}, until : Moments, watermark : Moments]
  /\ state.watermark # None => state.watermark <= now
  /\ sweeper \in [Sweepers -> Sweeps] /\ opened \in Nat
  /\ \A v \in Voids : /\ voided[v] # None => voided[v] <= now
                      /\ voided[v] # None /\ v \notin shown => now <= voided[v] + MaxDelay
  /\ \A w \in Sweepers : (Opening(w) => InWindowOf(w)) /\ (Begun(w) => Collected(w))
  /\ WatermarkCovers

LEMMA SweepInit == Init => SweepInv
  BY DEF Init, InitSweep, InitSubject, SweepInv, Moments, Sweeps, Resting, Opening, Begun, WatermarkCovers

(* The lease, the watermark and the records are as before, or a process    *)
(* rests: the windows that are open stay as they were opened.              *)
LEMMA Rests ==
  ASSUME SweepInv, SubjectOK, NEW w \in Sweepers, NEW new \in Sweeps,
         new.step \in {"idle", "claimed", "failed"}, sweeper' = [sweeper EXCEPT ![w] = new],
         kept \subseteq kept', UNCHANGED <<voided, shown, opened, now>>,
         state' \in [token : Sweepers \cup {None}, until : Moments, watermark : Moments],
         state'.watermark = state.watermark,
         \A q \in Sweepers \ {w} : Opening(q) /\ Holds(q)' => Holds(q)
  PROVE  SweepInv'
  <1>1. sweeper \in [Sweepers -> Sweeps]
    BY DEF SweepInv
  <1>2. sweeper' \in [Sweepers -> Sweeps] /\ \A q \in Sweepers \ {w} : sweeper'[q] = sweeper[q]
    BY <1>1
  <1>3. sweeper'[w] = new
    BY <1>1
  <1>4. \A end : WindowStart(end)' = WindowStart(end)
    BY DEF WindowStart, Before
  <1>5. ASSUME NEW q \in Sweepers, Opening(q)' PROVE InWindowOf(q)'
    <2>1. q # w /\ sweeper'[q] = sweeper[q]
      BY <1>2, <1>3, <1>5 DEF Opening
    <2> QED
      BY <1>4, <1>5, <2>1 DEF SweepInv, Opening, InWindowOf, Holds, Lasts
  <1>6. ASSUME NEW q \in Sweepers, Begun(q)' PROVE Collected(q)'
    <2>1. q # w /\ sweeper'[q] = sweeper[q]
      BY <1>2, <1>3, <1>6 DEF Begun
    <2> QED
      BY <1>6, <2>1 DEF SweepInv, Begun, Collected
  <1>7. WatermarkCovers'
    BY DEF SweepInv, WatermarkCovers
  <1> QED
    BY <1>2, <1>5, <1>6, <1>7 DEF SweepInv

LEMMA Voiding ==
  ASSUME SweepInv, SubjectOK, NEW v \in Voids, Void(v) \/ Show(v)
  PROVE  SweepInv'
  <1>1. /\ voided' \in [Voids -> Moments] /\ shown' \subseteq Voids /\ shown \subseteq shown'
        /\ \A x \in Voids : x # v => voided'[x] = voided[x] /\ (x \in shown' => x \in shown)
        /\ voided[v] # None => voided'[v] = voided[v]
        /\ voided[v] = None => voided'[v] = now
        /\ v \in shown' => v \in shown \/ voided[v] # None
    BY DEF SweepInv, SubjectOK, Void, Show, Moments
  <1>2. UNCHANGED <<kept, state, sweeper, opened, now>>
    BY DEF Void, Show, subjectVars
  <1>3. \A x \in Voids : /\ voided'[x] # None => voided'[x] <= now
                         /\ voided'[x] # None /\ x \notin shown' => now <= voided'[x] + MaxDelay
    BY <1>1, DelayCovered DEF SweepInv, SubjectOK
  <1>4. \A end : WindowStart(end)' = WindowStart(end)
    BY <1>2 DEF WindowStart, Before
  <1>5. ASSUME NEW q \in Sweepers, Opening(q)' PROVE InWindowOf(q)'
    BY <1>2, <1>4, <1>5 DEF SweepInv, Opening, InWindowOf, Holds, Lasts
  <1>6. ASSUME NEW q \in Sweepers, Begun(q)' PROVE Collected(q)'
    <2>1. sweeper[q].end <= now /\ sweeper[q].end \in Nat /\ Collected(q)
      BY <1>2, <1>6 DEF SweepInv, Opening, Begun, InWindowOf, Holds, Lasts, Sweeps
    <2>2. ASSUME NEW x \in Voids, voided'[x] # None, voided'[x] + MaxDelay < sweeper[q].end
          PROVE  voided'[x] = voided[x]
      BY <1>1, <2>1, <2>2, DelayCovered DEF SubjectOK
    <2>3. ASSUME NEW x \in Voids, voided'[x] # None, sweeper[q].from <= voided'[x],
                 voided'[x] + MaxDelay < sweeper[q].end
          PROVE  x \in kept \cup sweeper[q].left
      BY <2>1, <2>2, <2>3 DEF Collected
    <2> QED
      BY <1>2, <2>1, <2>3 DEF Collected
  <1>7. WatermarkCovers'
    <2> SUFFICES ASSUME state.watermark # None, NEW x \in Voids, voided'[x] # None,
                        opened <= voided'[x], voided'[x] + MaxDelay < state.watermark
                 PROVE  x \in kept
      BY <1>2 DEF WatermarkCovers
    <2>1. state.watermark \in Nat /\ state.watermark <= now
      BY DEF SweepInv, Moments
    <2>2. voided'[x] = voided[x]
      BY <1>1, <2>1, DelayCovered DEF SubjectOK
    <2> QED
      BY <2>2 DEF SweepInv, WatermarkCovers
  <1> QED
    BY <1>1, <1>2, <1>3, <1>5, <1>6, <1>7 DEF SweepInv

(* The window is opened: the row was read again under the claim. *)
LEMMA Opens ==
  ASSUME SweepInv, SubjectOK, NEW w \in Sweepers, Read(w)
  PROVE  SweepInv'
  <1>1. UNCHANGED <<voided, shown, kept, state, opened, now>>
    BY DEF Read, subjectVars
  <1>2. CASE GapTooLong(now)
    <2>1. [Resting EXCEPT !.step = "failed"] \in Sweeps
      BY DEF Resting, Sweeps, Moments
    <2> DEFINE new == [Resting EXCEPT !.step = "failed"]
    <2>2. new.step = "failed" /\ sweeper' = [sweeper EXCEPT ![w] = new]
      BY <1>2 DEF Read, Resting
    <2> HIDE DEF new
    <2> QED
      BY <1>1, <2>1, <2>2, Rests DEF Holds, Lasts, SweepInv, new
  <1>3. CASE ~GapTooLong(now)
    <2> DEFINE new == [Resting EXCEPT !.step = "opening", !.start = WindowStart(now), !.end = now]
    <2>1. sweeper' = [sweeper EXCEPT ![w] = new] /\ sweeper \in [Sweepers -> Sweeps]
      BY <1>3 DEF Read, SweepInv
    <2>2. WindowStart(now) \in Moments
      BY DelayCovered DEF WindowStart, Before, SweepInv, Moments
    <2>3. new \in Sweeps /\ new.step = "opening" /\ new.start = WindowStart(now) /\ new.end = now
      BY <2>2 DEF Resting, Sweeps, SubjectOK, Moments
    <2> HIDE DEF new
    <2>4. /\ sweeper' \in [Sweepers -> Sweeps] /\ sweeper'[w] = new
          /\ \A q \in Sweepers \ {w} : sweeper'[q] = sweeper[q]
      BY <2>1, <2>3
    <2>5. \A end : WindowStart(end)' = WindowStart(end)
      BY <1>1 DEF WindowStart, Before
    <2>6. ASSUME NEW q \in Sweepers, Opening(q)' PROVE InWindowOf(q)'
      <3>1. CASE q = w
        BY <1>1, <2>3, <2>4, <2>5, <3>1 DEF InWindowOf, Holds, Lasts, SubjectOK
      <3>2. CASE q # w
        BY <1>1, <2>4, <2>5, <2>6, <3>2 DEF InWindowOf, Holds, Lasts, Opening, SweepInv
      <3> QED
        BY <3>1, <3>2
    <2>7. ASSUME NEW q \in Sweepers, Begun(q)' PROVE Collected(q)'
      BY <1>1, <2>3, <2>4, <2>7 DEF Begun, Collected, SweepInv
    <2>8. WatermarkCovers'
      BY <1>1 DEF SweepInv, WatermarkCovers
    <2> QED
      BY <1>1, <2>4, <2>6, <2>7, <2>8 DEF SweepInv
  <1> QED
    BY <1>2, <1>3

LEMMA Reads ==
  ASSUME SweepInv, SubjectOK, NEW w \in Sweepers, Page(w)
  PROVE  SweepInv'
  <1>1. UNCHANGED <<voided, shown, state, opened, now>>
    BY DEF Page, subjectVars
  <1>2. PICK records \in SUBSET Remaining(w) :
          /\ kept' = kept \cup records
          /\ sweeper' = [sweeper EXCEPT ![w].left = Remaining(w) \ records, ![w].from = From(w),
                           ![w].step = IF Remaining(w) = records THEN "closing" ELSE "pages"]
    BY DEF Page
  <1>3. /\ sweeper \in [Sweepers -> Sweeps] /\ shown \subseteq Voids
        /\ sweeper[w].start \in Moments /\ sweeper[w].end \in Nat /\ sweeper[w].end <= now
        /\ Paging(w)
    BY DEF SweepInv, Sweeps, Page, Paging, Opening, InWindowOf, Holds, Lasts
  <1>4. Remaining(w) \in SUBSET Voids /\ From(w) \in Nat
    BY <1>3, DelayCovered DEF Remaining, From, Listed, Oldest, Before, Larger, Sweeps, Moments, SubjectOK
  <1> DEFINE step == IF Remaining(w) = records THEN "closing" ELSE "pages"
             left == Remaining(w) \ records
  <1>5. /\ sweeper' \in [Sweepers -> Sweeps]
        /\ \A q \in Sweepers \ {w} : sweeper'[q] = sweeper[q]
        /\ sweeper'[w].start = sweeper[w].start /\ sweeper'[w].end = sweeper[w].end
        /\ sweeper'[w].from = From(w) /\ sweeper'[w].left = left /\ sweeper'[w].step = step
    BY <1>2, <1>3, <1>4 DEF Sweeps
  <1>6. \A end : WindowStart(end)' = WindowStart(end)
    BY <1>1 DEF WindowStart, Before
  <1>7. ASSUME NEW q \in Sweepers, Opening(q)' PROVE InWindowOf(q)'
    <2>1. Opening(q)
      BY <1>3, <1>5, <1>7 DEF Opening, Paging
    <2> QED
      BY <1>1, <1>5, <1>6, <2>1 DEF InWindowOf, Holds, Lasts, SweepInv
  <1>8. Collected(w)'
    <2>1. ASSUME NEW v \in Voids, voided[v] # None, From(w) <= voided[v],
                 voided[v] + MaxDelay < sweeper[w].end
          PROVE  v \in kept \cup Remaining(w)
      <3>1. CASE sweeper[w].step = "opening"
        <4>1. voided[v] \in Nat
          BY <2>1 DEF SweepInv, Moments
        <4>2. v \in shown
          BY <1>3, <2>1, <4>1, DelayCovered DEF SweepInv, SubjectOK
        <4>3. voided[v] \in Oldest(sweeper[w].start)..sweeper[w].end
          BY <1>3, <1>4, <2>1, <3>1, <4>1, DelayCovered DEF From
        <4> QED
          BY <3>1, <4>2, <4>3 DEF Remaining, Listed
      <3>2. CASE sweeper[w].step # "opening"
        BY <1>3, <2>1, <3>2 DEF SweepInv, Begun, Collected, Paging, Remaining, From
      <3> QED
        BY <3>1, <3>2
    <2> QED
      BY <1>1, <1>2, <1>5, <2>1 DEF Collected
  <1>9. ASSUME NEW q \in Sweepers, Begun(q)' PROVE Collected(q)'
    <2>1. CASE q = w
      BY <1>8, <2>1
    <2>2. CASE q # w
      BY <1>1, <1>2, <1>5, <1>9, <2>2 DEF Begun, Collected, SweepInv
    <2> QED
      BY <2>1, <2>2
  <1>10. WatermarkCovers'
    BY <1>1, <1>2 DEF SweepInv, WatermarkCovers
  <1> QED
    BY <1>1, <1>5, <1>7, <1>9, <1>10 DEF SweepInv

(* The watermark moves to the end of a window that is closed under the     *)
(* lease it was opened with.                                               *)
LEMMA Advances ==
  ASSUME SweepInv, SubjectOK, NEW w \in Sweepers, Closes(w)
  PROVE  SweepInv'
  <1>1. UNCHANGED <<voided, shown, kept, now>>
    BY DEF Closes, subjectVars
  <1>2. /\ sweeper \in [Sweepers -> Sweeps] /\ sweeper[w].step = "closing"
        /\ sweeper[w].end \in Nat /\ sweeper[w].from \in Nat /\ sweeper[w].start \in Moments
    BY DEF SweepInv, Closes, Sweeps
  <1>3. /\ Resting \in Sweeps /\ Resting.step = "idle"
        /\ sweeper' = [sweeper EXCEPT ![w] = Resting]
    BY DEF Resting, Sweeps, Closes, Moments
  <1>4. CASE ~Holds(w)
    BY <1>1, <1>3, <1>4, Rests DEF Holds, Lasts, Closes, SweepInv
  <1>5. CASE Holds(w)
    <2>1. /\ state' = [token |-> None, until |-> None, watermark |-> sweeper[w].end]
          /\ opened' = IF sweeper[w].from = sweeper[w].start THEN opened
                       ELSE Larger(opened, sweeper[w].from)
      BY <1>5 DEF Closes
    <2>2. /\ Collected(w) /\ sweeper[w].left = {} /\ sweeper[w].end <= now
          /\ sweeper[w].start = WindowStart(sweeper[w].end)
      BY <1>2, <1>5 DEF SweepInv, Begun, Opening, Collected, InWindowOf, Holds
    <2>3. opened' \in Nat /\ opened <= opened'
      BY <1>2, <2>1 DEF SweepInv, Larger
    <2>4. /\ sweeper' \in [Sweepers -> Sweeps] /\ sweeper'[w].step = "idle"
          /\ \A q \in Sweepers \ {w} : sweeper'[q] = sweeper[q]
      BY <1>2, <1>3
    <2>5. ASSUME NEW q \in Sweepers, Opening(q)' PROVE InWindowOf(q)'
      <3>1. q # w /\ sweeper'[q] = sweeper[q] /\ Opening(q)
        BY <2>4, <2>5 DEF Opening
      <3> QED
        BY <1>1, <2>1, <3>1 DEF InWindowOf, Holds, Lasts, SweepInv
    <2>6. ASSUME NEW q \in Sweepers, Begun(q)' PROVE Collected(q)'
      BY <1>1, <2>4, <2>6 DEF Begun, Collected, SweepInv
    <2>7. WatermarkCovers'
      <3> SUFFICES ASSUME NEW v \in Voids, voided[v] # None, opened' <= voided[v],
                          voided[v] + MaxDelay < sweeper[w].end
                   PROVE  v \in kept
        BY <1>1, <2>1 DEF WatermarkCovers
      <3>1. voided[v] \in Nat
        BY DEF SweepInv, Moments
      <3>2. CASE sweeper[w].from <= voided[v]
        BY <2>2, <3>2 DEF Collected
      <3>3. CASE voided[v] < sweeper[w].from
        <4>0. opened \in Nat
          BY DEF SweepInv
        <4>1. sweeper[w].from = sweeper[w].start
          BY <1>2, <2>1, <3>1, <3>3, <4>0 DEF Larger
        <4>2. /\ state.watermark # None /\ state.watermark \in Nat
              /\ sweeper[w].from = Before(state.watermark, Overlap)
          BY <1>2, <2>2, <4>1 DEF WindowStart, SweepInv, Moments
        <4>3. voided[v] + MaxDelay < state.watermark
          BY <1>2, <3>1, <3>3, <4>2, DelayCovered DEF Before
        <4>4. opened <= voided[v]
          BY <2>3, <3>1 DEF SweepInv
        <4> QED
          BY <4>2, <4>3, <4>4 DEF SweepInv, WatermarkCovers
      <3> QED
        BY <1>2, <3>1, <3>2, <3>3
    <2>8. /\ state' \in [token : Sweepers \cup {None}, until : Moments, watermark : Moments]
          /\ state'.watermark <= now
      BY <1>2, <2>1, <2>2 DEF Moments
    <2> QED
      BY <1>1, <2>3, <2>4, <2>5, <2>6, <2>7, <2>8 DEF SweepInv
  <1> QED
    BY <1>4, <1>5

LEMMA SweepStep ==
  ASSUME SweepInv, SubjectOK, NextSweep
  PROVE  SweepInv'
  <1>0. Resting \in Sweeps /\ Resting.step = "idle"
    BY DEF Resting, Sweeps, Moments
  <1>1. ASSUME NEW w \in Sweepers, Claim(w) PROVE SweepInv'
    <2>1. [Resting EXCEPT !.step = "claimed"] \in Sweeps
      BY DEF Resting, Sweeps, Moments
    <2> DEFINE new == [Resting EXCEPT !.step = "claimed"]
    <2>2. new.step = "claimed" /\ sweeper' = [sweeper EXCEPT ![w] = new]
      BY <1>1 DEF Claim, SweepInv, Resting
    <2> HIDE DEF new
    <2>3. /\ state' \in [token : Sweepers \cup {None}, until : Moments, watermark : Moments]
          /\ state'.watermark = state.watermark
          /\ \A q \in Sweepers \ {w} : ~Holds(q)'
      <3>1. state \in [token : Sweepers \cup {None}, until : Moments, watermark : Moments]
        BY DEF SweepInv
      <3>2. now + SweepLease \in Moments
        BY DelayCovered DEF SubjectOK, Moments
      <3>3. state' = [state EXCEPT !.token = w, !.until = now + SweepLease]
        BY <1>1 DEF Claim
      <3>4. state'.token = w /\ state'.watermark = state.watermark
        BY <3>1, <3>3
      <3>5. state' \in [token : Sweepers \cup {None}, until : Moments, watermark : Moments]
        BY <3>1, <3>2, <3>3
      <3> QED
        BY <3>4, <3>5 DEF Holds
    <2>4. UNCHANGED <<voided, shown, kept, opened, now>>
      BY <1>1 DEF Claim, subjectVars
    <2> QED
      BY <2>1, <2>2, <2>3, <2>4, Rests DEF new
  <1>2. ASSUME NEW w \in Sweepers, Fenced(w) \/ SweeperDies(w) PROVE SweepInv'
    <2>1. UNCHANGED <<voided, shown, kept, state, opened, now>> /\ sweeper' = [sweeper EXCEPT ![w] = Resting]
      BY <1>2 DEF Fenced, SweeperDies, subjectVars
    <2> QED
      BY <1>0, <2>1, Rests DEF Holds, Lasts, SweepInv
  <1>3. ASSUME NEW w \in Sweepers, GivesUp(w) PROVE SweepInv'
    <2>1. UNCHANGED <<voided, shown, kept, opened, now>> /\ sweeper' = [sweeper EXCEPT ![w] = Resting]
      BY <1>3 DEF GivesUp, subjectVars
    <2>2. /\ state' \in [token : Sweepers \cup {None}, until : Moments, watermark : Moments]
          /\ state'.watermark = state.watermark
      BY <1>3 DEF GivesUp, FreesLease, SweepInv, Moments
    <2>3. \A q \in Sweepers : Holds(q)' => Holds(q)
      BY <1>3, <2>1, <2>2 DEF GivesUp, FreesLease, SweepInv, Holds, Lasts
    <2> QED
      BY <1>0, <2>1, <2>2, <2>3, Rests
  <1>4. ASSUME NEW w \in Sweepers, Fails(w) PROVE SweepInv'
    <2>1. [Resting EXCEPT !.step = "failed"] \in Sweeps
      BY DEF Resting, Sweeps, Moments
    <2> DEFINE new == [Resting EXCEPT !.step = "failed"]
    <2>2. new.step = "failed" /\ sweeper' = [sweeper EXCEPT ![w] = new]
      BY <1>4 DEF Fails, Resting
    <2> HIDE DEF new
    <2>3. UNCHANGED <<voided, shown, state, opened, now>> /\ kept \subseteq kept'
      BY <1>4 DEF Fails, subjectVars
    <2> QED
      BY <2>1, <2>2, <2>3, Rests DEF Holds, Lasts, SweepInv, new
  <1> QED
    BY <1>1, <1>2, <1>3, <1>4, Voiding, Opens, Reads, Advances DEF NextSweep

LEMMA SweepTick ==
  ASSUME SweepInv, SubjectOK, Tick
  PROVE  SweepInv'
  <1>1. UNCHANGED sweepVars /\ now' = now + 1 /\ GoogleMayWait
    BY DEF Tick
  <1>2. \A end : WindowStart(end)' = WindowStart(end)
    BY <1>1 DEF WindowStart, Before, sweepVars
  <1>3. \A v \in Voids : voided[v] # None /\ v \notin shown => now < voided[v] + MaxDelay
    BY <1>1 DEF GoogleMayWait, Awaited
  <1>4. \A v \in Voids : /\ voided[v] # None => voided[v] <= now'
                         /\ voided[v] # None /\ v \notin shown => now' <= voided[v] + MaxDelay
    BY <1>1, <1>3, DelayCovered DEF SweepInv, SubjectOK, Moments
  <1>5. ASSUME NEW w \in Sweepers, Opening(w)' PROVE InWindowOf(w)'
    <2>1. Holds(w)' => Holds(w)
      BY <1>1 DEF Holds, Lasts, SweepInv, SubjectOK, Moments, sweepVars
    <2>2. sweeper' = sweeper /\ sweeper[w].end \in Nat /\ InWindowOf(w)
      BY <1>1, <1>5 DEF SweepInv, Opening, Sweeps, sweepVars
    <2> QED
      BY <1>1, <1>2, <2>1, <2>2 DEF InWindowOf, SubjectOK
  <1>6. \A w \in Sweepers : Begun(w)' => Collected(w)'
    BY <1>1 DEF SweepInv, Begun, Collected, sweepVars
  <1>7. WatermarkCovers'
    BY <1>1 DEF SweepInv, WatermarkCovers, sweepVars
  <1>8. state.watermark # None => state.watermark <= now'
    BY <1>1 DEF SweepInv, SubjectOK, Moments
  <1> QED
    BY <1>1, <1>4, <1>5, <1>6, <1>7, <1>8 DEF SweepInv, sweepVars

LEMMA SweepFrame ==
  ASSUME SweepInv, UNCHANGED <<sweepVars, now>>
  PROVE  SweepInv'
  <1>1. \A end : WindowStart(end)' = WindowStart(end)
    BY DEF WindowStart, Before, sweepVars
  <1> QED
    BY <1>1 DEF SweepInv, Opening, InWindowOf, Holds, Lasts, Begun, Collected, WatermarkCovers, sweepVars
-----------------------------------------------------------------------------
(***************************************************************************)
(* The practices of a word.  One is open at a time, so when one is         *)
(* assessed every other that was answered is over: what it has given to    *)
(* its day is seen.  The date the word was reviewed on is that of the      *)
(* practice that gave the evidence.                                        *)
(***************************************************************************)
Words == [knowledge : {"UNKNOWN", "KNOWN", "REMEMBERED"}, practised : BOOLEAN, paused : BOOLEAN,
          revision : Nat, next : Moments, reviewed : Moments]
Practices == [status : {"none", "QUEUED", "READY", "ASSESSING", "COMPLETED", "FAILED"},
              revision : Nat, due : BOOLEAN, created : Nat, challenge : BOOLEAN,
              answered : BOOLEAN, attempts : Nat, completed : Moments, counted : BOOLEAN]

Open(e) == e.status \in {"QUEUED", "READY", "ASSESSING"}

PracticeFacts(e) ==
  /\ e.status \in {"ASSESSING", "COMPLETED"} => e.answered
  /\ e.answered => e.status \in {"ASSESSING", "COMPLETED", "FAILED"}
  /\ e.completed # None => e.answered /\ e.completed <= now
  /\ e.counted => e.due /\ e.completed # None

GivenOnce ==
  \A x, y \in Drills :
    x # y /\ drill[x].counted /\ drill[y].due /\ SameDay(drill[x].completed, drill[y].completed)
      => ~drill[y].counted /\ drill[x].completed <= drill[y].completed

Reviewed ==
  word # None /\ word.reviewed # None =>
    \E x \in Drills : drill[x].counted /\ drill[x].completed = word.reviewed

WordInv ==
  /\ word \in Words \cup {None} /\ drill \in [Drills -> Practices]
  /\ \A x, y \in Drills : Open(drill[x]) /\ Open(drill[y]) => x = y
  /\ \A x \in Drills : PracticeFacts(drill[x])
  /\ GivenOnce /\ Reviewed
  /\ deleted => word = None /\ \A x \in Drills : drill[x] = NoDrill

LEMMA WordInit == Init => WordInv
  BY DEF Init, InitWord, InitSubject, WordInv, Practices, NoDrill, PracticeFacts, GivenOnce, Reviewed,
         Open, Moments

LEMMA SameDayOrder ==
  ASSUME NEW s, NEW t
  PROVE  SameDay(s, t) => SameDay(t, s) /\ s # None /\ t # None
  BY DEF SameDay

(* One practice moves on, and gives no evidence. *)
LEMMA PracticeMoves ==
  ASSUME WordInv, NEW x \in Drills, NEW e \in Practices, drill' = [drill EXCEPT ![x] = e],
         UNCHANGED <<word, now, deleted>>, ~deleted, PracticeFacts(e),
         Open(e) => \A y \in Drills \ {x} : ~Open(drill[y]),
         e.completed = drill[x].completed, e.counted = drill[x].counted,
         e.completed # None => e.due = drill[x].due
  PROVE  WordInv'
  <1>1. drill \in [Drills -> Practices]
    BY DEF WordInv
  <1>2. /\ drill' \in [Drills -> Practices] /\ drill'[x] = e
        /\ \A y \in Drills \ {x} : drill'[y] = drill[y]
    BY <1>1
  <1>3. \A y \in Drills : /\ drill'[y].completed = drill[y].completed
                          /\ drill'[y].counted = drill[y].counted
                          /\ drill'[y].completed # None => drill'[y].due = drill[y].due
    BY <1>2
  <1>4. \A y, z \in Drills : Open(drill'[y]) /\ Open(drill'[z]) => y = z
    BY <1>2 DEF WordInv
  <1>5. \A y \in Drills : PracticeFacts(drill[y])'
    BY <1>2 DEF WordInv, PracticeFacts
  <1>6. GivenOnce'
    <2> SUFFICES ASSUME NEW y \in Drills, NEW z \in Drills, y # z, drill'[y].counted, drill'[z].due,
                        SameDay(drill'[y].completed, drill'[z].completed)
                 PROVE  ~drill'[z].counted /\ drill'[y].completed <= drill'[z].completed
      BY DEF GivenOnce, SameDay
    <2>1. drill'[z].completed # None
      BY DEF SameDay
    <2> QED
      BY <1>3, <2>1 DEF WordInv, GivenOnce
  <1>7. Reviewed'
    BY <1>3 DEF WordInv, Reviewed
  <1> QED
    BY <1>2, <1>4, <1>5, <1>6, <1>7 DEF WordInv, Open

LEMMA LearningSet ==
  ASSUME WordInv, SubjectOK, NEW mark \in Marks, SetLearning(mark)
  PROVE  WordInv'
  <1> DEFINE w == IF word = None THEN NewWord ELSE word
  <1>1. w \in Words /\ w.reviewed = (IF word = None THEN None ELSE word.reviewed)
    BY DEF WordInv, Words, NewWord, SubjectOK, Moments
  <1>2. Marked(w, mark) \in Words /\ Marked(w, mark).reviewed = w.reviewed
    BY <1>1 DEF Marked, Words, SubjectOK, Moments
  <1>3. /\ word' \in Words /\ word'.reviewed = w.reviewed
        /\ ~deleted /\ deleted' = deleted /\ now' = now
    <2>1. word' = (IF Marked(w, mark) # w THEN [Marked(w, mark) EXCEPT !.revision = @ + 1] ELSE w)
      BY DEF SetLearning
    <2>2. \A m \in Words : /\ [m EXCEPT !.revision = @ + 1] \in Words
                            /\ [m EXCEPT !.revision = @ + 1].reviewed = m.reviewed
      BY DEF Words
    <2> QED
      BY <1>1, <1>2, <2>1, <2>2 DEF SetLearning, MayWrite, subjectVars
  <1>4. \A x \in Drills :
          \/ drill'[x] = drill[x]
          \/ Open(drill[x]) /\ drill'[x] = [drill[x] EXCEPT !.status = "FAILED"]
    BY DEF SetLearning, InUse, Open
  <1>5. \A x \in Drills :
          /\ drill'[x] \in Practices
          /\ Open(drill'[x]) => Open(drill[x])
          /\ PracticeFacts(drill[x])'
          /\ drill'[x].due = drill[x].due /\ drill'[x].counted = drill[x].counted
          /\ drill'[x].completed = drill[x].completed
    <2> TAKE x \in Drills
    <2>1. drill[x] \in Practices /\ PracticeFacts(drill[x])
      BY DEF WordInv
    <2>2. CASE drill'[x] = drill[x]
      BY <1>3, <2>1, <2>2 DEF PracticeFacts
    <2>3. CASE Open(drill[x]) /\ drill'[x] = [drill[x] EXCEPT !.status = "FAILED"]
      BY <1>3, <2>1, <2>3 DEF PracticeFacts, Practices, Open
    <2> QED
      BY <1>4, <2>2, <2>3
  <1>6. drill' \in [Drills -> Practices]
    BY <1>5 DEF SetLearning
  <1>7. GivenOnce'
    BY <1>5 DEF WordInv, GivenOnce, SameDay
  <1>8. Reviewed'
    BY <1>1, <1>3, <1>5 DEF WordInv, Reviewed
  <1>9. \A x, y \in Drills : Open(drill[x])' /\ Open(drill[y])' => x = y
    BY <1>5 DEF WordInv, Open
  <1> QED
    BY <1>3, <1>5, <1>6, <1>7, <1>8, <1>9 DEF WordInv

(* The first assessment of a practice: nothing that counts has been seen. *)
LEMMA FirstAssessment ==
  ASSUME WordInv, SubjectOK, NEW x \in Drills, drill[x].status = "ASSESSING", drill[x].completed = None,
         NEW e \in Practices, drill' = [drill EXCEPT ![x] = e], e.status = "COMPLETED",
         e.completed = now, e.due = drill[x].due, e.answered = drill[x].answered,
         e.counted => Eligible(x), word' \in Words, word # None,
         word'.reviewed = (IF e.counted THEN now ELSE word.reviewed), UNCHANGED <<now, deleted>>
  PROVE  WordInv'
  <1>1. drill \in [Drills -> Practices] /\ now # None
    BY DEF WordInv, SubjectOK
  <1>2. /\ drill' \in [Drills -> Practices] /\ drill'[x] = e
        /\ \A y \in Drills \ {x} : drill'[y] = drill[y]
    BY <1>1
  <1>3. ~deleted
    BY DEF WordInv, NoDrill
  <1>4. PracticeFacts(e)' /\ \A y \in Drills : PracticeFacts(drill[y])'
    BY <1>1, <1>2 DEF WordInv, PracticeFacts, Eligible, SubjectOK
  <1>5. ~drill[x].counted
    BY DEF WordInv, PracticeFacts
  <1>6. ASSUME NEW y \in Drills, y # x, drill[y].due, drill[y].completed # None PROVE Spent(y)
    <2>1. drill[y].answered /\ ~Open(drill[y])
      BY <1>6 DEF WordInv, PracticeFacts, Open
    <2> QED
      BY <1>6, <2>1 DEF WordInv, PracticeFacts, Open, Spent
  <1>7. ASSUME NEW y \in Drills, y # x, drill[y].due, SameDay(drill[y].completed, now), Eligible(x)
        PROVE  FALSE
    <2>1. Spent(y)
      BY <1>6, <1>7, SameDayOrder
    <2>2. y \in Earlier(x)
      BY <1>7, <2>1 DEF Earlier
    <2> QED
      BY <1>7, <2>2 DEF Eligible
  <1>8. GivenOnce'
    <2> SUFFICES ASSUME NEW y \in Drills, NEW z \in Drills, y # z, drill'[y].counted, drill'[z].due,
                        SameDay(drill'[y].completed, drill'[z].completed)
                 PROVE  ~drill'[z].counted /\ drill'[y].completed <= drill'[z].completed
      BY DEF GivenOnce, SameDay
    <2>1. CASE y # x /\ z # x
      BY <1>2, <2>1 DEF WordInv, GivenOnce
    <2>2. CASE y = x
      <3>1. Eligible(x) /\ SameDay(drill[z].completed, now) /\ drill[z].due
        BY <1>2, <2>2, SameDayOrder
      <3> QED
        BY <1>7, <2>2, <3>1
    <2>3. CASE z = x
      <3>1. /\ drill[y].counted /\ drill[y].due /\ SameDay(drill[y].completed, now)
            /\ drill'[y] = drill[y] /\ drill[y].completed <= now
        BY <1>2, <2>3, SameDayOrder DEF WordInv, PracticeFacts
      <3>2. ~Eligible(x)
        BY <1>7, <2>3, <3>1
      <3> QED
        BY <1>2, <2>3, <3>1, <3>2
    <2> QED
      BY <2>1, <2>2, <2>3
  <1>9. Reviewed'
    <2> SUFFICES ASSUME word'.reviewed # None
                 PROVE  \E y \in Drills : drill'[y].counted /\ drill'[y].completed = word'.reviewed
      BY DEF Reviewed
    <2>1. CASE e.counted
      BY <1>2, <2>1
    <2>2. CASE ~e.counted
      <3>1. PICK y \in Drills : drill[y].counted /\ drill[y].completed = word.reviewed
        BY <2>2 DEF WordInv, Reviewed
      <3> QED
        BY <1>2, <1>5, <2>2, <3>1
    <2> QED
      BY <2>1, <2>2
  <1>10. \A y, z \in Drills : Open(drill[y])' /\ Open(drill[z])' => y = z
    BY <1>2 DEF WordInv, Open
  <1> QED
    BY <1>2, <1>3, <1>4, <1>8, <1>9, <1>10 DEF WordInv

LEMMA EndedFacts ==
  ASSUME NEW x \in Drills, drill[x] \in Practices, NEW status \in {"FAILED", "COMPLETED"}
  PROVE  /\ Ended(x, status) \in Practices /\ Ended(x, status).status = status
         /\ Ended(x, status).completed = drill[x].completed
         /\ Ended(x, status).counted = drill[x].counted
         /\ Ended(x, status).due = drill[x].due /\ Ended(x, status).answered = drill[x].answered
  <1>1. PICK n \in Nat : n = drill[x].attempts + 1
    BY DEF Practices
  <1>2. Ended(x, status) = [drill[x] EXCEPT !.status = status, !.attempts = n]
    BY <1>1 DEF Ended
  <1> QED
    BY <1>2 DEF Practices

LEMMA ScheduleFacts ==
  ASSUME SubjectOK, word \in Words, NEW x, NEW outcome, NEW days \in Intervals,
         NEW counts, counts = (outcome # "UNVERIFIED" /\ Eligible(x))
  PROVE  /\ ScheduleWord(x, outcome, days) \in Words
         /\ ScheduleWord(x, outcome, days).reviewed = IF counts THEN now ELSE word.reviewed
  <1>1. Tomorrow \in Moments /\ now \in Moments /\ days \in Nat
    BY DayAssumption DEF SubjectOK, Moments, Tomorrow
  <1>2. now + days * DayLength \in Moments
    BY <1>1, DayAssumption DEF SubjectOK, Moments
  <1>3. \A t \in Moments, s \in Moments :
          /\ [word EXCEPT !.reviewed = s, !.next = t] \in Words
          /\ [word EXCEPT !.reviewed = s, !.next = t].reviewed = s
          /\ [word EXCEPT !.next = t] \in Words
          /\ [word EXCEPT !.next = t].reviewed = word.reviewed
    BY DEF Words
  <1>4. CASE counts
    <2>1. PICK t \in Moments : ScheduleWord(x, outcome, days) = [word EXCEPT !.reviewed = now, !.next = t]
      BY <1>1, <1>2, <1>4 DEF ScheduleWord
    <2>2. PICK s \in Moments : s = now
      BY <1>1
    <2>3. ScheduleWord(x, outcome, days) = [word EXCEPT !.reviewed = s, !.next = t]
      BY <2>1, <2>2
    <2> QED
      BY <1>4, <2>2, <2>3 DEF Words
  <1>5. CASE ~counts /\ outcome = "INCORRECT"
    <2>1. PICK t \in Moments : ScheduleWord(x, outcome, days) = [word EXCEPT !.next = t]
      BY <1>1, <1>5 DEF ScheduleWord, Words
    <2> QED
      BY <1>3, <1>5, <2>1
  <1>6. CASE ~counts /\ outcome # "INCORRECT"
    BY <1>6 DEF ScheduleWord
  <1> QED
    BY <1>4, <1>5, <1>6

LEMMA Assessed ==
  ASSUME WordInv, SubjectOK, NEW x \in Drills, NEW a \in Assessments, NEW days \in Intervals,
         Assess(x, a, days)
  PROVE  WordInv'
  <1>1. /\ drill[x] \in Practices /\ drill[x].status = "ASSESSING" /\ PracticeFacts(drill[x])
        /\ UNCHANGED <<now, deleted>> /\ ~deleted
    BY DEF WordInv, Assess, subjectVars, NoDrill
  <1>2. ASSUME NEW e, drill' = [drill EXCEPT ![x] = e], word' = word, e \in Practices,
               e.status \in {"FAILED", "COMPLETED"}, e.completed = drill[x].completed,
               e.counted = drill[x].counted, e.due = drill[x].due, e.answered = drill[x].answered
        PROVE  WordInv'
    <2>1. PracticeFacts(e) /\ ~Open(e)
      BY <1>1, <1>2 DEF PracticeFacts, Open
    <2> QED
      BY <1>1, <1>2, <2>1, PracticeMoves
  <1>3. CASE ~Current(x)
    <2>1. PICK e : e = Ended(x, "FAILED")
      OBVIOUS
    <2>2. drill' = [drill EXCEPT ![x] = e] /\ word' = word
      BY <1>3, <2>1 DEF Assess
    <2> QED
      BY <1>1, <1>2, <2>1, <2>2, EndedFacts
  <1>4. CASE Current(x) /\ drill[x].completed # None
    <2>1. PICK e : e = Ended(x, "COMPLETED")
      OBVIOUS
    <2>2. drill' = [drill EXCEPT ![x] = e] /\ word' = word
      BY <1>4, <2>1 DEF Assess
    <2> QED
      BY <1>1, <1>2, <2>1, <2>2, EndedFacts
  <1>5. CASE Current(x) /\ drill[x].completed = None
    <2>0. word \in Words /\ word # None
      BY <1>5 DEF Current, IsEnabled, WordInv
    <2>1. PICK outcome : outcome = WordOutcome(a)
      OBVIOUS
    <2>2. PICK counts : counts = (outcome # "UNVERIFIED" /\ Eligible(x))
      OBVIOUS
    <2>3. counts \in BOOLEAN
      BY <2>2
    <2>4. Ended(x, "COMPLETED") \in Practices
      BY <1>1, EndedFacts
    <2>5. PICK e \in Practices :
            /\ e = [Ended(x, "COMPLETED") EXCEPT !.completed = now, !.counted = counts]
            /\ e.status = "COMPLETED" /\ e.completed = now /\ e.counted = counts
            /\ e.due = drill[x].due /\ e.answered = drill[x].answered
      <3>1. PICK d \in Practices : d = Ended(x, "COMPLETED")
        BY <2>4
      <3>2. PICK t \in Nat : t = now
        BY DEF SubjectOK
      <3>3. PICK e : e = [d EXCEPT !.completed = t, !.counted = counts]
        OBVIOUS
      <3>6. /\ e \in Practices /\ e.status = d.status /\ e.completed = t /\ e.counted = counts
            /\ e.due = d.due /\ e.answered = d.answered
        BY <2>3, <3>3 DEF Practices, Moments
      <3>4. /\ d.status = "COMPLETED" /\ d.due = drill[x].due /\ d.answered = drill[x].answered
        BY <1>1, <3>1, EndedFacts
      <3>5. e = [Ended(x, "COMPLETED") EXCEPT !.completed = now, !.counted = counts]
        BY <3>1, <3>2, <3>3
      <3> QED
        BY <3>2, <3>4, <3>5, <3>6
    <2>6. /\ drill' = [drill EXCEPT ![x] = e]
          /\ word' = ScheduleWord(x, outcome, days)
      BY <1>5, <2>1, <2>2, <2>5 DEF Assess
    <2>7. word' \in Words /\ word'.reviewed = IF counts THEN now ELSE word.reviewed
      BY <2>0, <2>2, <2>6, ScheduleFacts
    <2> QED
      BY <1>1, <1>5, <2>0, <2>2, <2>5, <2>6, <2>7, FirstAssessment, ZenonT(40)
  <1> QED
    BY <1>3, <1>4, <1>5

LEMMA WordStep ==
  ASSUME WordInv, SubjectOK, NextWord
  PROVE  WordInv'
  <1>0. drill \in [Drills -> Practices]
    BY DEF WordInv
  <1>1. ASSUME NEW x \in Drills, NEW automatic \in BOOLEAN, StartDrill(x, automatic) PROVE WordInv'
    <2>1. PICK e : e = [NoDrill EXCEPT !.status = "QUEUED", !.revision = word.revision, !.created = now,
                                       !.due = word.next # None /\ word.next <= now]
      OBVIOUS
    <2>2. /\ drill' = [drill EXCEPT ![x] = e] /\ drill[x].status = "none" /\ ~deleted
          /\ UNCHANGED <<word, now, deleted>> /\ word # None
          /\ \A y \in Drills : ~Open(drill[y])
      BY <1>1, <2>1 DEF StartDrill, MayWrite, subjectVars, IsEnabled, NoneOpen, InUse, Open
    <2>3. /\ e \in Practices /\ PracticeFacts(e) /\ e.completed = None /\ e.counted = FALSE
      BY <2>1, <2>2 DEF NoDrill, Practices, PracticeFacts, SubjectOK, WordInv, Words, Moments
    <2>4. drill[x].completed = None /\ drill[x].counted = FALSE
      BY <1>0, <2>2 DEF WordInv, PracticeFacts, Practices
    <2> QED
      BY <2>2, <2>3, <2>4, PracticeMoves
  <1>2. ASSUME NEW x \in Drills, NEW e, drill' = [drill EXCEPT ![x] = e], UNCHANGED <<word, subjectVars>>,
               drill[x].status # "none", e \in Practices, PracticeFacts(e),
               Open(e) => \A y \in Drills \ {x} : ~Open(drill[y]),
               e.completed = drill[x].completed, e.counted = drill[x].counted, e.due = drill[x].due
        PROVE  WordInv'
    <2>1. ~deleted
      BY <1>2 DEF WordInv, NoDrill
    <2>2. UNCHANGED <<word, now, deleted>>
      BY <1>2 DEF subjectVars
    <2> QED
      BY <1>2, <2>1, <2>2, PracticeMoves
  <1>3. ASSUME NEW x \in Drills, AnswerDrill(x) PROVE WordInv'
    <2>1. PICK e : e = [drill[x] EXCEPT !.status = "ASSESSING", !.answered = TRUE, !.attempts = 0]
      OBVIOUS
    <2>2. drill' = [drill EXCEPT ![x] = e] /\ UNCHANGED <<word, subjectVars>> /\ drill[x].status # "none"
      BY <1>0, <1>3, <2>1 DEF AnswerDrill
    <2>3. /\ e \in Practices /\ PracticeFacts(e)
          /\ e.completed = drill[x].completed /\ e.counted = drill[x].counted /\ e.due = drill[x].due
      BY <1>0, <2>1, ZenonT(40) DEF Practices, PracticeFacts, WordInv
    <2>4. \A y \in Drills \ {x} : ~Open(drill[y])
      BY <1>3 DEF AnswerDrill, InUse, Open
    <2> QED
      BY <1>2, <2>2, <2>3, <2>4
  <1>4. ASSUME NEW x \in Drills, RetryDrill(x) PROVE WordInv'
    <2>1. PICK e : e = [drill[x] EXCEPT !.status = IF drill[x].answered THEN "ASSESSING" ELSE "QUEUED"]
      OBVIOUS
    <2>2. drill' = [drill EXCEPT ![x] = e] /\ UNCHANGED <<word, subjectVars>> /\ drill[x].status # "none"
      BY <1>0, <1>4, <2>1 DEF RetryDrill
    <2>3. /\ e \in Practices /\ PracticeFacts(e)
          /\ e.completed = drill[x].completed /\ e.counted = drill[x].counted /\ e.due = drill[x].due
      BY <1>0, <2>1 DEF Practices, PracticeFacts, WordInv
    <2>4. \A y \in Drills : ~Open(drill[y])
      BY <1>4 DEF RetryDrill, NoneOpen, InUse, Open
    <2> QED
      BY <1>2, <2>2, <2>3, <2>4
  <1>5. ASSUME NEW x \in Drills, Generate(x) PROVE WordInv'
    <2>1. PICK e : e = [drill[x] EXCEPT !.status = "READY", !.challenge = TRUE, !.attempts = 0]
      OBVIOUS
    <2>2. drill' = [drill EXCEPT ![x] = e] /\ UNCHANGED <<word, subjectVars>> /\ drill[x].status = "QUEUED"
      BY <1>0, <1>5, <2>1 DEF Generate
    <2>3. /\ e \in Practices /\ PracticeFacts(e)
          /\ e.completed = drill[x].completed /\ e.counted = drill[x].counted /\ e.due = drill[x].due
      BY <1>0, <2>1, <2>2, ZenonT(40) DEF Practices, PracticeFacts, WordInv
    <2>4. \A y \in Drills \ {x} : ~Open(drill[y])
      BY <2>2 DEF WordInv, Open
    <2> QED
      BY <1>2, <2>2, <2>3, <2>4
  <1>6. ASSUME NEW x \in Drills, FailDrill(x) PROVE WordInv'
    <2>1. PICK e : e = Ended(x, "FAILED")
      OBVIOUS
    <2>2. drill' = [drill EXCEPT ![x] = e] /\ UNCHANGED <<word, subjectVars>> /\ drill[x].status # "none"
      BY <1>0, <1>6, <2>1 DEF FailDrill
    <2>3. /\ e \in Practices /\ e.status = "FAILED" /\ e.completed = drill[x].completed
          /\ e.counted = drill[x].counted /\ e.due = drill[x].due /\ e.answered = drill[x].answered
      BY <1>0, <2>1, EndedFacts
    <2>4. PracticeFacts(e) /\ ~Open(e)
      BY <2>3 DEF PracticeFacts, WordInv, Open
    <2> QED
      BY <1>2, <2>2, <2>3, <2>4
  <1> QED
    BY <1>1, <1>3, <1>4, <1>5, <1>6, LearningSet, Assessed DEF NextWord

LEMMA WordTick ==
  ASSUME WordInv, SubjectOK, UNCHANGED <<wordVars, deleted>>, now' \in {now, now + 1}
  PROVE  WordInv'
  <1>1. ASSUME NEW x \in Drills PROVE PracticeFacts(drill[x])'
    BY DEF WordInv, PracticeFacts, SubjectOK, Practices, Moments, wordVars
  <1> QED
    BY <1>1 DEF WordInv, GivenOnce, Reviewed, Open, SameDay, wordVars

LEMMA WordDelete ==
  ASSUME WordInv, DeleteAccount
  PROVE  WordInv'
  BY DEF WordInv, DeleteAccount, DeletesContent, NoDrill, Practices, Moments, Open, PracticeFacts,
         GivenOnce, Reviewed

LEMMA EvidenceOnce ==
  ASSUME WordInv
  PROVE  EvidenceOfTheDay
  <1>1. ASSUME DueToday, NoneOpen, SameDay(word.reviewed, now) PROVE FALSE
    <2>1. PICK x \in Drills : drill[x].counted /\ drill[x].completed = word.reviewed
      BY <1>1 DEF WordInv, Reviewed, SameDay, DueToday, IsEnabled
    <2>2. Spent(x)
      BY <1>1, <2>1 DEF WordInv, PracticeFacts, NoneOpen, InUse, Spent
    <2> QED
      BY <1>1, <2>1, <2>2 DEF DueToday
  <1> QED
    BY <1>1 DEF EvidenceOfTheDay, WordInv, GivenOnce
-----------------------------------------------------------------------------
(***************************************************************************)
(* Sessions.  A login opens one web session and never another, so the end  *)
(* of an Android session stays no later than that of the web session it    *)
(* was taken from, and a consumed code is not approved again.              *)
(***************************************************************************)
BindingRows == [status : {"none", "started", "approved", "consumed"}, until : Nat, codeUntil : Nat,
                source : Webs \cup {None}]
AndroidRows == [until : Moments, source : Webs \cup {None}, revoked : BOOLEAN]

Within(d) ==
  android[d].until # None =>
    LET s == android[d].source IN
    /\ s \in Webs /\ login[s] = "over"
    /\ web[s] # None => android[d].until <= web[s]

AccessInv ==
  /\ login \in [Webs -> {"none", "found", "over"}] /\ web \in [Webs -> Moments]
  /\ binding \in [Bindings -> BindingRows] /\ android \in [Bindings -> AndroidRows]
  /\ exchanged \in [Bindings -> {0, 1}]
  /\ \A s \in Webs : web[s] # None => login[s] = "over"
  /\ \A d \in Bindings : exchanged[d] = 1 => binding[d].status \in {"none", "consumed"}
  /\ \A d \in Bindings : Within(d)
  /\ deleted => /\ \A s \in Webs : web[s] = None
                /\ \A d \in Bindings : android[d] = NoAndroid /\ binding[d].source = None

LEMMA AccessInit == Init => AccessInv
  BY DEF Init, InitAccess, InitSubject, AccessInv, BindingRows, AndroidRows, NoBinding, NoAndroid, Within, Moments

LEMMA AccessStep ==
  ASSUME AccessInv, SubjectOK, NextAccess
  PROVE  AccessInv'
  <1>0. deleted' = deleted /\ now' = now
    BY DEF NextAccess, FindUser, OpenSession, Logout, Bind, Approve, Exchange, AndroidLogout, subjectVars
  <1>1. ASSUME NEW s \in Webs, FindUser(s) PROVE AccessInv'
    <2>1. /\ login' \in [Webs -> {"none", "found", "over"}] /\ login[s] = "none"
          /\ \A x \in Webs : x # s => login'[x] = login[x]
      BY <1>1 DEF AccessInv, FindUser
    <2> QED
      BY <1>0, <1>1, <2>1 DEF AccessInv, FindUser, Within
  <1>2. ASSUME NEW s \in Webs, NEW previous, OpenSession(s, previous) PROVE AccessInv'
    <2>1. /\ login' \in [Webs -> {"none", "found", "over"}] /\ login[s] = "found" /\ login'[s] = "over"
          /\ \A x \in Webs : x # s => login'[x] = login[x]
      BY <1>2 DEF AccessInv, OpenSession
    <2>2. /\ web' \in [Webs -> Moments]
          /\ \A x \in Webs : x # s => web'[x] \in {None, web[x]}
          /\ deleted => web' = web
      BY <1>2, LivesAssumption DEF AccessInv, OpenSession, MayWrite, SubjectOK, Moments
    <2>3. UNCHANGED <<binding, android, exchanged>>
      BY <1>2 DEF OpenSession
    <2>4. \A d \in Bindings : Within(d)'
      BY <2>1, <2>2, <2>3 DEF AccessInv, Within
    <2> QED
      BY <1>0, <2>1, <2>2, <2>3, <2>4 DEF AccessInv
  <1>3. ASSUME NEW s \in Webs, Logout(s) PROVE AccessInv'
    <2>1. /\ web' \in [Webs -> Moments] /\ \A x \in Webs : web'[x] \in {None, web[x]}
      BY <1>3 DEF AccessInv, Logout, Moments
    <2>2. UNCHANGED <<login, binding, android, exchanged>>
      BY <1>3 DEF Logout
    <2>3. \A d \in Bindings : Within(d)'
      BY <2>1, <2>2 DEF AccessInv, Within
    <2> QED
      BY <1>0, <2>1, <2>2, <2>3 DEF AccessInv
  <1>4. ASSUME NEW d \in Bindings, NEW e \in BindingRows, binding' = [binding EXCEPT ![d] = e],
               UNCHANGED <<login, web, android, exchanged>>,
               exchanged[d] = 1 => e.status \in {"none", "consumed"}, deleted => e.source = None
        PROVE  AccessInv'
    <2>1. /\ binding' \in [Bindings -> BindingRows] /\ binding'[d] = e
          /\ \A x \in Bindings : x # d => binding'[x] = binding[x]
      BY <1>4 DEF AccessInv
    <2>2. \A x \in Bindings : Within(x)'
      BY <1>4 DEF AccessInv, Within
    <2> QED
      BY <1>0, <1>4, <2>1, <2>2 DEF AccessInv
  <1>5. ASSUME NEW d \in Bindings, Bind(d) PROVE AccessInv'
    <2>0. PICK n \in Nat : n = now + BindingLife
      BY LivesAssumption DEF SubjectOK
    <2>1. PICK e : e = [NoBinding EXCEPT !.status = "started", !.until = n]
      OBVIOUS
    <2>2. e \in BindingRows /\ e.source = None
      BY <2>1 DEF NoBinding, BindingRows
    <2>3. binding' = [binding EXCEPT ![d] = e]
      BY <1>5, <2>0, <2>1 DEF Bind
    <2>4. exchanged[d] # 1 /\ UNCHANGED <<login, web, android, exchanged>>
      BY <1>5 DEF Bind
    <2> QED
      BY <1>4, <2>2, <2>3, <2>4
  <1>6. ASSUME NEW d \in Bindings, NEW s \in Webs, Approve(d, s) PROVE AccessInv'
    <2>1. PICK n \in Nat : n = Least(binding[d].until, now + CodeLife)
      BY LivesAssumption DEF Least, AccessInv, BindingRows, SubjectOK
    <2>2. PICK e : e = [binding[d] EXCEPT !.status = "approved", !.source = s, !.codeUntil = n]
      OBVIOUS
    <2>0. binding[d] \in BindingRows
      BY DEF AccessInv
    <2>3. e \in BindingRows
      BY <2>0, <2>2 DEF BindingRows
    <2>4. binding' = [binding EXCEPT ![d] = e]
      BY <1>6, <2>1, <2>2 DEF Approve
    <2>5. exchanged[d] # 1 /\ ~deleted
      BY <1>6 DEF Approve, AccessInv, SourceHolds, MayWrite
    <2> QED
      BY <1>4, <1>6, <2>3, <2>4, <2>5 DEF Approve
  <1>7. ASSUME NEW d \in Bindings, NEW e \in AndroidRows, android' = [android EXCEPT ![d] = e],
               UNCHANGED <<login, web>>, ~deleted,
               \/ UNCHANGED <<binding, exchanged>>
               \/ /\ binding' = [binding EXCEPT ![d].status = "consumed"]
                  /\ exchanged' = [exchanged EXCEPT ![d] = 1],
               e.until # None => /\ e.source \in Webs /\ login[e.source] = "over"
                                 /\ web[e.source] # None => e.until <= web[e.source]
        PROVE  AccessInv'
    <2>1. /\ android' \in [Bindings -> AndroidRows] /\ android'[d] = e
          /\ \A x \in Bindings : x # d => android'[x] = android[x]
      BY <1>7 DEF AccessInv
    <2>2. /\ binding' \in [Bindings -> BindingRows] /\ exchanged' \in [Bindings -> {0, 1}]
          /\ \A x \in Bindings : exchanged'[x] = 1 => binding'[x].status \in {"none", "consumed"}
      <3>1. CASE UNCHANGED <<binding, exchanged>>
        BY <3>1 DEF AccessInv
      <3>2. CASE /\ binding' = [binding EXCEPT ![d].status = "consumed"]
                 /\ exchanged' = [exchanged EXCEPT ![d] = 1]
        <4>1. binding \in [Bindings -> BindingRows] /\ exchanged \in [Bindings -> {0, 1}]
          BY DEF AccessInv
        <4>2. PICK b : b = [binding[d] EXCEPT !.status = "consumed"]
          OBVIOUS
        <4>3. b \in BindingRows /\ b.status = "consumed" /\ binding' = [binding EXCEPT ![d] = b]
          BY <3>2, <4>1, <4>2 DEF BindingRows
        <4> QED
          BY <3>2, <4>1, <4>3 DEF AccessInv
      <3> QED
        BY <1>7, <3>1, <3>2
    <2>3. \A x \in Bindings : Within(x)'
      BY <1>7, <2>1 DEF AccessInv, Within
    <2> QED
      BY <1>0, <1>7, <2>1, <2>2, <2>3 DEF AccessInv
  <1>8. ASSUME NEW d \in Bindings, Exchange(d) PROVE AccessInv'
    <2> DEFINE s == binding[d].source
    <2>1. s \in Webs /\ web[s] # None /\ web[s] \in Nat /\ login[s] = "over" /\ ~deleted
      BY <1>8 DEF Exchange, AccessInv, BindingRows, SourceHolds, MayWrite, WebOpen, Lasts, Moments
    <2>2. PICK n \in Nat : n = Least(web[s], now + AndroidLife) /\ n <= web[s]
      BY <2>1, LivesAssumption DEF Least, SubjectOK
    <2>3. PICK e : e = [until |-> n, source |-> s, revoked |-> FALSE]
      OBVIOUS
    <2>4. e \in AndroidRows /\ e.source = s /\ e.until = n
      BY <2>1, <2>3 DEF AndroidRows, Moments
    <2>5. android' = [android EXCEPT ![d] = e]
      BY <1>8, <2>2, <2>3 DEF Exchange
    <2>6. exchanged' = [exchanged EXCEPT ![d] = 1]
      <3>1. exchanged[d] = 0
        BY <1>8 DEF Exchange, CodeUsable, AccessInv
      <3> QED
        BY <1>8, <3>1 DEF Exchange, AccessInv
    <2>7. binding' = [binding EXCEPT ![d].status = "consumed"] /\ UNCHANGED <<login, web>>
      BY <1>8 DEF Exchange
    <2> QED
      BY <1>7, <2>1, <2>2, <2>4, <2>5, <2>6, <2>7
  <1>9. ASSUME NEW d \in Bindings, AndroidLogout(d) PROVE AccessInv'
    <2>1. PICK e : e = [android[d] EXCEPT !.revoked = TRUE]
      OBVIOUS
    <2>2. e \in AndroidRows /\ e.until = android[d].until /\ e.source = android[d].source
      BY <2>1 DEF AccessInv, AndroidRows
    <2>3. /\ android' = [android EXCEPT ![d] = e] /\ UNCHANGED <<login, web, binding, exchanged>>
          /\ android[d].until # None
      BY <1>9, <2>1 DEF AndroidLogout
    <2>4. ~deleted
      BY <2>3 DEF AccessInv, NoAndroid
    <2>5. Within(d)
      BY DEF AccessInv
    <2> QED
      BY <1>7, <2>2, <2>3, <2>4, <2>5 DEF Within
  <1> QED
    BY <1>1, <1>2, <1>3, <1>5, <1>6, <1>8, <1>9 DEF NextAccess

LEMMA AccessFrame ==
  ASSUME AccessInv, UNCHANGED <<accessVars, deleted>>
  PROVE  AccessInv'
  BY DEF AccessInv, Within, accessVars

LEMMA AccessDelete ==
  ASSUME AccessInv, DeleteAccount
  PROVE  AccessInv'
  <1>1. /\ web' = [s \in Webs |-> None] /\ android' = [d \in Bindings |-> NoAndroid]
        /\ binding' = [d \in Bindings |-> IF binding[d].source = None THEN binding[d] ELSE NoBinding]
        /\ UNCHANGED <<login, exchanged>>
    BY DEF DeleteAccount, DeletesAccess
  <1>2. \A d \in Bindings : binding'[d] \in {binding[d], NoBinding} /\ binding'[d].source = None
    BY <1>1 DEF NoBinding
  <1>3. NoBinding \in BindingRows /\ NoBinding.status = "none"
    BY DEF NoBinding, BindingRows
  <1>4. NoAndroid \in AndroidRows /\ NoAndroid.until = None
    BY DEF NoAndroid, AndroidRows, Moments
  <1>5. binding' \in [Bindings -> BindingRows]
    BY <1>1, <1>2, <1>3 DEF AccessInv
  <1> QED
    BY <1>1, <1>2, <1>3, <1>4, <1>5 DEF AccessInv, Within, Moments
-----------------------------------------------------------------------------
(***************************************************************************)
(* Sales.  Whoever may create a page has committed the order before, and   *)
(* an order that was committed keeps its quote.                            *)
(***************************************************************************)
OrderRows == [status : {"none", "PENDING", "PAID"}, product : Products \cup {None}, launch : BOOLEAN,
              created : Nat, until : Moments, url : Keys \cup {None}, key : BOOLEAN]
Pages == [until : Moments, product : Products \cup {None}, launch : BOOLEAN]

Quoted(k) == page[k] = [until |-> order[k].until, product |-> order[k].product, launch |-> order[k].launch]

SaleInv ==
  /\ order \in [Keys -> OrderRows] /\ page \in [Keys -> Pages]
  /\ checkout \in [Checkouts -> [step : {"idle", "pricing", "creating", "created", "over"},
                                 key : Keys \cup {None}]]
  /\ grant \in [Keys -> {"none", "ACTIVE", "REVOKED"}]
  /\ \A c \in Checkouts :
       checkout[c].step \in {"pricing", "creating", "created"} =>
         checkout[c].key \in Keys /\ (order[checkout[c].key].key \/ deleted)
  /\ \A k \in Keys : page[k] # NoPage => Quoted(k) /\ (order[k].key \/ deleted)
  /\ deleted => \A k \in Keys : order[k].url = None /\ grant[k] \in {"none", "REVOKED"}

LEMMA SaleInit == Init => SaleInv
  BY DEF Init, InitShop, InitSubject, SaleInv, OrderRows, Pages, NoOrder, NoPage, NoCheckout, Moments

LEMMA CheckoutStep ==
  ASSUME SaleInv, NEW c \in Checkouts, Price(c) \/ CreatePage(c) \/ SavePage(c)
  PROVE  /\ checkout[c].key \in Keys /\ (order[checkout[c].key].key \/ deleted)
         /\ \E step \in {"creating", "created", "over"} :
              checkout' = [checkout EXCEPT ![c].step = step]
  <1>1. checkout[c].step \in {"pricing", "creating", "created"}
    BY DEF Price, CreatePage, SavePage
  <1>2. checkout[c].key \in Keys /\ (order[checkout[c].key].key \/ deleted)
    BY <1>1 DEF SaleInv
  <1>3. \E step \in {"creating", "created", "over"} : checkout' = [checkout EXCEPT ![c].step = step]
    <2>1. CASE Price(c)
      BY <2>1 DEF Price, Goes
    <2>2. CASE CreatePage(c)
      BY <2>2 DEF CreatePage, Goes
    <2>3. CASE SavePage(c)
      BY <2>3 DEF SavePage, Goes
    <2> QED
      BY <2>1, <2>2, <2>3
  <1> QED
    BY <1>2, <1>3

(* A call goes on with its own order, whose quote nobody changes. *)
LEMMA CheckoutGoes ==
  ASSUME SaleInv, NEW c \in Checkouts, NEW step \in {"creating", "created", "over"},
         checkout' = [checkout EXCEPT ![c].step = step],
         checkout[c].key \in Keys, order[checkout[c].key].key \/ deleted,
         \A k \in Keys : order'[k].key = order[k].key, deleted' = deleted
  PROVE  /\ checkout' \in [Checkouts -> [step : {"idle", "pricing", "creating", "created", "over"},
                                         key : Keys \cup {None}]]
         /\ \A d \in Checkouts :
              checkout'[d].step \in {"pricing", "creating", "created"} =>
                checkout'[d].key \in Keys /\ (order'[checkout'[d].key].key \/ deleted')
  <1>1. checkout \in [Checkouts -> [step : {"idle", "pricing", "creating", "created", "over"},
                                    key : Keys \cup {None}]]
    BY DEF SaleInv
  <1>2. /\ checkout'[c].key = checkout[c].key
        /\ \A d \in Checkouts : d # c => checkout'[d] = checkout[d]
    BY <1>1
  <1> QED
    BY <1>1, <1>2 DEF SaleInv

LEMMA SaleBegins ==
  ASSUME SaleInv, SubjectOK, NEW c \in Checkouts, NEW k \in Keys, NEW product \in Products,
         Begin(c, k, product)
  PROVE  SaleInv'
  <1>1. PICK o : o = IF order[k].key THEN order[k] ELSE Quote(product)
    OBVIOUS
  <1>2. order[k] \in OrderRows
    BY DEF SaleInv
  <1>3. Quote(product) \in OrderRows /\ Quote(product).key
    <2>1. PICK n \in Nat, m \in Moments : n = now /\ m = now + QuoteLife
      BY ShopAssumption DEF SubjectOK, Moments
    <2>2. PICK b \in BOOLEAN : b = LaunchPrice(product)
      BY DEF LaunchPrice
    <2>3. Quote(product) = [NoOrder EXCEPT !.status = "PENDING", !.product = product, !.launch = b,
                                           !.created = n, !.until = m, !.key = TRUE]
      BY <2>1, <2>2 DEF Quote
    <2> QED
      BY <2>3 DEF NoOrder, OrderRows, Moments
  <1>4. o \in OrderRows /\ o.key
    BY <1>1, <1>2, <1>3 DEF OrderRows
  <1>5. PICK step \in {"pricing", "over"} :
          checkout' = [checkout EXCEPT ![c] = [key |-> k, step |-> step]]
    BY DEF Begin
  <1>6. /\ order' = [order EXCEPT ![k] = o] /\ ~deleted
        /\ UNCHANGED <<page, grant, deleted>>
    BY <1>1 DEF Begin, MayWrite, subjectVars
  <1>7. /\ order' \in [Keys -> OrderRows] /\ order'[k] = o
        /\ \A x \in Keys : x # k => order'[x] = order[x]
    BY <1>4, <1>6 DEF SaleInv
  <1>8. \A x \in Keys : page'[x] # NoPage => Quoted(x)' /\ (order'[x].key \/ deleted')
    <2> TAKE x \in Keys
    <2>1. CASE x # k
      BY <1>6, <1>7, <2>1 DEF SaleInv, Quoted
    <2>2. CASE x = k /\ order[k].key
      BY <1>1, <1>6, <1>7, <2>2 DEF SaleInv, Quoted
    <2>3. CASE x = k /\ ~order[k].key
      BY <1>6, <2>3 DEF SaleInv
    <2> QED
      BY <2>1, <2>2, <2>3
  <1>9. \A x \in Keys : order[x].key => order'[x].key
    BY <1>4, <1>7
  <1>10. /\ checkout' \in [Checkouts -> [step : {"idle", "pricing", "creating", "created", "over"},
                                         key : Keys \cup {None}]]
         /\ checkout'[c].key = k
         /\ \A d \in Checkouts : d # c => checkout'[d] = checkout[d]
    BY <1>5 DEF SaleInv
  <1>11. \A d \in Checkouts :
           checkout'[d].step \in {"pricing", "creating", "created"} =>
             checkout'[d].key \in Keys /\ (order'[checkout'[d].key].key \/ deleted')
    BY <1>4, <1>6, <1>7, <1>9, <1>10 DEF SaleInv
  <1> QED
    BY <1>6, <1>7, <1>8, <1>10, <1>11 DEF SaleInv

LEMMA SaleStep ==
  ASSUME SaleInv, SubjectOK, NextShop
  PROVE  SaleInv'
  <1>0. UNCHANGED <<now, deleted>>
    BY DEF NextShop, Begin, Price, CreatePage, SavePage, Settled, CreateTicket, Verify, Receive, subjectVars
  <1>1. ASSUME NEW c \in Checkouts, Price(c) PROVE SaleInv'
    <2>1. /\ checkout[c].key \in Keys /\ (order[checkout[c].key].key \/ deleted)
          /\ \E step \in {"creating", "created", "over"} : checkout' = [checkout EXCEPT ![c].step = step]
      BY <1>1, CheckoutStep
    <2>2. UNCHANGED <<order, page, grant>>
      BY <1>1 DEF Price
    <2> QED
      BY <1>0, <2>1, <2>2, CheckoutGoes DEF SaleInv, Quoted
  <1>2. ASSUME NEW c \in Checkouts, CreatePage(c) PROVE SaleInv'
    <2>1. /\ checkout[c].key \in Keys /\ (order[checkout[c].key].key \/ deleted)
          /\ \E step \in {"creating", "created", "over"} : checkout' = [checkout EXCEPT ![c].step = step]
      BY <1>2, CheckoutStep
    <2>2. UNCHANGED <<order, grant>>
      BY <1>2 DEF CreatePage
    <2>3. PICK k \in Keys : k = checkout[c].key
      BY <2>1
    <2>4. PICK p : p = [until |-> order[k].until, product |-> order[k].product, launch |-> order[k].launch]
      OBVIOUS
    <2>5. p \in Pages
      BY <2>4 DEF SaleInv, OrderRows, Pages
    <2>6. page' = page \/ page' = [page EXCEPT ![k] = p]
      BY <1>2, <2>3, <2>4 DEF CreatePage
    <2>7. page' \in [Keys -> Pages] /\ \A x \in Keys : page'[x] = page[x] \/ (x = k /\ page'[x] = p)
      BY <2>5, <2>6 DEF SaleInv
    <2>8. \A x \in Keys : page'[x] # NoPage => Quoted(x)' /\ (order'[x].key \/ deleted')
      BY <1>0, <2>1, <2>2, <2>3, <2>4, <2>7 DEF SaleInv, Quoted
    <2> QED
      BY <1>0, <2>1, <2>2, <2>7, <2>8, CheckoutGoes DEF SaleInv
  <1>3. ASSUME NEW c \in Checkouts, SavePage(c) PROVE SaleInv'
    <2>1. /\ checkout[c].key \in Keys /\ (order[checkout[c].key].key \/ deleted)
          /\ \E step \in {"creating", "created", "over"} : checkout' = [checkout EXCEPT ![c].step = step]
      BY <1>3, CheckoutStep
    <2>2. PICK k \in Keys : k = checkout[c].key
      BY <2>1
    <2>3. PICK u \in Keys \cup {None} : u = Retained(k) /\ (deleted => u = None)
      BY DEF Retained
    <2>4. PICK t \in Moments : t = page[k].until
      BY DEF SaleInv, Pages
    <2>5. /\ UNCHANGED <<page, grant>> /\ order[k] \in OrderRows /\ order \in [Keys -> OrderRows]
          /\ order' = [order EXCEPT ![k].url = u, ![k].until = t]
      BY <1>3, <2>2, <2>3, <2>4 DEF SavePage, SaleInv
    <2>6. PICK o : o = [order[k] EXCEPT !.url = u, !.until = t]
      OBVIOUS
    <2>7. /\ o \in OrderRows /\ o.url = u /\ o.until = t /\ o.key = order[k].key
          /\ o.product = order[k].product /\ o.launch = order[k].launch
      BY <2>5, <2>6 DEF OrderRows
    <2>8. order' = [order EXCEPT ![k] = o]
      BY <2>5, <2>6
    <2>9. /\ order' \in [Keys -> OrderRows] /\ order'[k] = o
          /\ \A x \in Keys : x # k => order'[x] = order[x]
      BY <2>5, <2>7, <2>8
    <2>10. \A x \in Keys : page'[x] # NoPage => Quoted(x)' /\ (order'[x].key \/ deleted')
      <3> TAKE x \in Keys
      <3>1. CASE x # k
        BY <1>0, <2>5, <2>9, <3>1 DEF SaleInv, Quoted
      <3>2. CASE x = k
        BY <1>0, <2>4, <2>5, <2>7, <2>9, <3>2 DEF SaleInv, Quoted
      <3> QED
        BY <3>1, <3>2
    <2>11. \A x \in Keys : order'[x].key = order[x].key
      BY <2>7, <2>9
    <2> QED
      BY <1>0, <2>1, <2>3, <2>5, <2>7, <2>9, <2>10, <2>11, CheckoutGoes, SMTT(30) DEF SaleInv
  <1>4. ASSUME NEW k \in Keys, Settled(k) PROVE SaleInv'
    <2>1. PICK o : o = [order[k] EXCEPT !.status = "PAID"]
      OBVIOUS
    <2>2. /\ o \in OrderRows /\ o.url = order[k].url /\ o.until = order[k].until /\ o.key = order[k].key
          /\ o.product = order[k].product /\ o.launch = order[k].launch
      BY <2>1 DEF SaleInv, OrderRows
    <2>3. order' = [order EXCEPT ![k] = o] /\ UNCHANGED <<page, checkout>>
      BY <1>4, <2>1 DEF Settled
    <2>4. /\ order' \in [Keys -> OrderRows] /\ order'[k] = o
          /\ \A x \in Keys : x # k => order'[x] = order[x]
      BY <2>2, <2>3 DEF SaleInv
    <2>5. /\ grant' \in [Keys -> {"none", "ACTIVE", "REVOKED"}]
          /\ deleted => \A x \in Keys : grant'[x] \in {"none", "REVOKED"}
      BY <1>4 DEF Settled, SaleInv, GrantStatus
    <2>6. \A x \in Keys : page'[x] # NoPage => Quoted(x)' /\ (order'[x].key \/ deleted')
      BY <1>0, <2>2, <2>3, <2>4 DEF SaleInv, Quoted
    <2>7. \A x \in Keys : order'[x].key = order[x].key /\ order'[x].url = order[x].url
      BY <2>2, <2>4
    <2> QED
      BY <1>0, <2>3, <2>4, <2>5, <2>6, <2>7 DEF SaleInv
  <1>5. ASSUME UNCHANGED saleVars PROVE SaleInv'
    BY <1>0, <1>5 DEF SaleInv, Quoted, saleVars
  <1> QED
    BY <1>1, <1>2, <1>3, <1>4, <1>5, SaleBegins DEF NextShop, CreateTicket, Verify, Receive

LEMMA SaleFrame ==
  ASSUME SaleInv, UNCHANGED <<shopVars, deleted>>
  PROVE  SaleInv'
  BY DEF SaleInv, Quoted, shopVars

LEMMA SaleDelete ==
  ASSUME SaleInv, DeleteAccount
  PROVE  SaleInv'
  <1>1. /\ order' = [k \in Keys |-> [order[k] EXCEPT !.url = None, !.key = FALSE]]
        /\ grant' = [k \in Keys |-> IF grant[k] = "none" THEN "none" ELSE "REVOKED"]
        /\ UNCHANGED <<checkout, page>> /\ deleted'
    BY DEF DeleteAccount, ScrubsShop
  <1>2. ASSUME NEW k \in Keys
        PROVE  /\ order'[k] \in OrderRows /\ order'[k].url = None /\ order'[k].until = order[k].until
               /\ order'[k].product = order[k].product /\ order'[k].launch = order[k].launch
    <2>1. order[k] \in OrderRows /\ order'[k] = [order[k] EXCEPT !.url = None, !.key = FALSE]
      BY <1>1 DEF SaleInv
    <2> QED
      BY <2>1 DEF OrderRows
  <1>3. order' \in [Keys -> OrderRows]
    BY <1>1, <1>2
  <1>4. /\ grant' \in [Keys -> {"none", "ACTIVE", "REVOKED"}]
        /\ \A k \in Keys : grant'[k] \in {"none", "REVOKED"}
    BY <1>1
  <1> QED
    BY <1>1, <1>2, <1>3, <1>4 DEF SaleInv, Quoted
-----------------------------------------------------------------------------
(***************************************************************************)
(* Rewards.  A ticket is redeemed and a transaction counted in one step,   *)
(* under the lock of the balance they raise.                               *)
(***************************************************************************)
TicketRows == [status : {"none", "ISSUED", "REDEEMED"}, issued : Nat, until : Nat,
               transaction : Transactions \cup {None}]
Redeemed == {t \in Tickets : ticket[t].status = "REDEEMED"}
Balance  == IF balance = None THEN 0 ELSE balance

RewardInv ==
  /\ ticket \in [Tickets -> TicketRows] /\ balance \in Moments /\ IsFiniteSet(rewarded)
  /\ delivery \in [Deliveries -> [step : {"idle", "verified", "over"}, ticket : Tickets \cup {None},
                                  transaction : Transactions \cup {None}]]
  /\ \A d \in Deliveries : delivery[d].step = "verified" =>
        delivery[d].ticket \in Tickets /\ delivery[d].transaction \in Transactions
  /\ Cardinality(Redeemed) = Balance /\ Cardinality(rewarded) = Balance
  /\ deleted => /\ \A t \in Tickets : ticket[t] = NoTicket
                /\ rewarded = {} /\ balance = None

LEMMA RewardInit == Init => RewardInv
  <1> SUFFICES ASSUME Init PROVE RewardInv
    OBVIOUS
  <1>1. Redeemed = {}
    BY DEF Redeemed, Init, InitShop, NoTicket
  <1> QED
    BY <1>1, FS_EmptySet DEF Init, InitShop, InitSubject, RewardInv, TicketRows, NoTicket, NoDelivery,
                             Balance, Moments

LEMMA RewardStep ==
  ASSUME RewardInv, SubjectOK, NextShop
  PROVE  RewardInv'
  <1>0. UNCHANGED <<now, deleted>>
    BY DEF NextShop, Begin, Price, CreatePage, SavePage, Settled, CreateTicket, Verify, Receive, subjectVars
  <1>1. ASSUME NEW t \in Tickets, CreateTicket(t) PROVE RewardInv'
    <2>1. PICK n \in Nat, m \in Nat : n = now /\ m = now + TicketLife
      BY ShopAssumption DEF SubjectOK
    <2>2. PICK e : e = [NoTicket EXCEPT !.status = "ISSUED", !.issued = n, !.until = m]
      OBVIOUS
    <2>3. e \in TicketRows /\ e.status = "ISSUED"
      BY <2>2 DEF NoTicket, TicketRows
    <2>4. /\ ticket' = [ticket EXCEPT ![t] = e] /\ ~deleted /\ ticket[t].status = "none"
          /\ UNCHANGED <<rewarded, balance, delivery>>
      BY <1>1, <2>1, <2>2 DEF CreateTicket, MayWrite
    <2>5. /\ ticket' \in [Tickets -> TicketRows] /\ ticket'[t] = e
          /\ \A x \in Tickets : x # t => ticket'[x] = ticket[x]
      BY <2>3, <2>4 DEF RewardInv
    <2>6. Redeemed' = Redeemed
      BY <2>3, <2>4, <2>5 DEF Redeemed
    <2> QED
      BY <1>0, <2>4, <2>5, <2>6 DEF RewardInv, Balance
  <1>2. ASSUME NEW d \in Deliveries, NEW t \in Tickets, NEW x \in Transactions, Verify(d, t, x)
        PROVE  RewardInv'
    <2>1. /\ delivery' = [delivery EXCEPT ![d] = [step |-> "verified", ticket |-> t, transaction |-> x]]
          /\ UNCHANGED <<ticket, rewarded, balance>>
      BY <1>2 DEF Verify
    <2> QED
      BY <1>0, <2>1 DEF RewardInv, Redeemed, Balance
  <1>3. ASSUME NEW d \in Deliveries, Receive(d) PROVE RewardInv'
    <2>1. PICK t \in Tickets, x \in Transactions :
            t = delivery[d].ticket /\ x = delivery[d].transaction
      BY <1>3 DEF Receive, RewardInv
    <2>2. /\ delivery' \in [Deliveries -> [step : {"idle", "verified", "over"}, ticket : Tickets \cup {None},
                                           transaction : Transactions \cup {None}]]
          /\ \A e \in Deliveries : delivery'[e].step = "verified" =>
               delivery'[e].ticket \in Tickets /\ delivery'[e].transaction \in Transactions
      BY <1>3 DEF Receive, RewardInv
    <2>3. CASE ~Counts(d)
      BY <1>0, <1>3, <2>2, <2>3 DEF Receive, RewardInv, Redeemed, Balance
    <2>4. CASE Counts(d)
      <3>1. /\ ~deleted /\ ticket[t].status = "ISSUED" /\ x \notin rewarded
            /\ ticket' = [ticket EXCEPT ![t].status = "REDEEMED", ![t].transaction = x]
            /\ rewarded' = rewarded \cup {x}
            /\ balance' = IF balance = None THEN 1 ELSE balance + 1
        BY <1>3, <2>1, <2>4 DEF Receive, Counts, MayWrite
      <3>2. PICK e : e = [ticket[t] EXCEPT !.status = "REDEEMED", !.transaction = x]
        OBVIOUS
      <3>3. e \in TicketRows /\ e.status = "REDEEMED"
        BY <3>2, ZenonT(40) DEF RewardInv, TicketRows
      <3>4. ticket' = [ticket EXCEPT ![t] = e]
        BY <3>1, <3>2 DEF RewardInv
      <3>5. /\ ticket' \in [Tickets -> TicketRows] /\ ticket'[t] = e
            /\ \A y \in Tickets : y # t => ticket'[y] = ticket[y]
        BY <3>3, <3>4 DEF RewardInv
      <3>6. Redeemed' = Redeemed \cup {t} /\ t \notin Redeemed
        BY <3>1, <3>3, <3>5 DEF Redeemed
      <3>7. IsFiniteSet(Redeemed)
        BY ShopAssumption, FS_Subset DEF Redeemed
      <3>8. Cardinality(Redeemed') = Cardinality(Redeemed) + 1
        BY <3>6, <3>7, FS_AddElement
      <3>9. IsFiniteSet(rewarded') /\ Cardinality(rewarded') = Cardinality(rewarded) + 1
        BY <3>1, FS_AddElement DEF RewardInv
      <3>10. balance' \in Moments /\ Balance' = Balance + 1
        BY <3>1 DEF RewardInv, Balance, Moments
      <3> QED
        BY <1>0, <2>2, <3>1, <3>5, <3>8, <3>9, <3>10 DEF RewardInv
    <2> QED
      BY <2>3, <2>4
  <1>4. ASSUME UNCHANGED rewardVars PROVE RewardInv'
    BY <1>0, <1>4 DEF RewardInv, Redeemed, Balance, rewardVars
  <1> QED
    BY <1>1, <1>2, <1>3, <1>4 DEF NextShop, Begin, Price, CreatePage, SavePage, Settled

LEMMA RewardFrame ==
  ASSUME RewardInv, UNCHANGED <<shopVars, deleted>>
  PROVE  RewardInv'
  BY DEF RewardInv, Redeemed, Balance, shopVars

LEMMA RewardDelete ==
  ASSUME RewardInv, DeleteAccount
  PROVE  RewardInv'
  <1>1. /\ ticket' = [t \in Tickets |-> NoTicket] /\ rewarded' = {} /\ balance' = None
        /\ UNCHANGED delivery
    BY DEF DeleteAccount, ScrubsShop
  <1>2. Redeemed' = {}
    BY <1>1 DEF Redeemed, NoTicket
  <1> QED
    BY <1>1, <1>2, FS_EmptySet DEF RewardInv, TicketRows, NoTicket, Balance, Moments

LEMMA OnceHonoured ==
  ASSUME WordInv, AccessInv, SaleInv, RewardInv, SubjectOK
  PROVE  HonouredOnce
  <1>1. ASSUME NEW d \in Bindings, AndroidAdmits(d) PROVE android[d].until <= web[android[d].source]
    BY <1>1 DEF AndroidAdmits, Lasts, WebOpen, AccessInv, Within
  <1>2. \A d \in Bindings : exchanged[d] <= 1
    BY DEF AccessInv
  <1>3. \A k \in Keys : page[k] # NoPage => Quoted(k)
    BY DEF SaleInv
  <1> QED
    BY <1>1, <1>2, <1>3, EvidenceOnce DEF HonouredOnce, RewardInv, Redeemed, Balance, Quoted
-----------------------------------------------------------------------------
(***************************************************************************)
(* Arithmetic of the bill and of the midnight.                             *)
(***************************************************************************)
LEMMA TimesMonotone ==
  ASSUME NEW a \in Nat, NEW b \in Nat, NEW c \in Nat, a <= b
  PROVE  c * a \in Nat /\ c * a <= c * b /\ a * c <= b * c
  OBVIOUS

LEMMA MidnightComes ==
  ASSUME NEW t \in Nat
  PROVE  NextPacificMidnight(t) \in Nat
  <1>1. Day \in Nat \ {0}
    BY DeploymentsAssumption
  <1> DEFINE q == t \div Day
  <1>2. /\ q \in Nat /\ t = (Day * q) + (t % Day)
        /\ t % Day \in 0..(Day - 1)
    BY <1>1
  <1> HIDE DEF q
  <1>3. PICK k \in Nat, s \in 0..(Day - 1) : k = Day * q /\ t = k + s
    BY <1>1, <1>2
  <1>4. PICK m \in Nat : m = k + Day
    BY <1>1
  <1>5. m \in t + 1 .. t + Day
    BY <1>1, <1>3, <1>4
  <1>6. m % Day = 0
    BY <1>1, <1>2, <1>3, <1>4
  <1>7. \E n \in t + 1 .. t + Day : n % Day = 0
    BY <1>5, <1>6
  <1>8. NextPacificMidnight(t) \in t + 1 .. t + Day
    BY <1>7, Zenon DEF NextPacificMidnight
  <1> QED
    BY <1>1, <1>8

LEMMA CostCovers ==
  ASSUME NEW p \in Providers, NEW u \in TokenCounts, NEW rate \in Prices \cup {None}
  PROVE  /\ PaidCost(p, u, rate) \in Moments
         /\ PaidCost(p, u, rate) # None =>
              rate # None /\ PaidCost(p, u, rate) >= (u.in * rate.cached) + (u.out * rate.output)
  <1>1. CASE ~UsageComplete(p, u) \/ rate = None
    BY <1>1 DEF PaidCost, Moments
  <1>2. CASE UsageComplete(p, u) /\ rate # None
    <2>1. PICK cached \in Nat : cached = IF u.cached = None THEN 0 ELSE u.cached
      BY DEF TokenCounts
    <2>2. u.in \in Nat /\ u.out \in Nat /\ cached <= u.in
      BY <1>2, <2>1 DEF UsageComplete, TokenCounts
    <2>3. PICK billed \in Nat : billed = (IF p = "GEMINI" THEN u.total - u.in ELSE u.out) /\ u.out <= billed
      <3>1. CASE p = "GEMINI"
        BY <1>2, <2>2, <3>1 DEF UsageComplete, TokenCounts
      <3>2. CASE p # "GEMINI"
        BY <2>2, <3>2
      <3> QED
        BY <3>1, <3>2
    <2>4. rate.input \in Nat /\ rate.cached \in Nat /\ rate.output \in Nat /\ rate.cached <= rate.input
      BY <1>2 DEF Prices
    <2>5. PaidCost(p, u, rate) = (u.in - cached) * rate.input + cached * rate.cached + billed * rate.output
      BY <1>2, <2>1, <2>3 DEF PaidCost
    <2>6. PICK fresh \in Nat : fresh = u.in - cached /\ u.in = fresh + cached
      BY <2>2
    <2>7. fresh * rate.cached <= fresh * rate.input
      BY <2>4, TimesMonotone
    <2>8. u.out * rate.output <= billed * rate.output
      BY <2>2, <2>3, <2>4, TimesMonotone
    <2>9. u.in * rate.cached = fresh * rate.cached + cached * rate.cached
      BY <2>4, <2>6
    <2>10. /\ fresh * rate.input \in Nat /\ cached * rate.cached \in Nat /\ billed * rate.output \in Nat
           /\ fresh * rate.cached \in Nat /\ u.out * rate.output \in Nat
      <3>1. \A m, n \in Nat : m * n \in Nat
        OBVIOUS
      <3> QED
        BY <2>1, <2>2, <2>3, <2>4, <2>6, <3>1
    <2>11. PICK a \in Nat, b \in Nat, c \in Nat, d \in Nat, e \in Nat :
             /\ a = fresh * rate.input /\ b = cached * rate.cached /\ c = billed * rate.output
             /\ d = fresh * rate.cached /\ e = u.out * rate.output
      BY <2>10, Zenon
    <2>12. d <= a /\ e <= c
      BY <2>7, <2>8, <2>11, Zenon
    <2>13. PaidCost(p, u, rate) = a + b + c
      BY <2>5, <2>6, <2>11, Zenon
    <2>14. u.in * rate.cached = d + b
      BY <2>9, <2>11, Zenon
    <2>15. a + b + c \in Nat /\ a + b + c >= (d + b) + e
      BY <2>12
    <2>16. PaidCost(p, u, rate) >= (u.in * rate.cached) + (u.out * rate.output)
      BY <2>11, <2>13, <2>14, <2>15, Zenon
    <2> QED
      BY <1>2, <2>13, <2>15, <2>16 DEF Moments
  <1> QED
    BY <1>1, <1>2
-----------------------------------------------------------------------------
(***************************************************************************)
(* AI rounds.  A round has a record for each call it has begun, numbered   *)
(* by its attempts, and a record is in flight only while that call is, or  *)
(* where the round ended without completing it.  A round that asks the     *)
(* free tier holds the row of the circuit for longer than its call lasts.  *)
(* Both are facts of one round: what it does, its records, its calls.      *)
(***************************************************************************)
Codes == {"OK", "AI_NOT_CONFIGURED", "AI_METERING_UNAVAILABLE", "AI_INVALID_RESPONSE",
          "AI_TARGET_GRAMMAR_MISSING", "AI_TIMEOUT", "AI_NETWORK_ERROR", "AI_HTTP"}
Failures == [code : Codes, retryable : BOOLEAN, status : Nat, quota : {"none", "day", "minute"}, wait : Nat]
Rounds == [step : {"idle", "call", "send", "net", "settle", "release", "done", "unmetered", "dead"},
           via : {"bounded", "free", "last"}, left : Seq(Providers), attempt : {0, 1}, since : Nat,
           got : Failures, missed : BOOLEAN]
Receipts == [provider : Providers, attempt : {0, 1}, inFlight : BOOLEAN, owner : {"user", None},
             usage : TokenCounts, cost : Moments]
Circuits == [token : Requests \cup {None}, until : Moments, blocked : Moments]

Covers(row) ==
  row.cost # None => \E rate \in Rates[row.provider] \ {None} :
    row.cost >= (row.usage.in * rate.cached) + (row.usage.out * rate.output)

Under(x, R, n) ==
  \/ n = Len(R) /\ x.step \in {"send", "net", "settle", "dead"}
  \/ x.step = "release" /\ x.got = MeteringUnavailable
  \/ x.step = "unmetered"

Recorded(x, R, calls) ==
  /\ calls <= Len(R) /\ Len(R) <= 2
  /\ x.step = "idle" => R = <<>>
  /\ x.step \in {"call", "send", "net", "settle"} => x.left # <<>>
  /\ x.step = "call" => Len(R) = x.attempt
  /\ x.step \in {"send", "net", "settle"} =>
       Len(R) = x.attempt + 1 /\ R[Len(R)].provider = Head(x.left)
  /\ x.step = "send" => calls < Len(R)
  /\ x.via = "free" => x.attempt = 0
  /\ x.via = "last" => x.attempt = 1
  /\ x.step = "release" => Len(R) <= 1 /\ (x.got # MeteringUnavailable => Len(R) = 1)
  /\ x.step = "settle" => x.got # MeteringUnavailable
  /\ \A n \in 1..Len(R) :
       /\ R[n].attempt = n - 1 /\ Covers(R[n])
       /\ R[n].inFlight => Under(x, R, n) /\ R[n].cost = None

Probes(x) == x.via = "free" /\ x.step \in {"call", "send", "net"}

Leased(r, x, row, t) ==
  Probes(x) =>
    /\ row.token = r /\ row.until \in Nat
    /\ row.blocked # None => row.blocked <= t
    /\ x.step = "call" => t <= x.since + ReceiptTime /\ x.since + LeaseTime <= row.until
    /\ x.step = "send" => t <= x.since
    /\ x.step = "net"  => t <= x.since + CallTimeout
    /\ x.step \in {"send", "net"} => x.since + LeaseTime <= row.until + ReceiptTime

AiInv ==
  /\ config.order \in Seq(Providers) /\ circuit \in Circuits
  /\ round \in [Requests -> Rounds] /\ receipts \in [Requests -> Seq(Receipts)] /\ sent \in [Requests -> Nat]
  /\ \A r \in Requests : Recorded(round[r], receipts[r], sent[r]) /\ Leased(r, round[r], circuit, now)
  /\ deleted => \A r \in Requests : \A n \in 1..Len(receipts[r]) : receipts[r][n].owner = None

LEMMA CooldownMoment ==
  ASSUME NEW f \in Failures, NEW t \in Nat
  PROVE  Cooldown(f, t) \in Nat
  <1>1. NextPacificMidnight(t) \in Nat
    BY MidnightComes
  <1>2. Minute \in Nat /\ FiveMinutes \in Nat /\ Day \in Nat
    BY DeploymentsAssumption
  <1>3. f.status \in Nat /\ f.wait \in Nat
    BY DEF Failures
  <1> QED
    BY <1>1, <1>2, <1>3 DEF Cooldown

LEMMA FailureKinds ==
  /\ \A code \in Codes, retryable \in BOOLEAN :
       Failure(code, retryable) \in Failures /\ Failure(code, retryable).code = code
  /\ Fine \in Failures /\ MeteringUnavailable \in Failures
  /\ MeteringUnavailable.code = "AI_METERING_UNAVAILABLE" /\ ~MeteringUnavailable.retryable
  /\ TargetMissing \in Failures /\ TargetMissing # MeteringUnavailable
  /\ Idle \in Rounds /\ Idle.step = "idle" /\ Idle.via = "bounded" /\ Idle.attempt = 0
  BY DEF Failure, Fine, MeteringUnavailable, TargetMissing, Failures, Codes, Idle, Rounds

(* A lease that admits nobody else outlives the call. *)
LEMMA LeaseOutlives ==
  ASSUME NEW r, NEW x \in Rounds, NEW row \in Circuits, NEW t \in Nat, Leased(r, x, row, t), Probes(x)
  PROVE  row.token = r /\ row.until # None /\ row.until > t
  <1>1. x.since \in Nat /\ row.until \in Nat
    BY DEF Leased, Rounds
  <1>2. ReceiptTime \in Nat /\ CallTimeout \in Nat /\ LeaseTime \in Nat
    BY DeploymentsAssumption
  <1> QED
    BY <1>1, <1>2, ProbeFits DEF Leased, Probes

(* A round moves; the row of the circuit is as it was, or free, or its own. *)
LEMMA Moves ==
  ASSUME AiInv, SubjectOK, NEW r \in Requests, NEW x \in Rounds, NEW R \in Seq(Receipts), NEW calls \in Nat,
         round' = [round EXCEPT ![r] = x], receipts' = [receipts EXCEPT ![r] = R],
         sent' = [sent EXCEPT ![r] = calls], UNCHANGED <<config, now, deleted>>,
         circuit' \in Circuits, circuit' = circuit \/ CircuitOpen \/ circuit.token = r,
         Recorded(x, R, calls), Leased(r, x, circuit', now),
         deleted => \A n \in 1..Len(R) : R[n].owner = None
  PROVE  AiInv'
  <1>1. /\ round' \in [Requests -> Rounds] /\ round'[r] = x
        /\ receipts' \in [Requests -> Seq(Receipts)] /\ receipts'[r] = R
        /\ sent' \in [Requests -> Nat] /\ sent'[r] = calls
        /\ \A q \in Requests : q # r =>
             round'[q] = round[q] /\ receipts'[q] = receipts[q] /\ sent'[q] = sent[q]
    BY DEF AiInv
  <1>2. ASSUME NEW q \in Requests, q # r PROVE Leased(q, round[q], circuit', now)
    <2>1. /\ Leased(q, round[q], circuit, now) /\ round[q] \in Rounds /\ circuit \in Circuits /\ now \in Nat
      BY DEF AiInv, SubjectOK
    <2>2. CASE circuit' = circuit
      BY <2>1, <2>2
    <2>3. CASE ~Probes(round[q])
      BY <2>3 DEF Leased
    <2>4. CASE Probes(round[q]) /\ circuit' # circuit
      <3>1. circuit.token = q /\ circuit.until # None /\ circuit.until > now
        BY <2>1, <2>4, LeaseOutlives
      <3> QED
        BY <1>2, <2>4, <3>1 DEF CircuitOpen, Lasts
    <2> QED
      BY <2>2, <2>3, <2>4
  <1>3. \A q \in Requests : Recorded(round'[q], receipts'[q], sent'[q])
    BY <1>1 DEF AiInv
  <1>4. \A q \in Requests : Leased(q, round'[q], circuit', now')
    BY <1>1, <1>2
  <1>5. deleted' => \A q \in Requests : \A n \in 1..Len(receipts'[q]) : receipts'[q][n].owner = None
    BY <1>1 DEF AiInv
  <1> QED
    BY <1>1, <1>3, <1>4, <1>5 DEF AiInv

LEMMA Asked ==
  ASSUME SubjectOK, NEW r \in Requests, NEW via \in {"bounded", "free", "last"},
         NEW providers \in Seq(Providers), NEW attempt \in {0, 1}, Asks(r, via, providers, attempt)
  PROVE  \E x \in Rounds :
           /\ round' = [round EXCEPT ![r] = x]
           /\ x.step = "call" /\ x.via = via /\ x.left = providers /\ x.attempt = attempt /\ x.since = now
  <1>1. PICK t \in Nat : t = now
    BY DEF SubjectOK
  <1>2. PICK x : x = [Idle EXCEPT !.step = "call", !.via = via, !.left = providers,
                                  !.attempt = attempt, !.since = t]
    OBVIOUS
  <1>3. /\ x \in Rounds /\ x.step = "call" /\ x.via = via /\ x.left = providers
        /\ x.attempt = attempt /\ x.since = t
    BY <1>2, FailureKinds DEF Rounds
  <1>4. round' = [round EXCEPT ![r] = x]
    BY <1>1, <1>2 DEF Asks
  <1> QED
    BY <1>1, <1>3, <1>4

LEMMA Over ==
  ASSUME NEW r \in Requests, NEW f, Ends(r, f)
  PROVE  \E x \in Rounds :
           /\ round' = [round EXCEPT ![r] = x] /\ x.via = "bounded" /\ x.attempt = 0
           /\ x.step = IF f = MeteringUnavailable THEN "unmetered" ELSE "done"
  <1>1. PICK step \in {"unmetered", "done"} : step = IF f = MeteringUnavailable THEN "unmetered" ELSE "done"
    OBVIOUS
  <1>2. PICK x : x = [Idle EXCEPT !.step = step]
    OBVIOUS
  <1>3. x \in Rounds /\ x.via = "bounded" /\ x.attempt = 0 /\ x.step = step
    BY <1>2, FailureKinds DEF Rounds
  <1>4. round' = [round EXCEPT ![r] = x]
    BY <1>1, <1>2 DEF Ends
  <1> QED
    BY <1>1, <1>3, <1>4

LEMMA TailLeft ==
  ASSUME NEW s \in Seq(Providers), Len(s) > 1
  PROVE  Tail(s) \in Seq(Providers) /\ Tail(s) # <<>>
  <1>1. Tail(s) \in Seq(Providers) /\ Len(Tail(s)) = Len(s) - 1
    OBVIOUS
  <1>2. ASSUME NEW t \in Seq(Providers), Len(t) = Len(s) - 1 PROVE t # <<>>
    BY <1>2
  <1> QED
    BY <1>1, <1>2

(* What a round does with an outcome: it releases the row, asks once more,  *)
(* or is over.                                                             *)
LEMMA Concluded ==
  ASSUME AiInv, SubjectOK, NEW r \in Requests, NEW R \in Seq(Receipts), NEW f \in Failures,
         round[r].step \in {"call", "settle"}, Concludes(r, f),
         sent[r] <= Len(R), Len(R) <= round[r].attempt + 1,
         f # MeteringUnavailable => Len(R) = round[r].attempt + 1 /\ \A n \in 1..Len(R) : ~R[n].inFlight,
         \A n \in 1..Len(R) : /\ R[n].attempt = n - 1 /\ Covers(R[n])
                              /\ R[n].inFlight => R[n].cost = None
  PROVE  \E x \in Rounds :
           round' = [round EXCEPT ![r] = x] /\ Recorded(x, R, sent[r]) /\ ~Probes(x)
  <1>1. PICK y \in Rounds : y = round[r]
    BY DEF AiInv
  <1>2. /\ Len(R) \in Nat /\ Len(R) <= 2 /\ y.attempt \in {0, 1} /\ y.left \in Seq(Providers)
        /\ y.left # <<>> /\ (y.via = "free" => y.attempt = 0)
    BY <1>1 DEF AiInv, Recorded, Rounds
  <1>3. CASE y.via = "free"
    <2>1. PICK x : x = [y EXCEPT !.step = "release", !.got = f]
      OBVIOUS
    <2>2. /\ x \in Rounds /\ x.step = "release" /\ x.got = f /\ x.via = "free" /\ x.attempt = 0
      BY <1>2, <1>3, <2>1 DEF Rounds
    <2>3. round' = [round EXCEPT ![r] = x]
      <3>1. round' = [round EXCEPT ![r].step = "release", ![r].got = f]
        BY <1>1, <1>3 DEF Concludes
      <3>2. round \in [Requests -> Rounds]
        BY DEF AiInv
      <3> QED
        BY <1>1, <2>1, <3>1, <3>2 DEF Rounds
    <2>4. Len(R) <= 1 /\ (f # MeteringUnavailable => Len(R) = 1)
      <3>1. y.attempt = 0
        BY <1>2, <1>3
      <3>2. Len(R) <= y.attempt + 1 /\ (f # MeteringUnavailable => Len(R) = y.attempt + 1)
        BY <1>1
      <3> QED
        BY <3>1, <3>2
    <2>5. \A n \in 1..Len(R) : R[n].inFlight => Under(x, R, n)
      BY <2>2 DEF Under
    <2>6. Recorded(x, R, sent[r])
      BY <1>2, <2>2, <2>4, <2>5 DEF Recorded
    <2> QED
      BY <2>2, <2>3, <2>6 DEF Probes
  <1>4. ASSUME NEW providers \in Seq(Providers), providers # <<>>, Asks(r, "bounded", providers, y.attempt + 1),
               y.via = "bounded", MayRepeat(r, f)
        PROVE  \E x \in Rounds :
                 round' = [round EXCEPT ![r] = x] /\ Recorded(x, R, sent[r]) /\ ~Probes(x)
    <2>1. y.attempt = 0 /\ f # MeteringUnavailable
      BY <1>1, <1>2, <1>4, FailureKinds DEF MayRepeat, CallsPerRound
    <2>2. Asks(r, "bounded", providers, 1)
      BY <1>4, <2>1
    <2>3. PICK x \in Rounds : /\ round' = [round EXCEPT ![r] = x] /\ x.step = "call" /\ x.via = "bounded"
                              /\ x.left = providers /\ x.attempt = 1
      BY <2>2, Asked
    <2>4. Recorded(x, R, sent[r])
      BY <1>1, <1>2, <1>4, <2>1, <2>3 DEF Recorded
    <2> QED
      BY <2>3, <2>4 DEF Probes
  <1>5. ASSUME Ends(r, f)
        PROVE  \E x \in Rounds :
                 round' = [round EXCEPT ![r] = x] /\ Recorded(x, R, sent[r]) /\ ~Probes(x)
    <2>1. PICK x \in Rounds : /\ round' = [round EXCEPT ![r] = x] /\ x.via = "bounded" /\ x.attempt = 0
                              /\ x.step = IF f = MeteringUnavailable THEN "unmetered" ELSE "done"
      BY <1>5, Over
    <2>2. Recorded(x, R, sent[r])
      BY <1>2, <2>1 DEF Recorded, Under
    <2> QED
      BY <2>1, <2>2 DEF Probes
  <1>6. CASE y.via # "free"
    <2>1. CASE y.via = "bounded" /\ MayRepeat(r, f) /\ Repairable(f)
      BY <1>1, <1>2, <1>4, <2>1 DEF Concludes
    <2>2. CASE y.via = "bounded" /\ MayRepeat(r, f) /\ ~Repairable(f) /\ Len(y.left) > 1
      <3>1. PICK providers \in Seq(Providers) : providers = Tail(y.left) /\ providers # <<>>
        <4>1. Tail(y.left) \in Seq(Providers) /\ Tail(y.left) # <<>>
          BY <1>2, <2>2, TailLeft
        <4> QED
          BY <4>1, Zenon
      <3>2. Asks(r, "bounded", providers, y.attempt + 1)
        BY <1>1, <2>2, <3>1 DEF Concludes
      <3> QED
        BY <1>4, <2>2, <3>1, <3>2
    <2>3. CASE ~(y.via = "bounded" /\ MayRepeat(r, f) /\ (Repairable(f) \/ Len(y.left) > 1))
      BY <1>1, <1>5, <1>6, <2>3 DEF Concludes
    <2> QED
      BY <2>1, <2>2, <2>3
  <1> QED
    BY <1>3, <1>6

(* The same where the records stay as they are. *)
LEMMA Turns ==
  ASSUME AiInv, SubjectOK, NEW r \in Requests, NEW x \in Rounds, round' = [round EXCEPT ![r] = x],
         UNCHANGED <<config, receipts, sent, now, deleted>>,
         circuit' \in Circuits, circuit' = circuit \/ CircuitOpen \/ circuit.token = r,
         Recorded(x, receipts[r], sent[r]), Leased(r, x, circuit', now)
  PROVE  AiInv'
  <1>1. PICK R \in Seq(Receipts), calls \in Nat : R = receipts[r] /\ calls = sent[r]
    BY DEF AiInv
  <1>2. receipts' = [receipts EXCEPT ![r] = R] /\ sent' = [sent EXCEPT ![r] = calls]
    BY <1>1 DEF AiInv
  <1>3. Recorded(x, R, calls) /\ (deleted => \A n \in 1..Len(R) : R[n].owner = None)
    BY <1>1 DEF AiInv
  <1> QED
    BY <1>2, <1>3, Moves

LEMMA RouteKeeps ==
  ASSUME AiInv, SubjectOK, NEW r \in Requests, Route(r)
  PROVE  AiInv'
  <1>1. /\ round[r].step = "idle" /\ receipts[r] = <<>> /\ sent[r] = 0 /\ Len(receipts[r]) = 0
        /\ UNCHANGED <<config, receipts, sent, now, deleted>> /\ circuit \in Circuits
    BY DEF Route, AiInv, Recorded, subjectVars
  <1>2. ASSUME NEW f, Ends(r, f), UNCHANGED circuit
        PROVE  AiInv'
    <2>1. PICK x \in Rounds : /\ round' = [round EXCEPT ![r] = x] /\ x.via = "bounded" /\ x.attempt = 0
                              /\ x.step = IF f = MeteringUnavailable THEN "unmetered" ELSE "done"
      BY <1>2, Over
    <2>2. Recorded(x, receipts[r], sent[r])
      BY <1>1, <2>1 DEF Recorded
    <2> QED
      BY <1>1, <1>2, <2>1, <2>2, Turns DEF Leased, Probes
  <1>3. ASSUME NEW providers \in Seq(Providers), providers # <<>>, Asks(r, "bounded", providers, 0),
               UNCHANGED circuit
        PROVE  AiInv'
    <2>1. PICK x \in Rounds : /\ round' = [round EXCEPT ![r] = x] /\ x.step = "call" /\ x.via = "bounded"
                              /\ x.left = providers /\ x.attempt = 0
      BY <1>3, Asked
    <2>2. Recorded(x, receipts[r], sent[r])
      BY <1>1, <1>3, <2>1 DEF Recorded
    <2> QED
      BY <1>1, <1>3, <2>1, <2>2, Turns DEF Leased, Probes
  <1>4. ASSUME CircuitOpen, Acquire(r), Asks(r, "free", <<"GEMINI">>, 0)
        PROVE  AiInv'
    <2>1. PICK t \in Nat, until \in Nat : t = now /\ until = now + LeaseTime
      BY DeploymentsAssumption DEF SubjectOK
    <2>2. <<"GEMINI">> \in Seq(Providers) /\ <<"GEMINI">> # <<>>
      BY DEF Providers
    <2>3. PICK providers \in Seq(Providers) : providers = <<"GEMINI">>
      BY <2>2
    <2>4. PICK x \in Rounds : /\ round' = [round EXCEPT ![r] = x] /\ x.step = "call" /\ x.via = "free"
                              /\ x.left = providers /\ x.attempt = 0 /\ x.since = now
      <3>1. Asks(r, "free", providers, 0)
        BY <1>4, <2>3
      <3> QED
        BY <3>1, Asked
    <2>5. circuit' \in Circuits /\ circuit'.token = r /\ circuit'.until = until
          /\ circuit'.blocked = circuit.blocked
      BY <1>1, <1>4, <2>1 DEF Acquire, Circuits, Moments
    <2>6. circuit.blocked # None => circuit.blocked <= now
      BY <1>1, <1>4 DEF CircuitOpen, Lasts, Circuits, Moments, SubjectOK
    <2>7. Leased(r, x, circuit', now)
      BY <2>1, <2>4, <2>5, <2>6, DeploymentsAssumption DEF Leased, Probes
    <2>8. Recorded(x, receipts[r], sent[r])
      BY <1>1, <2>2, <2>3, <2>4 DEF Recorded
    <2> QED
      BY <1>1, <1>4, <2>4, <2>5, <2>7, <2>8, Turns
  <1>5. <<"DEEPSEEK">> \in Seq(Providers) /\ <<"DEEPSEEK">> # <<>>
    BY DEF Providers
  <1>6. CASE ~config.freeFirst /\ config.order # <<>> /\ Asks(r, "bounded", config.order, 0) /\ UNCHANGED circuit
    <2>1. PICK providers \in Seq(Providers) : providers = config.order
      BY DEF AiInv
    <2> QED
      BY <1>3, <1>6, <2>1
  <1> QED
    BY <1>2, <1>3, <1>4, <1>5, <1>6 DEF Route

LEMMA SendKeeps ==
  ASSUME AiInv, SubjectOK, NEW r \in Requests, Send(r)
  PROVE  AiInv'
  <1>1. PICK y \in Rounds, R \in Seq(Receipts), calls \in Nat :
          y = round[r] /\ R = receipts[r] /\ calls = sent[r] + 1
    BY DEF AiInv
  <1>2. PICK x : x = [y EXCEPT !.step = "net"]
    OBVIOUS
  <1>3. /\ x \in Rounds /\ x.step = "net" /\ x.via = y.via /\ x.left = y.left
        /\ x.attempt = y.attempt /\ x.since = y.since /\ x.since \in Nat
    BY <1>1, <1>2 DEF Rounds
  <1>4. /\ y.step = "send" /\ round' = [round EXCEPT ![r] = x] /\ receipts' = [receipts EXCEPT ![r] = R]
        /\ sent' = [sent EXCEPT ![r] = calls]
        /\ UNCHANGED <<config, circuit, now, deleted>>
    BY <1>1, <1>2 DEF Send, AiInv, subjectVars
  <1>5. Recorded(y, R, calls - 1) /\ Leased(r, y, circuit, now)
        /\ (deleted => \A n \in 1..Len(R) : R[n].owner = None)
    BY <1>1 DEF AiInv
  <1>6. Recorded(x, R, calls)
    BY <1>1, <1>3, <1>4, <1>5 DEF Recorded, Under
  <1>7. Leased(r, x, circuit, now)
    BY <1>1, <1>3, <1>4, <1>5, DeploymentsAssumption DEF Leased, Probes, SubjectOK
  <1> QED
    BY <1>3, <1>4, <1>5, <1>6, <1>7, Moves DEF AiInv

LEMMA RecordAdded ==
  ASSUME NEW R \in Seq(Receipts), NEW e \in Receipts
  PROVE  Append(R, e) \in Seq(Receipts)
  OBVIOUS

LEMMA RecordReplaced ==
  ASSUME NEW R \in Seq(Receipts), NEW n \in 1..Len(R), NEW e \in Receipts
  PROVE  /\ [R EXCEPT ![n] = e] \in Seq(Receipts) /\ Len([R EXCEPT ![n] = e]) = Len(R)
         /\ \A m \in 1..Len(R) : [R EXCEPT ![n] = e][m] = IF m = n THEN e ELSE R[m]
  BY ExceptSeq

LEMMA OpenKeeps ==
  ASSUME AiInv, SubjectOK, NEW r \in Requests, OpenReceipt(r)
  PROVE  AiInv'
  <1>1. PICK y \in Rounds, R \in Seq(Receipts), calls \in Nat, t \in Nat :
          y = round[r] /\ R = receipts[r] /\ calls = sent[r] /\ t = now
    BY DEF AiInv, SubjectOK
  <1>2. /\ y.step = "call" /\ y.left \in Seq(Providers) /\ y.attempt \in {0, 1}
        /\ Recorded(y, R, calls) /\ Leased(r, y, circuit, t)
        /\ (deleted => \A n \in 1..Len(R) : R[n].owner = None)
        /\ UNCHANGED <<config, circuit, sent, now, deleted>> /\ circuit \in Circuits
    BY <1>1 DEF OpenReceipt, AiInv, Rounds, subjectVars
  <1>3. /\ Len(R) = y.attempt /\ calls <= Len(R) /\ y.left # <<>>
        /\ \A n \in 1..Len(R) : R[n].attempt = n - 1 /\ Covers(R[n]) /\ ~R[n].inFlight
    BY <1>2 DEF Recorded, Under
  <1>4. CASE /\ MayWrite
             /\ receipts' = [receipts EXCEPT ![r] = Append(@, Receipt(Head(round[r].left), round[r].attempt))]
             /\ round' = [round EXCEPT ![r].step = "send", ![r].since = now]
    <2>1. PICK e : e = Receipt(Head(y.left), y.attempt)
      OBVIOUS
    <2>2. Head(y.left) \in Providers
      BY <1>2, <1>3
    <2>3. /\ e \in Receipts /\ e.provider = Head(y.left) /\ e.attempt = y.attempt
          /\ e.cost = None
      <3>1. NoUsage \in TokenCounts
        BY DEF NoUsage, TokenCounts
      <3>2. PICK p \in Providers, k \in {0, 1} : p = Head(y.left) /\ k = y.attempt
        BY <1>2, <2>2
      <3>3. e = [provider |-> p, attempt |-> k, inFlight |-> TRUE, owner |-> "user",
                 usage |-> NoUsage, cost |-> None]
        BY <2>1, <3>2 DEF Receipt
      <3> QED
        <4>1. PICK u \in TokenCounts : u = NoUsage
          BY <3>1
        <4>2. e = [provider |-> p, attempt |-> k, inFlight |-> TRUE, owner |-> "user",
                   usage |-> u, cost |-> None]
          BY <3>3, <4>1
        <4>3. e \in Receipts
          BY <4>2 DEF Receipts, Moments
        <4> QED
          <5>1. e.provider = p /\ e.attempt = k /\ e.cost = None
            BY <4>2
          <5> QED
            BY <3>2, <4>3, <5>1, Zenon
    <2>4. PICK S \in Seq(Receipts) : S = Append(R, e)
      BY <2>3, RecordAdded
    <2>5. /\ Len(S) = y.attempt + 1 /\ S[Len(S)] = e
          /\ \A n \in 1..Len(S) : (n = Len(S) /\ S[n] = e) \/ (n \in 1..Len(R) /\ S[n] = R[n])
      BY <1>3, <2>3, <2>4
    <2>6. PICK x : x = [y EXCEPT !.step = "send", !.since = t]
      OBVIOUS
    <2>7. /\ x \in Rounds /\ x.step = "send" /\ x.via = y.via /\ x.left = y.left
          /\ x.attempt = y.attempt /\ x.since = t
      BY <2>6 DEF Rounds
    <2>8. receipts' = [receipts EXCEPT ![r] = S]
      BY <1>1, <1>4, <2>1, <2>4
    <2>9. round' = [round EXCEPT ![r] = x]
      BY <1>1, <1>4, <2>6 DEF AiInv, Rounds
    <2>10. Covers(e)
      BY <2>3 DEF Covers
    <2>11. \A n \in 1..Len(S) : /\ S[n].attempt = n - 1 /\ Covers(S[n])
                                /\ S[n].inFlight => Under(x, S, n) /\ S[n].cost = None
      BY <1>2, <1>3, <2>3, <2>5, <2>7, <2>10, SMTT(30) DEF Under
    <2>12. Recorded(x, S, calls)
      BY <1>2, <1>3, <2>3, <2>5, <2>7, <2>11 DEF Recorded
    <2>13. Leased(r, x, circuit, t)
      <3>1. ReceiptTime \in Nat /\ LeaseTime \in Nat /\ y.since \in Nat
        BY DeploymentsAssumption DEF Rounds
      <3> QED
        BY <1>2, <2>7, <3>1 DEF Leased, Probes
    <2>14. sent' = [sent EXCEPT ![r] = calls]
      BY <1>1, <1>2 DEF AiInv
    <2>15. ~deleted
      BY <1>4 DEF MayWrite
    <2> QED
      BY <1>1, <1>2, <2>7, <2>8, <2>9, <2>12, <2>13, <2>14, <2>15, Moves
  <1>5. CASE Concludes(r, MeteringUnavailable) /\ UNCHANGED receipts
    <2>1. PICK f \in Failures : f = MeteringUnavailable
      BY FailureKinds
    <2>2. PICK x \in Rounds : round' = [round EXCEPT ![r] = x] /\ Recorded(x, R, sent[r]) /\ ~Probes(x)
      BY <1>1, <1>2, <1>3, <1>5, <2>1, Concluded
    <2> QED
      BY <1>1, <1>2, <1>5, <2>2, Turns DEF Leased
  <1> QED
    BY <1>4, <1>5 DEF OpenReceipt

LEMMA ReplyKeeps ==
  ASSUME AiInv, SubjectOK, NEW r \in Requests, Reply(r)
  PROVE  AiInv'
  <1>1. PICK y \in Rounds, R \in Seq(Receipts), calls \in Nat :
          y = round[r] /\ R = receipts[r] /\ calls = sent[r]
    BY DEF AiInv
  <1>2. /\ y.step = "net" /\ Recorded(y, R, calls)
        /\ UNCHANGED <<config, circuit, receipts, sent, now, deleted>> /\ circuit \in Circuits
    BY <1>1 DEF Reply, AiInv, subjectVars
  <1>3. ASSUME NEW f \in Failures, f # MeteringUnavailable, NEW missed \in BOOLEAN, Answered(r, f, missed)
        PROVE  AiInv'
    <2>1. PICK x : x = [y EXCEPT !.step = "settle", !.got = f, !.missed = missed, !.since = 0]
      OBVIOUS
    <2>2. /\ x \in Rounds /\ x.step = "settle" /\ x.via = y.via /\ x.left = y.left
          /\ x.attempt = y.attempt /\ x.got = f
      BY <2>1 DEF Rounds
    <2>3. round' = [round EXCEPT ![r] = x]
      BY <1>1, <1>3, <2>1 DEF Answered, AiInv, Rounds
    <2>4. Recorded(x, R, calls)
      BY <1>2, <1>3, <2>2 DEF Recorded, Under
    <2> QED
      BY <1>1, <1>2, <2>2, <2>3, <2>4, Turns DEF Leased, Probes
  <1>4. ASSUME NEW answer \in Answers
        PROVE  Parsed(r, answer) \in Failures /\ Parsed(r, answer) # MeteringUnavailable
    BY DEF Parsed, InvalidResponse, Fine, MeteringUnavailable, Failure, Failures, Codes
  <1>5. ASSUME NEW code \in Losses
        PROVE  Failure(code, TRUE) \in Failures /\ Failure(code, TRUE) # MeteringUnavailable
    BY DeploymentsAssumption DEF Failure, Failures, Codes, MeteringUnavailable
  <1>6. ASSUME NEW status \in Statuses, NEW located \in BOOLEAN
        PROVE  /\ HttpFailure(status, located) \in Failures
               /\ HttpFailure(status, located).code = "AI_HTTP"
    <2>1. PICK b \in BOOLEAN : b = RetryableStatus(status, located)
      BY DEF RetryableStatus
    <2>2. status \in Nat
      BY DeploymentsAssumption
    <2> QED
      BY <2>1, <2>2 DEF HttpFailure, Failure, Failures, Codes
  <1>7. ASSUME NEW status \in Statuses, NEW located \in BOOLEAN, NEW quota \in {"day", "minute"},
               NEW delay \in Delays
        PROVE  /\ GeminiHttpFailure(status, located, quota, delay) \in Failures
               /\ GeminiHttpFailure(status, located, quota, delay).code = "AI_HTTP"
    <2>1. PICK h \in Failures : h = HttpFailure(status, located) /\ h.code = "AI_HTTP"
      BY <1>6
    <2>2. PICK w \in Nat : w = IF status = 429 /\ delay # None
               THEN (IF delay < Minute THEN Minute ELSE IF delay > Day THEN Day ELSE delay)
               ELSE 0
      BY DeploymentsAssumption
    <2>3. PICK q \in {"none", "day", "minute"} : q = IF status = 429 THEN quota ELSE "none"
      OBVIOUS
    <2>4. GeminiHttpFailure(status, located, quota, delay) = [h EXCEPT !.quota = q, !.wait = w]
      BY <2>1, <2>2, <2>3 DEF GeminiHttpFailure
    <2> QED
      BY <2>1, <2>4 DEF Failures
  <1>8. \A f \in Failures : f.code = "AI_HTTP" => f # MeteringUnavailable
    BY FailureKinds
  <1>9. ASSUME NEW f, f \in Failures, f # MeteringUnavailable, Answered(r, f, FALSE)
        PROVE  AiInv'
    BY <1>3, <1>9
  <1>10. ASSUME NEW answer \in Answers, Answered(r, Parsed(r, answer), OffTarget(r, answer))
         PROVE  AiInv'
    <2>1. PICK missed \in BOOLEAN : missed = OffTarget(r, answer)
      BY DEF OffTarget
    <2> QED
      BY <1>3, <1>4, <1>10, <2>1
  <1> QED
    BY <1>2, <1>5, <1>6, <1>7, <1>8, <1>9, <1>10 DEF Reply

LEMMA SettleKeeps ==
  ASSUME AiInv, SubjectOK, NEW r \in Requests, Settle(r)
  PROVE  AiInv'
  <1>1. PICK y \in Rounds, R \in Seq(Receipts), calls \in Nat :
          y = round[r] /\ R = receipts[r] /\ calls = sent[r]
    BY DEF AiInv
  <1>2. /\ y.step = "settle" /\ Recorded(y, R, calls) /\ y.got \in Failures
        /\ (deleted => \A n \in 1..Len(R) : R[n].owner = None)
        /\ UNCHANGED <<config, circuit, sent, now, deleted>> /\ circuit \in Circuits
    BY <1>1 DEF Settle, AiInv, Rounds, subjectVars
  <1>3. /\ y.left \in Seq(Providers) /\ y.left # <<>> /\ y.attempt \in {0, 1}
        /\ Len(R) \in Nat /\ Len(R) = y.attempt + 1 /\ calls <= Len(R) /\ y.got # MeteringUnavailable
        /\ R[Len(R)].provider = Head(y.left) /\ Head(y.left) \in Providers
    BY <1>2 DEF Recorded, Rounds
  <1>4. \A n \in 1..Len(R) : /\ R[n].attempt = n - 1 /\ Covers(R[n])
                             /\ R[n].inFlight => n = Len(R) /\ R[n].cost = None
    BY <1>2 DEF Recorded, Under
  <1>5. ASSUME NEW S \in Seq(Receipts), NEW f \in Failures, Concludes(r, f),
               receipts' = [receipts EXCEPT ![r] = S], Len(S) = Len(R),
               f # MeteringUnavailable => \A n \in 1..Len(S) : ~S[n].inFlight,
               \A n \in 1..Len(S) : /\ S[n].attempt = n - 1 /\ Covers(S[n])
                                    /\ S[n].inFlight => S[n].cost = None,
               deleted => \A n \in 1..Len(S) : S[n].owner = None
        PROVE  AiInv'
    <2>1. PICK x \in Rounds : round' = [round EXCEPT ![r] = x] /\ Recorded(x, S, sent[r]) /\ ~Probes(x)
      BY <1>1, <1>2, <1>3, <1>5, Concluded
    <2>2. sent' = [sent EXCEPT ![r] = calls]
      BY <1>1, <1>2 DEF AiInv
    <2> QED
      BY <1>1, <1>2, <1>5, <2>1, <2>2, Moves DEF Leased
  <1>6. ASSUME NEW u \in Reported(y.got), NEW rate \in Rates[Head(y.left)],
               receipts' = [receipts EXCEPT ![r][Len(R)] = Completed(@, u, PaidCost(Head(y.left), u, rate))],
               Concludes(r, IF y.missed THEN TargetMissing ELSE y.got)
        PROVE  AiInv'
    <2>1. PICK n \in 1..Len(R), p \in Providers : n = Len(R) /\ p = Head(y.left)
      BY <1>3
    <2>2. PICK row \in Receipts : row = R[n] /\ row.provider = p /\ row.attempt = n - 1
      BY <1>3, <1>4, <2>1
    <2>3. u \in TokenCounts /\ rate \in Prices \cup {None} /\ rate \in Rates[p]
      BY <1>6, <2>1, PricesAssumption DEF Reported, NoUsage, TokenCounts
    <2>4. PICK cost \in Moments : cost = PaidCost(p, u, rate)
      BY <2>3, CostCovers
    <2>5. PICK o \in {"user", None} : o = Retained(row.owner) /\ (deleted => o = None)
      BY <2>2 DEF Retained, Receipts
    <2>6. PICK e : e = [row EXCEPT !.inFlight = FALSE, !.usage = u, !.cost = cost, !.owner = o]
      OBVIOUS
    <2>7. /\ e \in Receipts /\ ~e.inFlight /\ e.owner = o /\ e.attempt = n - 1
          /\ e.provider = p /\ e.usage = u /\ e.cost = cost
      BY <2>2, <2>3, <2>6 DEF Receipts
    <2>8. Covers(e)
      BY <2>3, <2>4, <2>7, CostCovers DEF Covers
    <2>9. PICK S \in Seq(Receipts) : S = [R EXCEPT ![n] = e]
      BY <2>1, <2>7, RecordReplaced
    <2>10. /\ Len(S) = Len(R) /\ S[n] = e
           /\ \A m \in 1..Len(S) : m # n => S[m] = R[m]
      BY <2>1, <2>7, <2>9, RecordReplaced
    <2>11. receipts' = [receipts EXCEPT ![r] = S]
      <3>1. Completed(row, u, cost) = e
        BY <2>5, <2>6 DEF Completed
      <3>2. receipts' = [receipts EXCEPT ![r] = [R EXCEPT ![n] = Completed(R[n], u, cost)]]
        BY <1>1, <1>6, <2>1, <2>4 DEF AiInv
      <3> QED
        BY <2>2, <2>9, <3>1, <3>2
    <2>12. PICK f \in Failures : f = (IF y.missed THEN TargetMissing ELSE y.got) /\ f # MeteringUnavailable
      BY <1>2, <1>3, FailureKinds
    <2>13. \A m \in 1..Len(S) : /\ S[m].attempt = m - 1 /\ Covers(S[m]) /\ ~S[m].inFlight
                                /\ deleted => S[m].owner = None
      BY <1>2, <1>4, <2>1, <2>5, <2>7, <2>8, <2>10
    <2>14. Concludes(r, f)
      BY <1>6, <2>12
    <2> QED
      BY <1>5, <2>10, <2>11, <2>13, <2>14
  <1>7. ASSUME Concludes(r, MeteringUnavailable), UNCHANGED receipts
        PROVE  AiInv'
    <2>1. PICK f \in Failures : f = MeteringUnavailable
      BY FailureKinds
    <2>2. receipts' = [receipts EXCEPT ![r] = R]
      BY <1>1, <1>7 DEF AiInv
    <2> QED
      BY <1>2, <1>4, <1>5, <1>7, <2>1, <2>2
  <1> QED
    BY <1>1, <1>6, <1>7 DEF Settle

LEMMA ReleasedRow ==
  ASSUME AiInv, SubjectOK, NEW r \in Requests, NEW f \in Failures, Release(r, f)
  PROVE  circuit' \in Circuits /\ (circuit' = circuit \/ circuit.token = r)
  <1>1. PICK t \in Nat, cooldown \in Nat : t = now /\ cooldown = Cooldown(f, t)
    BY CooldownMoment DEF SubjectOK
  <1>2. PICK blocked \in Moments : blocked = IF f = Fine THEN None ELSE Cooldown(f, now)
    BY <1>1 DEF Moments
  <1>3. circuit' = circuit \/ (/\ circuit.token = r
                               /\ circuit' = [token |-> None, until |-> None, blocked |-> blocked])
    BY <1>2 DEF Release
  <1> QED
    BY <1>3 DEF AiInv, Circuits, Moments

LEMMA AfterKeeps ==
  ASSUME AiInv, SubjectOK, NEW r \in Requests, AfterGemini(r)
  PROVE  AiInv'
  <1>1. PICK y \in Rounds, R \in Seq(Receipts), calls \in Nat, f \in Failures :
          y = round[r] /\ R = receipts[r] /\ calls = sent[r] /\ f = y.got
    BY DEF AiInv, Rounds
  <1>2. /\ y.step = "release" /\ Recorded(y, R, calls)
        /\ UNCHANGED <<config, receipts, sent, now, deleted>> /\ circuit \in Circuits
        /\ (Release(r, f) \/ UNCHANGED circuit)
    BY <1>1 DEF AfterGemini, AiInv, subjectVars
  <1>3. circuit' \in Circuits /\ (circuit' = circuit \/ circuit.token = r)
    BY <1>2, ReleasedRow
  <1>4. /\ Len(R) \in Nat /\ Len(R) <= 1 /\ (f # MeteringUnavailable => Len(R) = 1)
        /\ calls <= Len(R)
        /\ \A n \in 1..Len(R) : /\ R[n].attempt = n - 1 /\ Covers(R[n])
                                /\ R[n].inFlight => f = MeteringUnavailable /\ R[n].cost = None
    BY <1>1, <1>2 DEF Recorded, Under
  <1>5. CASE CanFallback(f)
    <2>1. f # MeteringUnavailable
      BY <1>5, FailureKinds DEF CanFallback, Repairable
    <2>2. PICK providers \in Seq(Providers) : providers = <<"DEEPSEEK">> /\ providers # <<>>
      <3>1. <<"DEEPSEEK">> \in Seq(Providers) /\ <<"DEEPSEEK">> # <<>>
        BY DEF Providers
      <3> QED
        BY <3>1
    <2>3. Asks(r, "last", providers, 1)
      BY <1>1, <1>5, <2>2 DEF AfterGemini
    <2>4. PICK x \in Rounds : /\ round' = [round EXCEPT ![r] = x] /\ x.step = "call" /\ x.via = "last"
                              /\ x.left = providers /\ x.attempt = 1
      BY <2>3, Asked
    <2>5. Recorded(x, R, calls)
      BY <1>4, <2>1, <2>2, <2>4 DEF Recorded
    <2> QED
      BY <1>1, <1>2, <1>3, <2>4, <2>5, Turns DEF Leased, Probes
  <1>6. CASE ~CanFallback(f)
    <2>1. Ends(r, f)
      BY <1>1, <1>6 DEF AfterGemini
    <2>2. PICK x \in Rounds : /\ round' = [round EXCEPT ![r] = x] /\ x.via = "bounded" /\ x.attempt = 0
                              /\ x.step = IF f = MeteringUnavailable THEN "unmetered" ELSE "done"
      BY <2>1, Over
    <2>3. Recorded(x, R, calls)
      BY <1>4, <2>2 DEF Recorded, Under
    <2> QED
      BY <1>1, <1>2, <1>3, <2>2, <2>3, Turns DEF Leased, Probes
  <1> QED
    BY <1>5, <1>6

LEMMA DiesKeeps ==
  ASSUME AiInv, SubjectOK, NEW r \in Requests, Dies(r)
  PROVE  AiInv'
  <1>1. PICK y \in Rounds, R \in Seq(Receipts), calls \in Nat :
          y = round[r] /\ R = receipts[r] /\ calls = sent[r]
    BY DEF AiInv
  <1>2. /\ y.step \notin {"idle", "done", "unmetered", "dead"} /\ Recorded(y, R, calls)
        /\ UNCHANGED <<config, circuit, receipts, sent, now, deleted>> /\ circuit \in Circuits
    BY <1>1 DEF Dies, AiInv, subjectVars
  <1>3. PICK x : x = [Idle EXCEPT !.step = "dead"]
    OBVIOUS
  <1>4. x \in Rounds /\ x.step = "dead" /\ x.via = "bounded" /\ x.attempt = 0
    BY <1>3, FailureKinds DEF Rounds
  <1>5. round' = [round EXCEPT ![r] = x]
    BY <1>3 DEF Dies
  <1>6. /\ calls <= Len(R) /\ Len(R) <= 2
        /\ \A n \in 1..Len(R) : /\ R[n].attempt = n - 1 /\ Covers(R[n])
                                /\ R[n].inFlight => n = Len(R) /\ R[n].cost = None
    BY <1>2 DEF Recorded, Under
  <1>7. Recorded(x, R, calls)
    BY <1>4, <1>6 DEF Recorded, Under
  <1> QED
    BY <1>1, <1>2, <1>4, <1>5, <1>7, Turns DEF Leased, Probes

LEMMA AiStep ==
  ASSUME AiInv, SubjectOK, NextAi
  PROVE  AiInv'
  BY RouteKeeps, OpenKeeps, SendKeeps, ReplyKeeps, SettleKeeps, AfterKeeps, DiesKeeps DEF NextAi

LEMMA AiInit == Init => AiInv
  <1> SUFFICES ASSUME Init PROVE AiInv
    OBVIOUS
  <1>1. config.order \in Seq(Providers)
    <2> DEFINE all == [freeFirst : FreeFirst, order : Orders]
    <2>1. PICK f \in FreeFirst, o \in Orders : TRUE
      BY DeploymentsAssumption
    <2>2. [freeFirst |-> f, order |-> o] \in all
      OBVIOUS
    <2>3. (CHOOSE deployment \in all : TRUE) \in all
      BY <2>2
    <2>4. Deployments \subseteq all
      BY <2>3 DEF Deployments
    <2>5. config \in all
      BY <2>4 DEF Init, InitAi
    <2> QED
      BY <2>5, DeploymentsAssumption
  <1>2. circuit \in Circuits
    BY DEF Init, InitAi, Circuits, Moments
  <1>3. /\ round \in [Requests -> Rounds] /\ receipts \in [Requests -> Seq(Receipts)]
        /\ sent \in [Requests -> Nat]
    BY FailureKinds DEF Init, InitAi
  <1>4. Recorded(Idle, <<>>, 0)
    BY FailureKinds DEF Recorded
  <1>5. \A r \in Requests : Leased(r, Idle, circuit, now)
    BY FailureKinds DEF Leased, Probes
  <1>6. \A r \in Requests : round[r] = Idle /\ receipts[r] = <<>> /\ sent[r] = 0
    BY DEF Init, InitAi
  <1>7. ~deleted
    BY DEF Init, InitSubject
  <1> QED
    BY <1>1, <1>2, <1>3, <1>4, <1>5, <1>6, <1>7 DEF AiInv

LEMMA AiTick ==
  ASSUME AiInv, SubjectOK, UNCHANGED <<aiVars, deleted>>, AiMayWait, now' = now + 1
  PROVE  AiInv'
  <1>1. ASSUME NEW r \in Requests PROVE Leased(r, round[r], circuit, now + 1)
    <2>1. PICK x \in Rounds, row \in Circuits, t \in Nat : x = round[r] /\ row = circuit /\ t = now
      BY DEF AiInv, SubjectOK
    <2>2. Leased(r, x, row, t)
      BY <2>1 DEF AiInv
    <2>3. /\ x.step = "call" => t < x.since + ReceiptTime
          /\ x.step # "send"
          /\ x.step = "net" => t < x.since + CallTimeout
      BY <2>1 DEF AiMayWait, During
    <2>4. x.since \in Nat /\ ReceiptTime \in Nat /\ CallTimeout \in Nat
      BY DeploymentsAssumption DEF Rounds
    <2>5. row.blocked # None => row.blocked \in Nat
      BY DEF Circuits, Moments
    <2>6. Leased(r, x, row, t + 1)
      BY <2>2, <2>3, <2>4, <2>5 DEF Leased, Probes
    <2> QED
      BY <2>1, <2>6
  <1> QED
    BY <1>1 DEF AiInv, aiVars

LEMMA AiFrame ==
  ASSUME AiInv, UNCHANGED <<aiVars, now, deleted>>
  PROVE  AiInv'
  BY DEF AiInv, aiVars

(* What is left of a record, or of a sequence of them, without its owner.  *)
LEMMA Disowned ==
  ASSUME NEW x \in Rounds, NEW R \in Seq(Receipts), NEW calls \in Nat, Recorded(x, R, calls),
         NEW S, S = [n \in DOMAIN R |-> [R[n] EXCEPT !.owner = None]]
  PROVE  /\ S \in Seq(Receipts) /\ Recorded(x, S, calls)
         /\ \A n \in 1..Len(S) : S[n].owner = None
  <1>1. DOMAIN R = 1..Len(R) /\ Len(R) \in Nat
    OBVIOUS
  <1>2. ASSUME NEW n \in 1..Len(R)
        PROVE  /\ S[n] \in Receipts /\ S[n].owner = None /\ S[n].provider = R[n].provider
               /\ S[n].attempt = R[n].attempt /\ S[n].inFlight = R[n].inFlight
               /\ S[n].usage = R[n].usage /\ S[n].cost = R[n].cost
    <2>1. PICK row \in Receipts : row = R[n]
      BY <1>1
    <2>2. PICK e : e = [row EXCEPT !.owner = None] /\ S[n] = e
      BY <1>1, <2>1
    <2>3. /\ e \in Receipts /\ e.owner = None /\ e.provider = row.provider
          /\ e.attempt = row.attempt /\ e.inFlight = row.inFlight
          /\ e.usage = row.usage /\ e.cost = row.cost
      BY <2>2 DEF Receipts
    <2> QED
      BY <2>1, <2>2, <2>3
  <1>3. S \in Seq(Receipts) /\ Len(S) = Len(R)
    BY <1>1, <1>2
  <1>4. ASSUME NEW n \in 1..Len(S) PROVE Covers(R[n]) => Covers(S[n])
    BY <1>2, <1>3 DEF Covers
  <1>5. ASSUME NEW n \in 1..Len(S) PROVE Under(x, R, n) <=> Under(x, S, n)
    BY <1>3 DEF Under
  <1>6. R = <<>> => S = <<>>
    BY <1>3
  <1>7. ASSUME NEW n \in 1..Len(S)
        PROVE  /\ S[n].attempt = n - 1 /\ Covers(S[n])
               /\ S[n].inFlight => Under(x, S, n) /\ S[n].cost = None
    <2>1. /\ R[n].attempt = n - 1 /\ Covers(R[n])
          /\ R[n].inFlight => Under(x, R, n) /\ R[n].cost = None
      BY <1>3 DEF Recorded
    <2>2. /\ S[n].attempt = R[n].attempt /\ S[n].cost = R[n].cost
          /\ S[n].inFlight = R[n].inFlight
      BY <1>2, <1>3
    <2> QED
      BY <1>4, <1>5, <2>1, <2>2
  <1>8. /\ x.attempt \in Nat
        /\ Len(R) = x.attempt + 1 => Len(S) \in 1..Len(S) /\ S[Len(S)].provider = R[Len(R)].provider
    BY <1>1, <1>2, <1>3 DEF Rounds
  <1>9. Recorded(x, S, calls)
    BY <1>3, <1>6, <1>7, <1>8 DEF Recorded
  <1> QED
    BY <1>2, <1>3, <1>9

LEMMA AiDelete ==
  ASSUME AiInv, SubjectOK, DeleteAccount
  PROVE  AiInv'
  <1>1. /\ receipts' = [r \in Requests |-> [n \in DOMAIN receipts[r] |-> [receipts[r][n] EXCEPT !.owner = None]]]
        /\ UNCHANGED <<config, circuit, round, sent, now>>
    BY DEF DeleteAccount, DetachesUsage
  <1>2. ASSUME NEW r \in Requests
        PROVE  /\ receipts'[r] \in Seq(Receipts) /\ Recorded(round[r], receipts'[r], sent[r])
               /\ \A n \in 1..Len(receipts'[r]) : receipts'[r][n].owner = None
    <2>1. PICK x \in Rounds, R \in Seq(Receipts), calls \in Nat :
            x = round[r] /\ R = receipts[r] /\ calls = sent[r]
      BY DEF AiInv
    <2>2. PICK S : S = receipts'[r]
      OBVIOUS
    <2>3. Recorded(x, R, calls) /\ S = [n \in DOMAIN R |-> [R[n] EXCEPT !.owner = None]]
      BY <1>1, <2>1, <2>2 DEF AiInv
    <2> QED
      BY <2>1, <2>2, <2>3, Disowned
  <1>3. receipts' \in [Requests -> Seq(Receipts)]
    BY <1>1, <1>2
  <1> QED
    BY <1>1, <1>2, <1>3 DEF AiInv

LEMMA ProbesAlone == AiInv /\ SubjectOK => ProbeAlone
  <1> SUFFICES ASSUME AiInv, SubjectOK, NEW r \in Requests, Probing(r)
               PROVE  /\ circuit.token = r /\ Lasts(circuit.until) /\ ~Lasts(circuit.blocked)
                      /\ \A other \in Requests \ {r} : ~Probing(other)
    BY DEF ProbeAlone
  <1>1. ASSUME NEW q \in Requests, Probing(q)
        PROVE  circuit.token = q /\ circuit.until # None /\ circuit.until > now
    <2>1. PICK x \in Rounds, row \in Circuits, t \in Nat : x = round[q] /\ row = circuit /\ t = now
      BY DEF AiInv, SubjectOK
    <2>2. Leased(q, x, row, t) /\ Probes(x)
      BY <1>1, <2>1 DEF AiInv, Probing, Probes
    <2> QED
      BY <2>1, <2>2, LeaseOutlives
  <1>2. circuit.blocked # None => circuit.blocked <= now /\ circuit.blocked \in Nat
    BY DEF AiInv, Leased, Probing, Probes, Circuits, Moments
  <1> QED
    BY <1>1, <1>2 DEF Lasts, SubjectOK

LEMMA Metered == AiInv => CallsMetered
  <1> SUFFICES ASSUME AiInv, NEW r \in Requests
               PROVE  /\ sent[r] <= Len(receipts[r]) /\ Len(receipts[r]) <= 2
                      /\ \A n \in DOMAIN receipts[r] :
                           /\ receipts[r][n].attempt = n - 1
                           /\ receipts[r][n].inFlight => Unfinished(r, n) /\ receipts[r][n].cost = None
                           /\ Covers(receipts[r][n])
    BY DEF CallsMetered, CallsPerRound, Covers
  <1>1. Recorded(round[r], receipts[r], sent[r]) /\ DOMAIN receipts[r] = 1..Len(receipts[r])
    BY DEF AiInv
  <1>2. \A n : Under(round[r], receipts[r], n) => Unfinished(r, n)
    BY DEF Under, Unfinished
  <1> QED
    BY <1>1, <1>2 DEF Recorded
-----------------------------------------------------------------------------
(***************************************************************************)
(* The account.  Its invariant is that of all its parts, and a step of one *)
(* part leaves the others, the account's row and the clock as they are.    *)
(***************************************************************************)
IInv == SubjectOK /\ ContentInv /\ SweepInv /\ WordInv /\ AccessInv /\ SaleInv /\ RewardInv /\ AiInv

LEMMA SubjectKept ==
  NextAi \/ NextAccess \/ NextShop \/ NextContent \/ NextWord \/ NextSweep => UNCHANGED subjectVars
  <1>1. NextAi => UNCHANGED subjectVars
    BY DEF NextAi, Route, OpenReceipt, Send, Reply, Settle, AfterGemini, Dies
  <1>2. NextAccess => UNCHANGED subjectVars
    BY DEF NextAccess, FindUser, Logout, OpenSession, Bind, Exchange, AndroidLogout, Approve
  <1>3. NextShop => UNCHANGED subjectVars
    BY DEF NextShop, Begin, Price, CreatePage, SavePage, Settled, CreateTicket, Verify, Receive
  <1>4. NextContent => UNCHANGED subjectVars
    BY DEF NextContent, Preview, Commit, Validate, LookUp, Bookmark, RemoveBookmark, RecordExposure,
           SaveExpression, RemoveExpression
  <1>5. NextWord => UNCHANGED subjectVars
    BY DEF NextWord, SetLearning, StartDrill, AnswerDrill, RetryDrill, Generate, FailDrill, Assess
  <1>6. NextSweep => UNCHANGED subjectVars
    BY DEF NextSweep, Void, Show, Claim, Read, Page, Fenced, Fails, GivesUp, Closes, SweeperDies
  <1> QED
    BY <1>1, <1>2, <1>3, <1>4, <1>5, <1>6

LEMMA AccountInit == Init => IInv
  <1>1. Init => SubjectOK
    <2>1. Init => now = 0 /\ deleted = FALSE
      BY DEF Init, InitSubject
    <2>2. deleted = FALSE => deleted \in BOOLEAN
      BY Zenon
    <2> QED
      BY <2>1, <2>2 DEF SubjectOK
  <1> QED
    BY <1>1, ContentInit, SweepInit, WordInit, AccessInit, SaleInit, RewardInit, AiInit DEF IInv

LEMMA AccountStep == IInv /\ [Next]_vars => IInv'
  <1> SUFFICES ASSUME IInv, [Next]_vars PROVE IInv'
    OBVIOUS
  <1>1. /\ SubjectOK /\ ContentInv /\ SweepInv /\ WordInv /\ AccessInv /\ SaleInv /\ RewardInv /\ AiInv
        /\ now \in Nat
    BY DEF IInv, SubjectOK
  <1>2. ASSUME UNCHANGED <<now, deleted>> PROVE SubjectOK' /\ now' \in {now, now + 1}
    BY <1>1, <1>2 DEF SubjectOK
  <1>3. UNCHANGED subjectVars => UNCHANGED <<now, deleted>>
    BY DEF subjectVars
  <1>4. CASE NextAi /\ UNCHANGED <<accessVars, shopVars, contentVars, wordVars, sweepVars, review>>
    BY <1>1, <1>2, <1>3, <1>4, SubjectKept, AiStep, ContentFrame, SweepFrame, WordTick, AccessFrame,
       SaleFrame, RewardFrame DEF IInv
  <1>5. CASE NextAccess /\ UNCHANGED <<aiVars, shopVars, contentVars, wordVars, sweepVars, review>>
    BY <1>1, <1>2, <1>3, <1>5, SubjectKept, AccessStep, ContentFrame, SweepFrame, WordTick, AiFrame,
       SaleFrame, RewardFrame DEF IInv
  <1>6. CASE NextShop /\ UNCHANGED <<aiVars, accessVars, contentVars, wordVars, sweepVars, review>>
    BY <1>1, <1>2, <1>3, <1>6, SubjectKept, SaleStep, RewardStep, ContentFrame, SweepFrame, WordTick,
       AiFrame, AccessFrame DEF IInv
  <1>7. CASE NextContent /\ UNCHANGED <<aiVars, accessVars, shopVars, wordVars, sweepVars, review>>
    BY <1>1, <1>2, <1>3, <1>7, SubjectKept, ContentStep, SweepFrame, WordTick, AiFrame, AccessFrame,
       SaleFrame, RewardFrame DEF IInv
  <1>8. CASE NextWord /\ UNCHANGED <<aiVars, accessVars, shopVars, contentVars, sweepVars, review>>
    BY <1>1, <1>2, <1>3, <1>8, SubjectKept, WordStep, ContentFrame, SweepFrame, AiFrame, AccessFrame,
       SaleFrame, RewardFrame DEF IInv
  <1>9. CASE NextSweep /\ UNCHANGED <<aiVars, accessVars, shopVars, contentVars, wordVars, review>>
    BY <1>1, <1>2, <1>3, <1>9, SubjectKept, SweepStep, ContentFrame, WordTick, AiFrame, AccessFrame,
       SaleFrame, RewardFrame DEF IInv
  <1>10. CASE DryRun \/ UNCHANGED vars
    <2>1. UNCHANGED <<subjectVars, aiVars, accessVars, shopVars, contentVars, wordVars, sweepVars>>
      BY <1>10 DEF DryRun, vars
    <2> QED
      BY <1>1, <1>2, <1>3, <2>1, ContentFrame, SweepFrame, WordTick, AiFrame, AccessFrame,
         SaleFrame, RewardFrame DEF IInv
  <1>11. CASE DeleteAccount
    <2>1. UNCHANGED <<sweepVars, now>> /\ SubjectOK'
      BY <1>1, <1>11 DEF DeleteAccount, SubjectOK
    <2> QED
      BY <1>1, <1>11, <2>1, ContentDelete, SweepFrame, WordDelete, AiDelete, AccessDelete,
         SaleDelete, RewardDelete DEF IInv
  <1>12. CASE Tick
    <2>1. /\ UNCHANGED <<aiVars, accessVars, shopVars, contentVars, wordVars, deleted>>
          /\ AiMayWait /\ now' = now + 1 /\ now' \in {now, now + 1}
      BY <1>12 DEF Tick
    <2>2. SubjectOK'
      BY <1>1, <2>1 DEF SubjectOK
    <2> QED
      BY <1>1, <1>12, <2>1, <2>2, ContentFrame, SweepTick, WordTick, AiTick, AccessFrame,
         SaleFrame, RewardFrame DEF IInv
  <1> QED
    BY <1>4, <1>5, <1>6, <1>7, <1>8, <1>9, <1>10, <1>11, <1>12 DEF Next

LEMMA AccountInvariant == Spec => []IInv
  BY AccountInit, AccountStep, PTL DEF Spec

LEMMA EmptyAfterDeletion == IInv => NothingAfterDeletion
  <1>1. ASSUME AiInv, deleted PROVE \A r \in Requests : \A n \in DOMAIN receipts[r] : receipts[r][n].owner = None
    <2>1. \A r \in Requests : DOMAIN receipts[r] = 1..Len(receipts[r])
      BY <1>1 DEF AiInv
    <2> QED
      BY <1>1, <2>1 DEF AiInv
  <1>2. SaleInv /\ deleted => \A k \in Keys : order[k].url = None /\ grant[k] \in {"none", "REVOKED"}
    BY DEF SaleInv
  <1>3. AccessInv /\ deleted =>
          /\ \A s \in Webs : web[s] = None
          /\ \A d \in Bindings : android[d] = NoAndroid /\ binding[d].source = None
    BY DEF AccessInv
  <1>4. RewardInv /\ deleted => (\A t \in Tickets : ticket[t] = NoTicket) /\ rewarded = {} /\ balance = None
    BY DEF RewardInv
  <1>5. ContentInv /\ deleted =>
          /\ \A r \in Rows : candidate[r] = NoCandidate /\ entry[r] = None
          /\ bookmark = {} /\ exposed = {} /\ expression = {}
    BY DEF ContentInv
  <1>6. WordInv /\ deleted => word = None /\ \A x \in Drills : drill[x] = NoDrill
    BY DEF WordInv
  <1> QED
    BY <1>1, <1>2, <1>3, <1>4, <1>5, <1>6 DEF IInv, NothingAfterDeletion

(***************************************************************************)
(* Once the account is deleted it stays empty, whatever was under way: for *)
(* any number of sessions, orders, tickets, rows, practices and rounds     *)
(* (deleteAccount and the triggers of its migration).                      *)
(***************************************************************************)
THEOREM AccountStaysEmpty == Spec => []NothingAfterDeletion
  BY AccountInvariant, EmptyAfterDeletion, PTL

(***************************************************************************)
(* A withdrawn or unsound row reaches the account by no way, whatever      *)
(* documents brought it (ContentImportService, ContentSelectionService).   *)
(***************************************************************************)
THEOREM AccountWithdrawals == Spec => []WithdrawnIsHidden
  <1>1. IInv => WithdrawnIsHidden
    BY HiddenByContent DEF IInv
  <1> QED
    BY <1>1, AccountInvariant, PTL

(***************************************************************************)
(* Whatever sweeps overlapped, failed or died, the watermark has passed no *)
(* record that was not kept, delays up to MaxDelay covered (syncVoided).   *)
(***************************************************************************)
THEOREM AccountSweeps == Spec => []WatermarkCovers
  <1>1. IInv => WatermarkCovers
    BY DEF IInv, SweepInv
  <1> QED
    BY <1>1, AccountInvariant, PTL

(***************************************************************************)
(* A binding code, a ticket, an ad transaction, a request key and a day of *)
(* practice are honoured once (AndroidAuthService.exchange,                *)
(* AdmobRewardService.receive, BillingService.checkout,                    *)
(* VocabularyPracticeWorker.complete).                                     *)
(***************************************************************************)
THEOREM AccountHonours == Spec => []HonouredOnce
  <1>1. IInv => HonouredOnce
    BY OnceHonoured DEF IInv
  <1> QED
    BY <1>1, AccountInvariant, PTL

(***************************************************************************)
(* The free tier is asked by one round at a time, among any number of      *)
(* rounds and through any crash, as long as the insert and the call fit in *)
(* the lease (PrismaGeminiCircuit, routeAi).                               *)
(***************************************************************************)
THEOREM FreeTierAlone == Spec => []ProbeAlone
  <1>1. IInv => ProbeAlone
    BY ProbesAlone DEF IInv
  <1> QED
    BY <1>1, AccountInvariant, PTL

(***************************************************************************)
(* Every call is written down before it leaves, two at most, and a price   *)
(* covers what was counted, for all counts and prices (MeteredAiClient,    *)
(* boundedAiAttempts, paidCost).                                           *)
(***************************************************************************)
THEOREM EveryCallMetered == Spec => []CallsMetered
  <1>1. IInv => CallsMetered
    BY Metered DEF IInv
  <1> QED
    BY <1>1, AccountInvariant, PTL
=============================================================================
