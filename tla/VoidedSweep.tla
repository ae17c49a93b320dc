----------------------------- MODULE VoidedSweep -----------------------------
(***************************************************************************)
(* The hourly sweep of Google's voided purchases.  A process leases the    *)
(* sweep's row for ten minutes, lists the records voided since a day       *)
(* before the watermark, page by page, keeps each one, and then moves the  *)
(* watermark, if it still holds the lease.  Google shows a record up to a  *)
(* day late, keeps records for thirty days, and may fail at any page.      *)
(***************************************************************************)
EXTENDS Subject

CONSTANTS Voids,           \* voided purchases
          Sweepers,        \* processes
          SweepLease,      \* ten minutes
          Overlap,         \* a day
          Retention,       \* thirty days
          MaxDelay         \* how late Google shows a record (an assumption)

ASSUME DelayCovered ==
  /\ {MaxDelay, Overlap, Retention, SweepLease} \subseteq Nat
  /\ MaxDelay <= Overlap /\ Overlap < Retention

VARIABLES voided,          \* Google: when each record was voided
          shown,           \* Google: the records it lists
          kept,            \* the records stored as events
          state,           \* the row of "AndroidCommerceSyncState"
          sweeper,         \* what each process is doing
          opened           \* since when the sweeps have left no hole

sweepVars == <<voided, shown, kept, state, sweeper, opened>>

Resting == [step |-> "idle", start |-> None, end |-> 0, from |-> 0, left |-> {}]
Larger(a, b) == IF a < b THEN b ELSE a
Before(t, span) == IF t < span THEN 0 ELSE t - span

InitSweep ==
  /\ voided = [v \in Voids |-> None]
  /\ shown = {} /\ kept = {}
  /\ state = [token |-> None, until |-> None, watermark |-> None]
  /\ sweeper = [w \in Sweepers |-> Resting]
  /\ opened = 0

Void(v) ==
  /\ Plays(v) /\ voided[v] = None
  /\ voided' = [voided EXCEPT ![v] = now]
  /\ UNCHANGED <<shown, kept, state, sweeper, opened, subjectVars>>

Show(v) ==
  /\ voided[v] # None /\ v \notin shown
  /\ shown' = shown \cup {v}
  /\ UNCHANGED <<voided, kept, state, sweeper, opened, subjectVars>>

(***************************************************************************)
(* What Google lists between two moments: nothing it no longer keeps.      *)
(***************************************************************************)
Oldest(start) == Larger(IF start = None THEN 0 ELSE start, Before(now, Retention))
Listed(start, end) == {v \in shown : voided[v] \in Oldest(start)..end}

Holds(w) == state.token = w /\ Lasts(state.until)

GapTooLong(end) == state.watermark # None /\ state.watermark + Retention < end

\* (mutant WindowFromWatermark: no overlap)
WindowFromWatermark(end) ==
  IF state.watermark # None /\ state.watermark + Retention > end THEN state.watermark ELSE None

WindowStart(end) ==
  IF state.watermark # None /\ state.watermark + Retention > end + Overlap
  THEN Before(state.watermark, Overlap) ELSE None

Claim(w) ==
  /\ Plays(w) /\ sweeper[w] = Resting
  /\ ~Lasts(state.until)
  /\ state' = [state EXCEPT !.token = w, !.until = now + SweepLease]
  /\ sweeper' = [sweeper EXCEPT ![w].step = "claimed"]
  /\ UNCHANGED <<voided, shown, kept, opened, subjectVars>>

FreesLease == state' = [state EXCEPT !.token = None, !.until = None]

(***************************************************************************)
(* The row is read again after the claim; a watermark older than what      *)
(* Google keeps stops the sweep for good.                                  *)
(***************************************************************************)
Read(w) ==
  /\ sweeper[w].step = "claimed"
  /\ IF GapTooLong(now)
     THEN sweeper' = [sweeper EXCEPT ![w] = [Resting EXCEPT !.step = "failed"]]
     ELSE sweeper' = [sweeper EXCEPT ![w] = [Resting EXCEPT !.step = "opening", !.start = WindowStart(now),
                                               !.end = now]]
  /\ UNCHANGED <<voided, shown, kept, state, opened, subjectVars>>

(***************************************************************************)
(* One page: the fence, Google's answer, and every record of it kept.  The *)
(* listing is Google's as of the first page.                               *)
(***************************************************************************)
Paging(w) == sweeper[w].step \in {"opening", "pages"}
Remaining(w) ==
  IF sweeper[w].step = "opening" THEN Listed(sweeper[w].start, sweeper[w].end) ELSE sweeper[w].left
From(w) == IF sweeper[w].step = "opening" THEN Oldest(sweeper[w].start) ELSE sweeper[w].from

Page(w) ==
  /\ Paging(w) /\ Holds(w)
  /\ \E records \in SUBSET Remaining(w) :
       /\ Remaining(w) # {} => records # {}
       /\ kept' = kept \cup records
       /\ sweeper' = [sweeper EXCEPT ![w].left = Remaining(w) \ records, ![w].from = From(w),
                                     ![w].step = IF Remaining(w) = records THEN "closing" ELSE "pages"]
  /\ UNCHANGED <<voided, shown, state, opened, subjectVars>>

Fenced(w) ==
  /\ Paging(w) /\ ~Holds(w)
  /\ sweeper' = [sweeper EXCEPT ![w] = Resting]
  /\ UNCHANGED <<voided, shown, kept, state, opened, subjectVars>>

(***************************************************************************)
(* Google fails, sends a page twice, or a record cannot be stored.         *)
(***************************************************************************)
Fails(w) ==
  /\ Paging(w)
  /\ \E records \in SUBSET Remaining(w) : kept' = kept \cup records
  /\ sweeper' = [sweeper EXCEPT ![w] = [Resting EXCEPT !.step = "failed"]]
  /\ UNCHANGED <<voided, shown, state, opened, subjectVars>>

GivesUp(w) ==
  /\ sweeper[w].step = "failed"
  /\ sweeper' = [sweeper EXCEPT ![w] = Resting]
  /\ IF Holds(w) THEN FreesLease ELSE UNCHANGED state
  /\ UNCHANGED <<voided, shown, kept, opened, subjectVars>>

Closes(w) ==
  /\ sweeper[w].step = "closing"
  /\ sweeper' = [sweeper EXCEPT ![w] = Resting]
  /\ IF Holds(w)
     THEN /\ state' = [token |-> None, until |-> None, watermark |-> sweeper[w].end]
          /\ opened' = IF sweeper[w].from = sweeper[w].start THEN opened
                       ELSE Larger(opened, sweeper[w].from)
     ELSE UNCHANGED <<state, opened>>
  /\ UNCHANGED <<voided, shown, kept, subjectVars>>

SweeperDies(w) ==
  /\ sweeper[w] # Resting
  /\ sweeper' = [sweeper EXCEPT ![w] = Resting]
  /\ UNCHANGED <<voided, shown, kept, state, opened, subjectVars>>

Awaited == {v \in Voids : voided[v] # None} \ shown

GoogleMayWait == \A v \in Awaited : now < voided[v] + MaxDelay

NextSweep ==
  \/ \E v \in Voids : Void(v) \/ Show(v)
  \/ \E w \in Sweepers : Claim(w) \/ Read(w) \/ Page(w) \/ Fenced(w) \/ Fails(w) \/ GivesUp(w)
                         \/ Closes(w) \/ SweeperDies(w)
==============================================================================
