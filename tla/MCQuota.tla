------------------------------ MODULE MCQuota ------------------------------
(* Small instances of Quota.  Zone "east" has a midnight every Day instants. *)
(* Zone "west" runs Shift behind it and changes its clocks: one of its days  *)
(* is an instant short and the next one an instant long, as around a         *)
(* daylight-saving change.                                                   *)
EXTENDS QuotaProperties, TLC

CONSTANTS Day, Shift

Midnights(z) ==
  LET regular == {n * Day : n \in 0..(Horizon + 2)}
  IN  IF z = "east" THEN regular
      ELSE {IF m = 2 * Day THEN m + Shift - 1 ELSE m + Shift : m \in regular}

Calendar ==
  [z \in Timezones |->
     [t \in 0..Horizon |->
        CHOOSE m \in Midnights(z) : m > t /\ \A n \in Midnights(z) : n > t => m <= n]]

\* Of the ledger instance, where all tasks are alike.
LedgerSymmetry == Permutations(Keys) \cup Permutations(Tasks)
=============================================================================
