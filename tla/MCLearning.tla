----------------------------- MODULE MCLearning -----------------------------
(* A learner with one grammar under review, taught by several sessions, and  *)
(* one that is new: under the V2 rule, under the old one, and taken back to  *)
(* the old one on the day of a due review.                                   *)
EXTENDS LearningProperties, TLC

Past(n, new, due, proven) ==
  [day |-> n, v2 |-> new, due |-> due, qualifies |-> proven, cross |-> FALSE, good |-> proven,
   affects |-> TRUE, clean |-> proven \/ ~new, assessed |-> TRUE, scene |-> "A"]

TwoGrammars == {1, 2}
ScenesOf == [g \in TwoGrammars |-> IF g = 1 THEN {"A", "B"} ELSE {"A"}]
LevelOf == [g \in TwoGrammars |-> "N2"]

Started(on) == <<Past(0, on, FALSE, FALSE), [Past(1, on, FALSE, FALSE) EXCEPT !.affects = ~on]>>
Account(on, status, next, later) ==
  [v2 |-> on, plan |-> status, due |-> [g \in TwoGrammars |-> IF g = 1 THEN next ELSE Never],
   events |-> [g \in TwoGrammars |-> IF g = 1 THEN later ELSE <<>>]]

UnderV2 ==
  Started(TRUE) \o <<Past(2, TRUE, TRUE, TRUE), Past(3, TRUE, TRUE, FALSE), Past(4, TRUE, TRUE, TRUE)>>
UnderTheOldRule == Started(FALSE) \o <<Past(2, FALSE, FALSE, FALSE), Past(3, FALSE, FALSE, FALSE)>>
DueToday ==
  Started(TRUE) \o <<Past(2, TRUE, TRUE, FALSE), Past(4, TRUE, TRUE, TRUE), Past(5, TRUE, TRUE, TRUE)>>

(* V2 is on, off, or was turned off today after a due review, or on again since. *)
SomeAccounts ==
  {Account(TRUE, "ACTIVE", 5, UnderV2), Account(FALSE, "ACTIVE", 5, UnderTheOldRule),
   Account(TRUE, "COMPLETED", 5, UnderV2), Account(FALSE, "NONE", 6, DueToday),
   Account(TRUE, "NONE", 6, Append(DueToday, Past(5, FALSE, FALSE, FALSE)))}

Answer(submitted, ai, taskDone) == [submitted |-> submitted, ai |-> ai, taskDone |-> taskDone]
ThreeAnswers ==
  {Answer("REMEMBERED", "GOOD", TRUE), Answer("REMEMBERED", "NONE", FALSE),
   Answer("REMEMBERED", "WRONG", FALSE)}

Symmetry == Permutations(Sessions)
=============================================================================
