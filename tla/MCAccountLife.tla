---------------------------- MODULE MCAccountLife ----------------------------
EXTENDS AccountLifeProperties, TLC

CONSTANTS r1, r2, w1, w2, d1, c1, c2, t1, t2, e1, e2, v1, v2, p1, p2, a, b, c, g1, g2

Together == {{r1, r2, "clock"}, {r1, "operator", "clock"}, {r2, "operator", "clock"},
             {w1, w2, d1, "operator", "clock"},
             {c1, c2, "operator", "clock"}, {t1, t2, e1, e2, "operator", "clock"},
             {c1, t1, e1, "clock"},
             {"reader", "operator"}, {"writer", "operator"},
             {v1, p1, p2, "clock"}, {v1, v2, p1, "clock"},
             {g1, g2, "learner", "clock"}, {g1, g2, "learner", "operator"}}
ProviderOrders == {<<"GEMINI", "DEEPSEEK">>, <<"GEMINI">>, <<>>}
SomeDocuments == {{a, b}, {b, c}}
SomeKept == {[review |-> 1, variant |-> "ORIGINAL", savable |-> TRUE],
             [review |-> 1, variant |-> "ALTERNATIVE", savable |-> FALSE]}
SomeUsages == {[in |-> 2, out |-> 1, think |-> 1, cached |-> 1, total |-> 4]}
SomeRates == [p \in Providers |->
  IF p = "GEMINI" THEN {[input |-> 10, cached |-> 1, output |-> 60]}
                  ELSE {[input |-> 3, cached |-> 1, output |-> 12]}]
SomeAssessments ==
  {[used |-> FALSE, target |-> "unsure", meaning |-> "unsure"],
   [used |-> TRUE, target |-> "right", meaning |-> "right"],
   [used |-> TRUE, target |-> "right", meaning |-> "wrong"]}
PracticesAlike == Permutations({g1, g2})
==============================================================================
