--------------------------- MODULE MCEntitlement ---------------------------
(* Small instances of the timeline of grants: one order of two seconds, the *)
(* others of one, and a gift of two.                                        *)
EXTENDS EntitlementProperties, TLC

CONSTANT o1

MCDuration == (Gift :> 2) @@ [o \in Orders |-> IF o = o1 THEN 2 ELSE 1]

\* Orders of the same duration are interchangeable.
OrderSymmetry == Permutations(Orders \ {o1})
=============================================================================
