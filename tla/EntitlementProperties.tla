----------------------- MODULE EntitlementProperties -----------------------
(* What the timeline of grants promises.                                    *)
EXTENDS Entitlement

\* Membership ends when everything that is in effect has been consumed, no sooner and
\* no later: the grants follow each other from now on without a gap, behind which
\* purchased time would be out of reach, and without an overlap, in which it would be
\* consumed twice (entitlement.service.ts:82-89 against 116-126 and 184-204).
ExpiresAfterAll ==
  /\ TypeOK
  /\ LET left == [s \in Unfinished(grant) |-> Remaining(grant[s])]
     IN MemberUntil(grant) = clock + MapThenSumSet(LAMBDA s : left[s], DOMAIN left)

\* No order gains or loses purchased time, through any order of suspensions, restorations
\* and moves: what was used and what remains add up to the duration, but for the
\* fraction of a second a suspension rounds up ("Dispute won restores source without
\* duplicating time", docs/contracts/sentence-lab-v1.md:13).
TimeConserved ==
  \A s \in Sources : grant[s].status \in {"ACTIVE", "SUSPENDED"} =>
    LET account == used[s] + Remaining(grant[s])
    IN Duration(s) <= account /\ account <= Duration(s) + suspensions[s] * (Second - 1)
=============================================================================
