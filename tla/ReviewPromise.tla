--------------------------- MODULE ReviewPromise ---------------------------
(* What a learner is promised about a sentence review, whatever happens to  *)
(* the workers: a request in flight ends in exactly one result and one      *)
(* charge, or in a failure that costs nothing and may be asked again.       *)
EXTENDS Naturals

CONSTANT Jobs

VARIABLES
  request,   \* NONE, WAITING, REVIEWED or REFUSED
  reviewed,  \* results stored for the job
  charged    \* reviews charged to the task for the job

promise == <<request, reviewed, charged>>

PromiseInit ==
  /\ request = [j \in Jobs |-> "NONE"]
  /\ reviewed = [j \in Jobs |-> 0]
  /\ charged = [j \in Jobs |-> 0]

Ask(j) ==
  /\ request[j] \in {"NONE", "REFUSED"}
  /\ request' = [request EXCEPT ![j] = "WAITING"]
  /\ UNCHANGED <<reviewed, charged>>

Answer(j) ==
  /\ request[j] = "WAITING"
  /\ request' = [request EXCEPT ![j] = "REVIEWED"]
  /\ reviewed' = [reviewed EXCEPT ![j] = 1]
  /\ charged' = [charged EXCEPT ![j] = 1]

Refuse(j) ==
  /\ request[j] = "WAITING"
  /\ request' = [request EXCEPT ![j] = "REFUSED"]
  /\ UNCHANGED <<reviewed, charged>>

PromiseNext == \E j \in Jobs : Ask(j) \/ Answer(j) \/ Refuse(j)

PromiseSpec == PromiseInit /\ [][PromiseNext]_promise
=============================================================================
