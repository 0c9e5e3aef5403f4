----------------------------- MODULE JobLedger -----------------------------
(***************************************************************************)
(* What the owner of an analysis job may observe by polling it: it is      *)
(* queued, then running, then completed or failed, in that order and once; *)
(* only then may it be forgotten, and it is forgotten for good.            *)
(* JobManager implements it.                                               *)
(***************************************************************************)
CONSTANT Job

VARIABLE seen       \* seen[j]: what a poll of j answers

Finished == {"completed", "failed"}

Init == seen = [j \in Job |-> "unborn"]

\* A submission makes room by forgetting finished jobs.
Submit(j) ==
    /\ seen[j] = "unborn"
    /\ \E forgotten \in SUBSET {k \in Job : seen[k] \in Finished} :
          seen' = [k \in Job |-> IF k = j THEN "queued"
                                 ELSE IF k \in forgotten THEN "forgotten"
                                 ELSE seen[k]]

Begin(j) ==
    /\ seen[j] = "queued"
    /\ seen' = [seen EXCEPT ![j] = "running"]

Finish(j) ==
    /\ seen[j] = "running"
    /\ \E outcome \in Finished : seen' = [seen EXCEPT ![j] = outcome]

Next == \E j \in Job : Submit(j) \/ Begin(j) \/ Finish(j)

Spec == Init /\ [][Next]_seen
=============================================================================
