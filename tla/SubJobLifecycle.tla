--------------------------- MODULE SubJobLifecycle ---------------------------
(***************************************************************************)
(* What the pipeline promises of a sub-job: the state machine of section 2 *)
(* of docs/business-rules.md with the retry of section 5, as an abstract   *)
(* specification.  One step may move several sub-jobs (a fan-out retry, a  *)
(* sweep), each along an edge of the machine.                              *)
(***************************************************************************)
CONSTANTS SubJobs, GatedSubJobs, Skipped

VARIABLE status

Unfinished == {"PENDING", "GENERATING", "QA_REVIEW"}

\* A task starts, and with it the one legal way into GENERATING.
Start(s) == status[s] = "PENDING" /\ status'[s] = "GENERATING"

\* A generation succeeds: behind the gate it awaits review.
Succeed(s) ==
  /\ status[s] = "GENERATING"
  /\ status'[s] = IF s \in GatedSubJobs THEN "QA_REVIEW" ELSE "COMPLETED"

Approve(s) == status[s] = "QA_REVIEW" /\ status'[s] = "COMPLETED"

GiveUp(s) == status[s] \in Unfinished /\ status'[s] \in {"FAILED", "REJECTED"}

\* The only way back, through the retry endpoint.
Retry(s) == status[s] = "FAILED" /\ status'[s] = "PENDING"

Edge(s) == Start(s) \/ Succeed(s) \/ Approve(s) \/ GiveUp(s) \/ Retry(s)

\* A skipped sub-job is created so, and no edge leaves SKIPPED.
Init == status = [s \in SubJobs |-> IF s \in Skipped THEN "SKIPPED" ELSE "PENDING"]

Next ==
  /\ \A s \in SubJobs : Edge(s) \/ status'[s] = status[s]
  /\ status' = [s \in SubJobs |-> status'[s]]

Spec == Init /\ [][Next]_status
=============================================================================
