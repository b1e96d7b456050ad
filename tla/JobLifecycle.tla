---------------------------- MODULE JobLifecycle ----------------------------
(***************************************************************************)
(* What the pipeline promises of a whole job: the sub-jobs move along the  *)
(* edges of SubJobLifecycle and the parent is recomputed in the same step  *)
(* (docs/business-rules.md, sections 2 and 3), so that a reader of both    *)
(* tables never sees one without the other.                                *)
(***************************************************************************)
EXTENDS StatusRollup

CONSTANTS SubJobs, GatedSubJobs, Skipped
VARIABLES status, parent

SubJob == INSTANCE SubJobLifecycle

Init ==
  /\ SubJob!Init
  /\ parent = "PENDING"

\* The first task of the job is dispatched or starts.
Begin ==
  /\ parent = "PENDING"
  /\ parent' = "PROCESSING"
  /\ status' = status \/ SubJob!Next

\* Tasks start: the parent was told before.
Start ==
  /\ \A s \in SubJobs : SubJob!Start(s) \/ status'[s] = status[s]
  /\ SubJob!Next
  /\ parent' = parent

\* Sub-jobs succeed, await review or end, and the parent follows.
Progress ==
  /\ \A s \in SubJobs : SubJob!Succeed(s) \/ SubJob!Approve(s) \/ SubJob!GiveUp(s)
                          \/ status'[s] = status[s]
  /\ SubJob!Next
  /\ parent' = Rollup(status', {}).status

\* A retry reopens the parent if it was closed.
Retry ==
  /\ \A s \in SubJobs : SubJob!Retry(s) \/ status'[s] = status[s]
  /\ SubJob!Next
  /\ parent' = IF parent \in TERMINAL_STATUSES THEN "PROCESSING" ELSE parent

Next == Begin \/ Start \/ Progress \/ Retry

Spec == Init /\ [][Next]_<<status, parent>>
=============================================================================
