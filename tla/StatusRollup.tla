---------------------------- MODULE StatusRollup ----------------------------
(***************************************************************************)
(* The parent-status rollup (app/services/status_rollup.py) and the        *)
(* counting recompute_parent_status performs before calling it             *)
(* (app/services/generation_service.py).  Pure operators; every module     *)
(* that writes a jobs row goes through them, as every service does.        *)
(***************************************************************************)
EXTENDS Integers, FiniteSets

JobStatus == {"PENDING", "PROCESSING", "COMPLETED", "PARTIAL_SUCCESS", "FAILED"}

\* MATTING is a value of the enum that no code assigns.
SubJobStatus == {"PENDING", "MATTING", "GENERATING", "QA_REVIEW", "COMPLETED",
                 "FAILED", "REJECTED", "SKIPPED"}

TERMINAL_STATUSES == {"COMPLETED", "PARTIAL_SUCCESS", "FAILED"}

\* Mutant: the failures are left out of the count of what has ended.
parent_status_of_successes(requested, succeeded, failed) ==
  IF succeeded < requested THEN "PROCESSING" ELSE "COMPLETED"

compute_parent_status(requested, succeeded, failed) ==
  IF succeeded + failed < requested THEN "PROCESSING"
  ELSE IF succeeded = requested THEN "COMPLETED"
  ELSE IF failed = requested THEN "FAILED"
  ELSE "PARTIAL_SUCCESS"

-----------------------------------------------------------------------------
(***************************************************************************)
(* status maps each sub-job to its status.  steps is the set of angle-less *)
(* sub-jobs of a GENERATE_WITH_CLEANUP job ({} for any other operation):   *)
(* they count only while they are all the job has.                         *)
(***************************************************************************)
Counted(status, steps) ==
  LET live == {s \in DOMAIN status : status[s] # "SKIPPED"}
  IN  IF live \ steps # {} THEN live \ steps ELSE live

Succeeded(status, steps) == {s \in Counted(status, steps) : status[s] = "COMPLETED"}

Failed(status, steps) ==
  {s \in Counted(status, steps) : status[s] \in {"FAILED", "REJECTED"}}

\* The columns of the jobs row that a recompute assigns.
Rollup(status, steps) ==
  LET requested == Cardinality(Counted(status, steps))
      succeeded == Cardinality(Succeeded(status, steps))
      failed    == Cardinality(Failed(status, steps))
      parent    == compute_parent_status(requested, succeeded, failed)
  IN  [status    |-> parent,
       succeeded |-> succeeded,
       failed    |-> failed,
       completed |-> parent \in TERMINAL_STATUSES]

JobRow == [status : JobStatus, succeeded : Nat, failed : Nat, completed : BOOLEAN]
=============================================================================
