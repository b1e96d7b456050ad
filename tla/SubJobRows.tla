---------------------------- MODULE SubJobRows ----------------------------
(***************************************************************************)
(* The rows of the jobs and sub_jobs tables as every module of the         *)
(* pipeline sees them: their columns, what an UPDATE of the ORM writes of  *)
(* a changed object, and what the attempt loop, a timeout and a retry make *)
(* of a row.  Pure operators.                                              *)
(***************************************************************************)
EXTENDS StatusRollup

CONSTANT MaxAttempts   \* MAX_ATTEMPTS and MAX_RETRY_ATTEMPTS, both 3 in the code

ASSUME AttemptsAssumption == MaxAttempts \in Nat \ {0}

\* TRANSIENT stands for RATE_LIMITED, TRANSIENT_PROVIDER and TRANSIENT_NETWORK,
\* the classes of _RETRYABLE_CLASSES, which the code treats alike.
FailureClass == {"NONE", "TRANSIENT", "SAFETY_REFUSAL", "QA_REJECTED", "INTERNAL"}
QAStatus == {"NOT_APPLICABLE", "PASSED", "FLAGGED", "FAILED"}

SubJobRow == [status : SubJobStatus, attempts : 0..MaxAttempts,
              failure : FailureClass, qa : QAStatus]

NewSubJob == [status |-> "PENDING", attempts |-> 0,
              failure |-> "NONE", qa |-> "NOT_APPLICABLE"]
NewJob == [status |-> "PENDING", succeeded |-> 0, failed |-> 0, completed |-> FALSE]

STUCK_STATUSES == {"PENDING", "GENERATING"}

-----------------------------------------------------------------------------
(* SQLAlchemy's unit of work.                                              *)

\* Only an attribute whose value differs from the one loaded is in the UPDATE.
Dirty(stored, old, new) == IF new # old THEN new ELSE stored

WrittenRow(stored, old, new) ==
  [status   |-> Dirty(stored.status, old.status, new.status),
   attempts |-> Dirty(stored.attempts, old.attempts, new.attempts),
   failure  |-> Dirty(stored.failure, old.failure, new.failure),
   qa       |-> Dirty(stored.qa, old.qa, new.qa)]

WrittenJob(stored, old, new) ==
  [status    |-> Dirty(stored.status, old.status, new.status),
   succeeded |-> Dirty(stored.succeeded, old.succeeded, new.succeeded),
   failed    |-> Dirty(stored.failed, old.failed, new.failed),
   completed |-> Dirty(stored.completed, old.completed, new.completed)]

\* The row after a recompute: a fresh completed_at differs from any loaded one.
RecomputedJob(stored, old, new) ==
  [WrittenJob(stored, old, new) EXCEPT !.completed = new.completed \/ @]

-----------------------------------------------------------------------------
(* What becomes of a row.                                                  *)

fail(row, class) ==
  [row EXCEPT !.failure = class,
              !.status = IF class = "SAFETY_REFUSAL" THEN "REJECTED" ELSE "FAILED"]

\* Mutant: a transient error gives up before the attempts are spent.
attempt_loop_gives_up(row, success) ==
  {[row EXCEPT !.attempts = @ + 1, !.status = success],
   fail([row EXCEPT !.attempts = @ + 1], "TRANSIENT")}

\* Mutant: the loop condition admits one attempt too many.
attempt_loop_off_by_one(row, success) ==
  {[row EXCEPT !.attempts = n, !.status = success] : n \in (row.attempts + 1)..(MaxAttempts + 1)}

(***************************************************************************)
(* What the attempt loop makes of a row: success after any attempt left,   *)
(* TRANSIENT only once every attempt is spent, a refusal or an             *)
(* unclassified provider error at once.  A success keeps the old failure.  *)
(***************************************************************************)
attempt_outcomes(row, success) ==
  {[row EXCEPT !.status = success], fail(row, "SAFETY_REFUSAL"), fail(row, "INTERNAL")}

attempt_loop(row, success) ==
  LET after(n) == [row EXCEPT !.attempts = n]
  IN  (UNION {attempt_outcomes(after(n), success) : n \in (row.attempts + 1)..MaxAttempts})
        \union {fail(after(MaxAttempts), "TRANSIENT")}

\* Mutant: the class of the failure is not recorded.
MarkFailed_without_class(row) == [row EXCEPT !.status = "FAILED"]

MarkFailed(row) == [row EXCEPT !.status = "FAILED", !.failure = "INTERNAL"]

\* Mutant: only the ceiling is checked.
check_retry_ceiling_only(row) == row.attempts < MaxAttempts

\* An input asset that has expired refuses the request too: a request that is
\* refused changes nothing, and any request may be.
check_retry_preconditions(row) == row.status = "FAILED" /\ row.attempts < MaxAttempts
=============================================================================
