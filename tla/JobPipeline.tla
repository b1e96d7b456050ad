----------------------------- MODULE JobPipeline -----------------------------
(***************************************************************************)
(* One job of the API: its jobs row, its sub_jobs rows, the Celery queue,  *)
(* and the database sessions that read and write those rows concurrently:  *)
(* worker tasks (fan-out, the provider call, QA scoring, the beat sweep)   *)
(* and API handlers (retry, QA retry, the human QA decision, re-score).    *)
(*                                                                         *)
(* A session is the unit of interleaving.  It loads rows, holds them while *)
(* it waits on Redis, the provider or the judge, flushes its sub-job       *)
(* writes (taking their row locks) and reads the siblings, and commits.    *)
(* SQLAlchemy writes only the attributes whose value differs from the one  *)
(* loaded; no UPDATE of the code has the old status in its WHERE clause.   *)
(* Messages are published after the commit.                                *)
(***************************************************************************)
EXTENDS SubJobRows

CONSTANTS
  SubJobs,       \* the job's sub-jobs
  Operation,     \* the job's operation
  Synthetic,     \* sub-jobs of an angle job that have no source photo
  Skipped,       \* sub-jobs of an angle job that the client asked to skip
  Workers,       \* worker processes (or threads) of the Celery pool
  Handlers,      \* API requests in flight at a time
  Environment,   \* the optional activities an instance includes
  QaPassOnProviderError,  \* the setting QA_PASS_ON_PROVIDER_ERROR
  MaxQueued,     \* bound: equal messages in the queue at a time
  MaxFaults      \* bound: crashes and unclassified exceptions

FanOutOperations == {"ANGLE_GENERATION", "MATCH"}
BackgroundOperations == {"BACKGROUND_REMOVAL", "BACKGROUND_REPLACEMENT"}
Operations == FanOutOperations \union BackgroundOperations \union {"RECOLOR", "MIX"}
Activities == {"sweep", "timeout", "retry", "qa_retry", "decide", "rescore"}

ASSUME SubJobsAssumption == SubJobs # {} /\ IsFiniteSet(SubJobs)
ASSUME OperationAssumption ==
  /\ Operation \in Operations
  /\ Operation \notin FanOutOperations => Cardinality(SubJobs) = 1
  /\ Synthetic \subseteq SubJobs
  /\ Skipped \subseteq SubJobs \ Synthetic /\ Skipped # SubJobs
  /\ Operation # "ANGLE_GENERATION" => Synthetic = {} /\ Skipped = {}
ASSUME SessionsAssumption == Workers \intersect Handlers = {}
ASSUME EnvironmentAssumption == Environment \subseteq Activities
ASSUME SettingsAssumption == QaPassOnProviderError \in BOOLEAN
ASSUME BoundsAssumption ==
  /\ MaxQueued \in Nat \ {0}
  /\ MaxFaults \in Nat

VARIABLES
  sub,      \* the sub_jobs rows
  job,      \* the jobs row
  queue,    \* how many copies of each message the broker holds
  fan_out,  \* whether the broker holds the job's orchestration.fan_out message
  session,  \* the open session of each worker and handler
  faults,   \* faults so far
  overtaken \* history, read by no action: the sub-jobs that a task which had
            \* already committed failed by its late timeout

vars == <<sub, job, queue, fan_out, session, faults, overtaken>>

-----------------------------------------------------------------------------
(* Rows, messages and sessions.                                            *)

Sessions == Workers \union Handlers

Task == [kind : {"generate", "score"}, sub : SubJobs]
GenerateTask(s) == [kind |-> "generate", sub |-> s]
ScoreTask(s) == [kind |-> "score", sub |-> s]

Rows == UNION {[D -> SubJobRow] : D \in SUBSET SubJobs}
NoRows == [s \in {} |-> NewSubJob]

(***************************************************************************)
(* loaded and job hold the rows as the session read them, next and nextJob *)
(* the values it will write; todo the messages to publish after commit.    *)
(*   loaded   waiting on Redis, the provider, the judge or another query   *)
(*   flushed  UPDATE sent and locks held, COMMIT not yet                   *)
(*   publish  committed, messages of todo not yet published                *)
(***************************************************************************)
SessionKind == {"none", "fan_out", "start", "generate", "score", "timeout",
                "sweep", "retry", "qa_retry", "decide", "rescore"}

Session == [pc : {"idle", "loaded", "flushed", "publish"}, kind : SessionKind,
            loaded : Rows, next : Rows, job : JobRow, nextJob : JobRow,
            todo : SUBSET Task]

Idle == [pc |-> "idle", kind |-> "none", loaded |-> NoRows, next |-> NoRows,
         job |-> NewJob, nextJob |-> NewJob, todo |-> {}]

IsIdle(x) == session[x].pc = "idle"
At(x, pc, kinds) == session[x].pc = pc /\ session[x].kind \in kinds

\* Sub-jobs whose row lock a session other than x holds.
LockedByOthers(x) ==
  UNION {DOMAIN session[y].next : y \in {z \in Sessions \ {x} : session[z].pc = "flushed"}}

\* Success of the sub-job lands in QA_REVIEW rather than COMPLETED.
Gated(s) == s \in Synthetic \/ Operation \in BackgroundOperations
-----------------------------------------------------------------------------

(* Reading and writing through the ORM.                                    *)

\* A session of the given kind that has just read the rows of S and the job.
Begin(kind, S) ==
  [Idle EXCEPT !.pc = "loaded", !.kind = kind, !.loaded = [s \in S |-> sub[s]],
               !.job = job, !.nextJob = job]

\* Session x stores the rows of next.
WriteRows(x, next) ==
  sub' = [s \in SubJobs |-> IF s \in DOMAIN next
                            THEN WrittenRow(sub[s], session[x].loaded[s], next[s])
                            ELSE sub[s]]

Close(x, todo) ==
  session' = [session EXCEPT ![x] =
                IF todo = {} THEN Idle
                ELSE [Idle EXCEPT !.pc = "publish", !.kind = session[x].kind,
                                  !.todo = todo]]

(***************************************************************************)
(* The statuses get_sub_jobs returns inside session x: its own pending     *)
(* values, then any row it already holds (the identity map does not        *)
(* refresh), and the committed value of every other row.                   *)
(***************************************************************************)
Visible(x, next) ==
  [s \in SubJobs |->
     IF s \in DOMAIN next THEN next[s].status
     ELSE IF s \in DOMAIN session[x].loaded THEN session[x].loaded[s].status
     ELSE sub[s].status]

\* Mutant: the recompute reads the siblings without the session's own writes.
recompute_before_flush(x, next) == Rollup(Visible(x, NoRows), {})

recompute_parent_status(x, next) == Rollup(Visible(x, next), {})

\* The UPDATE of the sub-job rows goes out and waits for their locks.
Flush(x, next, nextJob) ==
  /\ DOMAIN next \intersect LockedByOthers(x) = {}
  /\ session' = [session EXCEPT ![x] =
       [@ EXCEPT !.pc = "flushed", !.next = next, !.nextJob = nextJob]]
  /\ UNCHANGED <<sub, job, queue, fan_out, faults, overtaken>>
-----------------------------------------------------------------------------
(* Dispatch and start of a worker task.                                    *)

\* orchestration.fan_out_job: the job leaves PENDING, its PENDING sub-jobs
\* are listed for dispatch.
dispatch_job(w) ==
  /\ fan_out
  /\ IsIdle(w)
  /\ fan_out' = FALSE
  /\ session' = [session EXCEPT ![w] =
       [Begin("fan_out", {}) EXCEPT
          !.nextJob = IF job.status = "PENDING" THEN [job EXCEPT !.status = "PROCESSING"]
                      ELSE job,
          !.todo = {GenerateTask(s) : s \in {t \in SubJobs : sub[t].status = "PENDING"}}]]
  /\ UNCHANGED <<sub, job, queue, faults, overtaken>>

Receive(t) ==
  /\ queue[t] > 0
  /\ queue' = [queue EXCEPT ![t] = @ - 1]

\* A task loads its rows and sets GENERATING, whatever the status it read;
\* every operation but the angle one also moves the job out of PENDING.
start_task(w, s) ==
  /\ IsIdle(w)
  /\ Receive(GenerateTask(s))
  /\ session' = [session EXCEPT ![w] =
       [Begin("start", {s}) EXCEPT
          !.next = [t \in {s} |-> [sub[t] EXCEPT !.status = "GENERATING"]],
          !.nextJob = IF Operation # "ANGLE_GENERATION" /\ job.status = "PENDING"
                      THEN [job EXCEPT !.status = "PROCESSING"] ELSE job]]
  /\ UNCHANGED <<sub, job, fan_out, faults, overtaken>>

\* Commit without a recompute: flush, row locks and COMMIT in one go.
CommitLoaded(x) ==
  /\ At(x, "loaded", {"fan_out", "start", "retry", "qa_retry"})
  /\ DOMAIN session[x].next \intersect LockedByOthers(x) = {}
  /\ WriteRows(x, session[x].next)
  /\ job' = WrittenJob(job, session[x].job, session[x].nextJob)
  /\ IF session[x].kind = "start"
     THEN session' = [session EXCEPT ![x] =
            [@ EXCEPT !.kind = "generate", !.loaded = session[x].next, !.next = NoRows,
                      !.job = session[x].nextJob]]
     ELSE Close(x, session[x].todo)
  /\ UNCHANGED <<queue, fan_out, faults, overtaken>>

\* One message of a committed session reaches the broker.
Publish(x, t) ==
  /\ session[x].pc = "publish"
  /\ t \in session[x].todo
  /\ queue[t] < MaxQueued
  /\ queue' = [queue EXCEPT ![t] = @ + 1]
  /\ Close(x, session[x].todo \ {t})
  /\ UNCHANGED <<sub, job, fan_out, faults, overtaken>>
-----------------------------------------------------------------------------
(* The provider call.                                                      *)

\* Mutants: the QA gate of the operation is skipped, or one is added to it.
background_process_ungated(row) == attempt_loop(row, "COMPLETED")
process_gated(row) == attempt_loop(row, "QA_REVIEW")

transform_photo(s, row) ==
  attempt_loop(row, IF s \in Synthetic THEN "QA_REVIEW" ELSE "COMPLETED")
background_process(row) == attempt_loop(row, "QA_REVIEW")
match_process(row) == attempt_loop(row, "COMPLETED")
recolor_process(row) == attempt_loop(row, "COMPLETED")
mix_process(row) == attempt_loop(row, "COMPLETED")

process(s, row) ==
  CASE Operation = "ANGLE_GENERATION"       -> transform_photo(s, row)
    [] Operation \in BackgroundOperations   -> background_process(row)
    [] Operation = "MATCH"                  -> match_process(row)
    [] Operation = "RECOLOR"                -> recolor_process(row)
    [] Operation = "MIX"                    -> mix_process(row)

\* The task has its result: it flushes the sub-job and recomputes the parent.
finish_task(w, s) ==
  /\ At(w, "loaded", {"generate"})
  /\ s \in DOMAIN session[w].loaded
  /\ session[w].loaded[s].attempts < MaxAttempts
  /\ \E row \in process(s, session[w].loaded[s]) :
       LET next == [t \in {s} |-> row]
       IN  Flush(w, next, recompute_parent_status(w, next))

\* No attempt is left on entry: the loop body never runs and the assertion
\* last_error is not None fails; the row stays GENERATING.
assertion_fails(w, s) ==
  /\ At(w, "loaded", {"generate"})
  /\ s \in DOMAIN session[w].loaded
  /\ session[w].loaded[s].attempts >= MaxAttempts
  /\ session' = [session EXCEPT ![w] = Idle]
  /\ UNCHANGED <<sub, job, queue, fan_out, faults, overtaken>>

\* A generation that has committed: it holds its connections still open, and
\* the scorings it is to dispatch once they are closed.
Committed(x, todo) ==
  [Idle EXCEPT !.pc = "publish", !.kind = "generate", !.loaded = session[x].next,
               !.todo = todo]

\* Mutant: the scoring is never dispatched.
CommitFlushed_without_scoring(x) ==
  /\ session[x].pc = "flushed"
  /\ WriteRows(x, session[x].next)
  /\ job' = RecomputedJob(job, session[x].job, session[x].nextJob)
  /\ session' = [session EXCEPT ![x] =
       IF session[x].kind = "generate" THEN Committed(x, {}) ELSE Idle]
  /\ UNCHANGED <<queue, fan_out, faults, overtaken>>

\* COMMIT of a recomputing session; a generation that landed in QA_REVIEW
\* goes on to dispatch its scoring.
CommitFlushed(x) ==
  /\ session[x].pc = "flushed"
  /\ WriteRows(x, session[x].next)
  /\ job' = RecomputedJob(job, session[x].job, session[x].nextJob)
  /\ session' = [session EXCEPT ![x] =
       IF session[x].kind = "generate"
       THEN Committed(x, {ScoreTask(s) : s \in {t \in DOMAIN session[x].next :
                                                 session[x].next[t].status = "QA_REVIEW"}})
       ELSE Idle]
  /\ UNCHANGED <<queue, fan_out, faults, overtaken>>

\* The session, Redis and the engine are closed in time, with nothing to publish.
connections_closed(w) ==
  /\ At(w, "publish", {"generate"})
  /\ session[w].todo = {}
  /\ session' = [session EXCEPT ![w] = Idle]
  /\ UNCHANGED <<sub, job, queue, fan_out, faults, overtaken>>
-----------------------------------------------------------------------------
(* Timeouts, the sweep and faults.                                         *)

(***************************************************************************)
(* WORKER_TASK_TIMEOUT_SECONDS elapsed: the task's transaction is rolled   *)
(* back and a fresh session reads the row; anything but PENDING or         *)
(* GENERATING is left alone.  The limit covers the closing of the          *)
(* connections as well: after the COMMIT it discards the scoring still to  *)
(* be dispatched, and the row it then fails is no longer the task's own,   *)
(* a retry has reset it in the meantime.                                   *)
(***************************************************************************)
mark_sub_job_timed_out(w, s) ==
  /\ "timeout" \in Environment
  /\ \/ At(w, "loaded", {"start", "generate"})
     \/ At(w, "flushed", {"generate"})
     \/ At(w, "publish", {"generate"})
  /\ s \in DOMAIN session[w].loaded
  /\ session' = [session EXCEPT ![w] =
       IF sub[s].status \in STUCK_STATUSES
       THEN [Begin("timeout", {s}) EXCEPT !.next = [t \in {s} |-> MarkFailed(sub[t])]]
       ELSE Idle]
  /\ overtaken' = IF session[w].pc = "publish" /\ sub[s].status \in STUCK_STATUSES
                  THEN overtaken \union {s} ELSE overtaken
  /\ UNCHANGED <<sub, job, queue, fan_out, faults>>

\* Mutant: the sweep takes only GENERATING rows for stuck.
reconcile_generating_only(w, stale) ==
  /\ "sweep" \in Environment
  /\ IsIdle(w)
  /\ LET candidates == {s \in SubJobs : sub[s].status = "GENERATING"}
     IN  /\ stale # {} /\ stale \subseteq candidates
         /\ session' = [session EXCEPT ![w] =
              [Begin("sweep", candidates) EXCEPT
                 !.next = [s \in stale |-> MarkFailed(sub[s])]]]
  /\ UNCHANGED <<sub, job, queue, fan_out, faults, overtaken>>

\* The beat sweep reads every PENDING or GENERATING row and fails those of
\* stale, the ones without an event in RECONCILIATION_STALE_AFTER_SECONDS.
reconcile_stuck_sub_jobs(w, stale) ==
  /\ "sweep" \in Environment
  /\ IsIdle(w)
  /\ LET candidates == {s \in SubJobs : sub[s].status \in STUCK_STATUSES}
     IN  /\ stale # {} /\ stale \subseteq candidates
         /\ session' = [session EXCEPT ![w] =
              [Begin("sweep", candidates) EXCEPT
                 !.next = [s \in stale |-> MarkFailed(sub[s])]]]
  /\ UNCHANGED <<sub, job, queue, fan_out, faults, overtaken>>

\* Mutant: a timeout or a sweep fails its sub-jobs without the parent.
FlushPlanned_without_recompute(x) ==
  /\ At(x, "loaded", {"timeout", "sweep", "decide"})
  /\ Flush(x, session[x].next, session[x].job)

\* Flush and recompute of a session whose writes were decided on loading.
FlushPlanned(x) ==
  /\ At(x, "loaded", {"timeout", "sweep", "decide"})
  /\ Flush(x, session[x].next, recompute_parent_status(x, session[x].next))

\* A process dies, or a task or request raises what no handler catches: the
\* transaction is rolled back, a message taken is lost (early acknowledgement)
\* and one not yet published is never published.
Fault(x) ==
  /\ ~IsIdle(x)
  /\ faults < MaxFaults
  /\ faults' = faults + 1
  /\ session' = [session EXCEPT ![x] = Idle]
  /\ UNCHANGED <<sub, job, queue, fan_out, overtaken>>
-----------------------------------------------------------------------------
(* Client retries.                                                         *)

Flagged(row) == row.status = "QA_REVIEW" /\ row.qa = "FLAGGED"

\* Mutant: the ceiling is not checked.
qa_retry_without_ceiling(row) == Flagged(row)

check_qa_retry_preconditions(row) == Flagged(row) /\ row.attempts < MaxAttempts

\* One request resets the sub-jobs of S; a terminal parent goes back to
\* PROCESSING, its counters stay.
execute_retry(h, S) ==
  /\ IsIdle(h)
  /\ \A s \in S : check_retry_preconditions(sub[s])
  /\ session' = [session EXCEPT ![h] =
       [Begin("retry", S) EXCEPT
          !.next = [s \in S |-> [sub[s] EXCEPT !.status = "PENDING", !.failure = "NONE"]],
          !.nextJob = IF job.status \in TERMINAL_STATUSES
                      THEN [job EXCEPT !.status = "PROCESSING", !.completed = FALSE]
                      ELSE job,
          !.todo = {GenerateTask(s) : s \in S}]]
  /\ UNCHANGED <<sub, job, queue, fan_out, faults, overtaken>>

retry_angle(h) ==
  /\ "retry" \in Environment
  /\ Operation = "ANGLE_GENERATION"
  /\ \E s \in SubJobs : execute_retry(h, {s})

\* All FAILED sub-jobs of the job or none; a flagged one takes precedence.
retry_job(h) ==
  /\ "retry" \in Environment
  /\ Operation # "ANGLE_GENERATION"
  /\ ~\E s \in SubJobs : Flagged(sub[s])
  /\ LET failed == {s \in SubJobs : sub[s].status = "FAILED"}
     IN  failed # {} /\ execute_retry(h, failed)

\* The judge runs again on the same image; only attempt_count changes now.
execute_qa_retry(h, s) ==
  /\ "qa_retry" \in Environment
  /\ Operation # "ANGLE_GENERATION"
  /\ IsIdle(h)
  /\ check_qa_retry_preconditions(sub[s])
  /\ session' = [session EXCEPT ![h] =
       [Begin("qa_retry", {s}) EXCEPT
          !.next = [t \in {s} |-> [sub[t] EXCEPT !.attempts = @ + 1]],
          !.todo = {ScoreTask(s)}]]
  /\ UNCHANGED <<sub, job, queue, fan_out, faults, overtaken>>
-----------------------------------------------------------------------------
(* The QA gate.                                                            *)

score_sub_job(w, s) ==
  /\ IsIdle(w)
  /\ Receive(ScoreTask(s))
  /\ session' = [session EXCEPT ![w] = Begin("score", {s})]
  /\ UNCHANGED <<sub, job, fan_out, faults, overtaken>>

\* Mutant: no verdict leaves the row as it was.
score_outcomes_undecided(row) == {[row EXCEPT !.qa = "FLAGGED"], row}

\* The judge's score is at or above the threshold, below it, or never came.
score_outcomes(row) ==
  LET flagged   == [row EXCEPT !.qa = "FLAGGED"]
      unscored  == [row EXCEPT !.qa = "NOT_APPLICABLE", !.status = "COMPLETED"]
  IN  {[row EXCEPT !.qa = "PASSED", !.status = "COMPLETED"], flagged,
       IF QaPassOnProviderError THEN unscored ELSE flagged}

(***************************************************************************)
(* The verdict is written whatever has become of the row since it was      *)
(* loaded.  A completing one recomputes the parent before the commit; a    *)
(* flag leaves the parent alone and is flushed by the commit itself.       *)
(***************************************************************************)
score_and_apply(w, s) ==
  /\ At(w, "loaded", {"score"})
  /\ s \in DOMAIN session[w].loaded
  /\ \E row \in score_outcomes(session[w].loaded[s]) :
       LET next == [t \in {s} |-> row]
       IN  \/ /\ row.qa # "FLAGGED"
              /\ Flush(w, next, recompute_parent_status(w, next))
           \/ /\ row.qa = "FLAGGED"
              /\ s \notin LockedByOthers(w)
              /\ WriteRows(w, next)
              /\ Close(w, {})
              /\ UNCHANGED <<job, queue, fan_out, faults, overtaken>>

submit_qa_decision(h, s, approve) ==
  /\ "decide" \in Environment
  /\ IsIdle(h)
  /\ sub[s].status = "QA_REVIEW"
  /\ session' = [session EXCEPT ![h] =
       [Begin("decide", {s}) EXCEPT
          !.next = [t \in {s} |->
             IF approve
             THEN [sub[t] EXCEPT !.qa = "PASSED", !.status = "COMPLETED"]
             ELSE [sub[t] EXCEPT !.qa = "FAILED", !.status = "REJECTED",
                                 !.failure = "QA_REJECTED"]]]]
  /\ UNCHANGED <<sub, job, queue, fan_out, faults, overtaken>>

\* Ops re-runs the judge over every flagged background operation.
rescore_flagged_background_operations(h) ==
  /\ "rescore" \in Environment
  /\ Operation \in BackgroundOperations
  /\ IsIdle(h)
  /\ LET flagged == {s \in SubJobs : Flagged(sub[s])}
     IN  /\ flagged # {}
         /\ session' = [session EXCEPT ![h] =
              [Idle EXCEPT !.pc = "publish", !.kind = "rescore",
                           !.todo = {ScoreTask(s) : s \in flagged}]]
  /\ UNCHANGED <<sub, job, queue, fan_out, faults, overtaken>>
-----------------------------------------------------------------------------
(* The job is committed before its first message is published; the API may *)
(* die in between, and then there is none.                                 *)
Init ==
  /\ sub = [s \in SubJobs |-> IF s \in Skipped THEN [NewSubJob EXCEPT !.status = "SKIPPED"]
                             ELSE NewSubJob]
  /\ job = NewJob
  /\ session = [x \in Sessions |-> Idle]
  /\ faults = 0
  /\ overtaken = {}
  /\ IF Operation \in FanOutOperations
     THEN fan_out \in BOOLEAN /\ queue = [t \in Task |-> 0]
     ELSE /\ fan_out = FALSE
          /\ \E dispatched \in 0..1 :
               queue = [t \in Task |-> IF t.kind = "generate" THEN dispatched ELSE 0]

WorkerStep(w) ==
  \/ dispatch_job(w)
  \/ \E s \in SubJobs : \/ start_task(w, s)
                        \/ finish_task(w, s)
                        \/ assertion_fails(w, s)
                        \/ score_sub_job(w, s)
                        \/ score_and_apply(w, s)
                        \/ mark_sub_job_timed_out(w, s)
  \/ connections_closed(w)
  \/ \E stale \in SUBSET SubJobs : reconcile_stuck_sub_jobs(w, stale)

HandlerStep(h) ==
  \/ retry_angle(h)
  \/ retry_job(h)
  \/ \E s \in SubJobs : \/ execute_qa_retry(h, s)
                        \/ \E approve \in BOOLEAN : submit_qa_decision(h, s, approve)
  \/ rescore_flagged_background_operations(h)

SessionStep(x) ==
  \/ CommitLoaded(x)
  \/ FlushPlanned(x)
  \/ CommitFlushed(x)
  \/ \E t \in Task : Publish(x, t)

Next ==
  \/ \E w \in Workers : WorkerStep(w)
  \/ \E h \in Handlers : HandlerStep(h)
  \/ \E x \in Sessions : SessionStep(x) \/ Fault(x)

Spec == Init /\ [][Next]_vars
-----------------------------------------------------------------------------
(* Safety.                                                                 *)

\* Every row, message count and session has the shape the schema gives it; in
\* particular attempt_count never passes the ceiling in any row or session.
TypeOK ==
  /\ sub \in [SubJobs -> SubJobRow]
  /\ job \in JobRow
  /\ queue \in [Task -> Nat]
  /\ fan_out \in BOOLEAN
  /\ session \in [Sessions -> Session]
  /\ faults \in 0..MaxFaults
  /\ overtaken \subseteq SubJobs

Statuses == [s \in SubJobs |-> sub[s].status]
Settled(s) == sub[s].status \in {"COMPLETED", "FAILED", "REJECTED", "SKIPPED"}

\* Only the operations with a QA gate use it: any other sub-job is never in
\* review, carries no verdict, and no scoring of it is queued or running.
UngatedNeverReviewed ==
  \A s \in SubJobs : ~Gated(s) =>
    /\ sub[s].status # "QA_REVIEW" /\ sub[s].qa = "NOT_APPLICABLE"
    /\ queue[ScoreTask(s)] = 0
    /\ \A x \in Sessions : ~(session[x].kind = "score" /\ s \in DOMAIN session[x].loaded)

(***************************************************************************)
(* A task owns its row until it commits.  Its timeout may still fire then, *)
(* while the connections close, and fail the row of a retry: two sessions  *)
(* write such a row, and nothing is promised of it any more.               *)
(***************************************************************************)
Followed == SubJobs \ overtaken

\* A sub-job FAILED with a transient class has spent every attempt, whichever
\* mix of automatic attempts, timeouts and client retries it took, unless a
\* late timeout has overtaken one of its retries.
TransientOnlyWhenExhausted ==
  \A s \in Followed : sub[s].status = "FAILED" /\ sub[s].failure = "TRANSIENT"
                        => sub[s].attempts = MaxAttempts

\* The status endpoint can always say why a sub-job ended badly: a refusal or
\* a human rejection is never shown without its class, nor a failure, unless a
\* late timeout has overtaken one of its retries.
EndedBadlyHasClass ==
  \A s \in Followed :
    /\ sub[s].status = "FAILED" => sub[s].failure # "NONE"
    /\ sub[s].status = "REJECTED" => sub[s].failure \in {"SAFETY_REFUSAL", "QA_REJECTED"}

\* When nothing is queued, no session is open and every sub-job has settled,
\* nothing is left that would recompute the parent: its row is the rollup.
Quiescent ==
  /\ \A x \in Sessions : IsIdle(x)
  /\ \A t \in Task : queue[t] = 0
  /\ ~fan_out

QuiescentRollup ==
  Quiescent /\ (\A s \in SubJobs : Settled(s)) => job = Rollup(Statuses, {})

\* An output awaiting QA is in the human queue or its scoring is still on the way.
ScoringUnderWay(s) ==
  \/ queue[ScoreTask(s)] > 0
  \/ \E x \in Sessions : \/ ScoreTask(s) \in session[x].todo
                         \/ session[x].kind = "score" /\ s \in DOMAIN session[x].loaded

ReviewIsQueuedOrScoring ==
  \A s \in SubJobs : sub[s].status = "QA_REVIEW" => Flagged(sub[s]) \/ ScoringUnderWay(s)

\* Nothing but a judge's verdict or a human decision delivers a sub-job behind
\* the QA gate, whatever else runs, retries, times out or crashes meanwhile.
DeliveryStep(s) ==
  Gated(s) /\ sub'[s].status = "COMPLETED" /\ sub[s].status # "COMPLETED"
    => \E x \in Sessions : /\ session[x].kind \in {"score", "decide"}
                           /\ s \in DOMAIN session[x].next
                           /\ session'[x] # session[x]

DeliveredOnlyByVerdict == [][\A s \in SubJobs : DeliveryStep(s)]_vars

\* A sub-job a human rejected is never delivered.
HumanRejectionStands ==
  [][\A s \in SubJobs : sub[s].status = "REJECTED" /\ sub[s].qa = "FAILED"
                          => sub'[s].status # "COMPLETED"]_sub

-----------------------------------------------------------------------------
(* Refinement.                                                             *)

GatedSubJobs == {s \in SubJobs : Gated(s)}

\* A late timeout that overtakes a retry gives the retried sub-job up, as the
\* machine allows; what the retry's own task makes of the row after that is no
\* edge of it, and not followed.
FollowedStatuses == [s \in SubJobs |-> IF s \in overtaken THEN "FAILED" ELSE sub[s].status]

SubJobMachine == INSTANCE SubJobLifecycle WITH status <- FollowedStatuses
JobMachine == INSTANCE JobLifecycle WITH status <- Statuses, parent <- job.status

\* The rows of the sub-jobs only move along the documented state machine, up to
\* the moment a late timeout overtakes a retry.
ImplementsSubJobLifecycle == SubJobMachine!Spec

\* Sub-jobs and parent move together, the parent recomputed in the same commit.
ImplementsJobLifecycle == JobMachine!Spec
-----------------------------------------------------------------------------
(***************************************************************************)
(* Liveness.  Fairness of the scheduling: a live worker takes the messages *)
(* of the broker and finishes what it started, a committed session goes on *)
(* to publish, and beat runs the sweep every RECONCILIATION_SWEEP_CRON so  *)
(* that every stuck sub-job is stale sooner or later.  Clients and faults  *)
(* are not fair.                                                           *)
(***************************************************************************)
TaskStep(w) ==
  \/ dispatch_job(w)
  \/ \E s \in SubJobs : start_task(w, s) \/ finish_task(w, s) \/ assertion_fails(w, s)
                          \/ score_sub_job(w, s) \/ score_and_apply(w, s)
  \/ connections_closed(w)

SweepOf(s) ==
  \E w \in Workers, stale \in SUBSET SubJobs :
    s \in stale /\ reconcile_stuck_sub_jobs(w, stale)

Fairness ==
  /\ \A w \in Workers : WF_vars(TaskStep(w))
  /\ \A x \in Sessions : WF_vars(SessionStep(x))
  /\ "sweep" \in Environment => \A s \in SubJobs : WF_vars(SweepOf(s))

FairSpec == Spec /\ Fairness

\* Whatever message, task or process is lost, no sub-job stays PENDING or
\* GENERATING for ever.
SubJobLeavesStuck ==
  \A s \in SubJobs : sub[s].status \in STUCK_STATUSES ~> sub[s].status \notin STUCK_STATUSES

\* The client's polling ends: the parent reaches a terminal status, unless an
\* output waits for a human.
ParentTerminates ==
  job.status \notin TERMINAL_STATUSES
    ~> job.status \in TERMINAL_STATUSES \/ \E s \in SubJobs : sub[s].status = "QA_REVIEW"

\* An output behind the gate is decided or reaches the human queue, unless a
\* fault has taken its scoring (no sweep looks at QA_REVIEW).
ReviewIsReached ==
  \A s \in SubJobs :
    sub[s].status = "QA_REVIEW"
      ~> Flagged(sub[s]) \/ Settled(s) \/ (faults > 0 /\ ~ScoringUnderWay(s))
=============================================================================
