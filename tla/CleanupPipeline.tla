--------------------------- MODULE CleanupPipeline ---------------------------
(***************************************************************************)
(* A GENERATE_WITH_CLEANUP job: phase one is a single angle-less sub-job,  *)
(* and its success creates the angle sub-jobs of phase two, in the same    *)
(* transaction, so that the parent's rollup never sees the job without     *)
(* them; the worker dispatches their tasks after the commit, one by one.   *)
(*                                                                         *)
(* Sessions interleave as in JobPipeline; what is new is that rows appear  *)
(* while others run.  Nothing of this operation is behind the QA gate.     *)
(***************************************************************************)
EXTENDS SubJobRows, Functions

CONSTANTS
  Cleanup,      \* the cleanup sub-job
  Angles,       \* jobs.requested_angle_codes
  Workers,      \* worker processes (or threads) of the Celery pool
  Handlers,     \* API requests in flight at a time
  Environment,  \* the optional activities an instance includes
  MaxQueued,    \* bound: equal messages in the queue at a time
  MaxFaults     \* bound: crashes and unclassified exceptions

Activities == {"sweep", "timeout", "retry_job", "retry_angle",
               "redelivery", "status"}

ASSUME AnglesAssumption == Angles # {} /\ IsFiniteSet(Angles) /\ Cleanup \notin Angles
ASSUME SessionsAssumption == Workers \intersect Handlers = {}
ASSUME EnvironmentAssumption == Environment \subseteq Activities
ASSUME BoundsAssumption == MaxQueued \in Nat \ {0} /\ MaxFaults \in Nat

VARIABLES
  sub,       \* the job's sub_jobs rows; the domain grows when phase two begins
  job,       \* the jobs row
  queue,     \* how many task messages of each sub-job the broker holds
  session,   \* the open session of each worker and handler
  faults,    \* faults so far
  overtaken  \* history, read by no action: the sub-jobs that a task which had
             \* already committed failed by its late timeout

vars == <<sub, job, queue, session, faults, overtaken>>

-----------------------------------------------------------------------------
(* Rows and sessions.                                                      *)

Sessions == Workers \union Handlers
SubJobs == {Cleanup} \union Angles
Existing == DOMAIN sub
NoRows == [s \in {} |-> NewSubJob]
IsRows(rows) == DOMAIN rows \subseteq SubJobs /\ rows \in [DOMAIN rows -> SubJobRow]

SessionKind == {"none", "start", "task", "timeout", "sweep", "retry", "status"}

\* As in JobPipeline; todo holds the sub-jobs whose task is to be dispatched.
IsSession(r) ==
  /\ r.pc \in {"idle", "loaded", "flushed", "publish"} /\ r.kind \in SessionKind
  /\ IsRows(r.loaded) /\ IsRows(r.next)
  /\ r.job \in JobRow /\ r.nextJob \in JobRow
  /\ r.todo \subseteq SubJobs

Idle == [pc |-> "idle", kind |-> "none", loaded |-> NoRows, next |-> NoRows,
         job |-> NewJob, nextJob |-> NewJob, todo |-> {}]

IsIdle(x) == session[x].pc = "idle"
At(x, pc, kinds) == session[x].pc = pc /\ session[x].kind \in kinds

Begin(kind, S) ==
  [Idle EXCEPT !.pc = "loaded", !.kind = kind, !.loaded = [s \in S |-> sub[s]],
               !.job = job, !.nextJob = job]

LockedByOthers(x) ==
  UNION {DOMAIN session[y].next : y \in {z \in Sessions \ {x} : session[z].pc = "flushed"}}

\* Session x stores its rows: changed attributes of the ones it loaded, and
\* the ones it created.
WriteRows(x) ==
  LET loaded == session[x].loaded
      next   == session[x].next
  IN  sub' = [s \in Existing \union DOMAIN next |->
                IF s \notin DOMAIN next THEN sub[s]
                ELSE IF s \in DOMAIN loaded THEN WrittenRow(sub[s], loaded[s], next[s])
                ELSE next[s]]

Close(x) ==
  session' = [session EXCEPT ![x] =
                IF @.todo = {} THEN Idle
                ELSE [Idle EXCEPT !.pc = "publish", !.kind = session[x].kind,
                                  !.todo = session[x].todo]]

\* Mutant: the angle rows are left to a later transaction, and the recompute
\* of this one does not see them.
recompute_without_new_rows(x, next) ==
  LET known == [s \in Existing |->
                  IF s \in DOMAIN next THEN next[s].status ELSE sub[s].status]
  IN  Rollup(known, {Cleanup})

\* Mutant: the cleanup counts among the requested outputs.
recompute_counting_cleanup(x, next) ==
  Rollup([s \in Existing \union DOMAIN next |->
            IF s \in DOMAIN next THEN next[s].status ELSE sub[s].status], {})

\* get_sub_jobs inside session x: own values and rows, then what is committed.
recompute_parent_status(x, next) ==
  LET visible == [s \in Existing \union DOMAIN next |->
                    IF s \in DOMAIN next THEN next[s].status
                    ELSE IF s \in DOMAIN session[x].loaded THEN session[x].loaded[s].status
                    ELSE sub[s].status]
  IN  Rollup(visible, {Cleanup})

\* The UPDATEs and INSERTs go out, once no other session holds the rows; the
\* parent is recomputed from what this session then sees.
Flush(x, next, created) ==
  /\ DOMAIN next \intersect LockedByOthers(x) = {}
  /\ session' = [session EXCEPT ![x] =
       [@ EXCEPT !.pc = "flushed", !.next = next, !.todo = created,
                 !.loaded = Restrict(session[x].loaded,
                                     DOMAIN session[x].loaded \intersect DOMAIN next),
                 !.nextJob = recompute_parent_status(x, next)]]
  /\ UNCHANGED <<sub, job, queue, faults, overtaken>>
-----------------------------------------------------------------------------
(* Tasks.                                                                  *)

\* cleanup.process and generation.transform_photo up to their first commit;
\* only the former moves the job out of PENDING.
start_task(w, s) ==
  /\ IsIdle(w)
  /\ s \in Existing
  /\ queue[s] > 0
  /\ queue' = [queue EXCEPT ![s] = @ - 1]
  /\ session' = [session EXCEPT ![w] =
       [Begin("start", {s}) EXCEPT
          !.next = [t \in {s} |-> [sub[t] EXCEPT !.status = "GENERATING"]],
          !.nextJob = IF s = Cleanup /\ job.status = "PENDING"
                      THEN [job EXCEPT !.status = "PROCESSING"] ELSE job]]
  /\ UNCHANGED <<sub, job, faults, overtaken>>

\* Commit of a session that recomputes nothing: a start, or a client's retry.
CommitLoaded(x) ==
  /\ At(x, "loaded", {"start", "retry"})
  /\ DOMAIN session[x].next \intersect LockedByOthers(x) = {}
  /\ WriteRows(x)
  /\ job' = WrittenJob(job, session[x].job, session[x].nextJob)
  /\ IF session[x].kind = "start"
     THEN session' = [session EXCEPT ![x] =
            [@ EXCEPT !.kind = "task", !.loaded = session[x].next, !.next = NoRows,
                      !.job = session[x].nextJob]]
     ELSE Close(x)
  /\ UNCHANGED <<queue, faults, overtaken>>

\* Mutant: the ids of angle sub-jobs that exist already are returned again.
create_angle_sub_jobs_again == Angles

\* _create_angle_sub_jobs: the angles it creates and returns for dispatch,
\* none if there are any.  The caller has the cleanup row locked by now.
create_angle_sub_jobs == IF Angles \intersect Existing # {} THEN {} ELSE Angles

\* Mutant: the transaction of the cleanup's success leaves the angle rows to a
\* later one.
finish_cleanup_alone(w) ==
  /\ At(w, "loaded", {"task"})
  /\ Cleanup \in DOMAIN session[w].loaded
  /\ \E row \in attempt_loop(session[w].loaded[Cleanup], "COMPLETED") :
       Flush(w, [s \in {Cleanup} |-> row], {})

\* The cleanup call has its result: the sub-job is written, the angle sub-jobs
\* are inserted if it succeeded, and the parent is recomputed.
finish_cleanup(w) ==
  /\ At(w, "loaded", {"task"})
  /\ Cleanup \in DOMAIN session[w].loaded
  /\ session[w].loaded[Cleanup].attempts < MaxAttempts
  /\ \E row \in attempt_loop(session[w].loaded[Cleanup], "COMPLETED") :
       LET created == IF row.status = "COMPLETED" THEN create_angle_sub_jobs ELSE {}
           next    == [s \in {Cleanup} \union (created \ Existing) |->
                         IF s = Cleanup THEN row ELSE NewSubJob]
       IN  Flush(w, next, created)

\* transform_photo of one angle, on the cleaned photo.
finish_angle(w, a) ==
  /\ At(w, "loaded", {"task"})
  /\ a \in Angles \intersect DOMAIN session[w].loaded
  /\ session[w].loaded[a].attempts < MaxAttempts
  /\ \E row \in attempt_loop(session[w].loaded[a], "COMPLETED") :
       Flush(w, [t \in {a} |-> row], {})

\* Entered with no attempt left: the assertion last_error is not None fails.
assertion_fails(w) ==
  /\ At(w, "loaded", {"task"})
  /\ \E s \in DOMAIN session[w].loaded : session[w].loaded[s].attempts >= MaxAttempts
  /\ session' = [session EXCEPT ![w] = Idle]
  /\ UNCHANGED <<sub, job, queue, faults, overtaken>>

\* COMMIT; a task still has its connections to close and its angles to dispatch.
CommitFlushed(x) ==
  /\ session[x].pc = "flushed"
  /\ WriteRows(x)
  /\ job' = RecomputedJob(job, session[x].job, session[x].nextJob)
  /\ session' = [session EXCEPT ![x] =
       IF @.kind = "task"
       THEN [Idle EXCEPT !.pc = "publish", !.kind = "task", !.loaded = session[x].loaded,
                         !.todo = session[x].todo]
       ELSE Idle]
  /\ UNCHANGED <<queue, faults, overtaken>>

\* One delay() of the loop over the new sub-jobs, or of a retry.
Publish(x, s) ==
  /\ session[x].pc = "publish"
  /\ s \in session[x].todo
  /\ queue[s] < MaxQueued
  /\ queue' = [queue EXCEPT ![s] = @ + 1]
  /\ session' = [session EXCEPT ![x] =
       IF @.todo = {s} THEN Idle ELSE [@ EXCEPT !.todo = session[x].todo \ {s}]]
  /\ UNCHANGED <<sub, job, faults, overtaken>>

\* The session, Redis and the engine are closed in time, with nothing to publish.
connections_closed(w) ==
  /\ At(w, "publish", {"task"})
  /\ session[w].todo = {}
  /\ session' = [session EXCEPT ![w] = Idle]
  /\ UNCHANGED <<sub, job, queue, faults, overtaken>>
-----------------------------------------------------------------------------
(* Timeouts, the sweep and faults.                                         *)

(***************************************************************************)
(* The task is cancelled and a fresh session fails its sub-job if it is    *)
(* still stuck.  After the commit, while the connections close, the        *)
(* timeout discards the list of angles that were about to be dispatched,   *)
(* and a row it finds stuck is one that a retry, or another task of the    *)
(* same sub-job, has taken up in the meantime.                             *)
(***************************************************************************)
mark_sub_job_timed_out(w, s) ==
  /\ "timeout" \in Environment
  /\ \/ At(w, "loaded", {"start", "task"})
     \/ At(w, "flushed", {"task"})
     \/ At(w, "publish", {"task"}) /\ session[w].todo \in {{}, Angles}
  /\ s \in DOMAIN session[w].loaded
  /\ session' = [session EXCEPT ![w] =
       IF sub[s].status \in STUCK_STATUSES
       THEN [Begin("timeout", {s}) EXCEPT !.next = [t \in {s} |-> MarkFailed(sub[t])]]
       ELSE Idle]
  /\ overtaken' = IF session[w].pc = "publish" /\ sub[s].status \in STUCK_STATUSES
                  THEN overtaken \union {s} ELSE overtaken
  /\ UNCHANGED <<sub, job, queue, faults>>

\* Mutant: a sweep that only knows the sub-jobs of phase one.
reconcile_cleanup_only(w, stale) ==
  /\ "sweep" \in Environment
  /\ IsIdle(w)
  /\ stale = {Cleanup} /\ sub[Cleanup].status \in STUCK_STATUSES
  /\ session' = [session EXCEPT ![w] =
       [Begin("sweep", stale) EXCEPT !.next = [s \in stale |-> MarkFailed(sub[s])]]]
  /\ UNCHANGED <<sub, job, queue, faults, overtaken>>

\* The beat sweep fails the stuck rows that are stale, of either phase.
reconcile_stuck_sub_jobs(w, stale) ==
  /\ "sweep" \in Environment
  /\ IsIdle(w)
  /\ LET candidates == {s \in Existing : sub[s].status \in STUCK_STATUSES}
     IN  /\ stale # {} /\ stale \subseteq candidates
         /\ session' = [session EXCEPT ![w] =
              [Begin("sweep", candidates) EXCEPT
                 !.next = [s \in stale |-> MarkFailed(sub[s])]]]
  /\ UNCHANGED <<sub, job, queue, faults, overtaken>>

FlushPlanned(x) ==
  /\ At(x, "loaded", {"timeout", "sweep"})
  /\ Flush(x, session[x].next, {})

Fault(x) ==
  /\ ~IsIdle(x)
  /\ faults < MaxFaults
  /\ faults' = faults + 1
  /\ session' = [session EXCEPT ![x] = Idle]
  /\ UNCHANGED <<sub, job, queue, overtaken>>
-----------------------------------------------------------------------------
(* Requests.                                                               *)

\* execute_retry on one sub-job and the commit that follows it.
execute_retry(h, s) ==
  /\ IsIdle(h)
  /\ check_retry_preconditions(sub[s])
  /\ session' = [session EXCEPT ![h] =
       [Begin("retry", {s}) EXCEPT
          !.next = [t \in {s} |-> [sub[t] EXCEPT !.status = "PENDING", !.failure = "NONE"]],
          !.nextJob = IF job.status \in TERMINAL_STATUSES
                      THEN [job EXCEPT !.status = "PROCESSING", !.completed = FALSE]
                      ELSE job,
          !.todo = {s}]]
  /\ UNCHANGED <<sub, job, queue, faults, overtaken>>

\* POST /jobs/{id}/retry: only while no angle sub-job exists.
retry_job(h) ==
  /\ "retry_job" \in Environment
  /\ Angles \intersect Existing = {}
  /\ execute_retry(h, Cleanup)

\* POST /jobs/{id}/angles/{angle}/retry.
retry_angle(h) ==
  /\ "retry_angle" \in Environment
  /\ \E a \in Angles \intersect Existing : execute_retry(h, a)

\* GET /status reads the job, then in a second query its sub-jobs.
get_status(h) ==
  /\ "status" \in Environment
  /\ IsIdle(h)
  /\ session' = [session EXCEPT ![h] = Begin("status", {})]
  /\ UNCHANGED <<sub, job, queue, faults, overtaken>>

\* The cleanup sub-job is never shown; angles that do not exist yet are shown
\* as PENDING.
AngleStatuses ==
  [a \in Angles |-> IF a \in Existing THEN sub[a].status ELSE "PENDING"]

build_job_status_response(h) == [status |-> session[h].job.status, angles |-> AngleStatuses]

\* The second query, and the answer of build_job_status_response.
answer_status(h) ==
  /\ At(h, "loaded", {"status"})
  /\ session' = [session EXCEPT ![h] = Idle]
  /\ UNCHANGED <<sub, job, queue, faults, overtaken>>
-----------------------------------------------------------------------------
\* The job and its cleanup sub-job are committed before the first message is
\* published; the API may die in between.  A message may be delivered again.
Init ==
  /\ sub = [s \in {Cleanup} |-> NewSubJob]
  /\ job = NewJob
  /\ \E delivered \in 0..(IF "redelivery" \in Environment THEN 2 ELSE 1) :
       queue = [s \in SubJobs |-> IF s = Cleanup THEN delivered ELSE 0]
  /\ session = [x \in Sessions |-> Idle]
  /\ faults = 0
  /\ overtaken = {}

WorkerStep(w) ==
  \/ \E s \in Existing : start_task(w, s) \/ mark_sub_job_timed_out(w, s)
  \/ finish_cleanup(w)
  \/ \E a \in Angles : finish_angle(w, a)
  \/ assertion_fails(w)
  \/ connections_closed(w)
  \/ \E stale \in SUBSET SubJobs : reconcile_stuck_sub_jobs(w, stale)

HandlerStep(h) ==
  \/ retry_job(h)
  \/ retry_angle(h)
  \/ get_status(h)
  \/ answer_status(h)

SessionStep(x) ==
  \/ CommitLoaded(x)
  \/ FlushPlanned(x)
  \/ CommitFlushed(x)
  \/ \E s \in SubJobs : Publish(x, s)

Next ==
  \/ \E w \in Workers : WorkerStep(w)
  \/ \E h \in Handlers : HandlerStep(h)
  \/ \E x \in Sessions : SessionStep(x) \/ Fault(x)

Spec == Init /\ [][Next]_vars
-----------------------------------------------------------------------------
(* Safety.                                                                 *)

TypeOK ==
  /\ IsRows(sub) /\ Cleanup \in Existing
  /\ job \in JobRow
  /\ queue \in [SubJobs -> Nat]
  /\ DOMAIN session = Sessions /\ \A x \in Sessions : IsSession(session[x])
  /\ faults \in 0..MaxFaults
  /\ overtaken \subseteq SubJobs

\* Phase two begins with all of its sub-jobs or not at all, and the parent is
\* never closed as delivered before it has begun: the incident that moved the
\* creation of the angles into the transaction of the cleanup.
NotDeliveredByCleanupAlone ==
  /\ Angles \subseteq Existing \/ Angles \intersect Existing = {}
  /\ job.status \in {"COMPLETED", "PARTIAL_SUCCESS"} => Angles \subseteq Existing

\* A cleanup goes on to dispatch the angles its own commit has inserted, and no
\* others: however often it runs (a leftover task next to the one of a retry),
\* it never has an angle generated, and billed, a second time.
DispatchesWhatItCreated ==
  [][\A x \in Sessions :
       session[x].kind = "task" /\ session[x].pc = "flushed" /\ session'[x].pc = "publish"
         => session'[x].todo \subseteq Existing' \ Existing]_vars

\* An answer that calls the job COMPLETED, although it is put together from two
\* queries, shows every requested angle COMPLETED at whatever moment the second
\* query runs, but for an angle whose retry a late timeout has overtaken: two
\* sessions write that row.
CompletedAnswerIsComplete ==
  \A h \in Handlers :
    At(h, "loaded", {"status"}) /\ build_job_status_response(h).status = "COMPLETED"
      => \A a \in Angles \ overtaken :
           build_job_status_response(h).angles[a] = "COMPLETED"

Quiescent ==
  /\ \A x \in Sessions : IsIdle(x)
  /\ \A s \in SubJobs : queue[s] = 0

\* At rest, with every sub-job settled, the parent is the rollup of its angles,
\* whatever the cleanup row itself says by then.
QuiescentRollup ==
  Quiescent /\ (\A s \in Existing : sub[s].status \notin STUCK_STATUSES)
    => job = Rollup([s \in Existing |-> sub[s].status], {Cleanup})
-----------------------------------------------------------------------------
(* Liveness, under the fairness of JobPipeline: workers work, sessions go  *)
(* on, and beat runs the sweep.                                            *)

TaskStep(w) ==
  \/ \E s \in Existing : start_task(w, s)
  \/ finish_cleanup(w)
  \/ \E a \in Angles : finish_angle(w, a)
  \/ assertion_fails(w)
  \/ connections_closed(w)

SweepOf(s) ==
  \E w \in Workers, stale \in SUBSET SubJobs :
    s \in stale /\ reconcile_stuck_sub_jobs(w, stale)

FairSpec ==
  /\ Spec
  /\ \A w \in Workers : WF_vars(TaskStep(w))
  /\ \A x \in Sessions : WF_vars(SessionStep(x))
  /\ \A s \in SubJobs : WF_vars(SweepOf(s))

\* Whatever is lost between the commit of the angles and their dispatch, every
\* angle is generated or failed: none stays PENDING or GENERATING for ever.
Stuck(s) == s \in Existing /\ sub[s].status \in STUCK_STATUSES
AnglesSettle == \A a \in Angles : Stuck(a) ~> ~Stuck(a)

\* The client's polling ends: the parent reaches a terminal status.
ParentTerminates == job.status \notin TERMINAL_STATUSES ~> job.status \in TERMINAL_STATUSES
=============================================================================
