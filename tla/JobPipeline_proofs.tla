------------------------- MODULE JobPipeline_proofs -------------------------
(***************************************************************************)
(* Theorems about JobPipeline, for every value of its constants.           *)
(***************************************************************************)
EXTENDS JobPipeline, SubJobRows_proofs, FiniteSetTheorems

-----------------------------------------------------------------------------
(* Types of the operators the actions are built from.                      *)

\* What a recompute assigns to the jobs row has the columns' types.
LEMMA RollupType ==
  ASSUME NEW st \in [SubJobs -> SubJobStatus]
  PROVE  Rollup(st, {}) \in JobRow
<1>1. IsFiniteSet(SubJobs)
  BY SubJobsAssumption
<1>2. /\ Counted(st, {}) \subseteq SubJobs
      /\ Succeeded(st, {}) \subseteq SubJobs
      /\ Failed(st, {}) \subseteq SubJobs
  BY DEF Counted, Succeeded, Failed
<1>3. /\ Cardinality(Counted(st, {})) \in Nat
      /\ Cardinality(Succeeded(st, {})) \in Nat
      /\ Cardinality(Failed(st, {})) \in Nat
  BY <1>1, <1>2, FS_Subset, FS_CardinalityType
<1>4. compute_parent_status(Cardinality(Counted(st, {})), Cardinality(Succeeded(st, {})),
                            Cardinality(Failed(st, {}))) \in JobStatus
  BY DEF compute_parent_status, JobStatus
<1> QED
  BY <1>3, <1>4 DEF Rollup, JobRow

\* A function from some of the sub-jobs to rows is a member of Rows.
LEMMA RowsMember ==
  ASSUME NEW S \in SUBSET SubJobs, NEW f \in [S -> SubJobRow]
  PROVE  f \in Rows
BY DEF Rows

LEMMA RowsDomain ==
  ASSUME NEW f \in Rows
  PROVE  DOMAIN f \in SUBSET SubJobs /\ \A s \in DOMAIN f : f[s] \in SubJobRow
BY DEF Rows

LEMMA NewRowsType ==
  NewSubJob \in SubJobRow /\ NoRows \in Rows /\ NewJob \in JobRow /\ Idle \in Session
<1>1. NewSubJob \in SubJobRow
  BY AttemptsAssumption DEF NewSubJob, SubJobRow, SubJobStatus, FailureClass, QAStatus
<1>2. NoRows \in Rows
  BY <1>1 DEF NoRows, Rows
<1>3. NewJob \in JobRow
  BY DEF NewJob, JobRow, JobStatus
<1> QED
  BY <1>1, <1>2, <1>3 DEF Idle, Session, SessionKind

LEMMA ProcessType ==
  ASSUME NEW s \in SubJobs, NEW row \in SubJobRow, row.attempts < MaxAttempts
  PROVE  process(s, row) \subseteq SubJobRow
<1>1. attempt_loop(row, "QA_REVIEW") \subseteq SubJobRow
  BY AttemptLoopType DEF SubJobStatus
<1>2. attempt_loop(row, "COMPLETED") \subseteq SubJobRow
  BY AttemptLoopType DEF SubJobStatus
<1>3. Operation \in Operations
  BY OperationAssumption
<1> QED
  BY <1>1, <1>2, <1>3
  DEF process, transform_photo, background_process, match_process, recolor_process,
      mix_process, Operations, FanOutOperations, BackgroundOperations

LEMMA ScoreType ==
  ASSUME NEW row \in SubJobRow
  PROVE  score_outcomes(row) \subseteq SubJobRow
BY DEF score_outcomes, SubJobRow, SubJobStatus, QAStatus

-----------------------------------------------------------------------------
(* Types of the pieces of a step.                                          *)

LEMMA BeginType ==
  ASSUME TypeOK, NEW kind \in SessionKind, NEW S \in SUBSET SubJobs
  PROVE  Begin(kind, S) \in Session
<1>1. [s \in S |-> sub[s]] \in Rows
  BY RowsMember DEF TypeOK
<1> QED
  BY <1>1, NewRowsType DEF TypeOK, Begin, Idle, Session

LEMMA BeginOneType ==
  ASSUME TypeOK, NEW kind \in SessionKind, NEW s \in SubJobs
  PROVE  Begin(kind, {s}) \in Session
<1>1. {s} \in SUBSET SubJobs
  OBVIOUS
<1> QED
  BY <1>1, BeginType

LEMMA CloseType ==
  ASSUME TypeOK, NEW x \in Sessions, NEW todo \in SUBSET Task, Close(x, todo)
  PROVE  session' \in [Sessions -> Session]
BY NewRowsType DEF TypeOK, Close, Idle, Session

LEMMA FlushType ==
  ASSUME TypeOK, NEW x \in Sessions, NEW next \in Rows, NEW nextJob \in JobRow,
         Flush(x, next, nextJob)
  PROVE  TypeOK'
<1>1. [session[x] EXCEPT !.pc = "flushed", !.next = next, !.nextJob = nextJob] \in Session
  BY DEF TypeOK, Session
<1> QED
  BY <1>1 DEF TypeOK, Flush

LEMMA WriteRowsType ==
  ASSUME TypeOK, NEW x \in Sessions, NEW next \in Rows, WriteRows(x, next)
  PROVE  sub' \in [SubJobs -> SubJobRow]
<1>1. \A s \in DOMAIN next : next[s] \in SubJobRow
  BY RowsDomain
<1>2. \A s \in SubJobs : s \in DOMAIN next
        => WrittenRow(sub[s], session[x].loaded[s], next[s]) \in SubJobRow
  BY <1>1, WrittenRowType DEF TypeOK
<1> QED
  BY <1>2 DEF TypeOK, WriteRows

LEMMA RecomputeType ==
  ASSUME TypeOK, NEW x \in Sessions, NEW next \in Rows
  PROVE  recompute_parent_status(x, next) \in JobRow
<1>1. \A s \in DOMAIN next : next[s].status \in SubJobStatus
  BY RowsDomain DEF SubJobRow
<1>2. \A s \in DOMAIN session[x].loaded : session[x].loaded[s].status \in SubJobStatus
  <2>1. session[x].loaded \in Rows
    BY DEF TypeOK, Session
  <2> QED
    BY <2>1, RowsDomain DEF SubJobRow
<1>3. \A s \in SubJobs : sub[s].status \in SubJobStatus
  BY DEF TypeOK, SubJobRow
<1>4. Visible(x, next) \in [SubJobs -> SubJobStatus]
  BY <1>1, <1>2, <1>3 DEF Visible
<1> QED
  BY <1>4, RollupType DEF recompute_parent_status

LEMMA ReceiveType ==
  ASSUME TypeOK, NEW t \in Task, Receive(t)
  PROVE  queue' \in [Task -> Nat]
BY DEF TypeOK, Receive

LEMMA TaskType ==
  ASSUME NEW s \in SubJobs
  PROVE  GenerateTask(s) \in Task /\ ScoreTask(s) \in Task
BY DEF GenerateTask, ScoreTask, Task

LEMMA OneRow ==
  ASSUME NEW s \in SubJobs, NEW row \in SubJobRow
  PROVE  [t \in {s} |-> row] \in Rows
BY RowsMember

\* A row a session holds is a row of the table's type.
LEMMA LoadedRow ==
  ASSUME TypeOK, NEW x \in Sessions, NEW s \in DOMAIN session[x].loaded
  PROVE  session[x].loaded[s] \in SubJobRow
<1>1. session[x].loaded \in Rows
  BY DEF TypeOK, Session
<1> QED
  BY <1>1, RowsDomain
-----------------------------------------------------------------------------
(* Type correctness: one lemma for the steps of each part of the model.    *)

LEMMA InitType == Init => TypeOK
<1> SUFFICES ASSUME Init PROVE TypeOK
  OBVIOUS
<1>1. fan_out \in BOOLEAN /\ queue \in [Task -> Nat]
  <2>1. CASE Operation \in FanOutOperations
    BY <2>1 DEF Init
  <2>2. CASE Operation \notin FanOutOperations
    <3>1. PICK dispatched \in 0..1 :
            queue = [t \in Task |-> IF t.kind = "generate" THEN dispatched ELSE 0]
      BY <2>2 DEF Init
    <3>2. fan_out = FALSE
      BY <2>2 DEF Init
    <3>3. dispatched \in Nat
      OBVIOUS
    <3> QED
      BY <3>1, <3>2, <3>3
  <2> QED
    BY <2>1, <2>2
<1>2. [NewSubJob EXCEPT !.status = "SKIPPED"] \in SubJobRow
  BY NewRowsType DEF SubJobRow, SubJobStatus
<1>3. sub \in [SubJobs -> SubJobRow] /\ job \in JobRow /\ session \in [Sessions -> Session]
  BY <1>2, NewRowsType DEF Init
<1>4. faults \in 0..MaxFaults /\ overtaken \subseteq SubJobs
  BY BoundsAssumption DEF Init
<1> QED
  BY <1>1, <1>3, <1>4 DEF TypeOK

LEMMA DispatchType ==
  ASSUME TypeOK, NEW w \in Workers, dispatch_job(w)
  PROVE  TypeOK'
<1> DEFINE nextJob == IF job.status = "PENDING" THEN [job EXCEPT !.status = "PROCESSING"]
                      ELSE job
           todo == {GenerateTask(s) : s \in {t \in SubJobs : sub[t].status = "PENDING"}}
<1>1. nextJob \in JobRow
  BY DEF TypeOK, JobRow, JobStatus
<1>2. todo \in SUBSET Task
  BY TaskType
<1>3. Begin("fan_out", {}) \in Session
  BY BeginType DEF SessionKind
<1>4. [Begin("fan_out", {}) EXCEPT !.nextJob = nextJob, !.todo = todo] \in Session
  BY <1>1, <1>2, <1>3 DEF Session
<1>5. session' = [session EXCEPT ![w] =
                   [Begin("fan_out", {}) EXCEPT !.nextJob = nextJob, !.todo = todo]]
  BY DEF dispatch_job
<1> HIDE DEF nextJob, todo
<1> QED
  BY <1>4, <1>5 DEF TypeOK, dispatch_job

LEMMA StartType ==
  ASSUME TypeOK, NEW w \in Workers, NEW s \in SubJobs, start_task(w, s)
  PROVE  TypeOK'
<1> DEFINE next == [t \in {s} |-> [sub[t] EXCEPT !.status = "GENERATING"]]
           nextJob == IF Operation # "ANGLE_GENERATION" /\ job.status = "PENDING"
                      THEN [job EXCEPT !.status = "PROCESSING"] ELSE job
<1>1. next \in Rows
  <2>1. [sub[s] EXCEPT !.status = "GENERATING"] \in SubJobRow
    BY DEF TypeOK, SubJobRow, SubJobStatus
  <2> QED
    BY <2>1, RowsMember
<1>2. nextJob \in JobRow
  BY DEF TypeOK, JobRow, JobStatus
<1>3. Begin("start", {s}) \in Session
  BY BeginOneType DEF SessionKind
<1>4. [Begin("start", {s}) EXCEPT !.next = next, !.nextJob = nextJob] \in Session
  BY <1>1, <1>2, <1>3 DEF Session
<1>5. session' = [session EXCEPT ![w] =
                   [Begin("start", {s}) EXCEPT !.next = next, !.nextJob = nextJob]]
  BY DEF start_task
<1>6. queue' \in [Task -> Nat]
  BY ReceiveType, TaskType DEF start_task
<1> HIDE DEF next, nextJob
<1> QED
  BY <1>4, <1>5, <1>6 DEF TypeOK, start_task

LEMMA CommitLoadedType ==
  ASSUME TypeOK, NEW x \in Sessions, CommitLoaded(x)
  PROVE  TypeOK'
<1>1. session[x] \in Session
  BY DEF TypeOK
<1>2. sub' \in [SubJobs -> SubJobRow]
  BY <1>1, WriteRowsType DEF CommitLoaded, Session
<1>3. job' \in JobRow
  BY <1>1, WrittenJobType DEF TypeOK, CommitLoaded, Session
<1>4. session' \in [Sessions -> Session]
  <2>1. CASE session[x].kind = "start"
    <3>1. [session[x] EXCEPT !.kind = "generate", !.loaded = session[x].next, !.next = NoRows,
                             !.job = session[x].nextJob] \in Session
      BY <1>1, NewRowsType DEF Session, SessionKind
    <3> QED
      BY <2>1, <3>1 DEF TypeOK, CommitLoaded
  <2>2. CASE session[x].kind # "start"
    BY <1>1, <2>2, CloseType DEF CommitLoaded, Session
  <2> QED
    BY <2>1, <2>2
<1> QED
  BY <1>2, <1>3, <1>4 DEF TypeOK, CommitLoaded

LEMMA PublishType ==
  ASSUME TypeOK, NEW x \in Sessions, NEW t \in Task, Publish(x, t)
  PROVE  TypeOK'
<1>1. session[x].todo \ {t} \in SUBSET Task
  BY DEF TypeOK, Session
<1>2. session' \in [Sessions -> Session]
  BY <1>1, CloseType DEF Publish
<1>3. queue' \in [Task -> Nat]
  BY DEF TypeOK, Publish
<1> QED
  BY <1>2, <1>3 DEF TypeOK, Publish

LEMMA FinishType ==
  ASSUME TypeOK, NEW w \in Workers, NEW s \in SubJobs, finish_task(w, s)
  PROVE  TypeOK'
<1>1. w \in Sessions
  BY DEF Sessions
<1>2. session[w].loaded[s] \in SubJobRow
  BY <1>1, LoadedRow DEF finish_task
<1>3. PICK row \in process(s, session[w].loaded[s]) :
        Flush(w, [t \in {s} |-> row], recompute_parent_status(w, [t \in {s} |-> row]))
  BY DEF finish_task
<1>4. row \in SubJobRow
  BY <1>2, <1>3, ProcessType DEF finish_task
<1>5. [t \in {s} |-> row] \in Rows
  BY <1>4, OneRow
<1>6. recompute_parent_status(w, [t \in {s} |-> row]) \in JobRow
  BY <1>1, <1>5, RecomputeType
<1> QED
  BY <1>1, <1>3, <1>5, <1>6, FlushType

LEMMA IdleSessionType ==
  ASSUME TypeOK, NEW x \in Sessions, session' = [session EXCEPT ![x] = Idle]
  PROVE  session' \in [Sessions -> Session]
BY NewRowsType DEF TypeOK

\* The scorings a generation owes once its rows next are committed.
Scorings(next) == {ScoreTask(s) : s \in {t \in DOMAIN next : next[t].status = "QA_REVIEW"}}

\* A generation stays with its row and its scorings, any other session is over.
LEMMA CommitFlushedEnds ==
  ASSUME NEW x, CommitFlushed(x)
  PROVE  /\ session[x].kind = "generate"
              => session' = [session EXCEPT ![x] = Committed(x, Scorings(session[x].next))]
         /\ session[x].kind # "generate" => session' = [session EXCEPT ![x] = Idle]
BY DEF CommitFlushed, Scorings

LEMMA CommittedFields ==
  ASSUME NEW x, NEW todo
  PROVE  LET v == Committed(x, todo)
         IN  /\ v.pc = "publish" /\ v.kind = "generate" /\ v.todo = todo
             /\ v.loaded = session[x].next /\ v.next = NoRows
             /\ v.job = NewJob /\ v.nextJob = NewJob
BY DEF Committed, Idle

LEMMA CommittedType ==
  ASSUME TypeOK, NEW x \in Sessions
  PROVE  /\ Scorings(session[x].next) \in SUBSET Task
         /\ Committed(x, Scorings(session[x].next)) \in Session
<1>1. session[x].next \in Rows
  BY DEF TypeOK, Session
<1>2. Scorings(session[x].next) \in SUBSET Task
  BY <1>1, RowsDomain, TaskType DEF Scorings
<1> QED
  BY <1>1, <1>2, NewRowsType DEF Committed, Idle, Session, SessionKind

LEMMA CommitFlushedType ==
  ASSUME TypeOK, NEW x \in Sessions, CommitFlushed(x)
  PROVE  TypeOK'
<1>1. session[x] \in Session
  BY DEF TypeOK
<1>2. sub' \in [SubJobs -> SubJobRow]
  BY <1>1, WriteRowsType DEF CommitFlushed, Session
<1>3. job' \in JobRow
  BY <1>1, WrittenJobType DEF TypeOK, CommitFlushed, Session
<1>4. session' \in [Sessions -> Session]
  BY CommitFlushedEnds, CommittedType, NewRowsType DEF TypeOK
<1> QED
  BY <1>2, <1>3, <1>4 DEF TypeOK, CommitFlushed

LEMMA TimeoutType ==
  ASSUME TypeOK, NEW w \in Workers, NEW s \in SubJobs, mark_sub_job_timed_out(w, s)
  PROVE  TypeOK'
<1>1. w \in Sessions
  BY DEF Sessions
<1> DEFINE next == [t \in {s} |-> MarkFailed(sub[t])]
<1>2. next \in Rows
  BY MarkFailedType, RowsMember DEF TypeOK
<1>3. Begin("timeout", {s}) \in Session
  BY BeginOneType DEF SessionKind
<1>4. [Begin("timeout", {s}) EXCEPT !.next = next] \in Session
  BY <1>2, <1>3 DEF Session
<1>5. \/ session' = [session EXCEPT ![w] = [Begin("timeout", {s}) EXCEPT !.next = next]]
      \/ session' = [session EXCEPT ![w] = Idle]
  BY DEF mark_sub_job_timed_out
<1>6. overtaken' \subseteq SubJobs
  BY DEF TypeOK, mark_sub_job_timed_out
<1> HIDE DEF next
<1> QED
  BY <1>1, <1>4, <1>5, <1>6, NewRowsType DEF TypeOK, mark_sub_job_timed_out

LEMMA SweepType ==
  ASSUME TypeOK, NEW w \in Workers, NEW stale \in SUBSET SubJobs,
         reconcile_stuck_sub_jobs(w, stale)
  PROVE  TypeOK'
<1> DEFINE candidates == {s \in SubJobs : sub[s].status \in STUCK_STATUSES}
           next == [s \in stale |-> MarkFailed(sub[s])]
<1>1. next \in Rows
  BY MarkFailedType, RowsMember DEF TypeOK
<1>2. Begin("sweep", candidates) \in Session
  BY BeginType DEF SessionKind
<1>3. [Begin("sweep", candidates) EXCEPT !.next = next] \in Session
  BY <1>1, <1>2 DEF Session
<1>4. session' = [session EXCEPT ![w] = [Begin("sweep", candidates) EXCEPT !.next = next]]
  BY DEF reconcile_stuck_sub_jobs
<1> HIDE DEF next, candidates
<1> QED
  BY <1>3, <1>4 DEF TypeOK, reconcile_stuck_sub_jobs

LEMMA FlushPlannedType ==
  ASSUME TypeOK, NEW x \in Sessions, FlushPlanned(x)
  PROVE  TypeOK'
<1>1. session[x].next \in Rows
  BY DEF TypeOK, Session
<1>2. recompute_parent_status(x, session[x].next) \in JobRow
  BY <1>1, RecomputeType
<1> QED
  BY <1>1, <1>2, FlushType DEF FlushPlanned

LEMMA FaultType ==
  ASSUME TypeOK, NEW x \in Sessions, Fault(x)
  PROVE  TypeOK'
<1>1. faults' \in 0..MaxFaults
  BY BoundsAssumption DEF TypeOK, Fault
<1> QED
  BY <1>1, IdleSessionType DEF TypeOK, Fault

LEMMA RetryType ==
  ASSUME TypeOK, NEW h \in Handlers, NEW S \in SUBSET SubJobs, execute_retry(h, S)
  PROVE  TypeOK'
<1> DEFINE next == [s \in S |-> [sub[s] EXCEPT !.status = "PENDING", !.failure = "NONE"]]
           nextJob == IF job.status \in TERMINAL_STATUSES
                      THEN [job EXCEPT !.status = "PROCESSING", !.completed = FALSE]
                      ELSE job
           todo == {GenerateTask(s) : s \in S}
<1>1. next \in Rows
  <2>1. \A s \in S : [sub[s] EXCEPT !.status = "PENDING", !.failure = "NONE"] \in SubJobRow
    BY DEF TypeOK, SubJobRow, SubJobStatus, FailureClass
  <2> QED
    BY <2>1, RowsMember
<1>2. nextJob \in JobRow
  BY DEF TypeOK, JobRow, JobStatus
<1>3. todo \in SUBSET Task
  BY TaskType
<1>4. Begin("retry", S) \in Session
  BY BeginType DEF SessionKind
<1>5. [Begin("retry", S) EXCEPT !.next = next, !.nextJob = nextJob, !.todo = todo] \in Session
  BY <1>1, <1>2, <1>3, <1>4 DEF Session
<1>6. session' = [session EXCEPT ![h] =
                   [Begin("retry", S) EXCEPT !.next = next, !.nextJob = nextJob, !.todo = todo]]
  BY DEF execute_retry
<1> HIDE DEF next, nextJob, todo
<1> QED
  BY <1>5, <1>6 DEF TypeOK, execute_retry

LEMMA QaRetryType ==
  ASSUME TypeOK, NEW h \in Handlers, NEW s \in SubJobs, execute_qa_retry(h, s)
  PROVE  TypeOK'
<1> DEFINE next == [t \in {s} |-> [sub[t] EXCEPT !.attempts = @ + 1]]
<1>1. [sub[s] EXCEPT !.attempts = @ + 1] \in SubJobRow
  <2>1. sub[s] \in SubJobRow /\ sub[s].attempts < MaxAttempts
    BY DEF TypeOK, execute_qa_retry, check_qa_retry_preconditions
  <2>2. sub[s].attempts + 1 \in 0..MaxAttempts
    BY <2>1, AttemptsAssumption DEF SubJobRow
  <2> QED
    BY <2>1, <2>2 DEF SubJobRow
<1>2. next \in Rows
  BY <1>1, RowsMember
<1>3. {ScoreTask(s)} \in SUBSET Task
  BY TaskType
<1>4. Begin("qa_retry", {s}) \in Session
  BY BeginOneType DEF SessionKind
<1>5. [Begin("qa_retry", {s}) EXCEPT !.next = next, !.todo = {ScoreTask(s)}] \in Session
  BY <1>2, <1>3, <1>4 DEF Session
<1>6. session' = [session EXCEPT ![h] =
                   [Begin("qa_retry", {s}) EXCEPT !.next = next, !.todo = {ScoreTask(s)}]]
  BY DEF execute_qa_retry
<1> HIDE DEF next
<1> QED
  BY <1>5, <1>6 DEF TypeOK, execute_qa_retry

LEMMA ScoreTaskType ==
  ASSUME TypeOK, NEW w \in Workers, NEW s \in SubJobs, score_sub_job(w, s)
  PROVE  TypeOK'
<1>1. Begin("score", {s}) \in Session
  BY BeginOneType DEF SessionKind
<1>2. queue' \in [Task -> Nat]
  BY ReceiveType, TaskType DEF score_sub_job
<1> QED
  BY <1>1, <1>2 DEF TypeOK, score_sub_job

LEMMA VerdictType ==
  ASSUME TypeOK, NEW w \in Workers, NEW s \in SubJobs, score_and_apply(w, s)
  PROVE  TypeOK'
<1>1. w \in Sessions
  BY DEF Sessions
<1>2. PICK row \in score_outcomes(session[w].loaded[s]) :
        LET next == [t \in {s} |-> row]
        IN  \/ /\ row.qa # "FLAGGED"
               /\ Flush(w, next, recompute_parent_status(w, next))
            \/ /\ row.qa = "FLAGGED"
               /\ s \notin LockedByOthers(w)
               /\ WriteRows(w, next)
               /\ Close(w, {})
               /\ UNCHANGED <<job, queue, fan_out, faults, overtaken>>
  BY DEF score_and_apply
<1> DEFINE next == [t \in {s} |-> row]
<1>3. row \in SubJobRow
  BY <1>1, <1>2, LoadedRow, ScoreType DEF score_and_apply
<1>4. next \in Rows
  BY <1>3, OneRow
<1> HIDE DEF next
<1>5. CASE Flush(w, next, recompute_parent_status(w, next))
  BY <1>1, <1>4, <1>5, RecomputeType, FlushType
<1>6. CASE WriteRows(w, next) /\ Close(w, {}) /\ UNCHANGED <<job, queue, fan_out, faults, overtaken>>
  <2>1. sub' \in [SubJobs -> SubJobRow]
    BY <1>1, <1>4, <1>6, WriteRowsType
  <2>2. session' \in [Sessions -> Session]
    BY <1>1, <1>6, CloseType
  <2> QED
    BY <1>6, <2>1, <2>2 DEF TypeOK
<1> QED
  BY <1>2, <1>5, <1>6 DEF next

LEMMA DecisionType ==
  ASSUME TypeOK, NEW h \in Handlers, NEW s \in SubJobs, NEW approve \in BOOLEAN,
         submit_qa_decision(h, s, approve)
  PROVE  TypeOK'
<1> DEFINE next == [t \in {s} |->
                      IF approve
                      THEN [sub[t] EXCEPT !.qa = "PASSED", !.status = "COMPLETED"]
                      ELSE [sub[t] EXCEPT !.qa = "FAILED", !.status = "REJECTED",
                                          !.failure = "QA_REJECTED"]]
<1>1. next[s] \in SubJobRow
  BY DEF TypeOK, SubJobRow, SubJobStatus, FailureClass, QAStatus
<1>2. next \in Rows
  BY <1>1, RowsMember
<1>3. Begin("decide", {s}) \in Session
  BY BeginOneType DEF SessionKind
<1>4. [Begin("decide", {s}) EXCEPT !.next = next] \in Session
  BY <1>2, <1>3 DEF Session
<1>5. session' = [session EXCEPT ![h] = [Begin("decide", {s}) EXCEPT !.next = next]]
  BY DEF submit_qa_decision
<1> HIDE DEF next
<1> QED
  BY <1>4, <1>5 DEF TypeOK, submit_qa_decision

LEMMA RescoreType ==
  ASSUME TypeOK, NEW h \in Handlers, rescore_flagged_background_operations(h)
  PROVE  TypeOK'
<1> DEFINE todo == {ScoreTask(s) : s \in {t \in SubJobs : Flagged(sub[t])}}
<1>1. todo \in SUBSET Task
  BY TaskType
<1>2. [Idle EXCEPT !.pc = "publish", !.kind = "rescore", !.todo = todo] \in Session
  BY <1>1, NewRowsType DEF Session, SessionKind
<1>3. session' = [session EXCEPT ![h] =
                   [Idle EXCEPT !.pc = "publish", !.kind = "rescore", !.todo = todo]]
  BY DEF rescore_flagged_background_operations
<1> HIDE DEF todo
<1> QED
  BY <1>2, <1>3 DEF TypeOK, rescore_flagged_background_operations

\* Every step of the system keeps TypeOK.
LEMMA NextType == TypeOK /\ [Next]_vars => TypeOK'
<1> SUFFICES ASSUME TypeOK, [Next]_vars PROVE TypeOK'
  OBVIOUS
<1>1. CASE UNCHANGED vars
  BY <1>1 DEF TypeOK, vars
<1>2. ASSUME NEW w \in Workers, WorkerStep(w)
      PROVE  TypeOK'
  <2>1. ASSUME NEW s \in SubJobs, assertion_fails(w, s) PROVE TypeOK'
    BY <2>1, IdleSessionType DEF TypeOK, assertion_fails, Sessions
  <2>2. CASE connections_closed(w)
    BY <2>2, IdleSessionType DEF TypeOK, connections_closed, Sessions
  <2> QED
    BY <1>2, <2>1, <2>2, DispatchType, StartType, FinishType, ScoreTaskType, VerdictType,
       TimeoutType, SweepType DEF WorkerStep
<1>3. ASSUME NEW h \in Handlers, HandlerStep(h)
      PROVE  TypeOK'
  <2>1. CASE retry_angle(h)
    BY <2>1, RetryType DEF retry_angle
  <2>2. CASE retry_job(h)
    <3>1. {s \in SubJobs : sub[s].status = "FAILED"} \in SUBSET SubJobs
      OBVIOUS
    <3> QED
      BY <2>2, <3>1, RetryType DEF retry_job
  <2> QED
    BY <1>3, <2>1, <2>2, QaRetryType, DecisionType, RescoreType DEF HandlerStep
<1>4. ASSUME NEW x \in Sessions, SessionStep(x) \/ Fault(x)
      PROVE  TypeOK'
  BY <1>4, CommitLoadedType, FlushPlannedType, CommitFlushedType, PublishType, FaultType
  DEF SessionStep
<1> QED
  BY <1>1, <1>2, <1>3, <1>4 DEF Next

\* For every set of sub-jobs, workers and handlers and every operation: each row,
\* session and message keeps its shape, and no interleaving of attempts, client
\* retries, QA retries and duplicate tasks takes attempt_count past MAX_ATTEMPTS.
THEOREM TypeCorrect == Spec => []TypeOK
<1> QED
  BY InitType, NextType, PTL DEF Spec

-----------------------------------------------------------------------------
(* The QA gate.  GateInv strengthens UngatedNeverReviewed and carries what  *)
(* DeliveredOnlyByVerdict needs: what a session may hold and plan to write. *)

UngatedRow(r) == r.status # "QA_REVIEW" /\ r.qa = "NOT_APPLICABLE"

GateSession(v) ==
  /\ \A s \in SubJobs : ~Gated(s) =>
       /\ ScoreTask(s) \notin v.todo
       /\ s \in DOMAIN v.loaded => v.kind # "score" /\ UngatedRow(v.loaded[s])
       /\ s \in DOMAIN v.next => UngatedRow(v.next[s])
  /\ \A s \in DOMAIN v.next :
       Gated(s) /\ v.next[s].status = "COMPLETED" => v.kind \in {"score", "decide"}

GateInv ==
  /\ \A s \in SubJobs : ~Gated(s) => UngatedRow(sub[s]) /\ queue[ScoreTask(s)] = 0
  /\ \A x \in Sessions : GateSession(session[x])

\* Every operation sends its success where Gated says.
LEMMA ProcessResult ==
  ASSUME NEW s \in SubJobs, NEW row \in SubJobRow, row.attempts < MaxAttempts,
         NEW r \in process(s, row)
  PROVE  /\ r.qa = row.qa
         /\ Gated(s) => r.status \in {"QA_REVIEW", "FAILED", "REJECTED"}
         /\ ~Gated(s) => r.status \in {"COMPLETED", "FAILED", "REJECTED"}
<1>1. process(s, row) = IF Gated(s) THEN attempt_loop(row, "QA_REVIEW")
                        ELSE attempt_loop(row, "COMPLETED")
  BY OperationAssumption
  DEF process, transform_photo, background_process, match_process, recolor_process,
      mix_process, Gated, Operations, FanOutOperations, BackgroundOperations
<1>2. "QA_REVIEW" \in SubJobStatus /\ "COMPLETED" \in SubJobStatus
  BY DEF SubJobStatus
<1> QED
  BY <1>1, <1>2, AttemptLoopResult

LEMMA TasksDiffer ==
  ASSUME NEW s \in SubJobs, NEW t \in SubJobs
  PROVE  /\ ScoreTask(s) # GenerateTask(t)
         /\ ScoreTask(s) = ScoreTask(t) => s = t
BY DEF ScoreTask, GenerateTask

LEMMA GateIdle == GateSession(Idle)
BY DEF GateSession, Idle, NoRows

\* Replacing one session by one that satisfies GateSession.
LEMMA GateUpdate ==
  ASSUME TypeOK, GateInv, NEW x \in Sessions, NEW v, GateSession(v),
         session' = [session EXCEPT ![x] = v]
  PROVE  \A y \in Sessions : GateSession(session'[y])
BY DEF TypeOK, GateInv

LEMMA GateClose ==
  ASSUME TypeOK, GateInv, NEW x \in Sessions, NEW todo, Close(x, todo),
         \A s \in SubJobs : ~Gated(s) => ScoreTask(s) \notin todo
  PROVE  \A y \in Sessions : GateSession(session'[y])
<1> DEFINE v == IF todo = {} THEN Idle
                ELSE [Idle EXCEPT !.pc = "publish", !.kind = session[x].kind, !.todo = todo]
<1>1. GateSession(v)
  BY GateIdle DEF GateSession, Idle, NoRows
<1>2. session' = [session EXCEPT ![x] = v]
  BY DEF Close
<1> HIDE DEF v
<1> QED
  BY <1>1, <1>2, GateUpdate

LEMMA GateFlush ==
  ASSUME TypeOK, GateInv, NEW x \in Sessions, NEW next, NEW nextJob, Flush(x, next, nextJob),
         \A s \in SubJobs : ~Gated(s) /\ s \in DOMAIN next => UngatedRow(next[s]),
         \A s \in DOMAIN next : Gated(s) /\ next[s].status = "COMPLETED"
                                  => session[x].kind \in {"score", "decide"}
  PROVE  GateInv'
<1> DEFINE v == [session[x] EXCEPT !.pc = "flushed", !.next = next, !.nextJob = nextJob]
<1>1. /\ v.next = next /\ v.kind = session[x].kind
      /\ v.loaded = session[x].loaded /\ v.todo = session[x].todo
  BY DEF TypeOK, Session
<1>2. session' = [session EXCEPT ![x] = v]
  BY DEF Flush, TypeOK
<1> HIDE DEF v
<1>3. GateSession(v)
  BY <1>1 DEF GateInv, GateSession
<1> QED
  BY <1>2, <1>3, GateUpdate DEF GateInv, Flush

LEMMA GateWrite ==
  ASSUME TypeOK, GateInv, NEW x \in Sessions, NEW next \in Rows, WriteRows(x, next),
         \A s \in SubJobs : ~Gated(s) /\ s \in DOMAIN next => UngatedRow(next[s])
  PROVE  \A s \in SubJobs : ~Gated(s) => UngatedRow(sub'[s])
BY DEF GateInv, WriteRows, WrittenRow, Dirty, UngatedRow

LEMMA GateReceive ==
  ASSUME TypeOK, GateInv, NEW t \in Task, Receive(t)
  PROVE  \A s \in SubJobs : ~Gated(s) => queue'[ScoreTask(s)] = 0
BY TaskType DEF TypeOK, GateInv, Receive

LEMMA GateDispatch ==
  ASSUME TypeOK, GateInv, NEW w \in Workers, dispatch_job(w)
  PROVE  GateInv'
<1> DEFINE nextJob == IF job.status = "PENDING" THEN [job EXCEPT !.status = "PROCESSING"]
                      ELSE job
           todo == {GenerateTask(s) : s \in {t \in SubJobs : sub[t].status = "PENDING"}}
           v == [Begin("fan_out", {}) EXCEPT !.nextJob = nextJob, !.todo = todo]
<1>1. session' = [session EXCEPT ![w] = v]
  BY DEF dispatch_job
<1>2. v.kind = "fan_out" /\ v.loaded = [s \in {} |-> sub[s]] /\ v.next = NoRows /\ v.todo = todo
  BY DEF Begin, Idle
<1>3. \A s \in SubJobs : ScoreTask(s) \notin todo
  BY TasksDiffer
<1> HIDE DEF v, todo, nextJob
<1>4. GateSession(v)
  BY <1>2, <1>3 DEF GateSession, NoRows
<1> QED
  BY <1>1, <1>4, GateUpdate DEF GateInv, dispatch_job, Sessions

LEMMA GateStart ==
  ASSUME TypeOK, GateInv, NEW w \in Workers, NEW s \in SubJobs, start_task(w, s)
  PROVE  GateInv'
<1> DEFINE next == [t \in {s} |-> [sub[t] EXCEPT !.status = "GENERATING"]]
           nextJob == IF Operation # "ANGLE_GENERATION" /\ job.status = "PENDING"
                      THEN [job EXCEPT !.status = "PROCESSING"] ELSE job
           v == [Begin("start", {s}) EXCEPT !.next = next, !.nextJob = nextJob]
<1>1. session' = [session EXCEPT ![w] = v]
  BY DEF start_task
<1>2. v.kind = "start" /\ v.loaded = [t \in {s} |-> sub[t]] /\ v.next = next /\ v.todo = {}
  BY DEF Begin, Idle
<1>3. next[s].status = "GENERATING" /\ next[s].qa = sub[s].qa /\ DOMAIN next = {s}
  BY DEF TypeOK, SubJobRow
<1> HIDE DEF v, next, nextJob
<1>4. GateSession(v)
  BY <1>2, <1>3 DEF GateSession, GateInv, UngatedRow
<1>5. \A t \in SubJobs : ~Gated(t) => queue'[ScoreTask(t)] = 0
  BY GateReceive, TaskType DEF start_task
<1> QED
  BY <1>1, <1>4, <1>5, GateUpdate DEF GateInv, start_task, Sessions

LEMMA GateCommitLoaded ==
  ASSUME TypeOK, GateInv, NEW x \in Sessions, CommitLoaded(x)
  PROVE  GateInv'
<1>1. session[x] \in Session /\ GateSession(session[x])
  BY DEF TypeOK, GateInv
<1>2. \A s \in SubJobs : ~Gated(s) => UngatedRow(sub'[s])
  BY <1>1, GateWrite DEF CommitLoaded, GateSession, Session
<1>3. \A y \in Sessions : GateSession(session'[y])
  <2>1. CASE session[x].kind = "start"
    <3> DEFINE v == [session[x] EXCEPT !.kind = "generate", !.loaded = session[x].next,
                                       !.next = NoRows, !.job = session[x].nextJob]
    <3>1. /\ v.kind = "generate" /\ v.loaded = session[x].next
          /\ v.next = NoRows /\ v.todo = session[x].todo
      BY <1>1 DEF Session
    <3>2. session' = [session EXCEPT ![x] = v]
      BY <2>1 DEF CommitLoaded
    <3> HIDE DEF v
    <3>3. GateSession(v)
      BY <1>1, <3>1 DEF GateSession, NoRows
    <3> QED
      BY <3>2, <3>3, GateUpdate
  <2>2. CASE session[x].kind # "start"
    BY <1>1, <2>2, GateClose DEF CommitLoaded, GateSession
  <2> QED
    BY <2>1, <2>2
<1> QED
  BY <1>2, <1>3 DEF GateInv, CommitLoaded

LEMMA GatePublish ==
  ASSUME TypeOK, GateInv, NEW x \in Sessions, NEW t \in Task, Publish(x, t)
  PROVE  GateInv'
<1>1. GateSession(session[x])
  BY DEF GateInv
<1>2. \A s \in SubJobs : ~Gated(s) => ScoreTask(s) # t
  BY <1>1 DEF GateSession, Publish
<1>3. \A s \in SubJobs : ~Gated(s) => queue'[ScoreTask(s)] = 0
  BY <1>2, TaskType DEF Publish, GateInv, TypeOK
<1>4. \A y \in Sessions : GateSession(session'[y])
  BY <1>1, GateClose DEF Publish, GateSession
<1> QED
  BY <1>3, <1>4 DEF GateInv, Publish

LEMMA GateFinish ==
  ASSUME TypeOK, GateInv, NEW w \in Workers, NEW s \in SubJobs, finish_task(w, s)
  PROVE  GateInv'
<1>1. w \in Sessions
  BY DEF Sessions
<1>2. session[w].loaded[s] \in SubJobRow
  BY <1>1, LoadedRow DEF finish_task
<1>3. PICK row \in process(s, session[w].loaded[s]) :
        Flush(w, [t \in {s} |-> row], recompute_parent_status(w, [t \in {s} |-> row]))
  BY DEF finish_task
<1>4. /\ row.qa = session[w].loaded[s].qa
      /\ Gated(s) => row.status # "COMPLETED"
      /\ ~Gated(s) => row.status # "QA_REVIEW"
  BY <1>2, ProcessResult DEF finish_task
<1>5. ~Gated(s) => UngatedRow(session[w].loaded[s])
  BY <1>1 DEF GateInv, GateSession, finish_task
<1> DEFINE next == [t \in {s} |-> row]
<1>6. DOMAIN next = {s} /\ next[s] = row
  OBVIOUS
<1>7. Flush(w, next, recompute_parent_status(w, next))
  BY <1>3
<1> HIDE DEF next
<1> QED
  BY <1>1, <1>4, <1>5, <1>6, <1>7, GateFlush DEF UngatedRow

LEMMA GateIdleSession ==
  ASSUME TypeOK, GateInv, NEW x \in Sessions, session' = [session EXCEPT ![x] = Idle],
         UNCHANGED <<sub, queue>>
  PROVE  GateInv'
BY GateIdle, GateUpdate DEF GateInv

LEMMA GateCommitFlushed ==
  ASSUME TypeOK, GateInv, NEW x \in Sessions, CommitFlushed(x)
  PROVE  GateInv'
<1>1. session[x] \in Session /\ GateSession(session[x])
  BY DEF TypeOK, GateInv
<1>2. \A s \in SubJobs : ~Gated(s) => UngatedRow(sub'[s])
  BY <1>1, GateWrite DEF CommitFlushed, GateSession, Session
<1> DEFINE todo == Scorings(session[x].next)
           v == Committed(x, todo)
<1>3. \A s \in SubJobs : ~Gated(s) => ScoreTask(s) \notin todo
  <2> SUFFICES ASSUME NEW s \in SubJobs, ~Gated(s), ScoreTask(s) \in todo
               PROVE  FALSE
    OBVIOUS
  <2>1. PICK t \in DOMAIN session[x].next :
          session[x].next[t].status = "QA_REVIEW" /\ ScoreTask(s) = ScoreTask(t)
    BY DEF Scorings
  <2>2. t \in SubJobs
    BY <1>1, RowsDomain DEF Session
  <2>3. s = t
    BY <2>1, <2>2, TasksDiffer
  <2> QED
    BY <1>1, <2>1, <2>3 DEF GateSession, UngatedRow
<1>4. v.kind = "generate" /\ v.loaded = session[x].next /\ v.next = NoRows /\ v.todo = todo
  BY CommittedFields
<1>5. \/ session' = [session EXCEPT ![x] = v]
      \/ session' = [session EXCEPT ![x] = Idle]
  BY CommitFlushedEnds
<1> HIDE DEF todo, v
<1>6. GateSession(v)
  BY <1>1, <1>3, <1>4 DEF GateSession, NoRows
<1>7. \A y \in Sessions : GateSession(session'[y])
  BY <1>5, <1>6, GateIdle, GateUpdate
<1> QED
  BY <1>2, <1>7 DEF GateInv, CommitFlushed

LEMMA GateTimeout ==
  ASSUME TypeOK, GateInv, NEW w \in Workers, NEW s \in SubJobs, mark_sub_job_timed_out(w, s)
  PROVE  GateInv'
<1> DEFINE next == [t \in {s} |-> MarkFailed(sub[t])]
           v == [Begin("timeout", {s}) EXCEPT !.next = next]
<1>1. \/ session' = [session EXCEPT ![w] = v]
      \/ session' = [session EXCEPT ![w] = Idle]
  BY DEF mark_sub_job_timed_out
<1>2. v.kind = "timeout" /\ v.loaded = [t \in {s} |-> sub[t]] /\ v.next = next /\ v.todo = {}
  BY DEF Begin, Idle
<1>3. next[s].status = "FAILED" /\ next[s].qa = sub[s].qa /\ DOMAIN next = {s}
  BY DEF TypeOK, SubJobRow, MarkFailed
<1> HIDE DEF v, next
<1>4. GateSession(v)
  BY <1>2, <1>3 DEF GateSession, GateInv, UngatedRow
<1> QED
  BY <1>1, <1>4, GateIdle, GateUpdate DEF GateInv, mark_sub_job_timed_out, Sessions

LEMMA GateSweep ==
  ASSUME TypeOK, GateInv, NEW w \in Workers, NEW stale \in SUBSET SubJobs,
         reconcile_stuck_sub_jobs(w, stale)
  PROVE  GateInv'
<1> DEFINE candidates == {s \in SubJobs : sub[s].status \in STUCK_STATUSES}
           next == [s \in stale |-> MarkFailed(sub[s])]
           v == [Begin("sweep", candidates) EXCEPT !.next = next]
<1>1. session' = [session EXCEPT ![w] = v]
  BY DEF reconcile_stuck_sub_jobs
<1>2. /\ v.kind = "sweep" /\ v.loaded = [s \in candidates |-> sub[s]]
      /\ v.next = next /\ v.todo = {}
  BY DEF Begin, Idle
<1>3. /\ DOMAIN next = stale
      /\ \A s \in stale : next[s].status = "FAILED" /\ next[s].qa = sub[s].qa
  BY DEF TypeOK, SubJobRow, MarkFailed
<1>4. candidates \subseteq SubJobs
  OBVIOUS
<1> HIDE DEF v, next, candidates
<1>5. GateSession(v)
  BY <1>2, <1>3, <1>4 DEF GateSession, GateInv, UngatedRow
<1> QED
  BY <1>1, <1>5, GateUpdate DEF GateInv, reconcile_stuck_sub_jobs, Sessions

LEMMA GateFlushPlanned ==
  ASSUME TypeOK, GateInv, NEW x \in Sessions, FlushPlanned(x)
  PROVE  GateInv'
BY GateFlush DEF FlushPlanned, GateInv, GateSession

LEMMA GateRetry ==
  ASSUME TypeOK, GateInv, NEW h \in Handlers, NEW S \in SUBSET SubJobs, execute_retry(h, S)
  PROVE  GateInv'
<1> DEFINE next == [s \in S |-> [sub[s] EXCEPT !.status = "PENDING", !.failure = "NONE"]]
           nextJob == IF job.status \in TERMINAL_STATUSES
                      THEN [job EXCEPT !.status = "PROCESSING", !.completed = FALSE]
                      ELSE job
           todo == {GenerateTask(s) : s \in S}
           v == [Begin("retry", S) EXCEPT !.next = next, !.nextJob = nextJob, !.todo = todo]
<1>1. session' = [session EXCEPT ![h] = v]
  BY DEF execute_retry
<1>2. v.kind = "retry" /\ v.loaded = [s \in S |-> sub[s]] /\ v.next = next /\ v.todo = todo
  BY DEF Begin, Idle
<1>3. /\ DOMAIN next = S
      /\ \A s \in S : next[s].status = "PENDING" /\ next[s].qa = sub[s].qa
  BY DEF TypeOK, SubJobRow
<1>4. \A s \in SubJobs : ScoreTask(s) \notin todo
  BY TasksDiffer
<1> HIDE DEF v, next, nextJob, todo
<1>5. GateSession(v)
  BY <1>2, <1>3, <1>4 DEF GateSession, GateInv, UngatedRow
<1> QED
  BY <1>1, <1>5, GateUpdate DEF GateInv, execute_retry, Sessions

LEMMA GateQaRetry ==
  ASSUME TypeOK, GateInv, NEW h \in Handlers, NEW s \in SubJobs, execute_qa_retry(h, s)
  PROVE  GateInv'
<1> DEFINE next == [t \in {s} |-> [sub[t] EXCEPT !.attempts = @ + 1]]
           v == [Begin("qa_retry", {s}) EXCEPT !.next = next, !.todo = {ScoreTask(s)}]
<1>1. session' = [session EXCEPT ![h] = v]
  BY DEF execute_qa_retry
<1>2. /\ v.kind = "qa_retry" /\ v.loaded = [t \in {s} |-> sub[t]]
      /\ v.next = next /\ v.todo = {ScoreTask(s)}
  BY DEF Begin, Idle
<1>3. sub[s].status = "QA_REVIEW"
  BY DEF execute_qa_retry, check_qa_retry_preconditions, Flagged
<1>4. Gated(s)
  BY <1>3 DEF GateInv, UngatedRow
<1>5. next[s].status = "QA_REVIEW" /\ DOMAIN next = {s}
  BY <1>3 DEF TypeOK, SubJobRow
<1> HIDE DEF v, next
<1>6. GateSession(v)
  BY <1>2, <1>4, <1>5, TasksDiffer DEF GateSession
<1> QED
  BY <1>1, <1>6, GateUpdate DEF GateInv, execute_qa_retry, Sessions

LEMMA GateScore ==
  ASSUME TypeOK, GateInv, NEW w \in Workers, NEW s \in SubJobs, score_sub_job(w, s)
  PROVE  GateInv'
<1>1. Gated(s)
  BY TaskType DEF GateInv, score_sub_job, Receive
<1>2. GateSession(Begin("score", {s}))
  BY <1>1 DEF GateSession, Begin, Idle, NoRows
<1>3. \A t \in SubJobs : ~Gated(t) => queue'[ScoreTask(t)] = 0
  BY GateReceive, TaskType DEF score_sub_job
<1> QED
  BY <1>2, <1>3, GateUpdate DEF GateInv, score_sub_job, Sessions

LEMMA GateVerdict ==
  ASSUME TypeOK, GateInv, NEW w \in Workers, NEW s \in SubJobs, score_and_apply(w, s)
  PROVE  GateInv'
<1>1. w \in Sessions
  BY DEF Sessions
<1>2. PICK row \in score_outcomes(session[w].loaded[s]) :
        LET next == [t \in {s} |-> row]
        IN  \/ /\ row.qa # "FLAGGED"
               /\ Flush(w, next, recompute_parent_status(w, next))
            \/ /\ row.qa = "FLAGGED"
               /\ s \notin LockedByOthers(w)
               /\ WriteRows(w, next)
               /\ Close(w, {})
               /\ UNCHANGED <<job, queue, fan_out, faults, overtaken>>
  BY DEF score_and_apply
<1> DEFINE next == [t \in {s} |-> row]
<1>3. session[w].kind = "score" /\ Gated(s)
  BY <1>1 DEF GateInv, GateSession, score_and_apply, At
<1>4. row \in SubJobRow
  BY <1>1, <1>2, LoadedRow, ScoreType DEF score_and_apply
<1>5. next \in Rows /\ DOMAIN next = {s}
  BY <1>4, OneRow
<1> HIDE DEF next
<1>6. CASE Flush(w, next, recompute_parent_status(w, next))
  BY <1>1, <1>3, <1>5, <1>6, GateFlush
<1>7. CASE WriteRows(w, next) /\ Close(w, {}) /\ UNCHANGED <<job, queue, fan_out, faults, overtaken>>
  <2>1. \A t \in SubJobs : ~Gated(t) => UngatedRow(sub'[t])
    BY <1>1, <1>3, <1>5, <1>7, GateWrite
  <2>2. \A y \in Sessions : GateSession(session'[y])
    BY <1>1, <1>7, GateClose
  <2> QED
    BY <1>7, <2>1, <2>2 DEF GateInv
<1> QED
  BY <1>2, <1>6, <1>7 DEF next

LEMMA GateDecision ==
  ASSUME TypeOK, GateInv, NEW h \in Handlers, NEW s \in SubJobs, NEW approve \in BOOLEAN,
         submit_qa_decision(h, s, approve)
  PROVE  GateInv'
<1> DEFINE next == [t \in {s} |->
                      IF approve
                      THEN [sub[t] EXCEPT !.qa = "PASSED", !.status = "COMPLETED"]
                      ELSE [sub[t] EXCEPT !.qa = "FAILED", !.status = "REJECTED",
                                          !.failure = "QA_REJECTED"]]
           v == [Begin("decide", {s}) EXCEPT !.next = next]
<1>1. session' = [session EXCEPT ![h] = v]
  BY DEF submit_qa_decision
<1>2. /\ v.kind = "decide" /\ v.loaded = [t \in {s} |-> sub[t]]
      /\ v.next = next /\ v.todo = {}
  BY DEF Begin, Idle
<1>3. Gated(s)
  BY DEF GateInv, UngatedRow, submit_qa_decision
<1>4. DOMAIN next = {s}
  OBVIOUS
<1> HIDE DEF v, next
<1>5. GateSession(v)
  BY <1>2, <1>3, <1>4 DEF GateSession
<1> QED
  BY <1>1, <1>5, GateUpdate DEF GateInv, submit_qa_decision, Sessions

LEMMA GateRescore ==
  ASSUME TypeOK, GateInv, NEW h \in Handlers, rescore_flagged_background_operations(h)
  PROVE  GateInv'
<1> DEFINE todo == {ScoreTask(s) : s \in {t \in SubJobs : Flagged(sub[t])}}
           v == [Idle EXCEPT !.pc = "publish", !.kind = "rescore", !.todo = todo]
<1>1. session' = [session EXCEPT ![h] = v]
  BY DEF rescore_flagged_background_operations
<1>2. v.kind = "rescore" /\ v.loaded = NoRows /\ v.next = NoRows /\ v.todo = todo
  BY DEF Idle
<1>3. \A s \in SubJobs : Gated(s)
  BY DEF Gated, rescore_flagged_background_operations
<1> HIDE DEF v, todo
<1>4. GateSession(v)
  BY <1>2, <1>3 DEF GateSession, NoRows
<1> QED
  BY <1>1, <1>4, GateUpdate DEF GateInv, rescore_flagged_background_operations, Sessions

LEMMA GateInit == Init => GateInv
<1> SUFFICES ASSUME Init PROVE GateInv
  OBVIOUS
<1>1. \A s \in SubJobs : UngatedRow(sub[s])
  BY DEF Init, NewSubJob, UngatedRow
<1>2. \A s \in SubJobs : queue[ScoreTask(s)] = 0
  <2>1. \A s \in SubJobs : ScoreTask(s).kind = "score"
    BY DEF ScoreTask
  <2>2. CASE Operation \in FanOutOperations
    BY <2>2, TaskType DEF Init
  <2>3. CASE Operation \notin FanOutOperations
    <3>1. PICK dispatched \in 0..1 :
            queue = [t \in Task |-> IF t.kind = "generate" THEN dispatched ELSE 0]
      BY <2>3 DEF Init
    <3> QED
      BY <2>1, <3>1, TaskType
  <2> QED
    BY <2>2, <2>3
<1>3. \A x \in Sessions : GateSession(session[x])
  BY GateIdle DEF Init
<1> QED
  BY <1>1, <1>2, <1>3 DEF GateInv

LEMMA GateNext == TypeOK /\ GateInv /\ [Next]_vars => GateInv'
<1> SUFFICES ASSUME TypeOK, GateInv, [Next]_vars PROVE GateInv'
  OBVIOUS
<1>1. CASE UNCHANGED vars
  BY <1>1 DEF GateInv, vars
<1>2. ASSUME NEW w \in Workers, WorkerStep(w)
      PROVE  GateInv'
  <2>1. ASSUME NEW s \in SubJobs, assertion_fails(w, s) PROVE GateInv'
    BY <2>1, GateIdleSession DEF assertion_fails, Sessions
  <2>2. CASE connections_closed(w)
    BY <2>2, GateIdleSession DEF connections_closed, Sessions
  <2> QED
    BY <1>2, <2>1, <2>2, GateDispatch, GateStart, GateFinish, GateScore, GateVerdict,
       GateTimeout, GateSweep DEF WorkerStep
<1>3. ASSUME NEW h \in Handlers, HandlerStep(h)
      PROVE  GateInv'
  <2>1. CASE retry_angle(h)
    BY <2>1, GateRetry DEF retry_angle
  <2>2. CASE retry_job(h)
    <3>1. {s \in SubJobs : sub[s].status = "FAILED"} \in SUBSET SubJobs
      OBVIOUS
    <3> QED
      BY <2>2, <3>1, GateRetry DEF retry_job
  <2> QED
    BY <1>3, <2>1, <2>2, GateQaRetry, GateDecision, GateRescore DEF HandlerStep
<1>4. ASSUME NEW x \in Sessions, SessionStep(x) \/ Fault(x)
      PROVE  GateInv'
  BY <1>4, GateCommitLoaded, GateFlushPlanned, GateCommitFlushed, GatePublish, GateIdleSession
  DEF SessionStep, Fault
<1> QED
  BY <1>1, <1>2, <1>3, <1>4 DEF Next

LEMMA GateInvariant == Spec => []GateInv
<1> QED
  BY InitType, NextType, GateInit, GateNext, PTL DEF Spec

\* For every operation, pool and schedule: MATCH, RECOLOR, MIX and photographed
\* angles never enter review, carry no verdict and are never scored.
THEOREM UngatedStaysOut == Spec => []UngatedNeverReviewed
<1>1. GateInv => UngatedNeverReviewed
  BY DEF GateInv, GateSession, UngatedRow, UngatedNeverReviewed
<1> QED
  BY <1>1, GateInvariant, PTL

\* Only three actions write the sub_jobs table.
LEMMA SubJobWriters ==
  ASSUME [Next]_vars, sub' # sub
  PROVE  \E x \in Sessions :
           \/ CommitLoaded(x)
           \/ CommitFlushed(x)
           \/ \E s \in SubJobs : score_and_apply(x, s)
<1>1. ASSUME NEW w \in Workers, WorkerStep(w)
      PROVE  \E s \in SubJobs : score_and_apply(w, s)
  BY <1>1 DEF WorkerStep, dispatch_job, start_task, finish_task, Flush, assertion_fails,
              connections_closed, score_sub_job, mark_sub_job_timed_out,
              reconcile_stuck_sub_jobs
<1>2. ASSUME NEW h \in Handlers, HandlerStep(h)
      PROVE  FALSE
  BY <1>2 DEF HandlerStep, retry_angle, retry_job, execute_retry, execute_qa_retry,
              submit_qa_decision, rescore_flagged_background_operations
<1>3. ASSUME NEW x \in Sessions, SessionStep(x) \/ Fault(x)
      PROVE  CommitLoaded(x) \/ CommitFlushed(x)
  BY <1>3 DEF SessionStep, FlushPlanned, Flush, Publish, Fault
<1> QED
  BY <1>1, <1>2, <1>3 DEF Next, vars, Sessions

\* A written status is the one the session planned.
LEMMA WrittenStatus ==
  ASSUME NEW x \in Sessions, NEW next, WriteRows(x, next), NEW s \in SubJobs,
         sub'[s].status # sub[s].status
  PROVE  /\ s \in DOMAIN next
         /\ sub'[s].status = next[s].status
         /\ next[s].status # session[x].loaded[s].status
<1>1. s \in DOMAIN next
  BY DEF WriteRows
<1>2. sub'[s] = WrittenRow(sub[s], session[x].loaded[s], next[s])
  BY <1>1 DEF WriteRows
<1> QED
  BY <1>1, <1>2 DEF WrittenRow, Dirty

\* A verdict that flags leaves the status as it was loaded.
LEMMA FlagKeepsStatus ==
  ASSUME NEW row \in SubJobRow, NEW r \in score_outcomes(row), r.qa = "FLAGGED"
  PROVE  r.status = row.status
BY DEF score_outcomes, SubJobRow

LEMMA DeliveryNext ==
  ASSUME TypeOK, GateInv, [Next]_vars, NEW s \in SubJobs
  PROVE  DeliveryStep(s)
<1> SUFFICES ASSUME Gated(s), sub'[s].status = "COMPLETED", sub[s].status # "COMPLETED"
             PROVE  \E x \in Sessions : /\ session[x].kind \in {"score", "decide"}
                                        /\ s \in DOMAIN session[x].next
                                        /\ session'[x] # session[x]
  BY DEF DeliveryStep
<1>1. PICK x \in Sessions :
        \/ CommitLoaded(x)
        \/ CommitFlushed(x)
        \/ \E t \in SubJobs : score_and_apply(x, t)
  BY SubJobWriters
<1>2. session[x] \in Session /\ GateSession(session[x])
  BY DEF TypeOK, GateInv
<1>3. CASE CommitLoaded(x)
  <2>1. s \in DOMAIN session[x].next /\ session[x].next[s].status = "COMPLETED"
    BY <1>3, WrittenStatus DEF CommitLoaded
  <2>2. session[x].kind \notin {"score", "decide"}
    BY <1>3 DEF CommitLoaded, At
  <2> QED
    BY <1>2, <2>1, <2>2 DEF GateSession
<1>4. CASE CommitFlushed(x)
  <2>1. s \in DOMAIN session[x].next /\ session[x].next[s].status = "COMPLETED"
    BY <1>4, WrittenStatus DEF CommitFlushed
  <2>2. session[x].kind \in {"score", "decide"}
    BY <1>2, <2>1 DEF GateSession
  <2>3. session'[x].pc # "flushed"
    BY <1>4, CommitFlushedEnds, CommittedFields DEF Idle, TypeOK
  <2>4. session[x].pc = "flushed"
    BY <1>4 DEF CommitFlushed
  <2> QED
    BY <2>1, <2>2, <2>3, <2>4
<1>5. ASSUME NEW t \in SubJobs, score_and_apply(x, t)
      PROVE  FALSE
  <2>1. PICK row \in score_outcomes(session[x].loaded[t]) :
          row.qa = "FLAGGED" /\ WriteRows(x, [u \in {t} |-> row])
    BY <1>5 DEF score_and_apply, Flush
  <2>2. s = t /\ row.status # session[x].loaded[t].status
    BY <2>1, WrittenStatus
  <2>3. session[x].loaded[t] \in SubJobRow
    BY <1>5, LoadedRow DEF score_and_apply
  <2> QED
    BY <2>1, <2>2, <2>3, FlagKeepsStatus
<1> QED
  BY <1>1, <1>3, <1>4, <1>5

\* For every operation, pool, schedule and number of crashes: a synthetic angle
\* or a background operation reaches COMPLETED only by the commit of a judge's
\* verdict or of a human decision on it.
THEOREM GateDelivers == Spec => DeliveredOnlyByVerdict
<1>1. TypeOK /\ GateInv /\ [Next]_vars => [\A s \in SubJobs : DeliveryStep(s)]_vars
  BY DeliveryNext
<1> QED
  BY <1>1, TypeCorrect, GateInvariant, PTL DEF Spec, DeliveredOnlyByVerdict

-----------------------------------------------------------------------------
(* The solo pool.  With one worker and no request in flight no two sessions *)
(* are ever open together: what a session loaded is what is stored until it *)
(* commits, and the parent is the rollup as soon as every sub-job settled.  *)

SoloSession(x) ==
  /\ session[x].job = job
  /\ DOMAIN session[x].next \subseteq DOMAIN session[x].loaded
  /\ \A s \in DOMAIN session[x].loaded : session[x].loaded[s] = sub[s]
  /\ session[x].pc = "flushed" => session[x].nextJob = Rollup(Visible(x, session[x].next), {})
  /\ session[x].kind = "fan_out" => /\ session[x].next = NoRows
                                    /\ session[x].nextJob = job \/ job.status = "PENDING"
  /\ session[x].kind = "start" =>
       \E s \in DOMAIN session[x].next : session[x].next[s].status = "GENERATING"

SoloInv ==
  /\ (\A s \in SubJobs : Settled(s)) => job = Rollup(Statuses, {})
  /\ \A x \in Sessions :
       /\ session[x].kind \notin {"retry", "qa_retry", "decide", "rescore"}
       /\ session[x].pc \in {"loaded", "flushed"} => SoloSession(x)

\* A recompute never puts the parent back to PENDING, and with a sub-job still
\* to settle it says PROCESSING.
LEMMA RollupStatus ==
  ASSUME NEW st \in [SubJobs -> SubJobStatus]
  PROVE  Rollup(st, {}).status \in {"PROCESSING", "COMPLETED", "FAILED", "PARTIAL_SUCCESS"}
BY DEF Rollup, compute_parent_status

LEMMA StatusesType ==
  ASSUME TypeOK
  PROVE  Statuses \in [SubJobs -> SubJobStatus]
BY DEF TypeOK, Statuses, SubJobRow

\* The rows after a commit, for a session that holds what is stored.
LEMMA SoloWrite ==
  ASSUME TypeOK, NEW x \in Sessions, SoloSession(x), NEW next \in Rows,
         DOMAIN next \subseteq DOMAIN session[x].loaded, WriteRows(x, next)
  PROVE  /\ \A s \in DOMAIN next : sub'[s] = next[s]
         /\ \A s \in SubJobs : s \notin DOMAIN next => sub'[s] = sub[s]
         /\ Statuses' = Visible(x, next)
<1>1. \A s \in DOMAIN next : s \in SubJobs /\ next[s] \in SubJobRow
  BY RowsDomain
<1>2. \A s \in DOMAIN next : sub'[s] = next[s]
  <2> SUFFICES ASSUME NEW s \in DOMAIN next PROVE sub'[s] = next[s]
    OBVIOUS
  <2>1. sub'[s] = WrittenRow(sub[s], session[x].loaded[s], next[s])
    BY <1>1 DEF WriteRows
  <2>2. session[x].loaded[s] = sub[s] /\ sub[s] \in SubJobRow
    BY <1>1 DEF SoloSession, TypeOK
  <2> QED
    BY <1>1, <2>1, <2>2, FreshRow
<1>3. \A s \in SubJobs : s \notin DOMAIN next => sub'[s] = sub[s]
  BY DEF WriteRows
<1>4. Statuses' = [s \in SubJobs |-> sub'[s].status]
  BY DEF Statuses
<1>5. \A s \in SubJobs : sub'[s].status = Visible(x, next)[s]
  BY <1>2, <1>3 DEF Visible, SoloSession
<1> QED
  BY <1>2, <1>3, <1>4, <1>5 DEF Visible

\* With one session in all, the open session of a step is the only one.
LEMMA SoloStep ==
  ASSUME NEW w, Workers = {w}, Handlers = {}, TypeOK, SoloInv, [Next]_vars
  PROVE  SoloInv'
<1>1. Sessions = {w}
  BY DEF Sessions
<1>2. /\ session[w] \in Session
      /\ session[w].kind \notin {"retry", "qa_retry", "decide", "rescore"}
      /\ session[w].pc \in {"loaded", "flushed"} => SoloSession(w)
  BY <1>1 DEF TypeOK, SoloInv
\* A new session: the tables are untouched and the session holds what is stored.
<1> DEFINE Fresh(v) ==
             /\ session' = [session EXCEPT ![w] = v]
             /\ v.kind \notin {"retry", "qa_retry", "decide", "rescore"}
             /\ UNCHANGED <<sub, job>>
             /\ \/ v.pc \in {"idle", "publish"}
                \/ /\ v.pc = "loaded" /\ v.job = job
                   /\ DOMAIN v.next \subseteq DOMAIN v.loaded
                   /\ \A s \in DOMAIN v.loaded : v.loaded[s] = sub[s]
                   /\ v.kind = "fan_out" => /\ v.next = NoRows
                                            /\ v.nextJob = job \/ job.status = "PENDING"
                   /\ v.kind = "start" =>
                        \E s \in DOMAIN v.next : v.next[s].status = "GENERATING"
<1>3. ASSUME NEW v, Fresh(v) PROVE SoloInv'
  <2>1. session'[w] = v
    BY <1>1, <1>3 DEF TypeOK
  <2>2. (\A s \in SubJobs : Settled(s))' => (job = Rollup(Statuses, {}))'
    BY <1>3 DEF SoloInv, Settled, Statuses
  <2>3. v.pc \in {"loaded", "flushed"} => SoloSession(w)'
    BY <1>3, <2>1 DEF SoloSession
  <2> QED
    BY <1>1, <1>3, <2>1, <2>2, <2>3 DEF SoloInv
<1>4. CASE UNCHANGED vars
  BY <1>4 DEF SoloInv, SoloSession, Settled, Statuses, Visible, vars
<1>5. CASE dispatch_job(w)
  <2> DEFINE nextJob == IF job.status = "PENDING" THEN [job EXCEPT !.status = "PROCESSING"]
                        ELSE job
             v == [Begin("fan_out", {}) EXCEPT
                     !.nextJob = nextJob,
                     !.todo = {GenerateTask(s) : s \in {t \in SubJobs : sub[t].status = "PENDING"}}]
  <2>1. session' = [session EXCEPT ![w] = v] /\ UNCHANGED <<sub, job>>
    BY <1>5 DEF dispatch_job
  <2>2. /\ v.kind = "fan_out" /\ v.pc = "loaded" /\ v.job = job
        /\ v.loaded = [s \in {} |-> sub[s]] /\ v.next = NoRows /\ v.nextJob = nextJob
    BY DEF Begin, Idle
  <2> HIDE DEF v
  <2> QED
    BY <2>1, <2>2, <1>3 DEF NoRows
<1>6. ASSUME NEW s \in SubJobs, start_task(w, s) PROVE SoloInv'
  <2> DEFINE next == [t \in {s} |-> [sub[t] EXCEPT !.status = "GENERATING"]]
             v == [Begin("start", {s}) EXCEPT
                     !.next = next,
                     !.nextJob = IF Operation # "ANGLE_GENERATION" /\ job.status = "PENDING"
                                 THEN [job EXCEPT !.status = "PROCESSING"] ELSE job]
  <2>1. session' = [session EXCEPT ![w] = v] /\ UNCHANGED <<sub, job>>
    BY <1>6 DEF start_task
  <2>2. /\ v.kind = "start" /\ v.pc = "loaded" /\ v.job = job
        /\ v.loaded = [t \in {s} |-> sub[t]] /\ v.next = next
    BY DEF Begin, Idle
  <2>3. DOMAIN next = {s} /\ next[s].status = "GENERATING"
    BY DEF TypeOK, SubJobRow
  <2> HIDE DEF v, next
  <2> QED
    BY <2>1, <2>2, <2>3, <1>3
<1>7. ASSUME NEW s \in SubJobs, score_sub_job(w, s) PROVE SoloInv'
  <2> DEFINE v == Begin("score", {s})
  <2>1. session' = [session EXCEPT ![w] = v] /\ UNCHANGED <<sub, job>>
    BY <1>7 DEF score_sub_job
  <2>2. /\ v.kind = "score" /\ v.pc = "loaded" /\ v.job = job
        /\ v.loaded = [t \in {s} |-> sub[t]] /\ v.next = NoRows
    BY DEF Begin, Idle
  <2> HIDE DEF v
  <2> QED
    BY <2>1, <2>2, <1>3 DEF NoRows
<1>8. ASSUME session' = [session EXCEPT ![w] = Idle], UNCHANGED <<sub, job>> PROVE SoloInv'
  <2>1. Idle.pc = "idle" /\ Idle.kind = "none"
    BY DEF Idle
  <2> QED
    BY <1>3, <1>8, <2>1
<1>9. ASSUME NEW s \in SubJobs, mark_sub_job_timed_out(w, s) PROVE SoloInv'
  <2> DEFINE next == [t \in {s} |-> MarkFailed(sub[t])]
             v == [Begin("timeout", {s}) EXCEPT !.next = next]
  <2>1. /\ UNCHANGED <<sub, job>>
        /\ \/ session' = [session EXCEPT ![w] = v]
           \/ session' = [session EXCEPT ![w] = Idle]
    BY <1>9 DEF mark_sub_job_timed_out
  <2>2. /\ v.kind = "timeout" /\ v.pc = "loaded" /\ v.job = job
        /\ v.loaded = [t \in {s} |-> sub[t]] /\ v.next = next
    BY DEF Begin, Idle
  <2> HIDE DEF v
  <2> QED
    BY <2>1, <2>2, <1>3, <1>8
<1>10. ASSUME NEW stale \in SUBSET SubJobs, reconcile_stuck_sub_jobs(w, stale) PROVE SoloInv'
  <2> DEFINE candidates == {s \in SubJobs : sub[s].status \in STUCK_STATUSES}
             next == [s \in stale |-> MarkFailed(sub[s])]
             v == [Begin("sweep", candidates) EXCEPT !.next = next]
  <2>1. session' = [session EXCEPT ![w] = v] /\ UNCHANGED <<sub, job>> /\ stale \subseteq candidates
    BY <1>10 DEF reconcile_stuck_sub_jobs
  <2>2. /\ v.kind = "sweep" /\ v.pc = "loaded" /\ v.job = job
        /\ v.loaded = [s \in candidates |-> sub[s]] /\ v.next = next
    BY DEF Begin, Idle
  <2>3. DOMAIN next = stale
    OBVIOUS
  <2> HIDE DEF v, next, candidates
  <2> QED
    BY <2>1, <2>2, <2>3, <1>3
<1>11. ASSUME NEW next, Flush(w, next, recompute_parent_status(w, next)),
              session[w].pc = "loaded", session[w].kind \notin {"fan_out", "start"},
              DOMAIN next \subseteq DOMAIN session[w].loaded
       PROVE  SoloInv'
  <2> DEFINE v == [session[w] EXCEPT !.pc = "flushed", !.next = next,
                                     !.nextJob = recompute_parent_status(w, next)]
  <2>1. session' = [session EXCEPT ![w] = v] /\ UNCHANGED <<sub, job>>
    BY <1>11 DEF Flush
  <2>2. /\ v.kind = session[w].kind /\ v.pc = "flushed" /\ v.job = session[w].job
        /\ v.loaded = session[w].loaded /\ v.next = next
        /\ v.nextJob = Rollup(Visible(w, next), {})
    BY <1>2 DEF Session, recompute_parent_status
  <2>3. session'[w] = v
    BY <1>1, <2>1 DEF TypeOK
  <2> HIDE DEF v
  <2>4. Visible(w, next)' = Visible(w, next)
    <3>1. session'[w].loaded = session[w].loaded
      BY <2>2, <2>3
    <3> QED
      BY <2>1, <3>1 DEF Visible
  <2>5. SoloSession(w)'
    BY <1>2, <1>11, <2>1, <2>2, <2>3, <2>4 DEF SoloSession
  <2>6. (\A s \in SubJobs : Settled(s))' => (job = Rollup(Statuses, {}))'
    BY <2>1 DEF SoloInv, Settled, Statuses
  <2> QED
    BY <1>1, <1>2, <2>2, <2>3, <2>5, <2>6 DEF SoloInv
<1>12. ASSUME NEW todo, Close(w, todo), (\A s \in SubJobs : Settled(s))' => (job = Rollup(Statuses, {}))'
       PROVE  SoloInv'
  <2>1. session'[w].pc \in {"idle", "publish"} /\ session'[w].kind \in {"none", session[w].kind}
    BY <1>1, <1>12 DEF Close, Idle, TypeOK
  <2> QED
    BY <1>1, <1>2, <1>12, <2>1 DEF SoloInv
<1>13. ASSUME NEW s \in SubJobs, finish_task(w, s) PROVE SoloInv'
  <2>1. PICK row \in process(s, session[w].loaded[s]) :
          Flush(w, [t \in {s} |-> row], recompute_parent_status(w, [t \in {s} |-> row]))
    BY <1>13 DEF finish_task
  <2>2. session[w].pc = "loaded" /\ session[w].kind = "generate" /\ s \in DOMAIN session[w].loaded
    BY <1>13 DEF finish_task, At
  <2> DEFINE next == [t \in {s} |-> row]
  <2>3. Flush(w, next, recompute_parent_status(w, next)) /\ DOMAIN next = {s}
    BY <2>1
  <2> HIDE DEF next
  <2> QED
    BY <2>2, <2>3, <1>11
<1>14. CASE FlushPlanned(w)
  BY <1>2, <1>11, <1>14 DEF FlushPlanned, At, SoloSession
<1>15. ASSUME NEW s \in SubJobs, score_and_apply(w, s) PROVE SoloInv'
  <2>1. PICK row \in score_outcomes(session[w].loaded[s]) :
          LET next == [t \in {s} |-> row]
          IN  \/ /\ row.qa # "FLAGGED"
                 /\ Flush(w, next, recompute_parent_status(w, next))
              \/ /\ row.qa = "FLAGGED"
                 /\ s \notin LockedByOthers(w)
                 /\ WriteRows(w, next)
                 /\ Close(w, {})
                 /\ UNCHANGED <<job, queue, fan_out, faults, overtaken>>
    BY <1>15 DEF score_and_apply
  <2>2. session[w].pc = "loaded" /\ session[w].kind = "score" /\ s \in DOMAIN session[w].loaded
    BY <1>15 DEF score_and_apply, At
  <2>3. session[w].loaded[s] \in SubJobRow
    BY <1>1, <2>2, LoadedRow
  <2>4. row \in SubJobRow
    BY <2>1, <2>3, ScoreType
  <2> DEFINE next == [t \in {s} |-> row]
  <2>5. next \in Rows /\ DOMAIN next = {s} /\ next[s] = row
    BY <2>4, OneRow
  <2>6. \/ Flush(w, next, recompute_parent_status(w, next))
        \/ row.qa = "FLAGGED" /\ WriteRows(w, next) /\ Close(w, {}) /\ UNCHANGED job
    BY <2>1
  <2> HIDE DEF next
  <2>7. CASE Flush(w, next, recompute_parent_status(w, next))
    BY <2>2, <2>5, <2>7, <1>11
  <2>8. CASE row.qa = "FLAGGED" /\ WriteRows(w, next) /\ Close(w, {}) /\ UNCHANGED job
    <3>1. row.status = session[w].loaded[s].status
      BY <2>1, <2>3, <2>8, FlagKeepsStatus
    <3>2. \A t \in SubJobs : sub'[t].status = sub[t].status
      BY <1>1, <2>5, <2>8, <3>1, WrittenStatus
    <3> QED
      BY <1>12, <2>8, <3>2 DEF SoloInv, Settled, Statuses
  <2> QED
    BY <2>6, <2>7, <2>8
<1>16. CASE CommitLoaded(w)
  <2>1. /\ session[w].pc = "loaded" /\ session[w].kind \in {"fan_out", "start"}
        /\ SoloSession(w) /\ WriteRows(w, session[w].next)
        /\ session[w].next \in Rows /\ session[w].nextJob \in JobRow
    BY <1>2, <1>16 DEF CommitLoaded, At, Session
  <2>2. job' = session[w].nextJob
    <3>1. session[w].job = job /\ job \in JobRow
      BY <2>1 DEF SoloSession, TypeOK
    <3> QED
      BY <1>16, <2>1, <3>1, FreshJob DEF CommitLoaded
  <2>3. /\ \A s \in DOMAIN session[w].next : sub'[s] = session[w].next[s]
        /\ \A s \in SubJobs : s \notin DOMAIN session[w].next => sub'[s] = sub[s]
    BY <1>1, <2>1, SoloWrite DEF SoloSession
  <2>4. CASE session[w].kind = "fan_out"
    <3>1. \A s \in SubJobs : sub'[s] = sub[s]
      BY <2>1, <2>3, <2>4 DEF SoloSession, NoRows
    <3>2. (\A s \in SubJobs : Settled(s)) => job.status # "PENDING"
      BY StatusesType, RollupStatus DEF SoloInv
    <3>3. (\A s \in SubJobs : Settled(s))' => job' = job
      BY <2>1, <2>2, <2>4, <3>1, <3>2 DEF SoloSession, Settled
    <3>4. Statuses' = Statuses
      BY <3>1 DEF Statuses
    <3>5. (\A s \in SubJobs : Settled(s))' => (job = Rollup(Statuses, {}))'
      BY <3>1, <3>3, <3>4 DEF SoloInv, Settled
    <3>6. Close(w, session[w].todo)
      BY <1>16, <2>4 DEF CommitLoaded
    <3> QED
      BY <1>12, <3>5, <3>6
  <2>5. CASE session[w].kind = "start"
    <3> DEFINE v == [session[w] EXCEPT !.kind = "generate", !.loaded = session[w].next,
                                       !.next = NoRows, !.job = session[w].nextJob]
    <3>1. session' = [session EXCEPT ![w] = v]
      BY <1>16, <2>5 DEF CommitLoaded
    <3>2. /\ v.kind = "generate" /\ v.pc = session[w].pc /\ v.loaded = session[w].next
          /\ v.next = NoRows /\ v.job = session[w].nextJob
      BY <1>2 DEF Session
    <3>3. session'[w] = v
      BY <1>1, <3>1 DEF TypeOK
    <3> HIDE DEF v
    <3>4. PICK s \in DOMAIN session[w].next : session[w].next[s].status = "GENERATING"
      BY <2>1, <2>5 DEF SoloSession
    <3>5. s \in SubJobs /\ sub'[s].status = "GENERATING"
      BY <2>1, <2>3, <3>4, RowsDomain
    <3>6. ~(\A t \in SubJobs : Settled(t))'
      BY <3>5 DEF Settled
    <3>7. SoloSession(w)'
      BY <2>1, <2>2, <2>3, <3>2, <3>3 DEF SoloSession, NoRows
    <3> QED
      BY <1>1, <3>2, <3>3, <3>6, <3>7 DEF SoloInv
  <2> QED
    BY <2>1, <2>4, <2>5
<1>17. CASE CommitFlushed(w)
  <2>1. /\ SoloSession(w) /\ WriteRows(w, session[w].next)
        /\ session[w].pc = "flushed"
        /\ session[w].next \in Rows /\ session[w].nextJob \in JobRow
    BY <1>2, <1>17 DEF CommitFlushed, Session
  <2>2. job' = session[w].nextJob
    <3>1. session[w].job = job /\ job \in JobRow
      BY <2>1 DEF SoloSession, TypeOK
    <3> QED
      BY <1>17, <2>1, <3>1, FreshJob DEF CommitFlushed
  <2>3. Statuses' = Visible(w, session[w].next)
    BY <1>1, <2>1, SoloWrite DEF SoloSession
  <2>4. job' = Rollup(Statuses', {})
    BY <2>1, <2>2, <2>3 DEF SoloSession
  <2>5. session'[w].pc \in {"idle", "publish"} /\ session'[w].kind \in {"none", "generate"}
    BY <1>1, <1>17, CommitFlushedEnds, CommittedFields DEF Idle, TypeOK
  <2> QED
    BY <1>1, <2>4, <2>5 DEF SoloInv
<1>18. ASSUME NEW t \in Task, Publish(w, t) PROVE SoloInv'
  <2>1. Close(w, session[w].todo \ {t}) /\ UNCHANGED <<sub, job>>
    BY <1>18 DEF Publish
  <2>2. (\A s \in SubJobs : Settled(s))' => (job = Rollup(Statuses, {}))'
    BY <2>1 DEF SoloInv, Settled, Statuses
  <2> QED
    BY <1>12, <2>1, <2>2
<1>19. CASE WorkerStep(w)
  <2>1. ASSUME NEW s \in SubJobs, assertion_fails(w, s) PROVE SoloInv'
    BY <1>8, <2>1 DEF assertion_fails
  <2>2. CASE connections_closed(w)
    BY <1>8, <2>2 DEF connections_closed
  <2> QED
    BY <1>5, <1>6, <1>7, <1>9, <1>10, <1>13, <1>15, <1>19, <2>1, <2>2 DEF WorkerStep
<1>20. CASE SessionStep(w) \/ Fault(w)
  BY <1>8, <1>14, <1>16, <1>17, <1>18, <1>20 DEF SessionStep, Fault
<1> QED
  BY <1>1, <1>4, <1>19, <1>20 DEF Next

LEMMA SoloInit == Init => SoloInv
<1> SUFFICES ASSUME Init PROVE SoloInv
  OBVIOUS
<1>1. ~ \A s \in SubJobs : Settled(s)
  <2>1. PICK s \in SubJobs : s \notin Skipped
    BY OperationAssumption
  <2>2. sub[s].status = "PENDING"
    BY <2>1 DEF Init, NewSubJob
  <2> QED
    BY <2>2 DEF Settled
<1>2. \A x \in Sessions : session[x].pc = "idle" /\ session[x].kind = "none"
  BY DEF Init, Idle
<1> QED
  BY <1>1, <1>2 DEF SoloInv

\* On the solo pool, while no client request writes, and whatever times out, is
\* swept or crashes: when nothing is left to run the parent is the rollup of its
\* sub-jobs.  Two workers are enough to break it (run pool_loses_rollup).
THEOREM SoloRollup ==
  ASSUME NEW w, Workers = {w}, Handlers = {}
  PROVE  Spec => []QuiescentRollup
<1>1. TypeOK /\ SoloInv /\ [Next]_vars => SoloInv'
  BY SoloStep
<1>2. SoloInv => QuiescentRollup
  BY DEF SoloInv, QuiescentRollup
<1> QED
  BY <1>1, <1>2, SoloInit, TypeCorrect, PTL DEF Spec

-----------------------------------------------------------------------------
(***************************************************************************)
(* Review.  What may become of an output in review depends on what every   *)
(* session will write over it: a session writes no QA_REVIEW and takes no  *)
(* flag away, but a generation, which goes on to publish the scoring, and  *)
(* a scoring, which completes or flags what it loaded.  With one worker    *)
(* neither can have loaded a row that the other puts into review.          *)
(***************************************************************************)

\* The session is about to score s, or to publish the message to.
Scoring(v, s) == ScoreTask(s) \in v.todo \/ (v.kind = "score" /\ s \in DOMAIN v.loaded)

\* The UPDATE from old to new leaves review, or touches neither column.
Harmless(old, new) ==
  \/ new.status \notin {"QA_REVIEW", old.status}
  \/ new.status = old.status /\ new.qa = old.qa

ScoreSession(v, rows) ==
  /\ v.pc \in {"loaded", "flushed"}
  /\ \A s, t \in DOMAIN v.loaded : s = t
  /\ \A s \in DOMAIN v.loaded :
       /\ rows[s].status = "QA_REVIEW" =>
            /\ v.loaded[s].status = "QA_REVIEW"
            /\ v.loaded[s].qa = "FLAGGED" => rows[s].qa = "FLAGGED"
       /\ v.pc = "flushed" => s \in DOMAIN v.next
  /\ \A s \in DOMAIN v.next : s \in DOMAIN v.loaded /\ v.next[s].status = "COMPLETED"

OtherSession(v) ==
  /\ v.kind = "start" => \A s \in DOMAIN v.next : v.next[s].status = "GENERATING"
  /\ v.kind = "generate" /\ v.pc = "loaded" =>
       \A s \in DOMAIN v.loaded : v.loaded[s].status = "GENERATING"
  /\ \A s \in DOMAIN v.next :
       \/ Harmless(v.loaded[s], v.next[s])
       \/ v.kind = "generate" /\ v.pc = "flushed" /\ v.next[s].status = "QA_REVIEW"

ReviewSession(v, rows) ==
  /\ \A s \in SubJobs : ScoreTask(s) \in v.todo =>
       v.pc = "publish" \/ (v.pc = "loaded" /\ v.kind = "qa_retry")
  /\ v.kind = "score" => ScoreSession(v, rows)
  /\ v.kind # "score" => OtherSession(v)

ReviewInv ==
  /\ ReviewIsQueuedOrScoring
  /\ \A x \in Sessions :
       /\ ReviewSession(session[x], sub)
       /\ session[x].kind \in {"start", "generate", "score"} => x \in Workers

\* The one worker of the pool is not disturbed.
Calm == (\E w : Workers = {w}) /\ "timeout" \notin Environment /\ MaxFaults = 0

\* Session x may become v.
Hands(x, v) ==
  /\ ReviewSession(v, sub')
  /\ v.kind \in {"start", "generate", "score"} => x \in Workers
  /\ \A s \in SubJobs : sub'[s].status = "QA_REVIEW" =>
       \/ sub'[s].qa = "FLAGGED"
       \/ Scoring(v, s)
       \/ /\ sub[s].status = "QA_REVIEW" /\ sub'[s].qa = sub[s].qa
          /\ queue[ScoreTask(s)] > 0 \/ Scoring(session[x], s) =>
               queue'[ScoreTask(s)] > 0 \/ Scoring(v, s)
  /\ x \notin Workers => \A s \in SubJobs : sub'[s].status = "QA_REVIEW" =>
                           sub[s].status = "QA_REVIEW" /\ sub'[s].qa = sub[s].qa

LEMMA ReviewMoves ==
  ASSUME Calm, TypeOK, ReviewInv, NEW x \in Sessions, NEW v,
         session' = [session EXCEPT ![x] = v], Hands(x, v)
  PROVE  ReviewInv'
<1>1. session'[x] = v /\ \A y \in Sessions \ {x} : session'[y] = session[y]
  BY DEF TypeOK
<1>2. ASSUME NEW y \in Sessions \ {x}
      PROVE  /\ ReviewSession(session[y], sub')
             /\ session[y].kind \in {"start", "generate", "score"} => y \in Workers
  <2>1. /\ ReviewSession(session[y], sub)
        /\ session[y].kind \in {"start", "generate", "score"} => y \in Workers
    BY DEF ReviewInv
  <2>2. CASE session[y].kind # "score"
    BY <2>1, <2>2 DEF ReviewSession
  <2>3. CASE session[y].kind = "score"
    <3>1. x \notin Workers
      BY <2>1, <2>3 DEF Calm
    <3>2. \A s \in SubJobs : sub'[s].status = "QA_REVIEW" =>
            sub[s].status = "QA_REVIEW" /\ sub'[s].qa = sub[s].qa
      BY <3>1 DEF Hands
    <3>3. DOMAIN session[y].loaded \subseteq SubJobs
      BY RowsDomain DEF TypeOK, Session
    <3>4. ScoreSession(session[y], sub')
      BY <2>1, <2>3, <3>2, <3>3 DEF ReviewSession, ScoreSession
    <3> QED
      BY <2>1, <3>4 DEF ReviewSession
  <2> QED
    BY <2>1, <2>2, <2>3
<1>3. \A y \in Sessions :
        /\ ReviewSession(session'[y], sub')
        /\ session'[y].kind \in {"start", "generate", "score"} => y \in Workers
  BY <1>1, <1>2 DEF Hands
<1>4. ASSUME NEW s \in SubJobs, sub'[s].status = "QA_REVIEW"
      PROVE  \/ sub'[s].qa = "FLAGGED"
             \/ queue'[ScoreTask(s)] > 0
             \/ \E y \in Sessions : Scoring(session'[y], s)
  <2>1. CASE sub'[s].qa = "FLAGGED" \/ Scoring(v, s)
    BY <1>1, <2>1
  <2>2. CASE /\ sub[s].status = "QA_REVIEW" /\ sub'[s].qa = sub[s].qa
             /\ queue[ScoreTask(s)] > 0 \/ Scoring(session[x], s) =>
                  queue'[ScoreTask(s)] > 0 \/ Scoring(v, s)
    <3>1. \/ sub[s].qa = "FLAGGED"
          \/ queue[ScoreTask(s)] > 0
          \/ \E y \in Sessions : Scoring(session[y], s)
      BY <2>2 DEF ReviewInv, ReviewIsQueuedOrScoring, ScoringUnderWay, Flagged, Scoring
    <3> QED
      BY <1>1, <2>2, <3>1
  <2> QED
    BY <1>4, <2>1, <2>2 DEF Hands
<1>5. ReviewIsQueuedOrScoring'
  BY <1>4 DEF ReviewIsQueuedOrScoring, ScoringUnderWay, Flagged, Scoring
<1> QED
  BY <1>3, <1>5 DEF ReviewInv

\* A session that opens or goes on without writing.
LEMMA ReviewReads ==
  ASSUME Calm, TypeOK, ReviewInv, NEW x \in Sessions, NEW v,
         session' = [session EXCEPT ![x] = v], UNCHANGED sub, ReviewSession(v, sub),
         v.kind \in {"start", "generate", "score"} => x \in Workers,
         \A s \in SubJobs : queue[ScoreTask(s)] > 0 \/ Scoring(session[x], s) =>
                              queue'[ScoreTask(s)] > 0 \/ Scoring(v, s)
  PROVE  ReviewInv'
<1>1. Hands(x, v)
  BY DEF Hands
<1> QED
  BY <1>1, ReviewMoves

LEMMA ReviewIdle ==
  ASSUME NEW rows
  PROVE  ReviewSession(Idle, rows) /\ Idle.kind = "none"
BY DEF ReviewSession, OtherSession, Idle, NoRows

\* An idle session, and one that only generates, has nothing to do with scoring.
LEMMA ReviewNone ==
  ASSUME ReviewInv, NEW x \in Sessions,
         \/ IsIdle(x)
         \/ session[x].pc \in {"loaded", "flushed"} /\ session[x].kind \notin {"score", "qa_retry"}
  PROVE  \A s \in SubJobs : ~Scoring(session[x], s)
BY DEF ReviewInv, ReviewSession, ScoreSession, Scoring, IsIdle

\* What a commit writes, when it is harmless.
LEMMA ReviewWrites ==
  ASSUME NEW x, NEW next, WriteRows(x, next),
         \A s \in DOMAIN next : Harmless(session[x].loaded[s], next[s])
  PROVE  \A s \in SubJobs : sub'[s].status = "QA_REVIEW" =>
           sub[s].status = "QA_REVIEW" /\ sub'[s].qa = sub[s].qa
<1>1. ASSUME NEW stored, NEW old, NEW new, Harmless(old, new),
             WrittenRow(stored, old, new).status = "QA_REVIEW"
      PROVE  stored.status = "QA_REVIEW" /\ WrittenRow(stored, old, new).qa = stored.qa
  BY <1>1 DEF Harmless, WrittenRow, Dirty
<1>2. \A s \in SubJobs : sub'[s] = IF s \in DOMAIN next
                                   THEN WrittenRow(sub[s], session[x].loaded[s], next[s])
                                   ELSE sub[s]
  BY DEF WriteRows
<1> QED
  BY <1>1, <1>2

-----------------------------------------------------------------------------
(* Sessions that open.                                                     *)

LEMMA ReviewOpens ==
  ASSUME Calm, TypeOK, ReviewInv, NEW x \in Sessions, IsIdle(x), NEW v,
         session' = [session EXCEPT ![x] = v], UNCHANGED sub, ReviewSession(v, sub),
         v.kind \in {"start", "generate", "score"} => x \in Workers,
         \A s \in SubJobs : queue[ScoreTask(s)] > 0 =>
                              queue'[ScoreTask(s)] > 0 \/ Scoring(v, s)
  PROVE  ReviewInv'
<1>1. \A s \in SubJobs : ~Scoring(session[x], s)
  BY ReviewNone
<1>2. \A s \in SubJobs : queue[ScoreTask(s)] > 0 \/ Scoring(session[x], s) =>
                           queue'[ScoreTask(s)] > 0 \/ Scoring(v, s)
  BY <1>1
<1> QED
  BY <1>2, ReviewReads

\* What a generation's message leaves alone in the broker.
LEMMA ReviewReceive ==
  ASSUME TypeOK, NEW s \in SubJobs, Receive(GenerateTask(s))
  PROVE  \A t \in SubJobs : queue'[ScoreTask(t)] = queue[ScoreTask(t)]
BY TaskType, TasksDiffer DEF TypeOK, Receive

LEMMA ReviewDispatch ==
  ASSUME Calm, TypeOK, ReviewInv, NEW w \in Workers, dispatch_job(w)
  PROVE  ReviewInv'
<1> DEFINE todo == {GenerateTask(s) : s \in {t \in SubJobs : sub[t].status = "PENDING"}}
           v == [Begin("fan_out", {}) EXCEPT
                   !.nextJob = IF job.status = "PENDING" THEN [job EXCEPT !.status = "PROCESSING"]
                               ELSE job,
                   !.todo = todo]
<1>1. /\ session' = [session EXCEPT ![w] = v] /\ UNCHANGED <<sub, queue>>
      /\ IsIdle(w) /\ w \in Sessions
  BY DEF dispatch_job, Sessions
<1>2. v.kind = "fan_out" /\ v.next = NoRows /\ v.todo = todo
  BY DEF Begin, Idle
<1>3. \A s \in SubJobs : ScoreTask(s) \notin todo
  BY TasksDiffer
<1> HIDE DEF v, todo
<1>4. ReviewSession(v, sub)
  BY <1>2, <1>3 DEF ReviewSession, OtherSession, NoRows
<1> QED
  BY <1>1, <1>2, <1>4, ReviewOpens

LEMMA ReviewStart ==
  ASSUME Calm, TypeOK, ReviewInv, NEW w \in Workers, NEW s \in SubJobs, start_task(w, s)
  PROVE  ReviewInv'
<1> DEFINE next == [t \in {s} |-> [sub[t] EXCEPT !.status = "GENERATING"]]
           v == [Begin("start", {s}) EXCEPT
                   !.next = next,
                   !.nextJob = IF Operation # "ANGLE_GENERATION" /\ job.status = "PENDING"
                               THEN [job EXCEPT !.status = "PROCESSING"] ELSE job]
<1>1. /\ session' = [session EXCEPT ![w] = v] /\ UNCHANGED sub
      /\ IsIdle(w) /\ w \in Sessions /\ Receive(GenerateTask(s))
  BY DEF start_task, Sessions
<1>2. v.kind = "start" /\ v.next = next /\ v.todo = {} /\ v.loaded = [t \in {s} |-> sub[t]]
  BY DEF Begin, Idle
<1>3. \A t \in DOMAIN next :
        /\ next[t].status = "GENERATING"
        /\ Harmless([u \in {s} |-> sub[u]][t], next[t])
  BY DEF Harmless, TypeOK, SubJobRow
<1> HIDE DEF v, next
<1>4. ReviewSession(v, sub)
  BY <1>2, <1>3 DEF ReviewSession, OtherSession
<1> QED
  BY <1>1, <1>4, ReviewOpens, ReviewReceive

LEMMA ReviewScore ==
  ASSUME Calm, TypeOK, ReviewInv, NEW w \in Workers, NEW s \in SubJobs, score_sub_job(w, s)
  PROVE  ReviewInv'
<1> DEFINE v == Begin("score", {s})
<1>1. /\ session' = [session EXCEPT ![w] = v] /\ UNCHANGED sub
      /\ IsIdle(w) /\ w \in Sessions
      /\ queue' = [queue EXCEPT ![ScoreTask(s)] = queue[ScoreTask(s)] - 1]
  BY DEF score_sub_job, Sessions, Receive
<1>2. /\ v.kind = "score" /\ v.pc = "loaded" /\ v.next = NoRows /\ v.todo = {}
      /\ v.loaded = [t \in {s} |-> sub[t]]
  BY DEF Begin, Idle
<1> HIDE DEF v
<1>3. ReviewSession(v, sub)
  BY <1>2 DEF ReviewSession, ScoreSession, NoRows
<1>4. Scoring(v, s)
  BY <1>2 DEF Scoring
<1>5. \A t \in SubJobs \ {s} : queue'[ScoreTask(t)] = queue[ScoreTask(t)]
  BY <1>1, TaskType, TasksDiffer DEF TypeOK
<1>6. \A t \in SubJobs : queue[ScoreTask(t)] > 0 =>
                           queue'[ScoreTask(t)] > 0 \/ Scoring(v, t)
  BY <1>4, <1>5
<1> QED
  BY <1>1, <1>3, <1>6, ReviewOpens

LEMMA ReviewSweep ==
  ASSUME Calm, TypeOK, ReviewInv, NEW w \in Workers, NEW stale \in SUBSET SubJobs,
         reconcile_stuck_sub_jobs(w, stale)
  PROVE  ReviewInv'
<1> DEFINE candidates == {s \in SubJobs : sub[s].status \in STUCK_STATUSES}
           next == [s \in stale |-> MarkFailed(sub[s])]
           v == [Begin("sweep", candidates) EXCEPT !.next = next]
<1>1. /\ session' = [session EXCEPT ![w] = v] /\ UNCHANGED <<sub, queue>>
      /\ IsIdle(w) /\ w \in Sessions /\ stale \subseteq candidates
  BY DEF reconcile_stuck_sub_jobs, Sessions
<1>2. v.kind = "sweep" /\ v.next = next /\ v.todo = {} /\ v.loaded = [s \in candidates |-> sub[s]]
  BY DEF Begin, Idle
<1>3. ASSUME NEW s \in stale
      PROVE  Harmless(sub[s], next[s])
  <2>1. next[s] = MarkFailed(sub[s]) /\ sub[s] \in SubJobRow /\ sub[s].status \in STUCK_STATUSES
    BY <1>1, <1>3 DEF TypeOK
  <2>2. MarkFailed(sub[s]).status = "FAILED"
    BY <2>1 DEF MarkFailed, SubJobRow
  <2> QED
    BY <2>1, <2>2 DEF Harmless, STUCK_STATUSES
<1>4. DOMAIN next = stale /\ \A s \in candidates : [u \in candidates |-> sub[u]][s] = sub[s]
  OBVIOUS
<1> HIDE DEF v, next, candidates
<1>5. OtherSession(v)
  BY <1>1, <1>2, <1>3, <1>4 DEF OtherSession
<1>6. ReviewSession(v, sub)
  BY <1>2, <1>5 DEF ReviewSession
<1> QED
  BY <1>1, <1>2, <1>6, ReviewOpens

LEMMA ReviewRetry ==
  ASSUME Calm, TypeOK, ReviewInv, NEW h \in Handlers, NEW S \in SUBSET SubJobs,
         execute_retry(h, S)
  PROVE  ReviewInv'
<1> DEFINE next == [s \in S |-> [sub[s] EXCEPT !.status = "PENDING", !.failure = "NONE"]]
           todo == {GenerateTask(s) : s \in S}
           v == [Begin("retry", S) EXCEPT
                   !.next = next,
                   !.nextJob = IF job.status \in TERMINAL_STATUSES
                               THEN [job EXCEPT !.status = "PROCESSING", !.completed = FALSE]
                               ELSE job,
                   !.todo = todo]
<1>1. /\ session' = [session EXCEPT ![h] = v] /\ UNCHANGED <<sub, queue>>
      /\ IsIdle(h) /\ h \in Sessions
      /\ \A s \in S : sub[s].status = "FAILED"
  BY DEF execute_retry, check_retry_preconditions, Sessions
<1>2. v.kind = "retry" /\ v.next = next /\ v.todo = todo /\ v.loaded = [s \in S |-> sub[s]]
  BY DEF Begin, Idle
<1>3. ASSUME NEW s \in S
      PROVE  Harmless(sub[s], next[s])
  <2>1. sub[s] \in SubJobRow
    BY DEF TypeOK
  <2>2. next[s].status = "PENDING"
    BY <2>1 DEF SubJobRow
  <2> QED
    BY <1>1, <2>2 DEF Harmless
<1>4. /\ DOMAIN next = S /\ \A s \in S : [u \in S |-> sub[u]][s] = sub[s]
      /\ \A s \in SubJobs : ScoreTask(s) \notin todo
  BY TasksDiffer
<1> HIDE DEF v, next, todo
<1>5. OtherSession(v)
  BY <1>2, <1>3, <1>4 DEF OtherSession
<1>6. ReviewSession(v, sub)
  BY <1>2, <1>4, <1>5 DEF ReviewSession
<1> QED
  BY <1>1, <1>2, <1>6, ReviewOpens

LEMMA ReviewQaRetry ==
  ASSUME Calm, TypeOK, ReviewInv, NEW h \in Handlers, NEW s \in SubJobs, execute_qa_retry(h, s)
  PROVE  ReviewInv'
<1> DEFINE next == [t \in {s} |-> [sub[t] EXCEPT !.attempts = sub[t].attempts + 1]]
           v == [Begin("qa_retry", {s}) EXCEPT !.next = next, !.todo = {ScoreTask(s)}]
<1>1. /\ session' = [session EXCEPT ![h] = v] /\ UNCHANGED <<sub, queue>>
      /\ IsIdle(h) /\ h \in Sessions
  BY DEF execute_qa_retry, Sessions
<1>2. /\ v.kind = "qa_retry" /\ v.pc = "loaded" /\ v.next = next
      /\ v.loaded = [t \in {s} |-> sub[t]]
  BY DEF Begin, Idle
<1>3. sub[s] \in SubJobRow
  BY DEF TypeOK
<1>4. [sub[s] EXCEPT !.attempts = sub[s].attempts + 1].status = sub[s].status
      /\ [sub[s] EXCEPT !.attempts = sub[s].attempts + 1].qa = sub[s].qa
  BY <1>3 DEF SubJobRow
<1>5. DOMAIN next = {s} /\ Harmless(sub[s], next[s])
  BY <1>4 DEF Harmless
<1> HIDE DEF v, next
<1>6. OtherSession(v)
  BY <1>2, <1>5 DEF OtherSession
<1>7. ReviewSession(v, sub)
  BY <1>2, <1>6 DEF ReviewSession
<1> QED
  BY <1>1, <1>2, <1>7, ReviewOpens

LEMMA ReviewDecision ==
  ASSUME Calm, TypeOK, ReviewInv, NEW h \in Handlers, NEW s \in SubJobs,
         NEW approve \in BOOLEAN, submit_qa_decision(h, s, approve)
  PROVE  ReviewInv'
<1> DEFINE decided(row) ==
             IF approve
             THEN [row EXCEPT !.qa = "PASSED", !.status = "COMPLETED"]
             ELSE [row EXCEPT !.qa = "FAILED", !.status = "REJECTED", !.failure = "QA_REJECTED"]
           next == [t \in {s} |-> decided(sub[t])]
           v == [Begin("decide", {s}) EXCEPT !.next = next]
<1>1. /\ session' = [session EXCEPT ![h] = v] /\ UNCHANGED <<sub, queue>>
      /\ IsIdle(h) /\ h \in Sessions /\ sub[s].status = "QA_REVIEW"
  BY DEF submit_qa_decision, Sessions
<1>2. v.kind = "decide" /\ v.next = next /\ v.todo = {} /\ v.loaded = [t \in {s} |-> sub[t]]
  BY DEF Begin, Idle
<1>3. sub[s] \in SubJobRow
  BY DEF TypeOK
<1>4. decided(sub[s]).status \in {"COMPLETED", "REJECTED"}
  BY <1>3 DEF SubJobRow
<1>5. DOMAIN next = {s} /\ Harmless(sub[s], next[s])
  BY <1>1, <1>4 DEF Harmless
<1> HIDE DEF v, next
<1>6. OtherSession(v)
  BY <1>2, <1>5 DEF OtherSession
<1>7. ReviewSession(v, sub)
  BY <1>2, <1>6 DEF ReviewSession
<1> QED
  BY <1>1, <1>2, <1>7, ReviewOpens

LEMMA ReviewRescore ==
  ASSUME Calm, TypeOK, ReviewInv, NEW h \in Handlers, rescore_flagged_background_operations(h)
  PROVE  ReviewInv'
<1> DEFINE todo == {ScoreTask(s) : s \in {t \in SubJobs : Flagged(sub[t])}}
           v == [Idle EXCEPT !.pc = "publish", !.kind = "rescore", !.todo = todo]
<1>1. /\ session' = [session EXCEPT ![h] = v] /\ UNCHANGED <<sub, queue>>
      /\ IsIdle(h) /\ h \in Sessions
  BY DEF rescore_flagged_background_operations, Sessions
<1>2. v.kind = "rescore" /\ v.pc = "publish" /\ v.next = NoRows
  BY DEF Idle
<1> HIDE DEF v
<1>3. ReviewSession(v, sub)
  BY <1>2 DEF ReviewSession, OtherSession, NoRows
<1> QED
  BY <1>1, <1>2, <1>3, ReviewOpens

-----------------------------------------------------------------------------
(* Flushes, commits and messages.                                          *)

\* A flush that neither scores nor announces a scoring.
LEMMA ReviewFlush ==
  ASSUME Calm, TypeOK, ReviewInv, NEW x \in Sessions, NEW next \in Rows, NEW nextJob,
         Flush(x, next, nextJob), session[x].pc = "loaded",
         session[x].kind \notin {"start", "score", "qa_retry"},
         \A s \in DOMAIN next :
           \/ Harmless(session[x].loaded[s], next[s])
           \/ session[x].kind = "generate" /\ next[s].status = "QA_REVIEW"
  PROVE  ReviewInv'
<1> DEFINE v == [session[x] EXCEPT !.pc = "flushed", !.next = next, !.nextJob = nextJob]
<1>1. session' = [session EXCEPT ![x] = v] /\ UNCHANGED <<sub, queue>>
  BY DEF Flush
<1>2. /\ v.kind = session[x].kind /\ v.pc = "flushed" /\ v.next = next
      /\ v.loaded = session[x].loaded /\ v.todo = session[x].todo
  BY DEF TypeOK, Session
<1> HIDE DEF v
<1>3. /\ ReviewSession(session[x], sub)
      /\ session[x].kind \in {"start", "generate", "score"} => x \in Workers
  BY DEF ReviewInv
<1>4. ReviewSession(v, sub)
  BY <1>2, <1>3 DEF ReviewSession, OtherSession
<1>5. \A s \in SubJobs : ~Scoring(session[x], s)
  BY ReviewNone
<1> QED
  BY <1>1, <1>2, <1>3, <1>4, <1>5, ReviewReads

LEMMA ReviewFinish ==
  ASSUME Calm, TypeOK, ReviewInv, NEW w \in Workers, NEW s \in SubJobs, finish_task(w, s)
  PROVE  ReviewInv'
<1>1. /\ w \in Sessions /\ session[w].pc = "loaded" /\ session[w].kind = "generate"
      /\ s \in DOMAIN session[w].loaded /\ session[w].loaded[s].attempts < MaxAttempts
  BY DEF Sessions, finish_task, At
<1>2. session[w].loaded[s] \in SubJobRow /\ session[w].loaded[s].status = "GENERATING"
  BY <1>1, LoadedRow DEF ReviewInv, ReviewSession, OtherSession
<1>3. PICK row \in process(s, session[w].loaded[s]) :
        Flush(w, [t \in {s} |-> row], recompute_parent_status(w, [t \in {s} |-> row]))
  BY DEF finish_task
<1> DEFINE next == [t \in {s} |-> row]
<1>4. row \in SubJobRow /\ row.status \in {"QA_REVIEW", "COMPLETED", "FAILED", "REJECTED"}
  BY <1>1, <1>2, <1>3, ProcessType, ProcessResult
<1>5. row.status = "QA_REVIEW" \/ Harmless(session[w].loaded[s], row)
  BY <1>2, <1>4 DEF Harmless
<1>6. /\ next \in Rows /\ DOMAIN next = {s} /\ next[s] = row
      /\ Flush(w, next, recompute_parent_status(w, next))
  BY <1>3, <1>4, OneRow
<1> HIDE DEF next
<1> QED
  BY <1>1, <1>5, <1>6, ReviewFlush

LEMMA ReviewFlushPlanned ==
  ASSUME Calm, TypeOK, ReviewInv, NEW x \in Sessions, FlushPlanned(x)
  PROVE  ReviewInv'
<1>1. /\ session[x].pc = "loaded" /\ session[x].kind \in {"timeout", "sweep", "decide"}
      /\ session[x].next \in Rows
      /\ Flush(x, session[x].next, recompute_parent_status(x, session[x].next))
  BY DEF FlushPlanned, At, TypeOK, Session
<1>2. \A s \in DOMAIN session[x].next :
        Harmless(session[x].loaded[s], session[x].next[s])
  BY <1>1 DEF ReviewInv, ReviewSession, OtherSession
<1> QED
  BY <1>1, <1>2, ReviewFlush

\* A session that has nothing to do with scoring writes and closes, or goes on.
LEMMA ReviewCommit ==
  ASSUME Calm, TypeOK, ReviewInv, NEW x \in Sessions, NEW next, WriteRows(x, next),
         \A s \in DOMAIN next : Harmless(session[x].loaded[s], next[s]),
         NEW v, session' = [session EXCEPT ![x] = v], UNCHANGED queue,
         ReviewSession(v, sub'), v.kind \in {"start", "generate", "score"} => x \in Workers,
         \A s \in SubJobs : Scoring(session[x], s) => Scoring(v, s)
  PROVE  ReviewInv'
<1>1. \A s \in SubJobs : sub'[s].status = "QA_REVIEW" =>
        sub[s].status = "QA_REVIEW" /\ sub'[s].qa = sub[s].qa
  BY ReviewWrites
<1>2. Hands(x, v)
  BY <1>1 DEF Hands
<1> QED
  BY <1>2, ReviewMoves

\* What a session is after Close.
LEMMA ReviewClosed ==
  ASSUME NEW x, NEW todo, Close(x, todo)
  PROVE  \E v : /\ session' = [session EXCEPT ![x] = v]
                /\ v.kind \in {"none", session[x].kind}
                /\ v.pc \in {"idle", "publish"}
                /\ v.next = NoRows /\ v.loaded = NoRows /\ v.todo = todo
                /\ todo # {} => v.pc = "publish"
<1> DEFINE p == [Idle EXCEPT !.pc = "publish", !.kind = session[x].kind, !.todo = todo]
<1>1. session' = [session EXCEPT ![x] = IF todo = {} THEN Idle ELSE p]
  BY DEF Close
<1>2. /\ p.kind = session[x].kind /\ p.pc = "publish" /\ p.next = NoRows
      /\ p.loaded = NoRows /\ p.todo = todo
      /\ Idle.kind = "none" /\ Idle.pc = "idle" /\ Idle.next = NoRows
      /\ Idle.loaded = NoRows /\ Idle.todo = {}
  BY DEF Idle
<1> HIDE DEF p
<1> QED
  BY <1>1, <1>2

LEMMA ReviewCommitLoaded ==
  ASSUME Calm, TypeOK, ReviewInv, NEW x \in Sessions, CommitLoaded(x)
  PROVE  ReviewInv'
<1>1. /\ session[x].pc = "loaded" /\ session[x].kind \in {"fan_out", "start", "retry", "qa_retry"}
      /\ WriteRows(x, session[x].next) /\ UNCHANGED queue
  BY DEF CommitLoaded, At
<1>2. /\ OtherSession(session[x])
      /\ session[x].kind # "qa_retry" => \A s \in SubJobs : ScoreTask(s) \notin session[x].todo
      /\ session[x].kind = "start" => x \in Workers
  BY <1>1 DEF ReviewInv, ReviewSession
<1>3. \A s \in DOMAIN session[x].next :
        Harmless(session[x].loaded[s], session[x].next[s])
  BY <1>1, <1>2 DEF OtherSession
<1>4. CASE session[x].kind = "start"
  <2> DEFINE v == [session[x] EXCEPT !.kind = "generate", !.loaded = session[x].next,
                                     !.next = NoRows, !.job = session[x].nextJob]
  <2>1. session' = [session EXCEPT ![x] = v]
    BY <1>4 DEF CommitLoaded
  <2>2. /\ v.kind = "generate" /\ v.pc = "loaded" /\ v.loaded = session[x].next
        /\ v.next = NoRows /\ v.todo = session[x].todo
    BY <1>1 DEF TypeOK, Session
  <2> HIDE DEF v
  <2>3. ReviewSession(v, sub')
    BY <1>2, <1>4, <2>2 DEF ReviewSession, OtherSession, NoRows
  <2>4. \A s \in SubJobs : ~Scoring(session[x], s)
    BY <1>2, <1>4 DEF Scoring
  <2> QED
    BY <1>1, <1>2, <1>3, <1>4, <2>1, <2>3, <2>4, ReviewCommit
<1>5. CASE session[x].kind # "start"
  <2>1. PICK v : /\ session' = [session EXCEPT ![x] = v]
                 /\ v.kind \in {"none", session[x].kind}
                 /\ v.pc \in {"idle", "publish"}
                 /\ v.next = NoRows /\ v.loaded = NoRows /\ v.todo = session[x].todo
                 /\ session[x].todo # {} => v.pc = "publish"
    BY <1>5, ReviewClosed DEF CommitLoaded
  <2>2. v.kind \notin {"start", "generate", "score"}
    BY <1>1, <1>5, <2>1
  <2>3. ReviewSession(v, sub')
    BY <2>1, <2>2 DEF ReviewSession, OtherSession, NoRows
  <2>4. \A s \in SubJobs : Scoring(session[x], s) => Scoring(v, s)
    BY <1>1, <2>1 DEF Scoring
  <2> QED
    BY <1>1, <1>3, <2>1, <2>2, <2>3, <2>4, ReviewCommit
<1> QED
  BY <1>4, <1>5

\* A generation that reached review publishes its scoring; a scoring leaves
\* nothing of what it loaded in review.
LEMMA ReviewCommitFlushed ==
  ASSUME Calm, TypeOK, ReviewInv, NEW x \in Sessions, CommitFlushed(x)
  PROVE  ReviewInv'
<1> DEFINE next == session[x].next
           todo == IF session[x].kind = "generate" THEN Scorings(next) ELSE {}
<1>1. session[x].pc = "flushed" /\ WriteRows(x, next) /\ UNCHANGED queue /\ next \in Rows
  BY DEF CommitFlushed, TypeOK, Session
<1>2. session[x].kind # "generate" => session' = [session EXCEPT ![x] = Idle]
  BY CommitFlushedEnds
<1>3. /\ ReviewSession(session[x], sub)
      /\ session[x].kind \in {"start", "generate", "score"} => x \in Workers
  BY DEF ReviewInv
<1>4. \A s \in SubJobs : ScoreTask(s) \notin session[x].todo
  BY <1>1, <1>3 DEF ReviewSession
<1>5. /\ session[x].kind = "generate" =>
           \A s \in DOMAIN next : next[s].status = "QA_REVIEW" => ScoreTask(s) \in todo
      /\ session[x].kind # "generate" => todo = {}
  BY DEF Scorings
<1>6. PICK v : /\ session' = [session EXCEPT ![x] = v]
               /\ v.kind \in {"none", session[x].kind}
               /\ v.pc \in {"idle", "publish"}
               /\ v.next = NoRows /\ v.todo = todo
               /\ todo # {} => v.pc = "publish"
  <2>1. CASE session[x].kind = "generate"
    BY <2>1, CommitFlushedEnds, CommittedFields
  <2>2. CASE session[x].kind # "generate"
    <3>1. /\ Idle.kind = "none" /\ Idle.pc = "idle" /\ Idle.next = NoRows /\ Idle.todo = {}
          /\ todo = {}
      BY <2>2 DEF Idle
    <3> QED
      BY <1>2, <2>2, <3>1
  <2> QED
    BY <2>1, <2>2
<1> HIDE DEF todo
<1>8. CASE session[x].kind # "score"
  <2>1. ReviewSession(v, sub')
    BY <1>6, <1>8 DEF ReviewSession, OtherSession, NoRows
  <2>2. \A s \in DOMAIN next :
          \/ Harmless(session[x].loaded[s], next[s])
          \/ ScoreTask(s) \in todo
    BY <1>3, <1>5, <1>8 DEF ReviewSession, OtherSession
  <2>3. \A s \in SubJobs : ~Scoring(session[x], s)
    BY <1>4, <1>8 DEF Scoring
  <2>4. ASSUME NEW s \in SubJobs, sub'[s].status = "QA_REVIEW"
        PROVE  \/ Scoring(v, s)
               \/ sub[s].status = "QA_REVIEW" /\ sub'[s].qa = sub[s].qa
    <3>1. CASE s \in DOMAIN next /\ ScoreTask(s) \in todo
      BY <1>6, <3>1 DEF Scoring
    <3>2. CASE s \in DOMAIN next /\ Harmless(session[x].loaded[s], next[s])
      <4>1. sub'[s] = WrittenRow(sub[s], session[x].loaded[s], next[s])
        BY <1>1, <3>2 DEF WriteRows
      <4> QED
        BY <2>4, <3>2, <4>1 DEF WrittenRow, Dirty, Harmless
    <3>3. CASE s \notin DOMAIN next
      BY <1>1, <2>4, <3>3 DEF WriteRows
    <3> QED
      BY <2>2, <3>1, <3>2, <3>3
  <2>5. x \notin Workers => \A s \in DOMAIN next : Harmless(session[x].loaded[s], next[s])
    BY <1>3, <1>8 DEF ReviewSession, OtherSession
  <2>6. x \notin Workers => \A s \in SubJobs : sub'[s].status = "QA_REVIEW" =>
          sub[s].status = "QA_REVIEW" /\ sub'[s].qa = sub[s].qa
    BY <1>1, <2>5, ReviewWrites
  <2>7. Hands(x, v)
    BY <1>1, <1>3, <1>6, <2>1, <2>3, <2>4, <2>6 DEF Hands
  <2> QED
    BY <1>6, <2>7, ReviewMoves
<1>9. CASE session[x].kind = "score"
  <2>1. ScoreSession(session[x], sub) /\ todo = {} /\ x \in Workers
    BY <1>3, <1>5, <1>9 DEF ReviewSession
  <2>4. session' = [session EXCEPT ![x] = Idle]
    BY <1>2, <1>9
  <2>5. ASSUME NEW s \in SubJobs, sub'[s].status = "QA_REVIEW"
        PROVE  /\ sub[s].status = "QA_REVIEW" /\ sub'[s].qa = sub[s].qa
               /\ ~Scoring(session[x], s)
    <3>1. CASE s \in DOMAIN session[x].loaded
      <4>1. s \in DOMAIN next /\ next[s].status = "COMPLETED"
        BY <1>1, <2>1, <3>1 DEF ScoreSession
      <4>2. sub'[s] = WrittenRow(sub[s], session[x].loaded[s], next[s])
        BY <1>1, <4>1 DEF WriteRows
      <4>3. sub[s].status = "QA_REVIEW" => session[x].loaded[s].status = "QA_REVIEW"
        BY <2>1, <3>1 DEF ScoreSession
      <4> QED
        BY <2>5, <4>1, <4>2, <4>3 DEF WrittenRow, Dirty
    <3>2. CASE s \notin DOMAIN session[x].loaded
      <4>1. s \notin DOMAIN next
        BY <2>1, <3>2 DEF ScoreSession
      <4>2. sub'[s] = sub[s]
        BY <1>1, <4>1 DEF WriteRows
      <4> QED
        BY <1>4, <2>5, <3>2, <4>2 DEF Scoring
    <3> QED
      BY <3>1, <3>2
  <2>6. Hands(x, Idle)
    BY <1>1, <2>1, <2>5, ReviewIdle DEF Hands
  <2> QED
    BY <2>4, <2>6, ReviewMoves
<1> QED
  BY <1>8, <1>9

\* A verdict that flags is written at once; any other is flushed.
LEMMA ReviewVerdict ==
  ASSUME Calm, TypeOK, ReviewInv, NEW w \in Workers, NEW s \in SubJobs, score_and_apply(w, s)
  PROVE  ReviewInv'
<1>1. /\ w \in Sessions /\ session[w].pc = "loaded" /\ session[w].kind = "score"
      /\ s \in DOMAIN session[w].loaded
  BY DEF Sessions, score_and_apply, At
<1>2. session[w].loaded[s] \in SubJobRow
  BY <1>1, LoadedRow
<1>3. /\ ScoreSession(session[w], sub)
      /\ \A t \in SubJobs : ScoreTask(t) \notin session[w].todo
  BY <1>1 DEF ReviewInv, ReviewSession
<1>4. DOMAIN session[w].loaded = {s}
  BY <1>1, <1>3 DEF ScoreSession
<1>5. PICK row \in score_outcomes(session[w].loaded[s]) :
        LET next == [t \in {s} |-> row]
        IN  \/ /\ row.qa # "FLAGGED"
               /\ Flush(w, next, recompute_parent_status(w, next))
            \/ /\ row.qa = "FLAGGED"
               /\ s \notin LockedByOthers(w)
               /\ WriteRows(w, next)
               /\ Close(w, {})
               /\ UNCHANGED <<job, queue, fan_out, faults, overtaken>>
  BY DEF score_and_apply
<1> DEFINE next == [t \in {s} |-> row]
<1>6. row.qa # "FLAGGED" => row.status = "COMPLETED"
  BY <1>2, <1>5 DEF score_outcomes, SubJobRow
<1>7. DOMAIN next = {s} /\ next[s] = row
  OBVIOUS
<1>8. \/ row.qa # "FLAGGED" /\ Flush(w, next, recompute_parent_status(w, next))
      \/ row.qa = "FLAGGED" /\ WriteRows(w, next) /\ Close(w, {}) /\ UNCHANGED queue
  BY <1>5
<1> HIDE DEF next
<1>9. CASE row.qa # "FLAGGED" /\ Flush(w, next, recompute_parent_status(w, next))
  <2> DEFINE v == [session[w] EXCEPT !.pc = "flushed", !.next = next,
                                     !.nextJob = recompute_parent_status(w, next)]
  <2>1. session' = [session EXCEPT ![w] = v] /\ UNCHANGED <<sub, queue>>
    BY <1>9 DEF Flush
  <2>2. /\ v.kind = "score" /\ v.pc = "flushed" /\ v.next = next
        /\ v.loaded = session[w].loaded /\ v.todo = session[w].todo
    BY <1>1 DEF TypeOK, Session
  <2> HIDE DEF v
  <2>3. ScoreSession(v, sub)
    BY <1>3, <1>4, <1>6, <1>7, <1>9, <2>2 DEF ScoreSession
  <2>4. ReviewSession(v, sub)
    BY <1>3, <2>2, <2>3 DEF ReviewSession
  <2>5. \A t \in SubJobs : Scoring(session[w], t) => Scoring(v, t)
    BY <1>3, <2>2 DEF Scoring
  <2> QED
    BY <1>1, <2>1, <2>4, <2>5, ReviewReads
<1>10. CASE row.qa = "FLAGGED" /\ WriteRows(w, next) /\ Close(w, {}) /\ UNCHANGED queue
  <2>1. session' = [session EXCEPT ![w] = Idle]
    BY <1>10 DEF Close
  <2>2. \A t \in SubJobs \ {s} : sub'[t] = sub[t] /\ ~Scoring(session[w], t)
    BY <1>3, <1>4, <1>7, <1>10 DEF WriteRows, Scoring
  <2>3. sub'[s].status = "QA_REVIEW" => sub'[s].qa = "FLAGGED"
    <3>1. sub'[s] = WrittenRow(sub[s], session[w].loaded[s], row)
      BY <1>7, <1>10 DEF WriteRows
    <3>2. row.status = session[w].loaded[s].status
      BY <1>2, <1>5, <1>10, FlagKeepsStatus
    <3>3. sub[s].status = "QA_REVIEW" /\ session[w].loaded[s].qa = "FLAGGED" =>
            sub[s].qa = "FLAGGED"
      BY <1>1, <1>3 DEF ScoreSession
    <3> QED
      BY <1>10, <3>1, <3>2, <3>3 DEF WrittenRow, Dirty
  <2>4. Hands(w, Idle)
    BY <1>10, <2>2, <2>3, ReviewIdle DEF Hands
  <2> QED
    BY <1>1, <2>1, <2>4, ReviewMoves
<1> QED
  BY <1>8, <1>9, <1>10

LEMMA ReviewPublish ==
  ASSUME Calm, TypeOK, ReviewInv, NEW x \in Sessions, NEW t \in Task, Publish(x, t)
  PROVE  ReviewInv'
<1> DEFINE todo == session[x].todo \ {t}
<1>1. /\ session[x].pc = "publish" /\ t \in session[x].todo /\ UNCHANGED sub
      /\ queue' = [queue EXCEPT ![t] = queue[t] + 1]
  BY DEF Publish
<1>2. /\ ReviewSession(session[x], sub)
      /\ session[x].kind \in {"start", "generate", "score"} => x \in Workers
  BY DEF ReviewInv
<1>3. session[x].kind # "score"
  BY <1>1, <1>2 DEF ReviewSession, ScoreSession
<1>4. PICK v : /\ session' = [session EXCEPT ![x] = v]
               /\ v.kind \in {"none", session[x].kind}
               /\ v.pc \in {"idle", "publish"}
               /\ v.next = NoRows /\ v.loaded = NoRows /\ v.todo = todo
               /\ todo # {} => v.pc = "publish"
  <2>1. Close(x, todo)
    BY DEF Publish
  <2> HIDE DEF todo
  <2> QED
    BY <2>1, ReviewClosed
<1>5. ReviewSession(v, sub)
  BY <1>3, <1>4 DEF ReviewSession, OtherSession, NoRows
<1>6. ASSUME NEW s \in SubJobs, queue[ScoreTask(s)] > 0 \/ Scoring(session[x], s)
      PROVE  queue'[ScoreTask(s)] > 0 \/ Scoring(v, s)
  <2>1. CASE ScoreTask(s) = t
    BY <1>1, <2>1 DEF TypeOK
  <2>2. CASE ScoreTask(s) # t
    <3>1. queue'[ScoreTask(s)] = queue[ScoreTask(s)]
      BY <1>1, <2>2, TaskType DEF TypeOK
    <3> QED
      BY <1>3, <1>4, <1>6, <2>2, <3>1 DEF Scoring
  <2> QED
    BY <2>1, <2>2
<1> HIDE DEF todo
<1>7. v.kind \in {"start", "generate", "score"} => x \in Workers
  BY <1>2, <1>4
<1> QED
  BY <1>1, <1>4, <1>5, <1>6, <1>7, ReviewReads

LEMMA ReviewInit == Init => ReviewInv
<1> SUFFICES ASSUME Init PROVE ReviewInv
  OBVIOUS
<1>1. \A s \in SubJobs : sub[s].status # "QA_REVIEW"
  BY DEF Init, NewSubJob
<1>2. \A x \in Sessions : session[x] = Idle
  BY DEF Init
<1> QED
  BY <1>1, <1>2, ReviewIdle DEF ReviewInv, ReviewIsQueuedOrScoring

LEMMA ReviewNext ==
  ASSUME Calm, TypeOK, ReviewInv, [Next]_vars
  PROVE  ReviewInv'
<1>1. CASE UNCHANGED vars
  BY <1>1 DEF ReviewInv, ReviewIsQueuedOrScoring, ScoringUnderWay, Flagged, vars
<1>2. ASSUME NEW w \in Workers, WorkerStep(w)
      PROVE  ReviewInv'
  <2>1. ASSUME NEW s \in SubJobs, assertion_fails(w, s)
        PROVE  ReviewInv'
    <3>1. /\ w \in Sessions /\ session' = [session EXCEPT ![w] = Idle] /\ UNCHANGED <<sub, queue>>
          /\ session[w].pc = "loaded" /\ session[w].kind = "generate"
      BY <2>1 DEF assertion_fails, At, Sessions
    <3>2. \A t \in SubJobs : ~Scoring(session[w], t)
      BY <3>1, ReviewNone
    <3> QED
      BY <3>1, <3>2, ReviewIdle, ReviewReads
  <2>2. ASSUME NEW s \in SubJobs, mark_sub_job_timed_out(w, s)
        PROVE  FALSE
    BY <2>2 DEF mark_sub_job_timed_out, Calm
  <2>3. ASSUME connections_closed(w)
        PROVE  ReviewInv'
    <3>1. /\ w \in Sessions /\ session' = [session EXCEPT ![w] = Idle] /\ UNCHANGED <<sub, queue>>
          /\ session[w].todo = {} /\ session[w].kind = "generate"
      BY <2>3 DEF connections_closed, At, Sessions
    <3>2. \A t \in SubJobs : ~Scoring(session[w], t)
      BY <3>1 DEF Scoring
    <3> QED
      BY <3>1, <3>2, ReviewIdle, ReviewReads
  <2> QED
    BY <1>2, <2>1, <2>2, <2>3, ReviewDispatch, ReviewStart, ReviewFinish, ReviewScore, ReviewVerdict,
       ReviewSweep DEF WorkerStep
<1>3. ASSUME NEW h \in Handlers, HandlerStep(h)
      PROVE  ReviewInv'
  <2>1. CASE retry_angle(h)
    BY <2>1, ReviewRetry DEF retry_angle
  <2>2. CASE retry_job(h)
    <3>1. {s \in SubJobs : sub[s].status = "FAILED"} \in SUBSET SubJobs
      OBVIOUS
    <3> QED
      BY <2>2, <3>1, ReviewRetry DEF retry_job
  <2> QED
    BY <1>3, <2>1, <2>2, ReviewQaRetry, ReviewDecision, ReviewRescore DEF HandlerStep
<1>4. ASSUME NEW x \in Sessions, SessionStep(x) \/ Fault(x)
      PROVE  ReviewInv'
  <2>1. ~Fault(x)
    BY DEF Fault, TypeOK, Calm
  <2> QED
    BY <1>4, <2>1, ReviewCommitLoaded, ReviewFlushPlanned, ReviewCommitFlushed, ReviewPublish
    DEF SessionStep
<1> QED
  BY <1>1, <1>2, <1>3, <1>4 DEF Next

\* On the solo pool without timeouts and crashes, whatever clients retry, the
\* sweep takes and operators decide or re-score at the same time, and for every
\* operation: an output in review is flagged or its scoring is under way.
THEOREM ReviewIsNotForgotten ==
  ASSUME Calm
  PROVE  Spec => []ReviewIsQueuedOrScoring
<1>1. TypeOK /\ ReviewInv /\ [Next]_vars => ReviewInv'
  BY ReviewNext
<1>2. ReviewInv => ReviewIsQueuedOrScoring
  BY DEF ReviewInv
<1> QED
  BY <1>1, <1>2, ReviewInit, TypeCorrect, PTL DEF Spec
=============================================================================
