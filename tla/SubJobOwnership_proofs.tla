------------------------ MODULE SubJobOwnership_proofs ------------------------
(***************************************************************************)
(* Theorems about JobPipeline when nothing but timeouts, crashes and one   *)
(* client's retries disturb it: a sub-job then belongs to at most one      *)
(* message or session at a time, for any sub-jobs, operation, pool and     *)
(* number of crashes, until the timeout of a task that has already         *)
(* committed overtakes a retry of it.  The sweep, QA retries and the       *)
(* operator's routes break this too, and with it what is proved here       *)
(* (README, section 3).                                                    *)
(***************************************************************************)
EXTENDS JobPipeline_proofs

OneClient == Environment \subseteq {"timeout", "retry"} /\ \A h, k \in Handlers : h = k

-----------------------------------------------------------------------------
(***************************************************************************)
(* The inductive invariant: who has a sub-job in hand, and what its row    *)
(* must then be.  A session owns the sub-jobs it has loaded, until it      *)
(* commits, and those it has a message for; its copy of an owned row is    *)
(* the stored row, so that what it commits is exactly what it planned.     *)
(* All of this is said of the sub-jobs of a set F, in the end of those     *)
(* that no late timeout has overtaken: of an overtaken one nothing is      *)
(* known, and no session's hold on another depends on it.                  *)
(***************************************************************************)

\* Every end has its class, and a transient one has spent the attempts.
RowFine(row) ==
  /\ row.status = "FAILED" => row.failure # "NONE"
  /\ row.status = "REJECTED" => row.failure \in {"SAFETY_REFUSAL", "QA_REJECTED"}
  /\ row.status = "FAILED" /\ row.failure = "TRANSIENT" => row.attempts = MaxAttempts

Owns(v, s) ==
  \/ s \in DOMAIN v.loaded /\ v.pc # "publish"
  \/ GenerateTask(s) \in v.todo
  \/ ScoreTask(s) \in v.todo

\* The status a session of some kind has found, and the one it will write.
Reads(kind, status) ==
  \/ kind = "start" /\ status = "PENDING"
  \/ kind = "generate" /\ status = "GENERATING"
  \/ kind = "score" /\ status = "QA_REVIEW"
  \/ kind = "timeout" /\ status \in STUCK_STATUSES
  \/ kind = "retry" /\ status = "FAILED"

Success(s) == IF Gated(s) THEN "QA_REVIEW" ELSE "COMPLETED"

Writes(s, kind, status) ==
  \/ kind = "start" /\ status = "GENERATING"
  \/ kind = "generate" /\ status \in {"FAILED", "REJECTED", Success(s)}
  \/ kind = "score" /\ status = "COMPLETED"
  \/ kind = "timeout" /\ status = "FAILED"
  \/ kind = "retry" /\ status = "PENDING"

\* What session v, of that kind, plans for s: an edge, a row that is fine.
Plans(v, s, next) ==
  s \in DOMAIN next =>
    s \in DOMAIN v.loaded /\ Writes(s, v.kind, next[s].status) /\ RowFine(next[s])

OwnerOK(v, rows, F) ==
  /\ v.pc = "idle" => \A s \in F : ~Owns(v, s)
  /\ v.pc # "publish" => \A s \in F : s \in DOMAIN v.loaded =>
       v.loaded[s] = rows[s] /\ Reads(v.kind, rows[s].status)
  /\ \A s \in F : Plans(v, s, v.next)
  /\ \A s \in F : GenerateTask(s) \in v.todo =>
       \/ v.kind = "fan_out" /\ rows[s].status = "PENDING"
       \/ v.kind = "retry" /\ v.pc = "publish" /\ rows[s].status = "PENDING"
       \/ v.kind = "retry" /\ v.pc = "loaded" /\ s \in DOMAIN v.next
  /\ \A s \in F : ScoreTask(s) \in v.todo =>
       v.kind = "generate" /\ v.pc = "publish" /\ rows[s].status = "QA_REVIEW"

MessagesOK(row, generate, score, fan) ==
  /\ generate \in {0, 1} /\ score \in {0, 1}
  /\ generate = 1 => row.status = "PENDING" /\ ~fan
  /\ score = 1 => row.status = "QA_REVIEW" /\ ~fan
  /\ fan => row.status \in {"PENDING", "SKIPPED"}

\* No message about s is in the broker.
Unsent(s) == queue[GenerateTask(s)] = 0 /\ queue[ScoreTask(s)] = 0 /\ ~fan_out

RowOK(s) ==
  /\ RowFine(sub[s])
  /\ MessagesOK(sub[s], queue[GenerateTask(s)], queue[ScoreTask(s)], fan_out)

OwnerOn(F) ==
  /\ \A s \in F : RowOK(s)
  /\ \A x \in Sessions :
       /\ OwnerOK(session[x], sub, F)
       /\ session[x].kind = "retry" => x \in Handlers
  /\ \A x \in Sessions, s \in F : Owns(session[x], s) =>
       /\ Unsent(s)
       /\ \A y \in Sessions : Owns(session[y], s) => y = x

OwnerInv == OwnerOn(Followed)

-----------------------------------------------------------------------------
(* What becomes of a row.                                                  *)

\* The loop ends in the success of the operation or with a class of its own.
LEMMA ProcessFine ==
  ASSUME NEW s \in SubJobs, NEW row \in SubJobRow, row.attempts < MaxAttempts,
         NEW r \in process(s, row)
  PROVE  r \in SubJobRow /\ RowFine(r) /\ Writes(s, "generate", r.status)
<1>1. r \in SubJobRow /\ r.status \in {"FAILED", "REJECTED", Success(s)}
  BY ProcessType, ProcessResult DEF Success
<1>2. \E success \in {"QA_REVIEW", "COMPLETED"} : r \in attempt_loop(row, success)
  BY OperationAssumption
  DEF process, transform_photo, background_process, match_process, recolor_process,
      mix_process, Operations, FanOutOperations, BackgroundOperations
<1>3. PICK success \in {"QA_REVIEW", "COMPLETED"} : r \in attempt_loop(row, success)
  BY <1>2
<1>4. \A n \in 0..MaxAttempts :
        /\ [row EXCEPT !.attempts = n] \in SubJobRow
        /\ [row EXCEPT !.attempts = n].attempts = n
  BY DEF SubJobRow
<1>5. ASSUME NEW q \in SubJobRow
      PROVE  /\ \A c \in attempt_outcomes(q, success) : RowFine(c)
             /\ q.attempts = MaxAttempts => RowFine(fail(q, "TRANSIENT"))
  BY DEF attempt_outcomes, fail, RowFine, SubJobRow
<1>6. /\ (row.attempts + 1)..MaxAttempts \subseteq 0..MaxAttempts
      /\ MaxAttempts \in 0..MaxAttempts
  BY AttemptsAssumption DEF SubJobRow
<1>7. \/ \E n \in 0..MaxAttempts : r \in attempt_outcomes([row EXCEPT !.attempts = n], success)
      \/ r = fail([row EXCEPT !.attempts = MaxAttempts], "TRANSIENT")
  BY <1>3, <1>6 DEF attempt_loop
<1>8. RowFine(r)
  BY <1>4, <1>5, <1>6, <1>7
<1> QED
  BY <1>1, <1>8 DEF Writes

LEMMA FailedFine ==
  ASSUME NEW row \in SubJobRow
  PROVE  /\ MarkFailed(row) \in SubJobRow /\ RowFine(MarkFailed(row))
         /\ MarkFailed(row).status = "FAILED"
BY MarkFailedType DEF MarkFailed, RowFine, SubJobRow

\* A verdict on a row in review completes it or leaves it in review.
LEMMA ScoreFine ==
  ASSUME NEW row \in SubJobRow, row.status = "QA_REVIEW", NEW r \in score_outcomes(row)
  PROVE  /\ r \in SubJobRow /\ RowFine(r)
         /\ r.qa # "FLAGGED" => r.status = "COMPLETED"
         /\ r.qa = "FLAGGED" => r.status = "QA_REVIEW"
<1>1. r \in SubJobRow
  BY ScoreType
<1>2. /\ r.qa # "FLAGGED" => r.status = "COMPLETED"
      /\ r.qa = "FLAGGED" => r.status = "QA_REVIEW"
  BY DEF score_outcomes, SubJobRow
<1> QED
  BY <1>1, <1>2 DEF RowFine

\* An UPDATE of a row that is as it was loaded stores the new values.
LEMMA FreshWrite ==
  ASSUME NEW stored, NEW new \in SubJobRow
  PROVE  WrittenRow(stored, stored, new) = new
BY DEF WrittenRow, Dirty, SubJobRow

\* So the commit of a session stores its planned rows, each one it owns.
LEMMA OwnedWrite ==
  ASSUME NEW F \in SUBSET SubJobs, TypeOK, OwnerOn(F),
         NEW x \in Sessions, session[x].pc # "publish", NEW next \in Rows, WriteRows(x, next),
         \A s \in F : s \in DOMAIN next => s \in DOMAIN session[x].loaded
  PROVE  \A s \in F : /\ sub'[s] = IF s \in DOMAIN next THEN next[s] ELSE sub[s]
                      /\ s \in DOMAIN next => Owns(session[x], s)
<1>1. \A s \in DOMAIN next : next[s] \in SubJobRow
  BY RowsDomain
<1>2. \A s \in F : s \in DOMAIN next => session[x].loaded[s] = sub[s]
  BY DEF OwnerOn, OwnerOK
<1>3. \A s \in F : s \in DOMAIN next =>
        WrittenRow(sub[s], session[x].loaded[s], next[s]) = next[s]
  BY <1>1, <1>2, FreshWrite
<1> QED
  BY <1>3 DEF WriteRows, Owns

-----------------------------------------------------------------------------
(* The shape of a step.                                                    *)

\* An owner is not disturbed by what happens to other sub-jobs.
LEMMA OwnerKeeps ==
  ASSUME NEW F \in SUBSET SubJobs, NEW v, NEW rows, NEW rows2, OwnerOK(v, rows, F),
         \A s \in F : Owns(v, s) => rows2[s] = rows[s]
  PROVE  OwnerOK(v, rows2, F)
BY DEF OwnerOK, Owns

\* Session x may become v: it disturbs only what it owned, and comes to own
\* only what nobody does.
Disturbs(x, v, F) ==
  /\ OwnerOK(v, sub', F) /\ (v.kind = "retry" => x \in Handlers)
  /\ \A s \in F : RowOK(s)'
  /\ \A s \in F : Owns(session[x], s) \/ (sub'[s] = sub[s] /\ (Unsent(s) => Unsent(s)'))
  /\ \A s \in F : Owns(v, s) =>
       /\ Unsent(s)'
       /\ Owns(session[x], s) \/ \A y \in Sessions : ~Owns(session[y], s)

LEMMA OwnerStep ==
  ASSUME NEW F \in SUBSET SubJobs, TypeOK, OwnerOn(F),
         NEW x \in Sessions, NEW v, session' = [session EXCEPT ![x] = v],
         Disturbs(x, v, F)
  PROVE  OwnerOn(F)'
<1> USE DEF Disturbs
<1>1. session'[x] = v /\ \A y \in Sessions \ {x} : session'[y] = session[y]
  BY DEF TypeOK
<1>2. ASSUME NEW y \in Sessions \ {x}
      PROVE  /\ OwnerOK(session[y], sub', F)
             /\ session[y].kind = "retry" => y \in Handlers
             /\ \A s \in F : Owns(session[y], s) => Unsent(s)' /\ ~Owns(v, s)
  <2>1. \A s \in F : Owns(session[y], s) => ~Owns(session[x], s) /\ Unsent(s)
    BY DEF OwnerOn
  <2>2. session[y] \in Session /\ OwnerOK(session[y], sub, F)
    BY DEF TypeOK, OwnerOn
  <2>3. \A s \in F : Owns(session[y], s) => sub'[s] = sub[s]
    BY <2>1
  <2>4. OwnerOK(session[y], sub', F)
    BY <2>2, <2>3, OwnerKeeps
  <2> QED
    BY <2>1, <2>4 DEF OwnerOn
<1>3. \A y \in Sessions : OwnerOK(session'[y], sub', F) /\ (session'[y].kind = "retry" => y \in Handlers)
  BY <1>1, <1>2
<1>4. ASSUME NEW y \in Sessions, NEW s \in F, Owns(session'[y], s)
      PROVE  Unsent(s)' /\ \A z \in Sessions : Owns(session'[z], s) => z = y
  <2>1. CASE y = x
    BY <1>1, <1>2, <1>4, <2>1
  <2>2. CASE y # x
    BY <1>1, <1>2, <1>4, <2>2 DEF OwnerOn
  <2> QED
    BY <2>1, <2>2
<1> QED
  BY <1>3, <1>4 DEF OwnerOn

\* The same when only the session changes.
LEMMA OwnerMoves ==
  ASSUME NEW F \in SUBSET SubJobs, TypeOK, OwnerOn(F),
         NEW x \in Sessions, NEW v, session' = [session EXCEPT ![x] = v],
         OwnerOK(v, sub, F), v.kind = "retry" => x \in Handlers,
         UNCHANGED <<sub, queue, fan_out>>,
         \A s \in F : Owns(v, s) =>
           \/ Owns(session[x], s)
           \/ Unsent(s) /\ \A y \in Sessions : ~Owns(session[y], s)
  PROVE  OwnerOn(F)'
<1>1. /\ OwnerOK(v, sub', F)
      /\ \A s \in F : RowOK(s)' /\ sub'[s] = sub[s] /\ (Unsent(s) => Unsent(s)')
  BY DEF OwnerOn, RowOK, Unsent
<1>2. \A s \in F : Owns(v, s) =>
        /\ Unsent(s)'
        /\ Owns(session[x], s) \/ \A y \in Sessions : ~Owns(session[y], s)
  <2>1. \A s \in F : Owns(v, s) => Unsent(s)
    BY DEF OwnerOn
  <2> QED
    BY <1>1, <2>1
<1>3. \A s \in F :
        Owns(session[x], s) \/ (sub'[s] = sub[s] /\ (Unsent(s) => Unsent(s)'))
  BY <1>1
<1> QED
  <2>1. OwnerOK(v, sub', F)
    BY <1>1
  <2>2. \A s \in F : RowOK(s)'
    BY <1>1
  <2>3. Disturbs(x, v, F)
    BY <2>1, <2>2, <1>2, <1>3 DEF Disturbs
  <2> QED
    BY <2>3, OwnerStep

LEMMA OwnerIdle ==
  ASSUME NEW F, NEW rows
  PROVE  OwnerOK(Idle, rows, F) /\ Idle.kind = "none" /\ \A s \in F : ~Owns(Idle, s)
BY DEF OwnerOK, Owns, Plans, Idle, NoRows

LEMMA OwnerEnds ==
  ASSUME NEW F \in SUBSET SubJobs, TypeOK, OwnerOn(F),
         NEW x \in Sessions, session' = [session EXCEPT ![x] = Idle],
         UNCHANGED <<sub, queue, fan_out>>
  PROVE  OwnerOn(F)'
BY OwnerIdle, OwnerMoves

\* What a session with messages to publish may hold.
Publishing(kind, todo) == [Idle EXCEPT !.pc = "publish", !.kind = kind, !.todo = todo]

LEMMA PublishingFields ==
  ASSUME NEW kind, NEW todo
  PROVE  LET v == Publishing(kind, todo)
         IN  /\ v.pc = "publish" /\ v.kind = kind /\ v.todo = todo
             /\ v.loaded = NoRows /\ v.next = NoRows
             /\ \A s \in SubJobs :
                  Owns(v, s) <=> GenerateTask(s) \in todo \/ ScoreTask(s) \in todo
BY DEF Publishing, Idle, Owns, NoRows

-----------------------------------------------------------------------------
(* Taking a sub-job in hand.                                               *)

\* The fan-out message is the only one of its job: it names what is PENDING.
LEMMA OwnDispatch ==
  ASSUME NEW F \in SUBSET SubJobs, TypeOK, OwnerOn(F),
         NEW w \in Workers, dispatch_job(w)
  PROVE  OwnerOn(F)'
<1> DEFINE nextJob == IF job.status = "PENDING" THEN [job EXCEPT !.status = "PROCESSING"]
                      ELSE job
           todo == {GenerateTask(s) : s \in {t \in SubJobs : sub[t].status = "PENDING"}}
           v == [Begin("fan_out", {}) EXCEPT !.nextJob = nextJob, !.todo = todo]
<1>1. session' = [session EXCEPT ![w] = v] /\ w \in Sessions
  BY DEF dispatch_job, Sessions
<1>2. /\ v.pc = "loaded" /\ v.kind = "fan_out" /\ v.loaded = [s \in {} |-> sub[s]]
      /\ v.next = NoRows /\ v.todo = todo
  BY DEF Begin, Idle
<1>3. \A s \in F : /\ ScoreTask(s) \notin todo
                   /\ GenerateTask(s) \in todo => sub[s].status = "PENDING"
  BY TasksDiffer DEF GenerateTask
<1> HIDE DEF v, todo, nextJob
<1>4. OwnerOK(v, sub, F)
  <2>1. DOMAIN v.loaded = {} /\ DOMAIN v.next = {}
    BY <1>2 DEF NoRows
  <2> QED
    BY <1>2, <1>3, <2>1 DEF OwnerOK, Plans
<1>5. \A s \in F :
        /\ queue[GenerateTask(s)] = 0 /\ queue[ScoreTask(s)] = 0
        /\ \A y \in Sessions : ~Owns(session[y], s)
  BY DEF dispatch_job, OwnerOn, RowOK, MessagesOK, Unsent
<1>6. /\ sub' = sub /\ queue' = queue /\ ~fan_out'
  BY DEF dispatch_job
<1>7. \A s \in F : RowOK(s)' /\ Unsent(s)'
  BY <1>5, <1>6 DEF OwnerOn, RowOK, MessagesOK, Unsent
<1> QED
  BY <1>1, <1>2, <1>4, <1>5, <1>6, <1>7, OwnerStep DEF Disturbs

\* A message taken from the broker: its sub-job has no other, and no owner.
LEMMA OwnReceive ==
  ASSUME NEW F \in SUBSET SubJobs, TypeOK, OwnerOn(F),
         NEW w \in Workers, NEW s \in SubJobs, NEW t,
         t = GenerateTask(s) \/ t = ScoreTask(s), Receive(t),
         NEW v, session' = [session EXCEPT ![w] = v], UNCHANGED <<sub, fan_out>>,
         OwnerOK(v, sub, F), v.kind # "retry", \A u \in F : Owns(v, u) => u = s
  PROVE  OwnerOn(F)'
<1>1. queue' = [queue EXCEPT ![t] = queue[t] - 1] /\ t \in Task /\ queue[t] > 0
  BY TaskType DEF Receive
<1>2. \A m \in Task \ {t} : queue'[m] = queue[m]
  BY <1>1 DEF TypeOK
<1>3. \A u \in F \ {s} : GenerateTask(u) # t /\ ScoreTask(u) # t
  BY TasksDiffer DEF GenerateTask, ScoreTask
<1>4. \A u \in F \ {s} : /\ queue'[GenerateTask(u)] = queue[GenerateTask(u)]
                         /\ queue'[ScoreTask(u)] = queue[ScoreTask(u)]
  BY <1>2, <1>3, TaskType
<1>5. ASSUME s \in F
      PROVE  RowOK(s)' /\ Unsent(s)' /\ \A y \in Sessions : ~Owns(session[y], s)
  <2>1. /\ queue[GenerateTask(s)] \in {0, 1} /\ queue[ScoreTask(s)] \in {0, 1}
        /\ ~(queue[GenerateTask(s)] = 1 /\ queue[ScoreTask(s)] = 1)
        /\ queue[t] = 1 => ~fan_out
    BY <1>5 DEF OwnerOn, RowOK, MessagesOK
  <2>2. queue[t] = 1 /\ queue'[t] = 0
    BY <1>1, <2>1 DEF TypeOK
  <2>3. queue'[GenerateTask(s)] = 0 /\ queue'[ScoreTask(s)] = 0
    BY <1>2, <2>1, <2>2, TaskType, TasksDiffer
  <2>4. Unsent(s)'
    BY <2>1, <2>2, <2>3 DEF Unsent
  <2>5. RowOK(s)'
    BY <1>5, <2>1, <2>2, <2>3 DEF OwnerOn, RowOK, MessagesOK
  <2> QED
    BY <1>5, <2>2, <2>4, <2>5 DEF OwnerOn, Unsent
<1>6. \A u \in F \ {s} : RowOK(u)' /\ (Unsent(u) => Unsent(u)')
  BY <1>4 DEF OwnerOn, RowOK, MessagesOK, Unsent
<1>7. \A u \in F : RowOK(u)' /\ (Unsent(u) => Unsent(u)')
  BY <1>5, <1>6
<1> QED
  BY <1>5, <1>7, OwnerStep DEF Sessions, Disturbs

LEMMA OwnStart ==
  ASSUME NEW F \in SUBSET SubJobs, TypeOK, OwnerOn(F),
         NEW w \in Workers, NEW s \in SubJobs, start_task(w, s)
  PROVE  OwnerOn(F)'
<1> DEFINE next == [t \in {s} |-> [sub[t] EXCEPT !.status = "GENERATING"]]
           nextJob == IF Operation # "ANGLE_GENERATION" /\ job.status = "PENDING"
                      THEN [job EXCEPT !.status = "PROCESSING"] ELSE job
           v == [Begin("start", {s}) EXCEPT !.next = next, !.nextJob = nextJob]
<1>1. session' = [session EXCEPT ![w] = v]
  BY DEF start_task
<1>2. /\ v.pc = "loaded" /\ v.kind = "start" /\ v.loaded = [t \in {s} |-> sub[t]]
      /\ v.next = next /\ v.todo = {}
  BY DEF Begin, Idle
<1>3. next[s].status = "GENERATING" /\ DOMAIN next = {s}
  BY DEF TypeOK, SubJobRow
<1>4. s \in F => sub[s].status = "PENDING"
  BY TaskType DEF start_task, Receive, OwnerOn, RowOK, MessagesOK
<1> HIDE DEF v, next, nextJob
<1>5. OwnerOK(v, sub, F)
  BY <1>2, <1>3, <1>4 DEF OwnerOK, Owns, Plans, Reads, Writes, RowFine
<1>6. \A u \in F : Owns(v, u) => u = s
  BY <1>2 DEF Owns
<1>7. Receive(GenerateTask(s)) /\ UNCHANGED <<sub, fan_out>>
  BY DEF start_task
<1> QED
  BY <1>1, <1>2, <1>5, <1>6, <1>7, OwnReceive

LEMMA OwnScore ==
  ASSUME NEW F \in SUBSET SubJobs, TypeOK, OwnerOn(F),
         NEW w \in Workers, NEW s \in SubJobs, score_sub_job(w, s)
  PROVE  OwnerOn(F)'
<1> DEFINE v == Begin("score", {s})
<1>1. session' = [session EXCEPT ![w] = v]
  BY DEF score_sub_job
<1>2. /\ v.pc = "loaded" /\ v.kind = "score" /\ v.loaded = [t \in {s} |-> sub[t]]
      /\ v.next = NoRows /\ v.todo = {}
  BY DEF Begin, Idle
<1>3. s \in F => sub[s].status = "QA_REVIEW"
  BY TaskType DEF score_sub_job, Receive, OwnerOn, RowOK, MessagesOK
<1> HIDE DEF v
<1>4. OwnerOK(v, sub, F)
  BY <1>2, <1>3 DEF OwnerOK, Plans, Reads, NoRows
<1>5. \A u \in F : Owns(v, u) => u = s
  BY <1>2 DEF Owns
<1>6. Receive(ScoreTask(s)) /\ UNCHANGED <<sub, fan_out>>
  BY DEF score_sub_job
<1> QED
  BY <1>1, <1>2, <1>4, <1>5, <1>6, OwnReceive

\* A FAILED sub-job belongs to nobody but the retry that resets it.
LEMMA OwnRetry ==
  ASSUME NEW F \in SUBSET SubJobs, TypeOK, OwnerOn(F),
         OneClient, NEW h \in Handlers, NEW S \in SUBSET SubJobs,
         execute_retry(h, S)
  PROVE  OwnerOn(F)'
<1> DEFINE next == [s \in S |-> [sub[s] EXCEPT !.status = "PENDING", !.failure = "NONE"]]
           nextJob == IF job.status \in TERMINAL_STATUSES
                      THEN [job EXCEPT !.status = "PROCESSING", !.completed = FALSE]
                      ELSE job
           todo == {GenerateTask(s) : s \in S}
           v == [Begin("retry", S) EXCEPT !.next = next, !.nextJob = nextJob, !.todo = todo]
<1>1. session' = [session EXCEPT ![h] = v] /\ h \in Sessions
  BY DEF execute_retry, Sessions
<1>2. /\ v.pc = "loaded" /\ v.kind = "retry" /\ v.loaded = [s \in S |-> sub[s]]
      /\ v.next = next /\ v.todo = todo
  BY DEF Begin, Idle
<1>3. DOMAIN next = S /\ \A s \in S : next[s].status = "PENDING"
  BY DEF TypeOK, SubJobRow
<1>4. \A s \in F : ScoreTask(s) \notin todo /\ (GenerateTask(s) \in todo => s \in S)
  BY TasksDiffer DEF GenerateTask
<1>5. \A s \in S : sub[s].status = "FAILED"
  BY DEF execute_retry, check_retry_preconditions
<1> HIDE DEF v, next, nextJob, todo
<1>6. OwnerOK(v, sub, F)
  BY <1>2, <1>3, <1>4, <1>5 DEF OwnerOK, Plans, Reads, Writes, RowFine
<1>7. \A s \in F : Owns(v, s) => s \in S
  BY <1>2, <1>4 DEF Owns
<1>8. ASSUME NEW s \in S, s \in F
      PROVE  Unsent(s) /\ \A y \in Sessions : ~Owns(session[y], s)
  <2>1. Unsent(s)
    BY <1>5, <1>8 DEF OwnerOn, RowOK, MessagesOK, Unsent
  <2>2. ASSUME NEW y \in Sessions, Owns(session[y], s)
        PROVE  FALSE
    <3>1. OwnerOK(session[y], sub, F) /\ sub[s].status = "FAILED"
      BY <1>5 DEF OwnerOn
    <3>2. session[y].kind = "retry"
      BY <1>8, <2>2, <3>1 DEF OwnerOK, Owns, Reads, STUCK_STATUSES
    <3>3. y = h
      BY <3>2 DEF OwnerOn, OneClient
    <3> QED
      BY <1>8, <2>2, <3>1, <3>3 DEF OwnerOK, execute_retry, IsIdle
  <2> QED
    BY <2>1, <2>2
<1>9. UNCHANGED <<sub, queue, fan_out>>
  BY DEF execute_retry
<1> QED
  BY <1>1, <1>6, <1>7, <1>8, <1>9, OwnerMoves

-----------------------------------------------------------------------------
(* Working on it.                                                          *)

LEMMA OwnFlush ==
  ASSUME NEW F \in SUBSET SubJobs, TypeOK, OwnerOn(F),
         NEW x \in Sessions, NEW next \in Rows, NEW nextJob,
         Flush(x, next, nextJob), session[x].pc = "loaded", session[x].kind # "retry",
         session[x].kind # "fan_out",
         \A s \in F : Plans(session[x], s, next)
  PROVE  OwnerOn(F)'
<1> DEFINE v == [session[x] EXCEPT !.pc = "flushed", !.next = next, !.nextJob = nextJob]
<1>1. /\ v.pc = "flushed" /\ v.next = next /\ v.kind = session[x].kind
      /\ v.loaded = session[x].loaded /\ v.todo = session[x].todo
  BY DEF TypeOK, Session
<1>2. session' = [session EXCEPT ![x] = v]
  BY DEF Flush, TypeOK
<1>3. UNCHANGED <<sub, queue, fan_out>>
  BY DEF Flush
<1> HIDE DEF v
<1>4. OwnerOK(session[x], sub, F)
  BY DEF OwnerOn
<1>5. OwnerOK(v, sub, F)
  BY <1>1, <1>4 DEF OwnerOK, Plans
<1>6. \A s \in F : Owns(v, s) => Owns(session[x], s)
  BY <1>1 DEF Owns
<1> QED
  BY <1>1, <1>2, <1>3, <1>5, <1>6, OwnerMoves

LEMMA OwnFinish ==
  ASSUME NEW F \in SUBSET SubJobs, TypeOK, OwnerOn(F),
         NEW w \in Workers, NEW s \in SubJobs, finish_task(w, s)
  PROVE  OwnerOn(F)'
<1>1. w \in Sessions /\ session[w].pc = "loaded" /\ session[w].kind = "generate"
  BY DEF Sessions, finish_task, At
<1>2. session[w].loaded[s] \in SubJobRow
  BY <1>1, LoadedRow DEF finish_task
<1>3. PICK row \in process(s, session[w].loaded[s]) :
        Flush(w, [t \in {s} |-> row], recompute_parent_status(w, [t \in {s} |-> row]))
  BY DEF finish_task
<1>4. row \in SubJobRow /\ RowFine(row) /\ Writes(s, "generate", row.status)
  BY <1>2, ProcessFine DEF finish_task
<1> DEFINE next == [t \in {s} |-> row]
<1>5. next \in Rows /\ DOMAIN next = {s} /\ next[s] = row
  BY <1>4, OneRow
<1>6. Flush(w, next, recompute_parent_status(w, next))
  BY <1>3
<1> HIDE DEF next
<1>7. \A u \in F : Plans(session[w], u, next)
  BY <1>1, <1>4, <1>5 DEF Plans, finish_task
<1> QED
  BY <1>1, <1>5, <1>6, <1>7, OwnFlush

LEMMA OwnFlushPlanned ==
  ASSUME NEW F \in SUBSET SubJobs, TypeOK, OwnerOn(F),
         NEW x \in Sessions, FlushPlanned(x)
  PROVE  OwnerOn(F)'
<1> DEFINE next == session[x].next
<1>1. session[x].pc = "loaded" /\ session[x].kind \notin {"retry", "fan_out"}
  BY DEF FlushPlanned, At
<1>2. next \in Rows /\ \A s \in F : Plans(session[x], s, next)
  BY DEF TypeOK, Session, OwnerOn, OwnerOK
<1>3. Flush(x, next, recompute_parent_status(x, next))
  BY DEF FlushPlanned
<1> HIDE DEF next
<1> QED
  BY <1>1, <1>2, <1>3, OwnFlush

\* A timeout that finds the task's own row, or one that F leaves out.
LEMMA OwnTimeout ==
  ASSUME NEW F \in SUBSET SubJobs, TypeOK, OwnerOn(F),
         NEW w \in Workers, NEW s \in SubJobs, mark_sub_job_timed_out(w, s),
         F \intersect overtaken' = {}
  PROVE  OwnerOn(F)'
<1>1. w \in Sessions /\ UNCHANGED <<sub, queue, fan_out>> /\ s \in DOMAIN session[w].loaded
  BY DEF Sessions, mark_sub_job_timed_out
<1>2. CASE sub[s].status \notin STUCK_STATUSES
  BY <1>1, <1>2, OwnerEnds DEF mark_sub_job_timed_out
<1>3. CASE sub[s].status \in STUCK_STATUSES
  <2> DEFINE next == [t \in {s} |-> MarkFailed(sub[t])]
             v == [Begin("timeout", {s}) EXCEPT !.next = next]
  <2>1. session' = [session EXCEPT ![w] = v]
    BY <1>3 DEF mark_sub_job_timed_out
  <2>2. /\ v.pc = "loaded" /\ v.kind = "timeout" /\ v.loaded = [t \in {s} |-> sub[t]]
        /\ v.next = next /\ v.todo = {}
    BY DEF Begin, Idle
  <2>3. next[s].status = "FAILED" /\ RowFine(next[s]) /\ DOMAIN next = {s}
    BY FailedFine DEF TypeOK
  <2> HIDE DEF v, next
  <2>4. OwnerOK(v, sub, F)
    BY <1>3, <2>2, <2>3 DEF OwnerOK, Plans, Reads, Writes
  <2>5. \A u \in F : Owns(v, u) => u = s
    BY <2>2 DEF Owns
  <2>6. s \in F => Owns(session[w], s)
    BY <1>1, <1>3 DEF mark_sub_job_timed_out, Owns
  <2>7. /\ \A u \in F : Owns(v, u) =>
            \/ Owns(session[w], u)
            \/ Unsent(u) /\ \A y \in Sessions : ~Owns(session[y], u)
        /\ v.kind = "retry" => w \in Handlers
    BY <2>2, <2>5, <2>6
  <2> QED
    BY <1>1, <2>1, <2>4, <2>7, OwnerMoves, ZenonT(60)
<1> QED
  BY <1>2, <1>3

-----------------------------------------------------------------------------
(* Commits and messages.                                                   *)

LEMMA OwnCommit ==
  ASSUME NEW F \in SUBSET SubJobs, TypeOK, OwnerOn(F),
         NEW x \in Sessions, NEW next \in Rows, WriteRows(x, next),
         session[x].pc # "publish",
         \A s \in F : s \in DOMAIN next => s \in DOMAIN session[x].loaded /\ RowFine(next[s]),
         UNCHANGED <<queue, fan_out>>, NEW v, session' = [session EXCEPT ![x] = v],
         OwnerOK(v, sub', F), v.kind = "retry" => x \in Handlers,
         \A s \in F : Owns(v, s) => Owns(session[x], s)
  PROVE  OwnerOn(F)'
<1>1. \A s \in F : /\ sub'[s] = IF s \in DOMAIN next THEN next[s] ELSE sub[s]
                   /\ s \in DOMAIN next => Owns(session[x], s)
  BY OwnedWrite
<1>2. \A s \in F : Unsent(s)' <=> Unsent(s)
  BY DEF Unsent
<1>3. ASSUME NEW s \in F
      PROVE  RowOK(s)'
  <2>1. CASE s \in DOMAIN next
    <3>1. sub'[s] = next[s] /\ Unsent(s) /\ RowFine(next[s])
      BY <1>1, <2>1 DEF OwnerOn
    <3> QED
      BY <3>1 DEF RowOK, MessagesOK, Unsent
  <2>2. CASE s \notin DOMAIN next
    <3>1. sub'[s] = sub[s] /\ RowOK(s)
      BY <1>1, <2>2 DEF OwnerOn
    <3> QED
      BY <3>1 DEF RowOK
  <2> QED
    BY <2>1, <2>2
<1>4. \A s \in F :
        Owns(session[x], s) \/ (sub'[s] = sub[s] /\ (Unsent(s) => Unsent(s)'))
  BY <1>1, <1>2
<1>5. \A s \in F : Owns(v, s) =>
        /\ Unsent(s)'
        /\ Owns(session[x], s) \/ \A y \in Sessions : ~Owns(session[y], s)
  BY <1>2 DEF OwnerOn
<1>6. \A s \in F : RowOK(s)'
  BY <1>3
<1>7. Disturbs(x, v, F)
  BY <1>4, <1>5, <1>6 DEF Disturbs
<1> QED
  BY <1>7, OwnerStep

LEMMA CloseIs ==
  ASSUME NEW x, NEW todo, Close(x, todo)
  PROVE  session' = [session EXCEPT ![x] =
                       IF todo = {} THEN Idle ELSE Publishing(session[x].kind, todo)]
BY DEF Close, Publishing

LEMMA OwnVerdict ==
  ASSUME NEW F \in SUBSET SubJobs, TypeOK, OwnerOn(F),
         NEW w \in Workers, NEW s \in SubJobs, score_and_apply(w, s)
  PROVE  OwnerOn(F)'
<1>1. w \in Sessions /\ session[w].pc = "loaded" /\ session[w].kind = "score"
  BY DEF Sessions, score_and_apply, At
<1>2. /\ session[w].loaded[s] \in SubJobRow
      /\ s \in F => session[w].loaded[s].status = "QA_REVIEW"
  BY <1>1, LoadedRow DEF score_and_apply, OwnerOn, OwnerOK, Reads
<1>3. PICK row \in score_outcomes(session[w].loaded[s]) :
        LET next == [t \in {s} |-> row]
        IN  \/ /\ row.qa # "FLAGGED"
               /\ Flush(w, next, recompute_parent_status(w, next))
            \/ /\ row.qa = "FLAGGED"
               /\ s \notin LockedByOthers(w)
               /\ WriteRows(w, next)
               /\ Close(w, {})
               /\ UNCHANGED <<job, queue, fan_out, faults, overtaken>>
  BY DEF score_and_apply
<1> DEFINE next == [t \in {s} |-> row]
<1>4. /\ row \in SubJobRow
      /\ s \in F => RowFine(row) /\ (row.qa # "FLAGGED" => Writes(s, "score", row.status))
  BY <1>2, ScoreType, ScoreFine DEF Writes
<1>5. next \in Rows /\ DOMAIN next = {s} /\ next[s] = row /\ s \in DOMAIN session[w].loaded
  BY <1>4, OneRow DEF score_and_apply
<1> HIDE DEF next
<1>6. CASE row.qa # "FLAGGED" /\ Flush(w, next, recompute_parent_status(w, next))
  <2>1. \A u \in F : Plans(session[w], u, next)
    BY <1>1, <1>4, <1>5, <1>6 DEF Plans
  <2> QED
    BY <1>1, <1>5, <1>6, <2>1, OwnFlush
<1>7. CASE WriteRows(w, next) /\ Close(w, {}) /\ UNCHANGED <<job, queue, fan_out, faults, overtaken>>
  <2>1. session' = [session EXCEPT ![w] = Idle]
    BY <1>7 DEF Close
  <2>2. OwnerOK(Idle, sub', F) /\ Idle.kind # "retry" /\ \A u \in F : ~Owns(Idle, u)
    BY OwnerIdle
  <2>3. \A u \in F : u \in DOMAIN next => u \in DOMAIN session[w].loaded /\ RowFine(next[u])
    BY <1>4, <1>5
  <2> QED
    BY <1>1, <1>5, <1>7, <2>1, <2>2, <2>3, OwnCommit
<1> QED
  BY <1>3, <1>6, <1>7 DEF next

LEMMA OwnCommitLoaded ==
  ASSUME NEW F \in SUBSET SubJobs, TypeOK, OwnerOn(F),
         NEW x \in Sessions, CommitLoaded(x)
  PROVE  OwnerOn(F)'
<1> DEFINE u == session[x]
<1>1. u \in Session /\ OwnerOK(u, sub, F) /\ u.pc = "loaded" /\ (u.kind = "retry" => x \in Handlers)
  BY DEF TypeOK, OwnerOn, CommitLoaded, At
<1>2. u.next \in Rows /\ WriteRows(x, u.next) /\ UNCHANGED <<queue, fan_out>>
  BY <1>1 DEF Session, CommitLoaded
<1>3. \A s \in F : s \in DOMAIN u.next =>
        s \in DOMAIN u.loaded /\ RowFine(u.next[s]) /\ Writes(s, u.kind, u.next[s].status)
  BY <1>1 DEF OwnerOK, Plans
<1>4. \A s \in F : sub'[s] = IF s \in DOMAIN u.next THEN u.next[s] ELSE sub[s]
  BY <1>1, <1>2, <1>3, OwnedWrite
<1>5. CASE u.kind = "start"
  <2> DEFINE v == [u EXCEPT !.kind = "generate", !.loaded = u.next,
                            !.next = NoRows, !.job = u.nextJob]
  <2>1. /\ v.pc = "loaded" /\ v.kind = "generate" /\ v.loaded = u.next
        /\ v.next = NoRows /\ v.todo = u.todo
    BY <1>1 DEF Session
  <2>2. session' = [session EXCEPT ![x] = v]
    BY <1>5 DEF CommitLoaded
  <2> HIDE DEF v
  <2>3. \A s \in F : GenerateTask(s) \notin v.todo /\ ScoreTask(s) \notin v.todo
    BY <1>1, <1>5, <2>1 DEF OwnerOK
  <2>4. OwnerOK(v, sub', F)
    BY <1>3, <1>4, <1>5, <2>1, <2>3 DEF OwnerOK, Plans, Reads, Writes, NoRows
  <2>5. \A s \in F : Owns(v, s) => Owns(u, s)
    BY <1>1, <1>3, <2>1, <2>3 DEF Owns
  <2> HIDE DEF u
  <2> QED
    BY <1>1, <1>2, <1>3, <2>1, <2>2, <2>4, <2>5, OwnCommit DEF u
<1>6. CASE u.kind # "start"
  <2> DEFINE p == Publishing(u.kind, u.todo)
             v == IF u.todo = {} THEN Idle ELSE p
  <2>1. session' = [session EXCEPT ![x] = v]
    BY <1>6, CloseIs DEF CommitLoaded
  <2>2. /\ p.pc = "publish" /\ p.kind = u.kind /\ p.todo = u.todo
        /\ p.loaded = NoRows /\ p.next = NoRows
        /\ \A s \in F : Owns(p, s) => Owns(u, s)
    BY PublishingFields DEF Owns, NoRows
  <2> HIDE DEF p
  <2>3. \A s \in F : ScoreTask(s) \notin u.todo
    BY <1>1 DEF OwnerOK
  <2>4. ASSUME NEW s \in F, GenerateTask(s) \in u.todo
        PROVE  sub'[s].status = "PENDING" /\ u.kind \in {"fan_out", "retry"}
    BY <1>1, <1>3, <1>4, <2>4 DEF OwnerOK, Writes
  <2>5. OwnerOK(p, sub', F)
    BY <2>2, <2>3, <2>4 DEF OwnerOK, Plans, NoRows
  <2>6. /\ OwnerOK(v, sub', F) /\ (v.kind = "retry" => x \in Handlers)
        /\ \A s \in F : Owns(v, s) => Owns(u, s)
    BY <1>1, <2>2, <2>5, OwnerIdle
  <2> HIDE DEF v, u
  <2> QED
    BY <1>1, <1>2, <1>3, <2>1, <2>6, OwnCommit DEF u
<1> QED
  BY <1>5, <1>6

\* What a generation holds on to after its commit it no longer owns.
LEMMA OwnCommitFlushed ==
  ASSUME NEW F \in SUBSET SubJobs, TypeOK, OwnerOn(F),
         NEW x \in Sessions, CommitFlushed(x)
  PROVE  OwnerOn(F)'
<1> DEFINE u == session[x]
           todo == Scorings(u.next)
           p == Committed(x, todo)
<1>1. u \in Session /\ OwnerOK(u, sub, F) /\ u.pc = "flushed" /\ (u.kind = "retry" => x \in Handlers)
  BY DEF TypeOK, OwnerOn, CommitFlushed
<1>2. u.next \in Rows /\ WriteRows(x, u.next) /\ UNCHANGED <<queue, fan_out>>
  BY <1>1 DEF Session, CommitFlushed
<1>3. \A s \in F : s \in DOMAIN u.next => s \in DOMAIN u.loaded /\ RowFine(u.next[s])
  BY <1>1 DEF OwnerOK, Plans
<1>4. \A s \in F : sub'[s] = IF s \in DOMAIN u.next THEN u.next[s] ELSE sub[s]
  BY <1>1, <1>2, <1>3, OwnedWrite
<1>5. ASSUME NEW v, session' = [session EXCEPT ![x] = v],
             OwnerOK(v, sub', F), v.kind # "retry", \A s \in F : Owns(v, s) => Owns(u, s)
      PROVE  OwnerOn(F)'
  <2> HIDE DEF todo, p, u
  <2> QED
    BY <1>1, <1>2, <1>3, <1>5, OwnCommit DEF u
<1>6. CASE u.kind = "generate"
  <2>1. session' = [session EXCEPT ![x] = p]
    BY <1>6, CommitFlushedEnds
  <2>2. /\ p.pc = "publish" /\ p.kind = "generate" /\ p.todo = todo /\ p.next = NoRows
    BY CommittedFields
  <2>3. ASSUME NEW s \in F
        PROVE  /\ GenerateTask(s) \notin todo
               /\ ScoreTask(s) \in todo =>
                    s \in DOMAIN u.next /\ u.next[s].status = "QA_REVIEW"
    <3>1. DOMAIN u.next \subseteq SubJobs
      BY <1>2, RowsDomain
    <3> QED
      BY <3>1, TasksDiffer DEF Scorings
  <2> HIDE DEF p, todo
  <2>4. OwnerOK(p, sub', F)
    BY <1>4, <2>2, <2>3 DEF OwnerOK, Plans, NoRows
  <2>5. \A s \in F : Owns(p, s) => Owns(u, s)
    BY <1>1, <1>3, <2>2, <2>3 DEF Owns
  <2> QED
    BY <1>5, <2>1, <2>2, <2>4, <2>5
<1>7. CASE u.kind # "generate"
  BY <1>5, <1>7, CommitFlushedEnds, OwnerIdle
<1> QED
  BY <1>6, <1>7

\* A message leaves the session for the broker, and the sub-job with it.
LEMMA OwnPublish ==
  ASSUME NEW F \in SUBSET SubJobs, TypeOK, OwnerOn(F),
         NEW x \in Sessions, NEW t \in Task, Publish(x, t)
  PROVE  OwnerOn(F)'
<1> DEFINE u == session[x]
           todo == u.todo \ {t}
           p == Publishing(u.kind, todo)
           v == IF todo = {} THEN Idle ELSE p
<1>1. /\ OwnerOK(u, sub, F) /\ u.pc = "publish" /\ (u.kind = "retry" => x \in Handlers)
      /\ t \in u.todo /\ UNCHANGED <<sub, fan_out>>
      /\ queue' = [queue EXCEPT ![t] = queue[t] + 1]
  BY DEF OwnerOn, Publish
<1>2. PICK own \in SubJobs : t = GenerateTask(own) \/ t = ScoreTask(own)
  BY DEF Task, GenerateTask, ScoreTask
<1>3. /\ queue'[t] = queue[t] + 1 /\ \A m \in Task \ {t} : queue'[m] = queue[m]
      /\ Owns(u, own)
  BY <1>1, <1>2, TaskType DEF TypeOK, Owns
<1>4. \A s \in F \ {own} : GenerateTask(s) # t /\ ScoreTask(s) # t
  BY <1>2, TasksDiffer DEF GenerateTask
<1>5. \A s \in F \ {own} : /\ queue'[GenerateTask(s)] = queue[GenerateTask(s)]
                           /\ queue'[ScoreTask(s)] = queue[ScoreTask(s)]
  BY <1>3, <1>4, TaskType
<1>6. ASSUME own \in F
      PROVE  \/ /\ t = GenerateTask(own) /\ sub[own].status = "PENDING"
                /\ ScoreTask(own) \notin u.todo /\ ~fan_out
                /\ queue'[GenerateTask(own)] = 1 /\ queue'[ScoreTask(own)] = 0
             \/ /\ t = ScoreTask(own) /\ sub[own].status = "QA_REVIEW"
                /\ GenerateTask(own) \notin u.todo /\ ~fan_out
                /\ queue'[GenerateTask(own)] = 0 /\ queue'[ScoreTask(own)] = 1
  <2>1. Unsent(own)
    BY <1>3, <1>6 DEF OwnerOn
  <2>2. CASE t = GenerateTask(own)
    <3>1. u.kind \in {"fan_out", "retry"} /\ sub[own].status = "PENDING"
      BY <1>1, <1>6, <2>2 DEF OwnerOK
    <3>2. ScoreTask(own) \notin u.todo
      BY <1>1, <1>6, <3>1 DEF OwnerOK
    <3> QED
      BY <1>3, <2>1, <2>2, <3>1, <3>2, TaskType, TasksDiffer DEF Unsent
  <2>3. CASE t = ScoreTask(own)
    <3>1. u.kind = "generate" /\ sub[own].status = "QA_REVIEW"
      BY <1>1, <1>6, <2>3 DEF OwnerOK
    <3>2. GenerateTask(own) \notin u.todo
      BY <1>1, <1>6, <3>1 DEF OwnerOK
    <3> QED
      BY <1>3, <2>1, <2>3, <3>1, <3>2, TaskType, TasksDiffer DEF Unsent
  <2> QED
    BY <1>2, <2>2, <2>3
<1>7. \A s \in F \ {own} : sub'[s] = sub[s] /\ (Unsent(s) => Unsent(s)')
  BY <1>1, <1>5 DEF Unsent
<1>8. \A s \in F : RowOK(s)'
  <2>1. own \in F => RowOK(own)'
    BY <1>1, <1>6 DEF OwnerOn, RowOK, MessagesOK
  <2>2. \A s \in F \ {own} : RowOK(s)'
    BY <1>1, <1>5 DEF OwnerOn, RowOK
  <2> QED
    BY <2>1, <2>2
<1>10. /\ p.pc = "publish" /\ p.kind = u.kind /\ p.todo = todo
       /\ p.loaded = NoRows /\ p.next = NoRows
       /\ \A s \in F : Owns(p, s) <=> GenerateTask(s) \in todo \/ ScoreTask(s) \in todo
  BY PublishingFields
<1>11. session' = [session EXCEPT ![x] = v]
  BY CloseIs DEF Publish
<1> HIDE DEF p
<1>12. OwnerOK(p, sub', F)
  BY <1>1, <1>10 DEF OwnerOK, Plans, NoRows
<1>13. /\ own \in F => ~Owns(p, own)
       /\ \A s \in F : Owns(p, s) => Owns(u, s)
  BY <1>6, <1>10 DEF Owns
<1>14. /\ OwnerOK(v, sub', F) /\ (v.kind = "retry" => x \in Handlers)
       /\ \A s \in F : Owns(v, s) => s # own /\ Owns(u, s)
  BY <1>1, <1>10, <1>12, <1>13, OwnerIdle
<1>15. \A s \in F : Owns(v, s) => Unsent(s)' /\ Owns(u, s)
  <2>1. \A s \in F : Owns(u, s) => Unsent(s)
    BY DEF OwnerOn
  <2> QED
    BY <1>7, <1>14, <2>1
<1>16. \A s \in F : Owns(u, s) \/ (sub'[s] = sub[s] /\ (Unsent(s) => Unsent(s)'))
  BY <1>3, <1>7
<1> HIDE DEF v
<1>17. Disturbs(x, v, F)
  BY <1>8, <1>14, <1>15, <1>16 DEF Disturbs
<1> QED
  BY <1>11, <1>17, OwnerStep

-----------------------------------------------------------------------------
(* The invariant, and what it gives.                                       *)

\* A new job's sub-jobs are PENDING or SKIPPED; what is not fanned out has no
\* skipped sub-job and at most its one message.
LEMMA OwnInit == Init => OwnerInv
<1> SUFFICES ASSUME Init PROVE OwnerInv
  OBVIOUS
<1>1. \A s \in SubJobs :
        /\ RowFine(sub[s])
        /\ sub[s].status = IF s \in Skipped THEN "SKIPPED" ELSE "PENDING"
  BY DEF Init, NewSubJob, RowFine
<1>2. \A s \in SubJobs :
        /\ GenerateTask(s).kind = "generate" /\ ScoreTask(s).kind = "score"
        /\ GenerateTask(s) \in Task /\ ScoreTask(s) \in Task
  BY TaskType DEF GenerateTask, ScoreTask
<1>3. \A s \in SubJobs : RowOK(s)
  <2>1. CASE Operation \in FanOutOperations
    <3>1. \A s \in SubJobs : queue[GenerateTask(s)] = 0 /\ queue[ScoreTask(s)] = 0
      BY <1>2, <2>1 DEF Init
    <3> QED
      BY <1>1, <3>1 DEF RowOK, MessagesOK
  <2>2. CASE Operation \notin FanOutOperations
    <3>1. PICK dispatched \in 0..1 :
            queue = [t \in Task |-> IF t.kind = "generate" THEN dispatched ELSE 0]
      BY <2>2 DEF Init
    <3>2. \A s \in SubJobs : queue[GenerateTask(s)] \in {0, 1} /\ queue[ScoreTask(s)] = 0
      BY <1>2, <3>1
    <3>3. Skipped = {} /\ ~fan_out
      BY <2>2, OperationAssumption DEF Init, FanOutOperations
    <3> QED
      BY <1>1, <3>2, <3>3 DEF RowOK, MessagesOK
  <2> QED
    BY <2>1, <2>2
<1>4. \A x \in Sessions : session[x] = Idle
  BY DEF Init
<1>5. \A x \in Sessions :
        /\ OwnerOK(session[x], sub, Followed) /\ session[x].kind # "retry"
        /\ \A s \in SubJobs : ~Owns(session[x], s)
  BY <1>4, OwnerIdle
<1> QED
  BY <1>3, <1>5 DEF OwnerInv, OwnerOn, Followed

LEMMA OwnNext ==
  ASSUME OneClient, NEW F \in SUBSET SubJobs, F \intersect overtaken' = {},
         TypeOK, OwnerOn(F), [Next]_vars
  PROVE  OwnerOn(F)'
<1>1. CASE UNCHANGED vars
  <2>1. \A s \in F : RowOK(s)' <=> RowOK(s)
    BY <1>1 DEF RowOK, vars
  <2>2. \A s \in F : Unsent(s)' <=> Unsent(s)
    BY <1>1 DEF Unsent, vars
  <2> QED
    BY <1>1, <2>1, <2>2 DEF OwnerOn, vars
<1>2. ASSUME NEW w \in Workers, WorkerStep(w)
      PROVE  OwnerOn(F)'
  <2>1. ASSUME NEW s \in SubJobs, assertion_fails(w, s)
        PROVE  OwnerOn(F)'
    BY <2>1, OwnerEnds DEF assertion_fails, Sessions
  <2>2. ASSUME NEW stale \in SUBSET SubJobs, reconcile_stuck_sub_jobs(w, stale)
        PROVE  FALSE
    BY <2>2 DEF reconcile_stuck_sub_jobs, OneClient
  <2>3. ASSUME connections_closed(w)
        PROVE  OwnerOn(F)'
    BY <2>3, OwnerEnds DEF connections_closed, Sessions
  <2> QED
    BY <1>2, <2>1, <2>2, <2>3, OwnDispatch, OwnStart, OwnFinish, OwnScore, OwnVerdict, OwnTimeout
    DEF WorkerStep
<1>3. ASSUME NEW h \in Handlers, HandlerStep(h)
      PROVE  OwnerOn(F)'
  <2>1. CASE retry_angle(h)
    BY <2>1, OwnRetry DEF retry_angle
  <2>2. CASE retry_job(h)
    <3>1. {s \in SubJobs : sub[s].status = "FAILED"} \in SUBSET SubJobs
      OBVIOUS
    <3> QED
      BY <2>2, <3>1, OwnRetry DEF retry_job
  <2>3. retry_angle(h) \/ retry_job(h)
    BY <1>3 DEF HandlerStep, execute_qa_retry, submit_qa_decision,
                rescore_flagged_background_operations, OneClient
  <2> QED
    BY <2>1, <2>2, <2>3
<1>4. ASSUME NEW x \in Sessions, SessionStep(x) \/ Fault(x)
      PROVE  OwnerOn(F)'
  BY <1>4, OwnCommitLoaded, OwnFlushPlanned, OwnCommitFlushed, OwnPublish, OwnerEnds
  DEF SessionStep, Fault
<1> QED
  BY <1>1, <1>2, <1>3, <1>4 DEF Next

\* A late timeout takes its sub-job out of what is followed, for good.
LEMMA OvertakenStays ==
  ASSUME [Next]_vars
  PROVE  \/ overtaken' = overtaken
         \/ \E w \in Workers, s \in SubJobs :
              /\ mark_sub_job_timed_out(w, s)
              /\ session[w].pc = "publish" /\ sub[s].status \in STUCK_STATUSES
              /\ overtaken' = overtaken \union {s}
<1>1. ASSUME NEW w \in Workers, WorkerStep(w)
      PROVE  \/ overtaken' = overtaken
             \/ \E s \in SubJobs :
                  /\ mark_sub_job_timed_out(w, s)
                  /\ session[w].pc = "publish" /\ sub[s].status \in STUCK_STATUSES
                  /\ overtaken' = overtaken \union {s}
  <2>1. ASSUME NEW s \in SubJobs, mark_sub_job_timed_out(w, s)
        PROVE  \/ overtaken' = overtaken
               \/ /\ session[w].pc = "publish" /\ sub[s].status \in STUCK_STATUSES
                  /\ overtaken' = overtaken \union {s}
    BY <2>1 DEF mark_sub_job_timed_out
  <2>2. (\E s \in SubJobs : mark_sub_job_timed_out(w, s)) \/ overtaken' = overtaken
    BY <1>1 DEF WorkerStep, dispatch_job, start_task, finish_task, assertion_fails, Flush,
                score_sub_job, score_and_apply, connections_closed, reconcile_stuck_sub_jobs
  <2> QED
    BY <2>1, <2>2
<1>2. ASSUME NEW h \in Handlers, HandlerStep(h)
      PROVE  overtaken' = overtaken
  BY <1>2 DEF HandlerStep, retry_angle, retry_job, execute_retry, execute_qa_retry,
              submit_qa_decision, rescore_flagged_background_operations
<1>3. ASSUME NEW x \in Sessions, SessionStep(x) \/ Fault(x)
      PROVE  overtaken' = overtaken
  BY <1>3 DEF SessionStep, CommitLoaded, FlushPlanned, Flush, CommitFlushed, Publish, Fault
<1> QED
  BY <1>1, <1>2, <1>3 DEF Next, vars

LEMMA OwnerShrinks ==
  ASSUME NEW F, NEW G \in SUBSET F, OwnerOn(F)
  PROVE  OwnerOn(G)
BY DEF OwnerOn, OwnerOK

LEMMA OwnerInvariant ==
  ASSUME OneClient
  PROVE  Spec => []OwnerInv
<1>1. TypeOK /\ OwnerInv /\ [Next]_vars => OwnerInv'
  <2> SUFFICES ASSUME TypeOK, OwnerInv, [Next]_vars
               PROVE  OwnerInv'
    OBVIOUS
  <2>1. PICK F \in SUBSET SubJobs : F = SubJobs \ overtaken'
    OBVIOUS
  <2>2. F \in SUBSET Followed
    BY <2>1, OvertakenStays DEF Followed
  <2>3. OwnerOn(F)
    BY <2>2, OwnerShrinks DEF OwnerInv
  <2>4. OwnerOn(F)'
    BY <2>1, <2>3, OwnNext
  <2> QED
    BY <2>1, <2>4 DEF OwnerInv, OwnerOn, OwnerOK, Followed
<1> QED
  BY <1>1, OwnInit, TypeCorrect, PTL DEF Spec

\* Under timeouts at any point of a task, crashes and one client's retries, for
\* every operation, pool and schedule: no sub-job is FAILED without a failure
\* class, and none is REJECTED but for a refusal or a human's decision, unless
\* a late timeout has overtaken one of its retries.
THEOREM BadEndsHaveClass ==
  ASSUME OneClient
  PROVE  Spec => []EndedBadlyHasClass
<1>1. OwnerInv => EndedBadlyHasClass
  BY DEF OwnerInv, OwnerOn, RowOK, RowFine, EndedBadlyHasClass
<1> QED
  BY <1>1, OwnerInvariant, PTL

\* In the same circumstances, and with the same exception: a sub-job FAILED with
\* the transient class has spent every attempt, however often it timed out or
\* was retried.
THEOREM AttemptsAreSpent ==
  ASSUME OneClient
  PROVE  Spec => []TransientOnlyWhenExhausted
<1>1. OwnerInv => TransientOnlyWhenExhausted
  BY DEF OwnerInv, OwnerOn, RowOK, RowFine, TransientOnlyWhenExhausted
<1> QED
  BY <1>1, OwnerInvariant, PTL

-----------------------------------------------------------------------------
(* The refinement.  What a session writes is what it read of the row it    *)
(* owns moved along one edge of the machine.                               *)

\* From what a session of some kind reads to what it writes there is an edge.
LEMMA SessionEdge ==
  ASSUME NEW s \in Followed, s \notin overtaken',
         NEW kind, Reads(kind, sub[s].status), Writes(s, kind, sub'[s].status)
  PROVE  SubJobMachine!Edge(s)
<1>1. FollowedStatuses[s] = sub[s].status /\ FollowedStatuses'[s] = sub'[s].status
  BY DEF Followed, FollowedStatuses
<1>2. s \in GatedSubJobs <=> Gated(s)
  BY DEF GatedSubJobs, Followed
<1> QED
  BY <1>1, <1>2
  DEF Reads, Writes, Success, STUCK_STATUSES, SubJobMachine!Edge, SubJobMachine!Start,
      SubJobMachine!Succeed, SubJobMachine!Approve, SubJobMachine!GiveUp,
      SubJobMachine!Unfinished, SubJobMachine!Retry

\* A row moves only by what the session that owns it read and writes.
LEMMA OwnedMove ==
  ASSUME NEW F \in SUBSET SubJobs, TypeOK, OwnerOn(F), [Next]_vars, NEW s \in F,
         sub'[s].status # sub[s].status
  PROVE  \E kind : Reads(kind, sub[s].status) /\ Writes(s, kind, sub'[s].status)
<1>1. PICK x \in Sessions :
        \/ CommitLoaded(x)
        \/ CommitFlushed(x)
        \/ \E t \in SubJobs : score_and_apply(x, t)
  BY SubJobWriters
<1>2. OwnerOK(session[x], sub, F)
  BY DEF OwnerOn
<1>3. CASE CommitLoaded(x) \/ CommitFlushed(x)
  <2>1. s \in DOMAIN session[x].next /\ sub'[s].status = session[x].next[s].status
    BY <1>3, WrittenStatus DEF CommitLoaded, CommitFlushed
  <2>2. session[x].pc # "publish"
    BY <1>3 DEF CommitLoaded, CommitFlushed, At
  <2>3. /\ Reads(session[x].kind, sub[s].status)
        /\ Writes(s, session[x].kind, sub'[s].status)
    BY <1>2, <2>1, <2>2 DEF OwnerOK, Plans
  <2> QED
    BY <2>3
<1>4. ASSUME NEW t \in SubJobs, score_and_apply(x, t)
      PROVE  FALSE
  <2>1. PICK row \in score_outcomes(session[x].loaded[t]) :
          row.qa = "FLAGGED" /\ WriteRows(x, [u \in {t} |-> row])
    BY <1>4 DEF score_and_apply, Flush
  <2>2. s = t /\ row.status # session[x].loaded[t].status
    BY <2>1, WrittenStatus
  <2>3. session[x].loaded[t] \in SubJobRow
    BY <1>4, LoadedRow DEF score_and_apply
  <2> QED
    BY <2>1, <2>2, <2>3, FlagKeepsStatus
<1> QED
  BY <1>1, <1>3, <1>4

\* A late timeout that overtakes a retry gives the sub-job up.
LEMMA LifecycleStep ==
  ASSUME TypeOK, OwnerInv, [Next]_vars, NEW s \in SubJobs
  PROVE  SubJobMachine!Edge(s) \/ FollowedStatuses'[s] = FollowedStatuses[s]
<1>1. overtaken \subseteq overtaken'
  BY OvertakenStays
<1>2. CASE s \in overtaken
  BY <1>1, <1>2 DEF FollowedStatuses
<1>3. CASE s \notin overtaken /\ s \in overtaken'
  <2>1. FollowedStatuses[s] = sub[s].status /\ FollowedStatuses'[s] = "FAILED"
    BY <1>3 DEF FollowedStatuses
  <2>2. sub[s].status \in STUCK_STATUSES
    BY <1>3, OvertakenStays
  <2> QED
    BY <2>1, <2>2 DEF STUCK_STATUSES, SubJobMachine!Edge, SubJobMachine!GiveUp,
                      SubJobMachine!Unfinished
<1>4. CASE s \notin overtaken'
  <2>1. s \in Followed /\ Followed \in SUBSET SubJobs /\ OwnerOn(Followed)
    BY <1>1, <1>4 DEF Followed, OwnerInv
  <2>2. CASE sub'[s].status = sub[s].status
    BY <1>1, <1>4, <2>2 DEF FollowedStatuses
  <2>3. CASE sub'[s].status # sub[s].status
    <3>1. PICK F \in SUBSET SubJobs : F = Followed
      BY <2>1
    <3>2. PICK kind : Reads(kind, sub[s].status) /\ Writes(s, kind, sub'[s].status)
      BY <2>1, <2>3, <3>1, OwnedMove
    <3> QED
      BY <1>4, <2>1, <3>2, SessionEdge
  <2> QED
    BY <2>2, <2>3
<1> QED
  BY <1>2, <1>3, <1>4

\* Under timeouts at any point of a task, crashes and one client's retries, for
\* every operation, pool and schedule: the sub_jobs rows implement the documented
\* state machine, each up to the late timeout that overtakes a retry of it.
THEOREM FollowsLifecycle ==
  ASSUME OneClient
  PROVE  Spec => ImplementsSubJobLifecycle
<1>1. Init => SubJobMachine!Init
  BY DEF Init, NewSubJob, FollowedStatuses, SubJobMachine!Init
<1>2. TypeOK /\ OwnerInv /\ [Next]_vars => [SubJobMachine!Next]_FollowedStatuses
  <2> SUFFICES ASSUME TypeOK, OwnerInv, [Next]_vars
               PROVE  [SubJobMachine!Next]_FollowedStatuses
    OBVIOUS
  <2>1. \A s \in SubJobs :
          SubJobMachine!Edge(s) \/ FollowedStatuses'[s] = FollowedStatuses[s]
    BY LifecycleStep
  <2>2. FollowedStatuses' = [s \in SubJobs |-> FollowedStatuses'[s]]
    BY DEF FollowedStatuses
  <2> QED
    BY <2>1, <2>2 DEF SubJobMachine!Next
<1> QED
  BY <1>1, <1>2, OwnerInvariant, TypeCorrect, PTL
  DEF Spec, ImplementsSubJobLifecycle, SubJobMachine!Spec

-----------------------------------------------------------------------------
(* The parent of a job on the solo pool.  What OwnerOn says of the rows    *)
(* and SoloInv of the parent together give the abstract job, once it is    *)
(* known what a task that starts may have announced to the parent.         *)

Announces(v) ==
  v.kind \in {"fan_out", "start"} =>
    /\ v.pc # "flushed"
    /\ v.pc = "loaded" => \/ v.nextJob = v.job
                          \/ v.job.status = "PENDING" /\ v.nextJob.status = "PROCESSING"

ParentInv == \A x \in Sessions : Announces(session[x])

LEMMA ParentMoves ==
  ASSUME TypeOK, ParentInv, NEW x \in Sessions, NEW v, session' = [session EXCEPT ![x] = v],
         Announces(v)
  PROVE  ParentInv'
<1>1. session'[x] = v /\ \A y \in Sessions \ {x} : session'[y] = session[y]
  BY DEF TypeOK
<1>2. \A y \in Sessions : Announces(session'[y])
  BY <1>1 DEF ParentInv
<1> QED
  BY <1>2 DEF ParentInv

LEMMA ParentEnds ==
  ASSUME TypeOK, ParentInv, NEW x \in Sessions, session' = [session EXCEPT ![x] = Idle]
  PROVE  ParentInv'
BY ParentMoves DEF Announces, Idle

LEMMA ParentCloses ==
  ASSUME TypeOK, ParentInv, NEW x \in Sessions, NEW todo, Close(x, todo)
  PROVE  ParentInv'
<1> DEFINE p == Publishing(session[x].kind, todo)
           v == IF todo = {} THEN Idle ELSE p
<1>1. p.pc = "publish"
  BY PublishingFields
<1>2. Idle.kind = "none"
  BY DEF Idle
<1>3. session' = [session EXCEPT ![x] = v]
  BY CloseIs
<1> HIDE DEF p
<1>4. Announces(v)
  BY <1>1, <1>2 DEF Announces
<1> HIDE DEF v
<1> QED
  BY <1>3, <1>4, ParentMoves

LEMMA ParentFlush ==
  ASSUME TypeOK, ParentInv, NEW x \in Sessions, NEW next, NEW nextJob, Flush(x, next, nextJob),
         session[x].kind \notin {"fan_out", "start"}
  PROVE  ParentInv'
<1> DEFINE v == [session[x] EXCEPT !.pc = "flushed", !.next = next, !.nextJob = nextJob]
<1>1. session' = [session EXCEPT ![x] = v]
  BY DEF Flush
<1>2. v.kind = session[x].kind
  BY DEF TypeOK, Session
<1> HIDE DEF v
<1>3. Announces(v)
  BY <1>2 DEF Announces
<1> QED
  BY <1>1, <1>3, ParentMoves

LEMMA ParentNext ==
  ASSUME Handlers = {}, TypeOK, ParentInv, [Next]_vars
  PROVE  ParentInv'
<1>1. CASE UNCHANGED vars
  BY <1>1 DEF ParentInv, vars
<1>2. ASSUME NEW w \in Workers, WorkerStep(w)
      PROVE  ParentInv'
  <2>1. w \in Sessions
    BY DEF Sessions
  <2>2. CASE dispatch_job(w)
    <3> DEFINE nextJob == IF job.status = "PENDING" THEN [job EXCEPT !.status = "PROCESSING"]
                          ELSE job
               v == [Begin("fan_out", {}) EXCEPT
                       !.nextJob = nextJob,
                       !.todo = {GenerateTask(s) : s \in {t \in SubJobs : sub[t].status = "PENDING"}}]
    <3>1. session' = [session EXCEPT ![w] = v]
      BY <2>2 DEF dispatch_job
    <3>2. v.pc = "loaded" /\ v.job = job /\ v.nextJob = nextJob
      BY DEF Begin, Idle
    <3>3. nextJob = job \/ (job.status = "PENDING" /\ nextJob.status = "PROCESSING")
      BY DEF TypeOK, JobRow
    <3> HIDE DEF v, nextJob
    <3>4. Announces(v)
      BY <3>2, <3>3 DEF Announces
    <3> QED
      BY <2>1, <3>1, <3>4, ParentMoves
  <2>3. ASSUME NEW s \in SubJobs, start_task(w, s)
        PROVE  ParentInv'
    <3> DEFINE nextJob == IF Operation # "ANGLE_GENERATION" /\ job.status = "PENDING"
                          THEN [job EXCEPT !.status = "PROCESSING"] ELSE job
               v == [Begin("start", {s}) EXCEPT
                       !.next = [t \in {s} |-> [sub[t] EXCEPT !.status = "GENERATING"]],
                       !.nextJob = nextJob]
    <3>1. session' = [session EXCEPT ![w] = v]
      BY <2>3 DEF start_task
    <3>2. v.pc = "loaded" /\ v.job = job /\ v.nextJob = nextJob
      BY DEF Begin, Idle
    <3>3. nextJob = job \/ (job.status = "PENDING" /\ nextJob.status = "PROCESSING")
      BY DEF TypeOK, JobRow
    <3> HIDE DEF v, nextJob
    <3>4. Announces(v)
      BY <3>2, <3>3 DEF Announces
    <3> QED
      BY <2>1, <3>1, <3>4, ParentMoves
  <2>4. ASSUME NEW s \in SubJobs, finish_task(w, s)
        PROVE  ParentInv'
    BY <2>1, <2>4, ParentFlush DEF finish_task, At
  <2>5. ASSUME NEW s \in SubJobs, score_sub_job(w, s)
        PROVE  ParentInv'
    <3>1. Begin("score", {s}).kind = "score"
      BY DEF Begin, Idle
    <3> QED
      BY <2>1, <2>5, <3>1, ParentMoves DEF score_sub_job, Announces
  <2>6. ASSUME NEW s \in SubJobs, score_and_apply(w, s)
        PROVE  ParentInv'
    BY <2>1, <2>6, ParentFlush, ParentCloses DEF score_and_apply, At
  <2>7. ASSUME NEW s \in SubJobs, mark_sub_job_timed_out(w, s)
        PROVE  ParentInv'
    <3> DEFINE v == [Begin("timeout", {s}) EXCEPT !.next = [t \in {s} |-> MarkFailed(sub[t])]]
    <3>1. v.kind = "timeout"
      BY DEF Begin, Idle
    <3>2. session' = [session EXCEPT ![w] = v] \/ session' = [session EXCEPT ![w] = Idle]
      BY <2>7 DEF mark_sub_job_timed_out
    <3> HIDE DEF v
    <3>3. Announces(v)
      BY <3>1 DEF Announces
    <3> QED
      BY <2>1, <3>2, <3>3, ParentMoves, ParentEnds
  <2>8. ASSUME NEW stale \in SUBSET SubJobs, reconcile_stuck_sub_jobs(w, stale)
        PROVE  ParentInv'
    <3> DEFINE v == [Begin("sweep", {s \in SubJobs : sub[s].status \in STUCK_STATUSES}) EXCEPT
                       !.next = [s \in stale |-> MarkFailed(sub[s])]]
    <3>1. v.kind = "sweep"
      BY DEF Begin, Idle
    <3>2. session' = [session EXCEPT ![w] = v]
      BY <2>8 DEF reconcile_stuck_sub_jobs
    <3> HIDE DEF v
    <3>3. Announces(v)
      BY <3>1 DEF Announces
    <3> QED
      BY <2>1, <3>2, <3>3, ParentMoves
  <2>9. ASSUME (\E s \in SubJobs : assertion_fails(w, s)) \/ connections_closed(w)
        PROVE  ParentInv'
    BY <2>1, <2>9, ParentEnds DEF assertion_fails, connections_closed
  <2> QED
    BY <1>2, <2>2, <2>3, <2>4, <2>5, <2>6, <2>7, <2>8, <2>9 DEF WorkerStep
<1>3. ASSUME NEW x \in Sessions, SessionStep(x) \/ Fault(x)
      PROVE  ParentInv'
  <2>1. CASE CommitLoaded(x)
    <3>1. CASE session[x].kind = "start"
      <4> DEFINE v == [session[x] EXCEPT !.kind = "generate", !.loaded = session[x].next,
                                         !.next = NoRows, !.job = session[x].nextJob]
      <4>1. session' = [session EXCEPT ![x] = v]
        BY <2>1, <3>1 DEF CommitLoaded
      <4>2. v.kind = "generate"
        BY DEF TypeOK, Session
      <4> HIDE DEF v
      <4>3. Announces(v)
        BY <4>2 DEF Announces
      <4> QED
        BY <4>1, <4>3, ParentMoves
    <3>2. CASE session[x].kind # "start"
      BY <2>1, <3>2, ParentCloses DEF CommitLoaded
    <3> QED
      BY <3>1, <3>2
  <2>2. CASE FlushPlanned(x)
    BY <2>2, ParentFlush DEF FlushPlanned, At
  <2>3. CASE CommitFlushed(x)
    <3>1. CASE session[x].kind = "generate"
      <4> DEFINE p == Committed(x, Scorings(session[x].next))
      <4>1. session' = [session EXCEPT ![x] = p]
        BY <2>3, <3>1, CommitFlushedEnds
      <4>2. p.kind = "generate"
        BY CommittedFields
      <4> HIDE DEF p
      <4>3. Announces(p)
        BY <4>2 DEF Announces
      <4> QED
        BY <4>1, <4>3, ParentMoves
    <3>2. CASE session[x].kind # "generate"
      BY <2>3, <3>2, CommitFlushedEnds, ParentEnds
    <3> QED
      BY <3>1, <3>2
  <2>4. ASSUME NEW t \in Task, Publish(x, t)
        PROVE  ParentInv'
    BY <2>4, ParentCloses DEF Publish
  <2> QED
    BY <1>3, <2>1, <2>2, <2>3, <2>4, ParentEnds DEF SessionStep, Fault
<1> QED
  BY <1>1, <1>2, <1>3 DEF Next

\* Only the two commits write the jobs table.
LEMMA JobWriters ==
  ASSUME [Next]_vars, job' # job
  PROVE  \E x \in Sessions : CommitLoaded(x) \/ CommitFlushed(x)
<1>1. ASSUME NEW w \in Workers, WorkerStep(w)
      PROVE  FALSE
  BY <1>1 DEF WorkerStep, dispatch_job, start_task, finish_task, Flush, assertion_fails,
              score_sub_job, score_and_apply, mark_sub_job_timed_out, connections_closed,
              reconcile_stuck_sub_jobs
<1>2. ASSUME NEW h \in Handlers, HandlerStep(h)
      PROVE  FALSE
  BY <1>2 DEF HandlerStep, retry_angle, retry_job, execute_retry, execute_qa_retry,
              submit_qa_decision, rescore_flagged_background_operations
<1>3. ASSUME NEW x \in Sessions, SessionStep(x) \/ Fault(x)
      PROVE  CommitLoaded(x) \/ CommitFlushed(x)
  BY <1>3 DEF SessionStep, FlushPlanned, Flush, Publish, Fault
<1> QED
  BY <1>1, <1>2, <1>3 DEF Next, vars

\* The abstract job counts as the code does.
LEMMA SameRollup ==
  ASSUME NEW st
  PROVE  JobMachine!Rollup(st, {}) = Rollup(st, {})
<1>1. \A S : JobMachine!Cardinality(S) = Cardinality(S)
  BY DEF Cardinality, JobMachine!Cardinality
<1>2. /\ JobMachine!Counted(st, {}) = Counted(st, {})
      /\ JobMachine!Succeeded(st, {}) = Succeeded(st, {})
      /\ JobMachine!Failed(st, {}) = Failed(st, {})
  BY DEF Counted, Succeeded, Failed, JobMachine!Counted, JobMachine!Succeeded,
         JobMachine!Failed
<1> QED
  BY <1>1, <1>2
  DEF Rollup, compute_parent_status, TERMINAL_STATUSES, JobMachine!Rollup,
      JobMachine!compute_parent_status, JobMachine!TERMINAL_STATUSES

\* The edges of the kinds of session that are left without a retry.
LEMMA ParentEdges ==
  ASSUME NEW s \in SubJobs, NEW kind, Reads(kind, sub[s].status),
         Writes(s, kind, sub'[s].status)
  PROVE  /\ kind = "start" => JobMachine!SubJob!Start(s)
         /\ kind \in {"generate", "score", "timeout"} =>
              \/ JobMachine!SubJob!Succeed(s)
              \/ JobMachine!SubJob!Approve(s)
              \/ JobMachine!SubJob!GiveUp(s)
         /\ JobMachine!SubJob!Edge(s)
<1>1. Statuses[s] = sub[s].status /\ Statuses'[s] = sub'[s].status
  BY DEF Statuses
<1>2. s \in GatedSubJobs <=> Gated(s)
  BY DEF GatedSubJobs
<1> QED
  BY <1>1, <1>2
  DEF Reads, Writes, Success, STUCK_STATUSES, JobMachine!SubJob!Edge,
      JobMachine!SubJob!Start, JobMachine!SubJob!Succeed, JobMachine!SubJob!Approve,
      JobMachine!SubJob!GiveUp, JobMachine!SubJob!Unfinished, JobMachine!SubJob!Retry

(***************************************************************************)
(* Without handlers there is no retry for a late timeout to overtake: when *)
(* one fires, the row is where the task itself has put it.                 *)
(***************************************************************************)
NotLate ==
  /\ overtaken = {}
  /\ \A x \in Sessions : session[x].pc = "publish" =>
       \A s \in SubJobs : s \in DOMAIN session[x].loaded => sub[s].status \notin STUCK_STATUSES

AloneInv == OwnerOn(SubJobs) /\ NotLate

\* The only session that has committed and still holds a row is a generation.
LEMMA PublishOpens ==
  ASSUME NEW w, Workers = {w}, Handlers = {}, TypeOK, [Next]_vars, session'[w].pc = "publish"
  PROVE  \/ UNCHANGED vars
         \/ session'[w].loaded = NoRows
         \/ CommitFlushed(w) /\ session[w].kind = "generate"
<1>1. Sessions = {w} /\ w \in Sessions
  BY DEF Sessions
<1>2. ASSUME WorkerStep(w)
      PROVE  FALSE
  <2>1. ASSUME NEW v, v.pc # "publish", session' = [session EXCEPT ![w] = v]
        PROVE  FALSE
    BY <1>1, <2>1 DEF TypeOK
  <2>2. Idle.pc # "publish" /\ \A kind, S : Begin(kind, S).pc = "loaded"
    BY DEF Begin, Idle
  <2>3. ASSUME NEW next, NEW nextJob, Flush(w, next, nextJob)
        PROVE  FALSE
    <3> DEFINE v == [session[w] EXCEPT !.pc = "flushed", !.next = next, !.nextJob = nextJob]
    <3>1. session' = [session EXCEPT ![w] = v] /\ v.pc = "flushed"
      BY <1>1, <2>3 DEF Flush, TypeOK, Session
    <3> HIDE DEF v
    <3> QED
      BY <2>1, <3>1
  <2>4. ~dispatch_job(w)
    <3> DEFINE v == [Begin("fan_out", {}) EXCEPT
                       !.nextJob = IF job.status = "PENDING" THEN [job EXCEPT !.status = "PROCESSING"]
                                   ELSE job,
                       !.todo = {GenerateTask(s) : s \in {t \in SubJobs : sub[t].status = "PENDING"}}]
    <3>1. v.pc = "loaded"
      BY DEF Begin, Idle
    <3>2. dispatch_job(w) => session' = [session EXCEPT ![w] = v]
      BY DEF dispatch_job
    <3> HIDE DEF v
    <3> QED
      BY <2>1, <3>1, <3>2
  <2>5. ASSUME NEW s \in SubJobs, start_task(w, s)
        PROVE  FALSE
    <3> DEFINE v == [Begin("start", {s}) EXCEPT
                       !.next = [t \in {s} |-> [sub[t] EXCEPT !.status = "GENERATING"]],
                       !.nextJob = IF Operation # "ANGLE_GENERATION" /\ job.status = "PENDING"
                                   THEN [job EXCEPT !.status = "PROCESSING"] ELSE job]
    <3>1. v.pc = "loaded"
      BY DEF Begin, Idle
    <3>2. session' = [session EXCEPT ![w] = v]
      BY <2>5 DEF start_task
    <3> HIDE DEF v
    <3> QED
      BY <2>1, <3>1, <3>2
  <2>6. ASSUME NEW s \in SubJobs, finish_task(w, s)
        PROVE  FALSE
    BY <2>3, <2>6 DEF finish_task
  <2>7. ASSUME NEW s \in SubJobs, score_and_apply(w, s)
        PROVE  FALSE
    BY <2>1, <2>2, <2>3, <2>7 DEF score_and_apply, Close
  <2>8. ASSUME NEW s \in SubJobs, mark_sub_job_timed_out(w, s)
        PROVE  FALSE
    <3> DEFINE v == [Begin("timeout", {s}) EXCEPT !.next = [t \in {s} |-> MarkFailed(sub[t])]]
    <3>1. v.pc = "loaded"
      BY DEF Begin, Idle
    <3>2. session' = [session EXCEPT ![w] = v] \/ session' = [session EXCEPT ![w] = Idle]
      BY <2>8 DEF mark_sub_job_timed_out
    <3> HIDE DEF v
    <3> QED
      BY <2>1, <2>2, <3>1, <3>2
  <2>9. ASSUME NEW stale \in SUBSET SubJobs, reconcile_stuck_sub_jobs(w, stale)
        PROVE  FALSE
    <3> DEFINE v == [Begin("sweep", {s \in SubJobs : sub[s].status \in STUCK_STATUSES}) EXCEPT
                       !.next = [s \in stale |-> MarkFailed(sub[s])]]
    <3>1. v.pc = "loaded"
      BY DEF Begin, Idle
    <3>2. session' = [session EXCEPT ![w] = v]
      BY <2>9 DEF reconcile_stuck_sub_jobs
    <3> HIDE DEF v
    <3> QED
      BY <2>1, <3>1, <3>2
  <2>10. ~connections_closed(w) /\ \A s \in SubJobs : ~assertion_fails(w, s) /\ ~score_sub_job(w, s)
    BY <2>1, <2>2 DEF connections_closed, assertion_fails, score_sub_job
  <2> QED
    BY <1>2, <2>4, <2>5, <2>6, <2>7, <2>8, <2>9, <2>10 DEF WorkerStep
<1>3. ASSUME SessionStep(w) \/ Fault(w)
      PROVE  \/ session'[w].loaded = NoRows
             \/ CommitFlushed(w) /\ session[w].kind = "generate"
  <2>1. ASSUME NEW v, session' = [session EXCEPT ![w] = v]
        PROVE  session'[w] = v
    BY <1>1, <2>1 DEF TypeOK
  <2>2. Idle.loaded = NoRows /\ \A kind, todo : Publishing(kind, todo).loaded = NoRows
    BY DEF Idle, Publishing
  <2>3. ASSUME NEW todo, Close(w, todo)
        PROVE  session'[w].loaded = NoRows
    BY <2>1, <2>2, <2>3, CloseIs
  <2>4. CASE CommitLoaded(w)
    <3>1. CASE session[w].kind = "start"
      <4> DEFINE v == [session[w] EXCEPT !.kind = "generate", !.loaded = session[w].next,
                                         !.next = NoRows, !.job = session[w].nextJob]
      <4>1. session' = [session EXCEPT ![w] = v]
        BY <2>4, <3>1 DEF CommitLoaded
      <4>2. v.pc = "loaded"
        BY <1>1, <2>4 DEF TypeOK, Session, CommitLoaded, At
      <4> HIDE DEF v
      <4> QED
        BY <2>1, <4>1, <4>2
    <3>2. CASE session[w].kind # "start"
      BY <2>3, <2>4, <3>2 DEF CommitLoaded
    <3> QED
      BY <3>1, <3>2
  <2>5. CASE FlushPlanned(w)
    <3>1. PICK next, nextJob : Flush(w, next, nextJob)
      BY <2>5 DEF FlushPlanned
    <3> DEFINE v == [session[w] EXCEPT !.pc = "flushed", !.next = next, !.nextJob = nextJob]
    <3>2. session' = [session EXCEPT ![w] = v] /\ v.pc = "flushed"
      BY <1>1, <3>1 DEF Flush, TypeOK, Session
    <3> HIDE DEF v
    <3> QED
      BY <2>1, <3>2
  <2>6. CASE CommitFlushed(w)
    BY <2>1, <2>2, <2>6, CommitFlushedEnds
  <2>7. CASE Fault(w)
    BY <2>1, <2>2, <2>7 DEF Fault
  <2>8. ASSUME NEW t \in Task, Publish(w, t)
        PROVE  session'[w].loaded = NoRows
    BY <2>3, <2>8 DEF Publish
  <2> QED
    BY <1>3, <2>4, <2>5, <2>6, <2>7, <2>8 DEF SessionStep
<1> QED
  BY <1>1, <1>2, <1>3 DEF Next

LEMMA AloneStep ==
  ASSUME NEW w, Workers = {w}, Handlers = {}, OneClient, TypeOK, AloneInv, [Next]_vars
  PROVE  AloneInv'
<1>1. Sessions = {w} /\ w \in Sessions
  BY DEF Sessions
<1>2. overtaken' = {}
  <2>1. ASSUME NEW x \in Workers, NEW s \in SubJobs, mark_sub_job_timed_out(x, s),
               session[x].pc = "publish", sub[s].status \in STUCK_STATUSES
        PROVE  FALSE
    BY <1>1, <2>1 DEF mark_sub_job_timed_out, AloneInv, NotLate
  <2> QED
    BY <2>1, OvertakenStays DEF AloneInv, NotLate
<1>3. OwnerOn(SubJobs)'
  BY <1>2, OwnNext DEF AloneInv
<1>4. ASSUME session'[w].pc = "publish", NEW s \in SubJobs, s \in DOMAIN session'[w].loaded
      PROVE  sub'[s].status \notin STUCK_STATUSES
  <2>1. CASE UNCHANGED vars
    BY <1>1, <1>4, <2>1 DEF AloneInv, NotLate, vars
  <2>2. CASE session'[w].loaded = NoRows
    BY <1>4, <2>2 DEF NoRows
  <2>3. CASE CommitFlushed(w) /\ session[w].kind = "generate"
    <3>1. session'[w].loaded = session[w].next
      BY <1>1, <2>3, CommitFlushedEnds, CommittedFields DEF TypeOK
    <3>2. /\ session[w].next \in Rows /\ WriteRows(w, session[w].next)
          /\ session[w].pc = "flushed" /\ OwnerOK(session[w], sub, SubJobs)
      BY <1>1, <2>3 DEF CommitFlushed, TypeOK, Session, AloneInv, OwnerOn
    <3>3. \A u \in SubJobs : Plans(session[w], u, session[w].next)
      BY <3>2 DEF OwnerOK
    <3>4. sub'[s] = session[w].next[s]
      BY <1>1, <1>4, <3>1, <3>2, <3>3, OwnedWrite DEF Plans, AloneInv
    <3>5. Writes(s, "generate", session[w].next[s].status)
      BY <1>4, <2>3, <3>1, <3>3 DEF Plans
    <3> QED
      BY <3>4, <3>5 DEF Writes, Success, STUCK_STATUSES
  <2> QED
    BY <1>4, <2>1, <2>2, <2>3, PublishOpens
<1>5. NotLate'
  BY <1>1, <1>2, <1>4 DEF NotLate
<1> QED
  BY <1>3, <1>5 DEF AloneInv

LEMMA AloneInit == Init => AloneInv
<1> SUFFICES ASSUME Init PROVE AloneInv
  OBVIOUS
<1>1. overtaken = {} /\ \A x \in Sessions : session[x].pc = "idle"
  BY DEF Init, Idle
<1>2. OwnerOn(SubJobs)
  BY <1>1, OwnInit DEF OwnerInv, Followed, OwnerOn, OwnerOK
<1> QED
  BY <1>1, <1>2 DEF AloneInv, NotLate

LEMMA AloneInvariant ==
  ASSUME NEW w, Workers = {w}, Handlers = {}, OneClient
  PROVE  Spec => []AloneInv
<1>1. TypeOK /\ AloneInv /\ [Next]_vars => AloneInv'
  BY AloneStep
<1> QED
  BY <1>1, AloneInit, TypeCorrect, PTL DEF Spec

\* With one worker, rows and parent move together.
LEMMA JobStep ==
  ASSUME NEW w, Workers = {w}, Handlers = {},
         TypeOK, AloneInv, SoloInv, ParentInv, [Next]_vars
  PROVE  \/ JobMachine!Begin \/ JobMachine!Start \/ JobMachine!Progress
         \/ UNCHANGED <<Statuses, job.status>>
<1>1. Sessions = {w} /\ w \in Sessions
  BY DEF Sessions
<1>2. \A s \in SubJobs : JobMachine!SubJob!Edge(s) \/ Statuses'[s] = Statuses[s]
  <2> SUFFICES ASSUME NEW s \in SubJobs, Statuses'[s] # Statuses[s]
               PROVE  JobMachine!SubJob!Edge(s)
    OBVIOUS
  <2>1. sub'[s].status # sub[s].status
    BY DEF Statuses
  <2>2. PICK kind : Reads(kind, sub[s].status) /\ Writes(s, kind, sub'[s].status)
    BY <2>1, OwnedMove DEF AloneInv
  <2> QED
    BY <2>2, ParentEdges
<1>3. Statuses' = [s \in SubJobs |-> Statuses'[s]]
  BY DEF Statuses
<1>4. JobMachine!SubJob!Next
  BY <1>2, <1>3 DEF JobMachine!SubJob!Next
<1>5. /\ OwnerOK(session[w], sub, SubJobs) /\ Announces(session[w]) /\ session[w] \in Session
      /\ session[w].kind \notin {"retry", "qa_retry", "decide", "rescore"}
      /\ session[w].pc \in {"loaded", "flushed"} => SoloSession(w)
  BY <1>1 DEF AloneInv, OwnerOn, ParentInv, SoloInv, TypeOK
\* A commit of fresh rows moves each row it writes from what the session read.
<1>6. ASSUME session[w].pc \in {"loaded", "flushed"}, WriteRows(w, session[w].next)
      PROVE  /\ \A s \in SubJobs : sub'[s].status # sub[s].status =>
                  /\ Reads(session[w].kind, sub[s].status)
                  /\ Writes(s, session[w].kind, sub'[s].status)
             /\ Statuses' = Visible(w, session[w].next)
  <2>1. SoloSession(w) /\ session[w].next \in Rows
    BY <1>5, <1>6 DEF Session
  <2>2. Statuses' = Visible(w, session[w].next)
    BY <1>1, <1>6, <2>1, SoloWrite DEF SoloSession
  <2>3. ASSUME NEW s \in SubJobs, sub'[s].status # sub[s].status
        PROVE  /\ Reads(session[w].kind, sub[s].status)
               /\ Writes(s, session[w].kind, sub'[s].status)
    <3>1. s \in DOMAIN session[w].next /\ sub'[s].status = session[w].next[s].status
      BY <1>1, <1>6, <2>3, WrittenStatus
    <3> QED
      BY <1>5, <1>6, <3>1 DEF OwnerOK, Plans
  <2> QED
    BY <2>2, <2>3
<1>7. CASE CommitLoaded(w)
  <2>1. /\ session[w].pc = "loaded" /\ session[w].kind \in {"fan_out", "start"}
        /\ SoloSession(w) /\ WriteRows(w, session[w].next) /\ session[w].nextJob \in JobRow
    BY <1>5, <1>7 DEF CommitLoaded, At, Session
  <2>2. session[w].job = job /\ job \in JobRow
    BY <2>1 DEF SoloSession, TypeOK
  <2>3. job' = session[w].nextJob
    BY <1>7, <2>1, <2>2, FreshJob DEF CommitLoaded
  <2>4. job' = job \/ (job.status = "PENDING" /\ job'.status = "PROCESSING")
    BY <1>5, <2>1, <2>2, <2>3 DEF Announces
  <2>5. \A s \in SubJobs : JobMachine!SubJob!Start(s) \/ Statuses'[s] = Statuses[s]
    <3> SUFFICES ASSUME NEW s \in SubJobs, Statuses'[s] # Statuses[s]
                 PROVE  JobMachine!SubJob!Start(s)
      OBVIOUS
    <3>1. sub'[s].status # sub[s].status
      BY DEF Statuses
    <3>2. /\ Reads(session[w].kind, sub[s].status)
          /\ Writes(s, session[w].kind, sub'[s].status)
      BY <1>6, <2>1, <3>1
    <3>3. session[w].kind = "start"
      BY <2>1, <3>2 DEF Reads
    <3> QED
      BY <3>2, <3>3, ParentEdges
  <2>6. JobMachine!Start \/ JobMachine!Begin
    BY <1>4, <2>4, <2>5 DEF JobMachine!Start, JobMachine!Begin
  <2> QED
    BY <2>6
<1>8. CASE CommitFlushed(w)
  <2>1. /\ session[w].pc = "flushed" /\ SoloSession(w) /\ WriteRows(w, session[w].next)
        /\ session[w].nextJob \in JobRow
    BY <1>5, <1>8 DEF CommitFlushed, Session
  <2>2. session[w].job = job /\ job \in JobRow
    BY <2>1 DEF SoloSession, TypeOK
  <2>3. job' = session[w].nextJob
    BY <1>8, <2>1, <2>2, FreshJob DEF CommitFlushed
  <2>4. job' = Rollup(Statuses', {})
    BY <1>6, <2>1, <2>3 DEF SoloSession
  <2>5. job'.status = JobMachine!Rollup(Statuses', {}).status
    BY <2>4, SameRollup
  <2>6. \A s \in SubJobs : \/ JobMachine!SubJob!Succeed(s)
                           \/ JobMachine!SubJob!Approve(s)
                           \/ JobMachine!SubJob!GiveUp(s)
                           \/ Statuses'[s] = Statuses[s]
    <3> SUFFICES ASSUME NEW s \in SubJobs, Statuses'[s] # Statuses[s]
                 PROVE  \/ JobMachine!SubJob!Succeed(s)
                        \/ JobMachine!SubJob!Approve(s)
                        \/ JobMachine!SubJob!GiveUp(s)
      OBVIOUS
    <3>1. sub'[s].status # sub[s].status
      BY DEF Statuses
    <3>2. /\ Reads(session[w].kind, sub[s].status)
          /\ Writes(s, session[w].kind, sub'[s].status)
      BY <1>6, <2>1, <3>1
    <3>3. session[w].kind \in {"generate", "score", "timeout"}
      BY <1>5, <2>1, <3>2 DEF Reads, Announces
    <3> QED
      BY <3>2, <3>3, ParentEdges
  <2>7. JobMachine!Progress
    BY <1>4, <2>5, <2>6 DEF JobMachine!Progress
  <2> QED
    BY <2>7
<1>9. CASE ~CommitLoaded(w) /\ ~CommitFlushed(w)
  <2>1. job' = job
    BY <1>1, <1>9, JobWriters
  <2>2. CASE sub' = sub
    BY <2>1, <2>2 DEF Statuses
  <2>3. CASE sub' # sub
    <3>1. PICK t \in SubJobs : score_and_apply(w, t)
      BY <1>1, <1>9, <2>3, SubJobWriters
    <3>2. PICK row \in score_outcomes(session[w].loaded[t]) :
            row.qa = "FLAGGED" /\ WriteRows(w, [u \in {t} |-> row])
      BY <2>3, <3>1 DEF score_and_apply, Flush
    <3>3. session[w].loaded[t] \in SubJobRow
      BY <1>1, <3>1, LoadedRow DEF score_and_apply
    <3>4. \A s \in SubJobs : sub'[s].status = sub[s].status
      BY <1>1, <3>2, <3>3, WrittenStatus, FlagKeepsStatus
    <3> QED
      BY <2>1, <3>4 DEF Statuses
  <2> QED
    BY <2>2, <2>3
<1> QED
  BY <1>7, <1>8, <1>9

\* On the solo pool, under timeouts and crashes, for every operation and number
\* of sub-jobs: the sub_jobs rows and the status of the jobs row implement the
\* documented job, the parent recomputed in the commit that moves the rows.
THEOREM FollowsJobLifecycle ==
  ASSUME NEW w, Workers = {w}, Handlers = {}, OneClient
  PROVE  Spec => ImplementsJobLifecycle
<1>1. Init => JobMachine!Init
  BY DEF Init, NewSubJob, NewJob, Statuses, JobMachine!Init, JobMachine!SubJob!Init
<1>2. Init => ParentInv
  BY DEF Init, Idle, ParentInv, Announces
<1>3. TypeOK /\ SoloInv /\ [Next]_vars => SoloInv'
  BY SoloStep
<1>4. TypeOK /\ ParentInv /\ [Next]_vars => ParentInv'
  BY ParentNext
<1>5. TypeOK /\ AloneInv /\ SoloInv /\ ParentInv /\ [Next]_vars
        => [JobMachine!Next]_<<Statuses, job.status>>
  BY JobStep DEF JobMachine!Next
<1> QED
  BY <1>1, <1>2, <1>3, <1>4, <1>5, SoloInit, AloneInvariant, TypeCorrect, PTL
  DEF Spec, ImplementsJobLifecycle, JobMachine!Spec

-----------------------------------------------------------------------------
(***************************************************************************)
(* What a client that polls may rely on, at any moment and not only at     *)
(* rest: by the edges of the abstract job, whose parent is recomputed with *)
(* every end of a sub-job, a job that is closed has only ended sub-jobs.   *)
(***************************************************************************)
ClosedIsSettled == job.status \in TERMINAL_STATUSES => \A s \in SubJobs : Settled(s)

\* The table of RollupTable, for a job that is closed.
LEMMA TerminalRollup ==
  ASSUME NEW st \in [SubJobs -> SubJobStatus], Rollup(st, {}).status \in TERMINAL_STATUSES
  PROVE  \A s \in SubJobs : st[s] \in {"COMPLETED", "FAILED", "REJECTED", "SKIPPED"}
<1>1. \A s \in Counted(st, {}) : st[s] \in Ended
  BY RollupTable, SubJobsAssumption
<1>2. \A s \in SubJobs : s \in Counted(st, {}) \/ st[s] = "SKIPPED"
  BY DEF Counted
<1> QED
  BY <1>1, <1>2 DEF Ended

\* Nothing leaves an end but a retry.
LEMMA SettledStays ==
  ASSUME \A s \in SubJobs : Settled(s), JobMachine!Start \/ JobMachine!Progress
  PROVE  Statuses' = Statuses
<1>1. \A s \in SubJobs : Statuses[s] \in {"COMPLETED", "FAILED", "REJECTED", "SKIPPED"}
  BY DEF Settled, Statuses
<1>2. \A s \in SubJobs : Statuses'[s] = Statuses[s]
  BY <1>1 DEF JobMachine!Start, JobMachine!Progress, JobMachine!SubJob!Start,
     JobMachine!SubJob!Succeed, JobMachine!SubJob!Approve, JobMachine!SubJob!GiveUp,
     JobMachine!SubJob!Unfinished
<1> QED
  BY <1>2 DEF Statuses

LEMMA ClosedStep ==
  ASSUME TypeOK', ClosedIsSettled,
         \/ JobMachine!Begin \/ JobMachine!Start \/ JobMachine!Progress
         \/ UNCHANGED <<Statuses, job.status>>
  PROVE  ClosedIsSettled'
<1> SUFFICES ASSUME job'.status \in TERMINAL_STATUSES
             PROVE  \A s \in SubJobs : Settled(s)'
  BY DEF ClosedIsSettled
<1>1. CASE JobMachine!Begin
  BY <1>1 DEF JobMachine!Begin, TERMINAL_STATUSES
<1>2. CASE JobMachine!Start \/ UNCHANGED <<Statuses, job.status>>
  <2>1. job'.status = job.status
    BY <1>2 DEF JobMachine!Start
  <2>2. \A s \in SubJobs : Settled(s)
    BY <2>1 DEF ClosedIsSettled
  <2>3. Statuses' = Statuses
    BY <1>2, <2>2, SettledStays
  <2>4. \A s \in SubJobs : sub'[s].status = sub[s].status
    BY <2>3 DEF Statuses
  <2> QED
    BY <2>2, <2>4 DEF Settled
<1>3. CASE JobMachine!Progress
  <2>1. JobMachine!Rollup(Statuses', {}).status \in TERMINAL_STATUSES
    BY <1>3 DEF JobMachine!Progress
  <2>2. Rollup(Statuses', {}).status \in TERMINAL_STATUSES
    BY <2>1, SameRollup
  <2>3. Statuses' \in [SubJobs -> SubJobStatus]
    BY DEF TypeOK, Statuses, SubJobRow
  <2>4. \A s \in SubJobs : Statuses'[s] \in {"COMPLETED", "FAILED", "REJECTED", "SKIPPED"}
    BY <2>2, <2>3, TerminalRollup
  <2> QED
    BY <2>4 DEF Settled, Statuses
<1> QED
  BY <1>1, <1>2, <1>3

\* One worker, any operation: a closed job has settled in every reachable state.
LEMMA ClosedInvariant ==
  ASSUME NEW w, Workers = {w}, Handlers = {}, OneClient
  PROVE  Spec => [](ClosedIsSettled /\ SoloInv)
<1>1. Init => ClosedIsSettled
  BY DEF Init, NewJob, ClosedIsSettled, TERMINAL_STATUSES
<1>2. TypeOK /\ SoloInv /\ [Next]_vars => SoloInv'
  BY SoloStep
<1>3. Init => ParentInv
  BY DEF Init, Idle, ParentInv, Announces
<1>4. TypeOK /\ ParentInv /\ [Next]_vars => ParentInv'
  BY ParentNext
<1>5. TypeOK /\ AloneInv /\ SoloInv /\ ParentInv /\ ClosedIsSettled /\ [Next]_vars
        => ClosedIsSettled'
  <2> SUFFICES ASSUME TypeOK, AloneInv, SoloInv, ParentInv, ClosedIsSettled, [Next]_vars
               PROVE  ClosedIsSettled'
    OBVIOUS
  <2>1. \/ JobMachine!Begin \/ JobMachine!Start \/ JobMachine!Progress
        \/ UNCHANGED <<Statuses, job.status>>
    BY JobStep
  <2>2. TypeOK'
    BY NextType
  <2> QED
    BY <2>1, <2>2, ClosedStep
<1> QED
  BY <1>1, <1>2, <1>3, <1>4, <1>5, SoloInit, AloneInvariant, TypeCorrect, PTL DEF Spec

\* On the solo pool, under timeouts and crashes and before any retry, for every
\* operation: when the jobs row is closed, every sub-job has ended and the row
\* counts them (recompute_parent_status runs in the commit that ends the last).
ClosedJobIsSettled ==
  job.status \in TERMINAL_STATUSES =>
    (\A s \in SubJobs : Settled(s)) /\ job = Rollup(Statuses, {})

THEOREM ClosedJobsAreSettled ==
  ASSUME NEW w, Workers = {w}, Handlers = {}, OneClient
  PROVE  Spec => []ClosedJobIsSettled
<1>1. ClosedIsSettled /\ SoloInv => ClosedJobIsSettled
  BY DEF ClosedIsSettled, SoloInv, ClosedJobIsSettled
<1> QED
  BY <1>1, ClosedInvariant, PTL

\* In the same circumstances: no task still queued, no sweep and no late answer
\* changes the status of a sub-job, or the row, of a job that is closed.
ClosedJobStays ==
  job.status \in TERMINAL_STATUSES => Statuses' = Statuses /\ job' = job

THEOREM ClosedJobsStay ==
  ASSUME NEW w, Workers = {w}, Handlers = {}, OneClient
  PROVE  Spec => [][ClosedJobStays]_vars
<1>1. Init => ParentInv
  BY DEF Init, Idle, ParentInv, Announces
<1>2. TypeOK /\ ParentInv /\ [Next]_vars => ParentInv'
  BY ParentNext
<1>3. TypeOK /\ AloneInv /\ SoloInv /\ ParentInv /\ ClosedIsSettled /\ [Next]_vars
        => ClosedJobStays
  <2> SUFFICES ASSUME TypeOK, AloneInv, SoloInv, ParentInv, ClosedIsSettled, [Next]_vars
               PROVE  ClosedJobStays
    OBVIOUS
  <2> SUFFICES ASSUME job.status \in TERMINAL_STATUSES
               PROVE  Statuses' = Statuses /\ job' = job
    BY DEF ClosedJobStays
  <2>1. \A s \in SubJobs : Settled(s)
    BY DEF ClosedIsSettled
  <2>2. ~JobMachine!Begin
    BY DEF JobMachine!Begin, TERMINAL_STATUSES
  <2>3. Statuses' = Statuses
    BY <2>1, <2>2, JobStep, SettledStays
  <2>4. \A s \in SubJobs : sub'[s].status = sub[s].status
    BY <2>3 DEF Statuses
  <2>5. job = Rollup(Statuses, {})
    BY <2>1 DEF SoloInv
  <2>6. SoloInv'
    BY SoloStep
  <2>7. job' = Rollup(Statuses', {})
    BY <2>1, <2>4, <2>6 DEF SoloInv, Settled
  <2> QED
    BY <2>3, <2>5, <2>7
<1>4. ClosedJobStays \/ UNCHANGED vars => [ClosedJobStays]_vars
  OBVIOUS
<1> QED
  BY <1>1, <1>2, <1>3, <1>4, ClosedInvariant, AloneInvariant, TypeCorrect, PTL DEF Spec
=============================================================================
