----------------------------- MODULE AssetStore -----------------------------
(***************************************************************************)
(* Bytes and the rows that describe them: the objects in S3, the assets    *)
(* rows with their retention deadline, the tasks that read uploads and     *)
(* store outputs, the cost events they record, and the retention sweep.    *)
(*                                                                         *)
(* S3 and Redis take effect at once, a database session at its commit: a   *)
(* task that dies leaves its objects and its provider calls behind, and    *)
(* none of its rows.  Each job has one sub-job here, so a sub-job stands   *)
(* for its job.                                                            *)
(***************************************************************************)
EXTENDS SubJobRows, Functions

CONSTANTS
  SubJobs,        \* sub-jobs, each the only one of its job
  OperationOf,    \* the operation of each
  Workers,        \* worker processes
  RETENTION_DAYS, \* days each kind of asset is kept
  SweepLimit,     \* assets a retention sweep takes, 500 in the code
  MaxDay,         \* bound: days
  MaxOutputs,     \* bound: objects stored for a sub-job
  MaxFaults       \* bound: crashes, timeouts and exhausted storage retries

Kinds == {"INPUT", "MASK", "OUTPUT"}

\* What the task of each operation downloads before it calls the provider: of an
\* angle its uploaded photo, for a replacement an uploaded background.
RolesOf(operation) ==
  CASE operation = "RECOLOR"                -> {"INPUT", "MASK"}
    [] operation = "MIX"                    -> {"INPUT", "MASK", "SECONDARY", "SECONDARY_MASK"}
    [] operation = "BACKGROUND_REPLACEMENT" -> {"INPUT", "BACKGROUND"}
    [] operation \in {"ANGLE_GENERATION", "BACKGROUND_REMOVAL", "MATCH"} -> {"INPUT"}

KindOf(role) ==
  CASE role \in {"INPUT", "SECONDARY", "BACKGROUND"} -> "INPUT"
    [] role \in {"MASK", "SECONDARY_MASK"}           -> "MASK"
    [] role = "OUTPUT"                               -> "OUTPUT"

ASSUME OperationsAssumption ==
  OperationOf \in [SubJobs -> {"ANGLE_GENERATION", "BACKGROUND_REMOVAL",
                               "BACKGROUND_REPLACEMENT", "MATCH", "RECOLOR", "MIX"}]
ASSUME WorkersAssumption == IsFiniteSet(Workers)
ASSUME RetentionAssumption == RETENTION_DAYS \in [Kinds -> Nat \ {0}]
ASSUME BoundsAssumption ==
  /\ SweepLimit \in Nat \ {0}
  /\ MaxDay \in Nat /\ MaxOutputs \in Nat /\ MaxFaults \in Nat

VARIABLES
  today,    \* the date
  rows,     \* the committed assets rows, by storage path
  objects,  \* the storage paths that hold bytes
  sub,      \* the committed sub_jobs rows, by sub-job
  queue,    \* sub-jobs with a message of theirs in the broker
  task,     \* the session of each worker
  sweep,    \* the retention task
  unbilled, \* provider calls made, less the committed cost_events rows
  faults    \* faults so far

vars == <<today, rows, objects, sub, queue, task, sweep, unbilled, faults>>

-----------------------------------------------------------------------------
(* Paths, rows and sessions.                                               *)

\* build_storage_path and the presigned paths carry a fresh uuid: no two are equal.
PathOf(s, role, n) == [sub |-> s, role |-> role, n |-> n]
Uploads(s) == {PathOf(s, role, 0) : role \in RolesOf(OperationOf[s])}
Input(s) == PathOf(s, "INPUT", 0)
Outputs(s) == {PathOf(s, "OUTPUT", n) : n \in 1..MaxOutputs}
Paths == UNION {Uploads(s) \union Outputs(s) : s \in SubJobs}

compute_expires_at(kind) == today + RETENTION_DAYS[kind]
create_asset(path) == [expires |-> compute_expires_at(KindOf(path.role)), purged |-> FALSE]

\* The rows with those of new added.
WithRows(new) ==
  [p \in DOMAIN rows \union DOMAIN new |-> IF p \in DOMAIN new THEN new[p] ELSE rows[p]]
NoAssets == [p \in {} |-> create_asset(p)]
Deadlines == 1..(MaxDay + RETENTION_DAYS["MASK"] + RETENTION_DAYS["INPUT"] + RETENTION_DAYS["OUTPUT"])
AssetRows ==
  UNION {[D -> [expires : Deadlines, purged : {FALSE}]] : D \in {{}} \union {{p} : p \in Paths}}

Submitted == {s \in SubJobs : Input(s) \in DOMAIN rows}

(***************************************************************************)
(* A task holds the row it loaded, the row it will write, the cost events  *)
(* and the asset row of its session.                                       *)
(*   reading   GENERATING is committed, the uploads are being downloaded   *)
(*   calling   in the attempt loop                                         *)
(*   storing   the provider has answered with an image                     *)
(*   ended     the outcome is known, COMMIT not yet                        *)
(***************************************************************************)
Idle == [pc |-> "idle"]
At(w, pc) == task[w].pc = pc
Set(w, session) == task' = [task EXCEPT ![w] = session]
Busy == {w \in Workers : ~At(w, "idle")}

Session == [pc : {"reading", "calling", "storing", "ended"}, sub : SubJobs,
            loaded : SubJobRow, row : SubJobRow, costs : 0..MaxAttempts, asset : AssetRows]

SuccessOf(s) ==
  IF OperationOf[s] \in {"BACKGROUND_REMOVAL", "BACKGROUND_REPLACEMENT"}
  THEN "QA_REVIEW" ELSE "COMPLETED"

-----------------------------------------------------------------------------
(* A job is created, its task runs.                                        *)

\* The route commits the job with the asset rows of its uploads, whose bytes
\* it has inspected, and dispatches.
create_job_for_request(s) ==
  /\ s \notin Submitted
  /\ Uploads(s) \subseteq objects
  /\ rows' = WithRows([p \in Uploads(s) |-> create_asset(p)])
  /\ queue' = queue \union {s}
  /\ UNCHANGED <<today, objects, sub, task, sweep, unbilled, faults>>

\* The task commits GENERATING, whatever the status it finds.
start_task(w, s) ==
  /\ At(w, "idle")
  /\ s \in queue
  /\ queue' = queue \ {s}
  /\ sub' = [sub EXCEPT ![s].status = "GENERATING"]
  /\ Set(w, [pc |-> "reading", sub |-> s, loaded |-> sub'[s], row |-> sub'[s],
             costs |-> 0, asset |-> NoAssets])
  /\ UNCHANGED <<today, rows, objects, sweep, unbilled, faults>>

\* A missing object is a ClientError: no handler catches it, the task ends
\* and its row stays GENERATING.
download_bytes(w) ==
  /\ At(w, "reading")
  /\ Set(w, IF Uploads(task[w].sub) \subseteq objects
            THEN [task[w] EXCEPT !.pc = "calling"] ELSE Idle)
  /\ UNCHANGED <<today, rows, objects, sub, queue, sweep, unbilled, faults>>

\* The session after an attempt that failed with class.
AfterError(session, class) ==
  IF class = "TRANSIENT" /\ session.row.attempts < MaxAttempts
  THEN session
  ELSE [session EXCEPT !.pc = "ended", !.row = fail(@, class)]

Spend(session) == [session EXCEPT !.row.attempts = @ + 1]
record_cost_event(session) == [session EXCEPT !.costs = @ + 1]

\* Mutant: the loop is entered with every attempt already spent.
acquire_refused_off_by_one(w) ==
  /\ At(w, "calling") /\ task[w].row.attempts <= MaxAttempts
  /\ Set(w, AfterError(Spend(task[w]), "TRANSIENT"))
  /\ UNCHANGED <<today, rows, objects, sub, queue, sweep, unbilled, faults>>

\* The local rate limit is spent: no call leaves, nothing is billed.
acquire_refused(w) ==
  /\ At(w, "calling") /\ task[w].row.attempts < MaxAttempts
  /\ Set(w, AfterError(Spend(task[w]), "TRANSIENT"))
  /\ UNCHANGED <<today, rows, objects, sub, queue, sweep, unbilled, faults>>

ProviderErrors == {"TRANSIENT", "SAFETY_REFUSAL", "INTERNAL"}

\* Mutant: only an answer with an image is recorded as a cost.
generate_costs_images_only(w) ==
  /\ At(w, "calling") /\ task[w].row.attempts < MaxAttempts
  /\ LET called == Spend(task[w])
     IN  \/ Set(w, [record_cost_event(called) EXCEPT !.pc = "storing"])
         \/ \E class \in ProviderErrors : Set(w, AfterError(called, class))
  /\ unbilled' = unbilled + 1
  /\ UNCHANGED <<today, rows, objects, sub, queue, sweep, faults>>

\* Mutant: a transient error ends the loop at once.
generate_gives_up(w) ==
  /\ At(w, "calling") /\ task[w].row.attempts < MaxAttempts
  /\ LET called == record_cost_event(Spend(task[w]))
     IN  \/ Set(w, [called EXCEPT !.pc = "storing"])
         \/ \E class \in ProviderErrors :
              Set(w, [called EXCEPT !.pc = "ended", !.row = fail(@, class)])
  /\ unbilled' = unbilled + 1
  /\ UNCHANGED <<today, rows, objects, sub, queue, sweep, faults>>

\* A provider call, billed whatever it answers.
generate(w) ==
  /\ At(w, "calling") /\ task[w].row.attempts < MaxAttempts
  /\ LET called == record_cost_event(Spend(task[w]))
     IN  \/ Set(w, [called EXCEPT !.pc = "storing"])
         \/ \E class \in ProviderErrors : Set(w, AfterError(called, class))
  /\ unbilled' = unbilled + 1
  /\ UNCHANGED <<today, rows, objects, sub, queue, sweep, faults>>

\* No attempt was left on entry: assert last_error is not None fails.
assertion_fails(w) ==
  /\ At(w, "calling") /\ task[w].row.attempts >= MaxAttempts
  /\ Set(w, Idle)
  /\ UNCHANGED <<today, rows, objects, sub, queue, sweep, unbilled, faults>>

\* Paths of s no earlier uuid has hit.
NewPaths(s) == Outputs(s) \ (objects \union DOMAIN rows)

\* upload_bytes, then the asset row and the final status, not yet committed.
complete_success(w) ==
  /\ At(w, "storing")
  /\ \E p \in NewPaths(task[w].sub) :
       /\ \A q \in NewPaths(task[w].sub) : p.n <= q.n
       /\ objects' = objects \union {p}
       /\ Set(w, [task[w] EXCEPT !.pc = "ended", !.row.status = SuccessOf(task[w].sub),
                                 !.asset = [q \in {p} |-> create_asset(q)]])
  /\ UNCHANGED <<today, rows, sub, queue, sweep, unbilled, faults>>

\* Every attempt at the upload failed; an answer that was lost on the way back
\* leaves the object stored.
upload_exhausted(w) ==
  /\ At(w, "storing")
  /\ faults < MaxFaults
  /\ faults' = faults + 1
  /\ \E stored \in SUBSET NewPaths(task[w].sub) :
       /\ Cardinality(stored) <= 1
       /\ objects' = objects \union stored
  /\ Set(w, Idle)
  /\ UNCHANGED <<today, rows, sub, queue, sweep, unbilled>>

\* Mutant: a task whose sub-job was failed meanwhile drops its result.
finish_task_if_generating(w) ==
  /\ At(w, "ended")
  /\ LET s == task[w].sub
     IN  IF sub[s].status = "GENERATING"
         THEN /\ sub' = [sub EXCEPT ![s] = WrittenRow(@, task[w].loaded, task[w].row)]
              /\ rows' = WithRows(task[w].asset)
              /\ unbilled' = unbilled - task[w].costs
         ELSE UNCHANGED <<sub, rows, unbilled>>
  /\ Set(w, Idle)
  /\ UNCHANGED <<today, objects, queue, sweep, faults>>

\* COMMIT of the outcome: the row, its cost events, its output.
finish_task(w) ==
  /\ At(w, "ended")
  /\ LET s == task[w].sub
     IN  sub' = [sub EXCEPT ![s] = WrittenRow(@, task[w].loaded, task[w].row)]
  /\ rows' = WithRows(task[w].asset)
  /\ unbilled' = unbilled - task[w].costs
  /\ Set(w, Idle)
  /\ UNCHANGED <<today, objects, queue, sweep, faults>>

\* The worker dies, or the timeout cancels the coroutine: the transaction is
\* rolled back.  After a timeout a fresh session fails the sub-job.
crash(w) ==
  /\ w \in Busy
  /\ faults < MaxFaults
  /\ faults' = faults + 1
  /\ Set(w, Idle)
  /\ LET s == task[w].sub
     IN  \/ UNCHANGED sub
         \/ sub[s].status \in STUCK_STATUSES /\ sub' = [sub EXCEPT ![s] = MarkFailed(@)]
  /\ UNCHANGED <<today, rows, objects, queue, sweep, unbilled>>

\* The reconciliation sweep takes the sub-job for stuck.
reconcile_stuck_sub_jobs(s) ==
  /\ s \in Submitted
  /\ sub[s].status \in STUCK_STATUSES
  /\ sub' = [sub EXCEPT ![s] = MarkFailed(@)]
  /\ UNCHANGED <<today, rows, objects, queue, task, sweep, unbilled, faults>>

\* Only the input asset is asked for its deadline, not the mask.
retry(s) ==
  /\ s \in Submitted
  /\ check_retry_preconditions(sub[s])
  /\ rows[Input(s)].expires > today
  /\ sub' = [sub EXCEPT ![s] = [@ EXCEPT !.status = "PENDING", !.failure = "NONE"]]
  /\ queue' = queue \union {s}
  /\ UNCHANGED <<today, rows, objects, task, sweep, unbilled, faults>>

-----------------------------------------------------------------------------
(* The retention sweep.                                                    *)

Expired(p) == rows[p].expires <= today
ExpiredUnpurged == {p \in DOMAIN rows : Expired(p) /\ ~rows[p].purged}

\* The batches of at most SweepLimit of P, the earliest deadlines first.
EarliestOf(P) ==
  {B \in SUBSET P :
     /\ Cardinality(B) = IF Cardinality(P) < SweepLimit THEN Cardinality(P) ELSE SweepLimit
     /\ \A p \in B, q \in P \ B : rows[p].expires <= rows[q].expires}

\* Mutant: rows already purged are selected again.
get_expired_purged_or_not == EarliestOf({p \in DOMAIN rows : Expired(p)})

get_expired_unpurged == EarliestOf(ExpiredUnpurged)

\* The sweep reads its batch.
expire_assets ==
  /\ sweep.pc = "idle"
  /\ \E batch \in get_expired_unpurged :
       /\ batch # {}
       /\ sweep' = [pc |-> "deleting", todo |-> batch, marked |-> {}]
  /\ UNCHANGED <<today, rows, objects, sub, queue, task, unbilled, faults>>

\* The next object, in the order of the deadlines.
delete(p) ==
  /\ sweep.pc = "deleting"
  /\ p \in sweep.todo
  /\ \A q \in sweep.todo : rows[p].expires <= rows[q].expires
  /\ objects' = objects \ {p}
  /\ sweep' = [sweep EXCEPT !.todo = @ \ {p}, !.marked = @ \union {p}]
  /\ UNCHANGED <<today, rows, sub, queue, task, unbilled, faults>>

\* Mutant: a delete that fails is logged and its row marked all the same.
delete_failed_is_marked(p) ==
  /\ sweep.pc = "deleting"
  /\ p \in sweep.todo
  /\ faults < MaxFaults
  /\ faults' = faults + 1
  /\ sweep' = [sweep EXCEPT !.todo = @ \ {p}, !.marked = @ \union {p}]
  /\ UNCHANGED <<today, rows, objects, sub, queue, task, unbilled>>

\* A delete fails, or the process dies: nothing of the batch is marked.
delete_failed(p) ==
  /\ sweep.pc = "deleting"
  /\ p \in sweep.todo
  /\ faults < MaxFaults
  /\ faults' = faults + 1
  /\ objects' \in {objects, objects \ {p}}
  /\ sweep' = Idle
  /\ UNCHANGED <<today, rows, sub, queue, task, unbilled>>

\* The single commit at the end of the batch.
mark_purged ==
  /\ sweep.pc = "deleting"
  /\ sweep.todo = {}
  /\ rows' = [p \in DOMAIN rows |->
                IF p \in sweep.marked THEN [rows[p] EXCEPT !.purged = TRUE] ELSE rows[p]]
  /\ sweep' = Idle
  /\ UNCHANGED <<today, objects, sub, queue, task, unbilled, faults>>

NextDay ==
  /\ today < MaxDay
  /\ today' = today + 1
  /\ UNCHANGED <<rows, objects, sub, queue, task, sweep, unbilled, faults>>

-----------------------------------------------------------------------------
\* The clients have uploaded what they will ask for.
Init ==
  /\ today = 0
  /\ rows = NoAssets
  /\ objects = UNION {Uploads(s) : s \in SubJobs}
  /\ sub = [s \in SubJobs |-> NewSubJob]
  /\ queue = {}
  /\ task = [w \in Workers |-> Idle]
  /\ sweep = Idle
  /\ unbilled = 0
  /\ faults = 0

TaskStep(w) ==
  \/ \E s \in SubJobs : start_task(w, s)
  \/ download_bytes(w) \/ acquire_refused(w) \/ generate(w) \/ assertion_fails(w)
  \/ complete_success(w) \/ upload_exhausted(w) \/ finish_task(w) \/ crash(w)

JobStep(s) == create_job_for_request(s) \/ reconcile_stuck_sub_jobs(s) \/ retry(s)

SweepStep == expire_assets \/ (\E p \in Paths : delete(p)) \/ mark_purged

Next ==
  \/ \E w \in Workers : TaskStep(w)
  \/ \E s \in SubJobs : JobStep(s)
  \/ SweepStep
  \/ \E p \in Paths : delete_failed(p)
  \/ NextDay

Spec == Init /\ [][Next]_vars

\* Beat runs the sweep every day for as long as the system lives.
FairSpec == Spec /\ WF_vars(SweepStep)

-----------------------------------------------------------------------------
(* Properties.                                                             *)

\* Rows, objects and sessions keep their shape; in particular no interleaving
\* of retries and tasks spends more than MaxAttempts attempts on a row.
TypeOK ==
  /\ today \in 0..MaxDay
  /\ DOMAIN rows \subseteq Paths
  /\ \A p \in DOMAIN rows : rows[p] \in [expires : Deadlines, purged : BOOLEAN]
  /\ objects \subseteq Paths
  /\ sub \in [SubJobs -> SubJobRow]
  /\ queue \subseteq SubJobs
  /\ \A w \in Workers : task[w] = Idle \/ task[w] \in Session
  /\ \/ sweep = Idle
     \/ sweep \in [pc : {"deleting"}, todo : SUBSET DOMAIN rows, marked : SUBSET DOMAIN rows]
  /\ unbilled \in Nat /\ faults \in 0..MaxFaults

\* Before its deadline an asset row has its bytes, whatever died on the way (an
\* output is stored before its row commits, and the retention sweep deletes
\* nothing early); and purged_at is only set on a row whose bytes are gone,
\* though deletes fail in the middle of a batch.
BytesFollowRows ==
  \A p \in DOMAIN rows :
    /\ ~Expired(p) => p \in objects
    /\ rows[p].purged => p \notin objects

\* Outputs stored by a session that never committed.
Orphans ==
  {p \in objects : p.role = "OUTPUT"}
    \ (DOMAIN rows \union UNION {DOMAIN task[w].asset : w \in Busy})

\* A stored output without a row, which no sweep will ever delete, takes a
\* crash, a timeout or an upload error each: a task that lost its sub-job to the
\* sweep or to a retry still records what it stored.
OrphanTakesFault == Cardinality(Orphans) <= faults

\* Every provider call is a committed cost event, or one of a running task, or
\* one of the at most MaxAttempts that each fault rolled back.
CallsAreCosted ==
  LET running == FoldFunction(+, 0, [w \in Busy |-> task[w].costs])
  IN  running <= unbilled /\ unbilled <= running + MaxAttempts * faults

\* What the loop ends with, attempt by attempt, is an outcome that attempt_loop
\* (the summary the job models use) gives of the row it started from.
LoopEndsAsSummarised ==
  \A w \in Workers :
    At(w, "ended") =>
      task[w].row \in attempt_loop(task[w].loaded, SuccessOf(task[w].sub))

\* Every asset past its deadline is purged in the end, however many share the
\* deadline and whichever deletes fail on the way.
ExpiredIsPurged ==
  \A p \in Paths :
    (p \in DOMAIN rows /\ Expired(p)) ~> (p \in DOMAIN rows /\ rows[p].purged)

\* business-rules.md 11 gives a mask seven days because it has no purpose once
\* its one RECOLOR job is terminal: an accepted retry finds its uploads.
RetryFindsUploads ==
  [][\A s \in SubJobs :
       (sub[s].status = "FAILED" /\ sub'[s].status = "PENDING") => Uploads(s) \subseteq objects]_vars
=============================================================================
