# Verification of the jewelry image API

TLA+ models of the job pipeline, the job-creating requests, the configuration and the asset
store of this repository, the TLC runs that check them on small instances, and the TLAPS proofs of
what holds for every instance. Paths below are relative to the repository; `services/` stands for
`app/services/`, and so on.

## 1. The system

An ERP posts a job (photos of a piece of jewelry and an operation). The API validates it against
the active configuration, commits a `jobs` row with its `sub_jobs` and `assets` rows, and publishes
a Celery message on Redis. Worker tasks download the uploads, call the image provider, store what
it returns, score what has a QA gate, write the sub-job rows and recompute the parent, while the
client polls and retries what failed, and an operator decides what was flagged. Beat sweeps what
is stuck, syncs the configuration from a spreadsheet and deletes what has expired.

| Component | State it keeps | Operations | Talks to |
| :-- | :-- | :-- | :-- |
| Job creation (`services/job_service.py`, `api/v2/*.py`) | `jobs`, `sub_jobs`, `assets`; idempotency key, quota | the six `create_*_for_request` | Postgres, storage, then the queue |
| Client rate limit (`core/ratelimit.py`) | a Redis counter per minute | `allow` | |
| Orchestration (`services/orchestration_service.py`, `workers/orchestration.py`) | job status | `dispatch_job`, fan-out | queue |
| Angle generation (`services/generation_service.py`) | sub-job and job rows | `transform_photo`, `mark_sub_job_timed_out`, `recompute_parent_status` | rate limiter, provider, storage, then the QA queue |
| Background, MATCH, RECOLOR, MIX (`services/*_service.py`) | the same rows | `process` | the same |
| Cleanup (`services/cleanup_service.py`, `workers/cleanup.py`) | the same rows, and new sub-jobs | `process`, `_create_angle_sub_jobs` | then one angle task per new sub-job |
| QA gate (`services/qa_service.py`, `api/v2/qa.py`) | `qa_status`, sub-job status | scoring, decision, re-score | judge, parent recompute |
| Retries (`services/retry_service.py`, `api/v2/retry.py`) | sub-job and job rows, Redis marker | `execute_retry`, `execute_qa_retry` | queue |
| Reconciliation (`services/reconciliation_service.py`) | sub-job and job rows | the beat sweep | parent recompute |
| Status rollup (`services/status_rollup.py`) | none | `compute_parent_status` | every writer of a job row |
| Config sync and cache (`services/config_*_service.py`) | `config_versions`, a Redis key | sync, activate, invalidate, read-through | Sheets |
| Assets and retention (`services/retention_*.py`, `storage_service.py`, `cost_service.py`) | `assets`, `cost_events`, S3 objects | upload, download, purge | storage |
| Status endpoints, uploads, providers, auth | none that is raced for | | |

What is hard in it: every write of a row follows a read made earlier in the same session, across
awaits (Redis, provider, judge, sheet); no UPDATE repeats the status it relies on in its WHERE
clause and no SELECT locks, so what keeps concurrent requests apart is a unique index or nothing;
messages are published after the commit and acknowledged on receipt; a task may start long after
its message was sent, when its sub-job has been swept, retried or finished; the parent is a function
of rows that other sessions are writing; and S3, Redis and Postgres do not commit together.

What makes it correct, by component: rows move only along the documented state machine; the
parent is the rollup of its sub-jobs; nothing behind the gate is delivered without a verdict and
nothing else is sent to it; attempts are bounded by their ceiling and spent before a transient
failure is final; a bad ending can be explained; nothing stays in flight for ever; a key creates
one job and an upload serves one; one configuration is active and it becomes what the sheet says;
rows and stored bytes agree, and what has expired goes.

## 2. Modules

| Module | What it is |
| :-- | :-- |
| `StatusRollup` | `compute_parent_status` and the counting of `recompute_parent_status`, as operators |
| `SubJobRows` | the rows, the ORM's UPDATE, and what the attempt loop, a timeout and a retry make of a row, as operators |
| `SubJobLifecycle` | abstract: the sub-job state machine of `docs/business-rules.md` section 2 and the retry of section 5 |
| `JobLifecycle` | abstract: sub-jobs and parent moving in the same step (sections 2 and 3) |
| `JobPipeline` | the pipeline: rows, queue, sessions, one action per task, handler or step |
| `CleanupPipeline` | `GENERATE_WITH_CLEANUP`, whose sub-jobs appear while the job runs, and the status read |
| `GenerateRequests` | what a request body may be, its validation, and the rows of the job it creates, as operators |
| `IdempotentCreation` | abstract: what the Idempotency-Key gives a client (section 8, but for the loser of a race) |
| `ClientRequests` | the requests of one client from the lookup of the key to the dispatch |
| `ConfigSync` | the sheet, the syncs, `config_versions`, the cache, and the jobs that pin a version |
| `AssetStore` | objects in S3, asset rows, cost events, one job's task step by step, the retention sweep |
| `MC*` | instances for TLC: symmetry, bodies, sheets, short retention; the `.cfg` files give the constants |
| `JobPipeline_proofs`, `CleanupPipeline_proofs`, `ClientRequests_proofs`, `ConfigSync_proofs`, `AssetStore_proofs` | the theorems about each module |
| `SubJobOwnership_proofs` | theorems about `JobPipeline` when one client at a time retries; the two life-cycle refinements |
| `SubJobRows_proofs`, `Sums_proofs` | lemmas about the rows' operators and about sums over functions |

`JobPipeline` EXTENDS `SubJobRows`, which EXTENDS `StatusRollup`, and instantiates the two abstract
modules with `status <- Statuses` and `parent <- job.status`; `CleanupPipeline` and `AssetStore`
extend `SubJobRows` as well, and `AssetStore` checks `attempt_loop`, the summary of the loop that
the other two use, against the loop attempt by attempt. `ClientRequests` and `ConfigSync` extend
`GenerateRequests`: the same validation is used by a request and by the version a job pins.

### JobPipeline

*State.* `sub` and `job` are the committed rows, cut down to the columns that control anything
(`status`, `attempt_count`, `failure_class`, `qa_status`; `status`, the two counters, whether
`completed_at` is set). `queue` counts the messages of each task, `fan_out` the fan-out message.
`session[x]` is the database session of worker or handler `x`.

*Sessions.* A session is the unit of interleaving, in the phases

    loaded ---> flushed ---> (commit) ---> publish ---> (connections closed) ---> idle

It loads rows (`loaded`), then waits on Redis, the provider or the judge while others run. It
flushes its sub-job writes, which takes their row locks, and in the same step reads the siblings
for the recompute (`Flush`; SQLAlchemy's autoflush orders them so). It commits, and publishes what
it announced. Code with no recompute goes from `loaded` to the commit in one step
(`CommitLoaded`). Between these steps any other session may act. A generating task that has nothing
to publish is in `publish` all the same (`Committed`): it still closes its session, Redis and the
engine (`connections_closed`).

*Timeouts.* `asyncio.wait_for` covers all of `_run`, the closing of the connections included. So a
timeout may come in every phase of a task, and a fresh session then fails the row if it finds it
`PENDING` or `GENERATING`. Before the commit that row is the task's own. After a committed failure it
is one that a client's retry has reset: the retry is failed by a task that had already ended, while
its own message is on its way or its own task runs. `overtaken`, a history variable that no action
reads, collects the sub-jobs to which that has happened. Two sessions write such a row, and what they
make of it is in the model but beyond what the properties of section 3 promise.

*SQLAlchemy.* Modelled from how the code uses it: objects are not refreshed by later queries, and
only the attributes whose value differs from the loaded one are written (`Dirty`). Neither is a
detail: see the limits of `EndedBadlyHasClass` below.

| Action | Code |
| :-- | :-- |
| `dispatch_job` | `orchestration_service.dispatch_job` and the fan-out tasks |
| `start_task`, `finish_task`, `assertion_fails` | `transform_photo` and the `process` functions, up to the first commit, and after it |
| `score_sub_job`, `score_and_apply` | the two scoring tasks, `_score_and_apply` |
| `mark_sub_job_timed_out` | the timeout of a task (`asyncio.wait_for`), before or after its commit, and `_run_timed_out` |
| `reconcile_stuck_sub_jobs` | the beat sweep |
| `retry_angle`, `retry_job`, `execute_retry`, `execute_qa_retry` | the retry routes and services |
| `submit_qa_decision`, `rescore_flagged_background_operations` | the ops routes |
| `CommitLoaded`, `FlushPlanned`, `CommitFlushed`, `Publish`, `connections_closed` | flush, commit, `.delay()`, and the end of a task that has nothing to publish |
| `Fault` | a process that dies, or an exception nobody catches |

*Abstractions.* The attempt loop is one step, since nothing of it is visible before its commit:
`attempt_loop` is the set of its outcomes. The provider, the judge and the rate limiter are
choices of outcome. `TRANSIENT` stands for the three retryable classes. Time is not modelled: a
timeout or a sweep may come at any moment, and staleness is a choice among the rows the sweep may
take. That a retry is refused for an expired input is a request that changes nothing. The QA
judge's own retries have no state outside the call.

### CleanupPipeline

The same sessions over rows whose set grows: `sub` starts with the cleanup sub-job, and
`finish_cleanup` flushes its result together with the INSERTs of the angle sub-jobs and a recompute
that leaves the cleanup row out. `todo` is the list of ids the worker dispatches after the commit,
one `Publish` each; a crash stops it part-way, and a timeout that fires while the connections close
replaces it by the empty list. Late timeouts and `overtaken` are those of `JobPipeline`. A second
cleanup task (a retry's, or a redelivery) waits for the row lock of the cleanup sub-job before it
reads which angles exist, so it finds those of the first and creates none: the unique index `ux_sub_jobs_job_angle` is never hit. `get_status` and
`answer_status` are the two queries of the status route; what it would answer if the second query ran
now is `build_job_status_response`, and the property is about every such moment.

### ClientRequests

One step per await of `create_*_for_request`: lookup of the key, token, quota, validation, INSERT
of the job, INSERT of each asset, commit, dispatch. Postgres is modelled by what a unique index
does: an INSERT waits for an uncommitted equal entry (`WaitsFor`), fails if a committed one exists,
and a cycle of waiting transactions is broken by ending one (`deadlock_detected`). Only the INSERT of
the job is inside the handler of `IntegrityError`; an asset's failure ends the request with an error.
`created_at` is the start of the transaction (`begun_today`), which is why a job can count for
yesterday. Requests are compared by `payload_hash`, in which the angles of `/generate` have lost their
order, so that the same angles in another order are a replay. A request that finds its key free and
taken when it inserts (`replay_race`) ends in an error: `_handle_replay_race` means to answer like a
replay, but reads `client.id` after the rollback has expired `client`, and reloading it outside the
session's greenlet raises. `IdempotentCreation` has what follows for a client: who arrives after the
job of the key is told of it, or of a conflict, and never refused; who arrives before it creates it,
is refused, or gets an error. The bodies are those the request schemas let through
(`IsBody`): `/generate` reads its angles as the keys of a JSON object, so no angle comes twice there,
while `/generate-with-cleanup` reads a list.

### ConfigSync

A version is named by its place among the commits. A sync reads the sheet, the active version, the
maximum number, inserts, reads the active version again, activates and commits; only then does it
invalidate the cache, and that may fail. A reader that missed writes back what it read. A creating
request validates against the active version and pins it when it inserts. The cell syntax of the
sheet is one bit (`valid`); that the payload hash equals is that the payload does.

### AssetStore

Each sub-job is the only one of its job. The task's steps are the downloads, every attempt (limiter,
call, cost event), the upload, and the commit of the row, its cost events and its output's asset
row; S3 takes effect at once. The sweep deletes object by object in the order of the deadlines and
marks the batch in one commit. Days stand for time; the retention periods keep the order of the
code's 7, 90 and 180 days. `MATTE` assets are created nowhere in the code.

## 3. Runs

Deadlock is not checked, because in every model all work can end. `MaxAttempts` is 3 in the code;
most runs use 2, which still separates a first, an intermediate and a last
attempt with the retries. `MaxQueued` bounds equal messages (1, or 2 where a duplicate matters),
`MaxFaults` crashes. Each takes from seconds to about three minutes.

| Run | Instance | Shows |
| :-- | :-- | :-- |
| `solo` | a photographed, a synthetic, a skipped angle; 1 worker, sweep, 1 fault, fair | `QuiescentRollup`: at rest the parent is the rollup; `SubJobLeavesStuck`, `ParentTerminates`, `ReviewIsReached` |
| `background` | background removal, 1 worker, sweep, retry, QA retry, re-score, decisions, fail-closed setting, 3 attempts | `TypeOK` (the shared ceiling); `ReviewIsQueuedOrScoring`; `DeliveredOnlyByVerdict` |
| `pool_retries` | a synthetic angle, 2 workers, timeouts, angle retries, 3 attempts | `EndedBadlyHasClass`; `TransientOnlyWhenExhausted`; `ImplementsSubJobLifecycle` |
| `match_atomic` | 3 variants, 1 worker, timeouts, 1 fault | `UngatedNeverReviewed`; `ImplementsJobLifecycle`: rows and parent move together |
| `cleanup_races` | 1 angle, 2 workers, timeouts, retries of the job and the angle, a polling client | `TypeOK`; `NotDeliveredByCleanupAlone`; `DispatchesWhatItCreated`; `CompletedAnswerIsComplete` |
| `cleanup_liveness` | 2 angles, 1 worker, sweep, timeouts, redelivery, 1 fault, fair | `QuiescentRollup`; `AnglesSettle`; `ParentTerminates` |
| `client_requests` | 3 requests, 2 open at a time, 3 keys, an angle job of two uploads with its angles in two orders and one without uploads, rate limit 2, quota 1, 1 fault | `OneJobPerKey`; `OneOwnerPerUpload`; `DispatchedOnce`; `QuotaOvershoot`; `AnswerDescribesJob`; `WaitingEnds`; `ImplementsIdempotentCreation`; `TypeOK` |
| `config_sync` | 2 syncs, a reader, a creating request, 3 sheets (one invalid), with and without a seeded version, 1 edit, fair | `ActiveIsLatestSuccess`; `GlobalBlockSurvives`; `PinnedConfigServesJob`; `CatalogueIsHonest` (over one body of each kind, allowed and not); `ActiveFollowsSheet`; `CacheFollowsSheet`; `TypeOK` |
| `assets` | a RECOLOR job, 1 worker, 2 attempts, 2 outputs, 3 days, 1 fault, batches of 1, fair | `BytesFollowRows`; `OrphanTakesFault`; `CallsAreCosted`; `LoopEndsAsSummarised`; `ExpiredIsPurged`; `TypeOK` |

RECOLOR and MIX have the control of a MATCH job with one sub-job. The bounds are the smallest at
which the case happens: two sessions for a race on a row, a key or a version number; three requests
for a replay after a race that another day or minute separates; two paths in opposite order for a
deadlock; a job without uploads, since of those with the same uploads there is only one and the quota
needs three; a batch of one so that a failing delete leaves others behind it. `pool_retries` has one
sub-job: the properties are about single rows, and the interleaving they fear (a task that has
committed a failure, the retry, the late timeout, the retry's task and a second retry's) takes both
workers, both messages and three attempts of one row. A second sub-job or a crash multiplies its 1.4
million states beyond what TLC does in minutes; the theorems cover both.

### What the runs leave out, because it does not hold

The passing runs state what holds under the activities they include. Those limits are real:

- A late timeout that overtakes a retry ends what is promised of a row. The steps are: a task commits
  `FAILED` with attempts left; a retry commits `PENDING` and publishes; the timeout of the first task,
  which is still closing its connections, fails the row; the retry's message starts it again. Of
  `SubJobs \ overtaken` everything below holds; of all sub-jobs TLC finds in `pool_retries` a row that
  goes from `FAILED` to `GENERATING` (no edge of the state machine), one `FAILED` without a class, and one
  `FAILED` as transient with attempts left. In `cleanup_races` the same steps put a delivered angle back
  to `GENERATING` beside a `COMPLETED` job. `_run_timed_out` would have to know whose attempt it ends.
- A second worker breaks `QuiescentRollup` for angles (`pool_loses_rollup`) and with it
  `ImplementsJobLifecycle`; on the solo pool a retry that commits between a sibling's recompute
  and its commit is followed for a while by a terminal parent next to a `PENDING` sub-job, so
  `match_atomic` has no retry.
- With the sweep next to a task that is only queued, the task of a swept sub-job still runs, and
  after a retry its two tasks can regenerate a delivered output. Two retries of the same sub-job at
  the same time dispatch it twice, with the same result: `background` and `pool_retries` have one
  handler.
- The sweep next to a retry: the sweep assigns a class equal to the one it loaded, the retry has
  cleared it meanwhile, the UPDATE leaves it out, and the row is `FAILED` without a class.
  `pool_retries` has no sweep. With it, a QA retry that read `attempt_count` before the leftover task
  of a swept sub-job counted its own attempts also writes the lower number over the higher one, so
  that a transient class no longer means that every attempt is spent.
- A human decision next to the judge breaks `ImplementsSubJobLifecycle` (`verdict_over_rejection`),
  and the leftover task of a swept sub-job starts a sub-job that has ended: `pool_retries` has
  neither decisions nor the sweep.
- A retry next to a crash breaks `QuiescentRollup` even on the solo pool, and a leftover task breaks
  `ImplementsJobLifecycle` by starting a job that has ended: `solo` has no retry, `match_atomic` no
  sweep.
- A crash or a timeout between the commit of `QA_REVIEW` and the dispatch of its scoring leaves an
  output waiting for nobody, since nothing redoes that dispatch: `background` has neither, and
  `ReviewIsReached` excepts a lost scoring.
- `TransientOnlyWhenExhausted` has a consequence the documentation of retries does not mention:
  automatic attempts and client retries share one ceiling, so a sub-job that failed with a
  transient class has no attempt left for the client's first retry.
- Cleanup: with client retries the sweep leaves a stale parent even on the solo pool, and it breaks
  `CompletedAnswerIsComplete`; the job retry's check that no angle exists is a check-then-act. Two
  retries of one angle at once break it as well: the second commit puts an angle that the first retry
  has delivered back to PENDING, between the two queries of a status read.
- Configuration: two overlapping syncs of one new sheet can create two equal versions, where
  `docs/business-rules.md` section 9 creates none for an unchanged payload; the loser of the race for
  a number ends with an uncaught `IntegrityError`; an override of the global block committed by hand
  between a sync's read and its commit would be lost. A fetch that has become stale stays active until
  the next sync, so `ActiveFollowsSheet` needs the sheet to rest.
- Assets: a fault leaves an object without a row, and takes with it the cost events of calls that were
  made: section 10's one `cost_events` row per provider call holds up to `MaxAttempts` per fault
  (`CallsAreCosted`). Uploads that no job claims have no row and are never purged. A delete that
  fails for ever stops the batches behind it.

### Disagreements between the code and what it says of itself

| Run | Violated | What happens |
| :-- | :-- | :-- |
| `pool_loses_rollup` | `QuiescentRollup` | Two angles finish together; each recompute misses the other's uncommitted row. The job stays `PROCESSING` with all its sub-jobs terminal, and the sweep never looks at it, because none of them is stuck. |
| `verdict_over_rejection` | `HumanRejectionStands` | The judge's pass overwrites a rejection made while it was scoring. |
| `mask_expires_first` | `RetryFindsUploads` | A RECOLOR job's mask expires after seven days because it has "no purpose" by then; a retry is accepted for ninety, and its task finds no mask. |

Each is a run with one property and a short counterexample. The quoted lines are in
`PROJECT.json`, "findings". Two more disagreements are in the models and in no run of their own:

- The loser of the race for an Idempotency-Key. The docstring of `_handle_replay_race`
  (`services/job_service.py:604`: "Treat it exactly like a replay"), `docs/business-rules.md` section 8
  ("A replayed key returns the original response") and `phases/phase-2-data-model.md:126` ("re-fetch
  and treat as step 1's replay path") promise the job of the winner or a conflict. The code ends the
  request in a 500: the rollback before it has expired `client`, an object of the same session, and
  `client.id` (`services/job_service.py:607`) cannot load it lazily in async code. No job is lost or
  doubled, and a further request with the key is answered. `replay_race` does what the code does, and
  `IdempotentCreation` promises the job or a conflict only to requests that arrive after the commit.
- The late timeout above: section 2 of `docs/business-rules.md` has no edge from `FAILED` to
  `GENERATING`, and by section 4 a sub-job is not `FAILED` as transient "until the backoff budget is
  exhausted".

## 4. Fairness

Nothing is assumed of clients, operators, timeouts or faults. Weak fairness of:

- `JobPipeline`, `CleanupPipeline`: a live worker eventually takes a message it can take and
  finishes the task (`TaskStep`; Celery polls the broker in a loop, and provider, Redis and storage
  calls have timeouts); a session that has written goes on to commit and publish (`SessionStep`);
  beat runs the sweep, so that a row that stays stuck is taken sooner or later (`SweepOf(s)`;
  `RECONCILIATION_SWEEP_CRON` is every 15 minutes and a row is stale after 600 s). With one worker
  weak fairness is enough: an idle worker stays idle until one of these acts, and the sweep of a stuck
  row is enabled whenever it is. Client retries next to the sweep can postpone the end for ever, so
  the liveness runs have none.
- `ConfigSync`: beat keeps starting syncs and a session that runs keeps running (`SyncStep`), a reader
  finishes its request, and a Redis key expires (`CACHE_TTL_SECONDS`). Before a failed sync ends,
  nothing blocks it: a waiting INSERT waits for a session that is itself fair.
- `AssetStore`: beat runs the retention sweep every day and it goes on through its batch
  (`SweepStep`). Deletes may fail, at most `MaxFaults` times.

## 5. Proofs

Every theorem is for all values of the constants that satisfy the named assumptions of its module:
any sub-jobs, operation, pool, handlers, activities, attempts and faults, any requests, bodies and
keys, any syncs and sheets, any retention periods. The assumptions only say that the sets the code
keeps in a database are finite and not empty, that limits are natural numbers and what operations and
activities there are; TLC evaluates them in every run. What a theorem needs beyond them is a
hypothesis of its own, named in the tables. The invariants were checked by TLC before they were
proved.

### The job pipeline (`JobPipeline_proofs`, `SubJobOwnership_proofs`)

| Theorem | Property | Holds for | Argument |
| :-- | :-- | :-- | :-- |
| `TypeCorrect` | `TypeOK` | everything | inductive, one lemma per action; the content is the attempt ceiling, in rows and in the copies sessions hold |
| `UngatedStaysOut` | `UngatedNeverReviewed` | everything | `GateInv` |
| `GateDelivers` | `DeliveredOnlyByVerdict` | everything | `GateInv`, and a lemma that says which steps write a sub-job row |
| `SoloRollup` | `QuiescentRollup` | one worker, no handler | `SoloInv` |
| `ReviewIsNotForgotten` | `ReviewIsQueuedOrScoring` | `Calm`: one worker, no timeout, no crash; any handlers | `ReviewInv` |
| `BadEndsHaveClass` | `EndedBadlyHasClass` | `OneClient`: timeouts before or after the commit, crashes, one client's retries; any pool | `OwnerInv` |
| `AttemptsAreSpent` | `TransientOnlyWhenExhausted` | `OneClient` | `OwnerInv`; like the row above and the one below, up to the moment a late timeout overtakes a retry |
| `FollowsLifecycle` | `ImplementsSubJobLifecycle` | `OneClient` | `OwnerInv`; every step of a row is an edge of the machine or a stutter |
| `FollowsJobLifecycle` | `ImplementsJobLifecycle` | one worker, no handler, `OneClient` | `AloneInv`, `SoloInv` and `ParentInv` |
| `ClosedJobsAreSettled` | `[]ClosedJobIsSettled` | one worker, no handler, `OneClient` | from the edges of the abstract job and `RollupTable` |
| `ClosedJobsStay` | `[][ClosedJobStays]_vars` | one worker, no handler, `OneClient` | nothing leaves an end but a retry |
| `RollupTable` (`SubJobRows_proofs`) | the table of business rule 3 | any number of sub-jobs and statuses | counting, from the theorems about cardinality |

- `UngatedNeverReviewed` is not inductive: a session could hold a `QA_REVIEW` it has not written
  yet, or a scoring it has not published. `GateInv` adds what every session may hold: an ungated row
  it loaded or will write is not in review, its messages to publish contain no scoring of an ungated
  sub-job, and a session that completes a gated one is a scoring or a decision.
- `QuiescentRollup` says something only when nothing runs. `SoloInv` says that as soon as every
  sub-job has settled the parent is its rollup, that an open session still agrees with the stored
  rows (with one worker nothing can change under it), and that what it flushed is the rollup of what
  it will commit. A second worker breaks the middle part, and `pool_loses_rollup` is what follows.
- `ReviewInv` says what each session may write over a row in review. A scoring completes or flags the
  row it loaded. Any other session either moves the row out of review, or changes neither its status
  nor its verdict, or is a generation that goes on to publish the scoring. One worker is needed so
  that a generation and a scoring never hold the same row; requests and the sweep may hold it at any
  time. `Calm` is needed because of the hazard of section 3: a crash or a timeout between the commit
  and the dispatch loses the scoring.
- `OwnerInv` says that a sub-job belongs to at most one message or session, that the owner's copy is
  the stored row, and what the row's status must be for the message or session that owns it; so what
  is committed is what was planned, although no UPDATE repeats the status it relies on. A session owns
  what it has loaded until it commits: a task that is closing its connections owns nothing, and its
  timeout can still fail a row. If that row has been retried it has two writers from then on, and the
  invariant is `OwnerOn(Followed)`: it lets go of the sub-jobs in `overtaken` and needs nothing of them to
  hold of the others. The sweep, QA retries and the operator's routes take a sub-job that somebody
  owns; section 3 lists what breaks then. Crashes only lose owners.
- `AloneInv` is `OwnerOn(SubJobs)` with `NotLate`: with one worker and no retry, no task that has
  committed leaves a stuck row behind it, so a late timeout finds nothing to fail and `overtaken` stays
  empty. The job's refinement is therefore about all sub-jobs.
- `ParentInv` relates the parent to the fan-out and to what a task announces at its start, the part of
  `JobLifecycle` in which the parent moves before any sub-job has ended.
- `QuiescentRollup` speaks of a job at rest; `ClosedJobsAreSettled` of what a client that polls sees at
  any moment. It is a consequence of the refinement: in the abstract job only `Progress` closes the
  parent, with the rollup of the same step, and by `RollupTable` a rollup is closed only when every
  sub-job that counts has ended. A second worker breaks it (`pool_loses_rollup` is the other side of
  the same race), and so does a retry that commits between a sibling's recompute and its commit.

### Cleanup (`CleanupPipeline_proofs`)

| Theorem | Property | Holds for | Argument |
| :-- | :-- | :-- | :-- |
| `TypeCorrect` | `TypeOK` | everything | `PhaseInv` |
| `AnglesComeFirst` | `NotDeliveredByCleanupAlone` | everything | `PhaseInv` |
| `DispatchesItsOwn` | `DispatchesWhatItCreated` | everything | `PhaseInv`, and only its commit makes a task dispatch |
| `SoloRollup` | `QuiescentRollup` | one worker, no handler | `PhaseInv` and `SoloInv` |
| `AnswersAreComplete` | `CompletedAnswerIsComplete` | `Undisturbed`: no sweep, angles retried by one request at a time if at all; any pool, timeouts, crashes, redeliveries | `PhaseInv` and `AnswerInv`; of the angles whose retry no late timeout has overtaken |

- `PhaseInv` quantifies over what every session would write. The angles appear together; until then no
  session, and not the job, says `COMPLETED` or `PARTIAL_SUCCESS`, and none says the cleanup completed
  unless it is about to insert the angles in the same commit. Two cleanup tasks at once are the hard
  case: both may have loaded a cleanup row without angles, and only the row lock makes the second see
  the angles of the first, so the invariant has to carry that no two sessions that have flushed hold
  the same row.
- `SoloInv` is that of the job pipeline, for rows that a session may add: what it has flushed is the
  rollup of the rows that will exist after its commit.
- `AnswerInv` says why the two queries of a status read agree although anything may be committed
  between them. A job is announced `COMPLETED` by a recompute that has seen every angle `COMPLETED`,
  some of them in rows of other sessions; that stays true only because nobody who could still write
  such a row has it. So the invariant carries the ownership of the angles (a message, or one session
  whose copy is the stored row, with the status that fits what the session is doing) next to what
  every session, and the job, announces. The cleanup row needs no owner: two cleanup tasks at once
  are allowed. The sweep takes angles that a task owns and can fail one that has been delivered, and
  two requests at once can retry the same angle twice; hence the hypothesis. A late timeout gives an
  angle a second task as well. That is no hypothesis: the invariant is `AnswerOn(Angles \ overtaken)`, and
  says what remains true of the other angles while that happens to some.

### Requests (`ClientRequests_proofs`)

| Theorem | Property | Argument |
| :-- | :-- | :-- |
| `TypeCorrect` | `TypeOK` | inductive |
| `KeyIsUnique` | `OneJobPerKey` | `KeyInv`: an INSERT that succeeded holds its key against committed jobs and against every other INSERT |
| `UploadHasOneOwner` | `OneOwnerPerUpload` | `PathInv`: the same for the paths inserted so far, which a request takes one by one, in its own order |
| `DispatchesOnce` | `DispatchedOnce` | `MessageInv`: nothing is published before the dispatch of a committed job |
| `QuotaHoldsButForRaces` | `QuotaOvershoot` | `QuotaInv`: the jobs of today together with the requests that passed the count stay below quota plus open sessions |
| `AnswersDescribeJobs` | `AnswerDescribesJob` | `AnswerInv`: the job was inserted from a body of the same hash; and the lemma `PlansDescribeRows`: the sub-jobs planned from one of two such bodies are the rows inserted from the other |
| `WaitingIsResolved` | `[]WaitersAreReleased` | among the sets whose members wait only for one another, one with the fewest members is a cycle |
| `KeepsPromise` | `ImplementsIdempotentCreation` | refinement: `receive` is `Arrive`, the commit is `Create`, the end of a waiting request, the loser of a race included, `Answer`, every other step a stutter |

All hold for any number of requests, clients, bodies and crashes. Of the bodies `BodiesAssumption` says
that they are what the schemas let through and that the assets of a job are a sequence: `SelectSeq` is
recursive, so that even this is an induction over sequences, out of the prover's reach; TLC evaluates
the assumption for the bodies of the instance.

`WaitersAreReleased` is `WaitingEnds` with ENABLED, which is out of reach as well, replaced by the guards
of the steps: of any open requests that wait only for one another, some request can take its next step
(`Ready`) or is in a cycle. `deadlock_detected` ends a request only if it belongs to a set that is
exactly what its members wait for (`InCycle`). That misses no deadlock: take the fewest requests that
all wait, and only for one another; what they wait for is again such a set, hence the same one.

### Configuration (`ConfigSync_proofs`)

| Theorem | Property | Argument |
| :-- | :-- | :-- |
| `TypeCorrect` | `TypeOK` | `NamesInv`: whoever names a version names one that exists |
| `LatestSuccessIsActive` | `ActiveIsLatestSuccess` | `SyncInv`: a sync past its INSERT is the only one and holds the next number, what it read as active is still active |
| `VersionsAreImmutable` | `[][Keeps]_vars` | no step changes the payload or status of a committed version |
| `ActiveNeverGoesBack` | `[][ActiveMovesOn]_vars` | the active version is the newest success before and after every step |
| `BlockSurvives` | `GlobalBlockSurvives` | `BlockInv`: every payload on its way from a read to a commit has the block of all successful versions, even if another was activated meanwhile |
| `PinsServe` | `PinnedConfigServesJob` | `NamesInv` and `VersionsAreImmutable`: the version that accepted the request is the one it pins |
| `OnlySuccessesAreNamed` | `[]NamesSuccesses` | inductive next to `NamesInv`: only `get_active` is ever written down, and a success stays one |
| `CatalogueHonest` | `CatalogueIsHonest` | no induction: one lemma per operation, from what `IsBody` says of its bodies, shows that the response lists what its route accepts |

`CatalogueIsHonest` had to be stated with care before it could be proved: it is false for a body that
asks for no angle at all, or, where the angles are a list, for one twice; the routes refuse both, and
the catalogue says nothing of them (`AsksForAngles`).

### Assets and costs (`AssetStore_proofs`)

| Theorem | Property | Argument |
| :-- | :-- | :-- |
| `TypeCorrect` | `TypeOK` | from `CostInv` and `Shape`, the form of sessions and paths |
| `BytesAreKept` | `BytesFollowRows` | `BytesInv`: a sweep deletes only objects whose rows its batch holds and whose deadline has passed; a task describes only what it has stored |
| `NothingGoesEarly` | `[][RetentionStep]_vars` | `BytesInv`: no step deletes an object before its deadline, deletes a row, moves a deadline, or sets `purged_at` before the bytes are gone |
| `OrphansTakeFaults` | `OrphanTakesFault` | `OrphanInv`: only a step that loses a session adds an orphan, and it counts a fault |
| `CallsAreAccounted` | `CallsAreCosted` | `CostInv`: a sum over the tasks that run |
| `LoopIsSummarised` | `LoopEndsAsSummarised` | the state of the loop between attempts, in `Shape` |

The last one justifies `attempt_loop`, the one step that stands for the loop in the two pipeline
modules. A sum over a set is a fold, and folds are recursive; `Sums_proofs` counts pairs instead, and
gets from the theorems about cardinality that the sum changes by what one task does.

### Only model-checked

- Liveness (`SubJobLeavesStuck`, `ParentTerminates`, `ReviewIsReached`, `AnglesSettle`,
  `ActiveFollowsSheet`, `CacheFollowsSheet`, `ExpiredIsPurged`), which is out of the proof system's reach.
- `WaitingEnds` itself, which is about ENABLED; `WaitingIsResolved` proves what it rests on.
- The violations of section 3, which are counterexamples.

## 6. Not modelled, and open questions

Left out for good: image work, prompts, HTTP clients, authentication, the wording of responses,
migrations, scripts, the test page; the presigned URLs; the sums of the cost queries.

Not modelled yet: the Redis marker of the retry routes (`core/idempotency.py`, set before the
database commit, so a commit that fails makes every replay a no-op, and two requests with one key both
retry); the clock of the provider's fixed window; the order in which the sweep and a task lock rows.

Open questions, in the order of their weight:

1. The solo pool's `QuiescentRollup` with client requests that retry while the worker runs, under the
   weakest order of commits for which TLC still agrees.
2. `FollowsJobLifecycle` on a pool of workers, for the edges that do not depend on the rollup.
3. The Redis marker of the retry routes and the lock order of the sweep, as modules of their own.
