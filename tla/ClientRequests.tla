--------------------------- MODULE ClientRequests ---------------------------
(***************************************************************************)
(* The requests of one client that create jobs, from the lookup of the     *)
(* Idempotency-Key to the dispatch of the job's first task.  Each is a     *)
(* database transaction of its own; they interleave at every await, and    *)
(* meet on two unique indexes, (client_id, idempotency_key) of jobs and    *)
(* (bucket, storage_path) of assets: an INSERT waits for the transaction   *)
(* that holds an equal entry and fails if that one commits.                *)
(*                                                                         *)
(* A request that creates a job gives it its own name.                     *)
(***************************************************************************)
EXTENDS GenerateRequests

CONSTANTS
  Requests,     \* the client's requests
  Keys,         \* Idempotency-Keys
  Bodies,       \* request bodies
  Configs,      \* payloads that may be active when a request is validated
  Buckets,      \* contents the inputs bucket may have by then
  RateLimit,    \* api_clients.rate_limit_per_min
  DailyQuota,   \* api_clients.daily_job_quota
  MaxOpen,      \* database sessions of the API, one per open request
  MaxFaults     \* bound: crashes, broker and Redis failures

ASSUME LimitsAssumption ==
  RateLimit \in Nat /\ DailyQuota \in Nat /\ MaxOpen \in Nat \ {0} /\ MaxFaults \in Nat
ASSUME RequestsAssumption == IsFiniteSet(Requests) /\ Bodies # {}
ASSUME BodiesAssumption == \A body \in Bodies : IsBody(body) /\ IsList(NewJob(body).assets)

VARIABLES
  request,   \* each request and the session that serves it
  jobs,      \* requests whose job is committed
  today,     \* those of jobs whose created_at is today
  tokens,    \* the counter of the current minute in Redis
  messages,  \* how often the first task of each job was published
  faults     \* faults so far

vars == <<request, jobs, today, tokens, messages, faults>>

-----------------------------------------------------------------------------
(***************************************************************************)
(*   new         not sent yet                                              *)
(*   admitting   the key is unused; the rate limit is next                 *)
(*   counting    a token was granted; the quota is next                    *)
(*   validating  within the quota                                          *)
(*   inserting   valid; the INSERT of the job is next, and may wait        *)
(*   inserted    the job and flushed of its assets are inserted            *)
(*   raced       the INSERT failed and was rolled back                     *)
(*   committed   the task is not published yet                             *)
(*   done        answered, or cut off                                      *)
(***************************************************************************)
Open == {"admitting", "counting", "validating", "inserting", "inserted", "raced", "committed"}
Code == {"none", "accepted", "conflict", "refused", "error"}
NoKey == "none"

Request ==
  [pc : Open \union {"new", "done"}, key : Keys \union {NoKey}, body : Bodies,
   flushed : Nat, begun_today : BOOLEAN, code : Code, job : Requests]

OpenRequests == {r \in Requests : request[r].pc \in Open}
At(r, pc) == request[r].pc = pc

get_by_idempotency_key(key) == {j \in jobs : request[j].key = key}
Assets(r) == NewJob(request[r].body).assets
PathsOf(j) == {Assets(j)[i] : i \in DOMAIN Assets(j)}

\* The entry of a unique index that r is about to insert is held by another.
HoldersOfKey(r) ==
  {q \in Requests \ {r} : At(q, "inserted") /\ request[q].key = request[r].key}
NextPath(r) == Assets(r)[request[r].flushed + 1]
HoldersOfPath(r) ==
  {q \in Requests \ {r} : At(q, "inserted")
     /\ \E i \in 1..request[q].flushed : Assets(q)[i] = NextPath(r)}

HasAssetLeft(r) == At(r, "inserted") /\ request[r].flushed < Len(Assets(r))
WaitsFor(r) ==
  IF At(r, "inserting") THEN HoldersOfKey(r)
  ELSE IF HasAssetLeft(r) THEN HoldersOfPath(r) ELSE {}

Goto(r, pc) == request' = [request EXCEPT ![r].pc = pc]
Answer(r, code, job) ==
  request' = [request EXCEPT ![r] = [@ EXCEPT !.pc = "done", !.code = code, !.job = job]]
Refuse(r) == Answer(r, "refused", r)

\* Mutant: the stored hash is not compared with that of the request.
replayed_any(sent, j) == [sent EXCEPT !.pc = "done", !.code = "accepted", !.job = j]

\* A request whose key belongs to job j: a replay, or a conflict.
replayed(sent, j) ==
  IF payload_hash(request[j].body) = payload_hash(sent.body)
  THEN [sent EXCEPT !.pc = "done", !.code = "accepted", !.job = j]
  ELSE [sent EXCEPT !.pc = "done", !.code = "conflict"]

-----------------------------------------------------------------------------
(* The steps of a request.                                                 *)

\* Mutant: the key is not looked up, since the INSERT would find it taken.
receive_without_lookup(r, key, body) ==
  /\ At(r, "new")
  /\ Cardinality(OpenRequests) < MaxOpen
  /\ request' = [request EXCEPT ![r] =
       [@ EXCEPT !.pc = "admitting", !.key = key, !.body = body, !.begun_today = TRUE]]
  /\ UNCHANGED <<jobs, today, tokens, messages, faults>>

\* Authentication and the lookup of the key.
receive(r, key, body) ==
  /\ At(r, "new")
  /\ Cardinality(OpenRequests) < MaxOpen
  /\ LET found == get_by_idempotency_key(key)
         sent  == [request[r] EXCEPT !.key = key, !.body = body, !.begun_today = TRUE]
     IN  IF found = {}
         THEN request' = [request EXCEPT ![r] = [sent EXCEPT !.pc = "admitting"]]
         ELSE \E j \in found :
                request' = [request EXCEPT ![r] = replayed(sent, j)]
  /\ UNCHANGED <<jobs, today, tokens, messages, faults>>

\* INCR in Redis: the token is taken even when the limit refuses the request.
allow(r) ==
  /\ At(r, "admitting")
  /\ tokens' = IF tokens > RateLimit THEN tokens ELSE tokens + 1
  /\ IF tokens < RateLimit THEN Goto(r, "counting") ELSE Refuse(r)
  /\ UNCHANGED <<jobs, today, messages, faults>>

\* Mutant: the comparison admits a job beyond the quota.
count_created_today_off_by_one(r) ==
  /\ At(r, "counting")
  /\ IF Cardinality(today) > DailyQuota THEN Refuse(r) ELSE Goto(r, "validating")
  /\ UNCHANGED <<jobs, today, tokens, messages, faults>>

count_created_today(r) ==
  /\ At(r, "counting")
  /\ IF Cardinality(today) >= DailyQuota THEN Refuse(r) ELSE Goto(r, "validating")
  /\ UNCHANGED <<jobs, today, tokens, messages, faults>>

validate(r) ==
  /\ At(r, "validating")
  /\ \E config \in Configs, bucket \in Buckets :
       IF accepts(request[r].body, config, bucket) THEN Goto(r, "inserting") ELSE Refuse(r)
  /\ UNCHANGED <<jobs, today, tokens, messages, faults>>

\* Mutant: jobs has no unique index on the client and the key.
flush_job_unchecked(r) ==
  /\ At(r, "inserting")
  /\ Goto(r, "inserted")
  /\ UNCHANGED <<jobs, today, tokens, messages, faults>>

\* Mutant: the INSERT reserves the place in the quota, and a rollback keeps it.
flush_job_reserves(r) ==
  /\ At(r, "inserting")
  /\ HoldersOfKey(r) = {}
  /\ Goto(r, IF get_by_idempotency_key(request[r].key) = {} THEN "inserted" ELSE "raced")
  /\ today' = today \union {r}
  /\ UNCHANGED <<jobs, tokens, messages, faults>>

\* The INSERT of the jobs row; IntegrityError sends the request to the race.
flush_job(r) ==
  /\ At(r, "inserting")
  /\ HoldersOfKey(r) = {}
  /\ Goto(r, IF get_by_idempotency_key(request[r].key) = {} THEN "inserted" ELSE "raced")
  /\ UNCHANGED <<jobs, today, tokens, messages, faults>>

\* Mutant: assets has no unique index on the storage path.
flush_asset_unchecked(r) ==
  /\ HasAssetLeft(r)
  /\ request' = [request EXCEPT ![r].flushed = @ + 1]
  /\ UNCHANGED <<jobs, today, tokens, messages, faults>>

\* Mutant: a path that is taken is waited for, although nobody will free it.
flush_asset_waits(r) ==
  /\ HasAssetLeft(r)
  /\ HoldersOfPath(r) = {}
  /\ NextPath(r) \notin UNION {PathsOf(j) : j \in jobs}
  /\ request' = [request EXCEPT ![r].flushed = @ + 1]
  /\ UNCHANGED <<jobs, today, tokens, messages, faults>>

\* The INSERT of the next asset; nothing catches its IntegrityError.
flush_asset(r) ==
  /\ HasAssetLeft(r)
  /\ HoldersOfPath(r) = {}
  /\ IF NextPath(r) \in UNION {PathsOf(j) : j \in jobs}
          \union {Assets(r)[i] : i \in 1..request[r].flushed}
     THEN Answer(r, "error", r)
     ELSE request' = [request EXCEPT ![r].flushed = @ + 1]
  /\ UNCHANGED <<jobs, today, tokens, messages, faults>>

commit(r) ==
  /\ At(r, "inserted") /\ ~HasAssetLeft(r)
  /\ Goto(r, "committed")
  /\ jobs' = jobs \union {r}
  /\ today' = IF request[r].begun_today THEN today \union {r} ELSE today
  /\ UNCHANGED <<tokens, messages, faults>>

\* delay(), then the answer.
dispatch(r) ==
  /\ At(r, "committed")
  /\ messages' = [messages EXCEPT ![r] = @ + 1]
  /\ Answer(r, "accepted", r)
  /\ UNCHANGED <<jobs, today, tokens, faults>>

\* Mutant: the loser of the race finds the job of its key and, like the
\* winner, dispatches it.
replay_race_dispatches(r) ==
  /\ At(r, "raced")
  /\ \E j \in get_by_idempotency_key(request[r].key) :
       /\ request' = [request EXCEPT ![r] = replayed(@, j)]
       /\ messages' = [messages EXCEPT ![j] = @ + 1]
  /\ UNCHANGED <<jobs, today, tokens, faults>>

\* The handler would read the job of the key again and answer like a replay.
\* But client belongs to the session that was rolled back, which expired it:
\* client.id must be loaded again, and outside the session's greenlet that
\* raises (MissingGreenlet), so that the request ends in a 500.
replay_race(r) ==
  /\ At(r, "raced")
  /\ Answer(r, "error", r)
  /\ UNCHANGED <<jobs, today, tokens, messages, faults>>

-----------------------------------------------------------------------------
(* The database, the clock and faults.                                     *)

\* PostgreSQL ends one transaction of a cycle of waiting ones.
InCycle(r) ==
  \E S \in SUBSET OpenRequests :
    r \in S /\ S = UNION {WaitsFor(x) : x \in S} /\ \A x \in S : WaitsFor(x) # {}

deadlock_detected(r) ==
  /\ InCycle(r)
  /\ Answer(r, "error", r)
  /\ UNCHANGED <<jobs, today, tokens, messages, faults>>

\* The process dies, or Redis or the broker cannot be reached: what is not
\* committed is rolled back, and a committed job is left without its task.
fault(r) ==
  /\ faults < MaxFaults
  /\ request[r].pc \in Open
  /\ Answer(r, "error", r)
  /\ faults' = faults + 1
  /\ UNCHANGED <<jobs, today, tokens, messages>>

NextMinute ==
  /\ tokens > 0
  /\ tokens' = 0
  /\ UNCHANGED <<request, jobs, today, messages, faults>>

\* created_at is the start of the transaction.
NextDay ==
  /\ today # {}
  /\ today' = {}
  /\ request' = [r \in Requests |-> [request[r] EXCEPT !.begun_today = FALSE]]
  /\ UNCHANGED <<jobs, tokens, messages, faults>>

Init ==
  /\ request = [r \in Requests |->
                  [pc |-> "new", key |-> NoKey, body |-> CHOOSE b \in Bodies : TRUE,
                   flushed |-> 0, begun_today |-> FALSE, code |-> "none", job |-> r]]
  /\ jobs = {} /\ today = {} /\ tokens = 0 /\ faults = 0
  /\ messages = [r \in Requests |-> 0]

Serve(r) ==
  \/ allow(r)
  \/ count_created_today(r)
  \/ validate(r)
  \/ flush_job(r)
  \/ flush_asset(r)
  \/ commit(r)
  \/ dispatch(r)
  \/ replay_race(r)

Next ==
  \/ \E r \in Requests : Serve(r)
  \/ \E r \in Requests, key \in Keys, body \in Bodies : receive(r, key, body)
  \/ \E r \in Requests : deadlock_detected(r)
  \/ \E r \in Requests : fault(r)
  \/ NextMinute
  \/ NextDay

Spec == Init /\ [][Next]_vars

-----------------------------------------------------------------------------
(* Properties.                                                             *)

TypeOK ==
  /\ request \in [Requests -> Request]
  /\ jobs \subseteq Requests /\ today \subseteq jobs
  /\ tokens \in 0..(RateLimit + 1)
  /\ messages \in [Requests -> Nat]
  /\ faults \in 0..MaxFaults

(***************************************************************************)
(* A key creates at most one job, although requests look the key up long   *)
(* before they insert (the flush of job_service.create_*_job_for_request). *)
(***************************************************************************)
OneJobPerKey == \A j, k \in jobs : request[j].key = request[k].key => j = k

(***************************************************************************)
(* An upload belongs to one job: no two jobs own assets of the same path,  *)
(* so that retention never deletes bytes another job still needs (the      *)
(* unguarded flush of the assets).                                         *)
(***************************************************************************)
OneOwnerPerUpload == \A j, k \in jobs : PathsOf(j) \intersect PathsOf(k) # {} => j = k

(***************************************************************************)
(* The first task of a job is published once and only once the job is      *)
(* committed; it is missing only while its creator has yet to publish it,  *)
(* or after a fault.  Replays and lost races publish nothing.              *)
(***************************************************************************)
DispatchedOnce ==
  \A r \in Requests :
    /\ messages[r] <= 1
    /\ messages[r] = 1 => r \in jobs
    /\ r \in jobs => messages[r] = 1 \/ At(r, "committed") \/ faults > 0

(***************************************************************************)
(* The quota is counted before the job is inserted, so concurrent requests *)
(* pass it together; they exceed it by less than the requests the API      *)
(* serves at a time (count_created_today against create_job).              *)
(***************************************************************************)
QuotaOvershoot == Cardinality(today) <= DailyQuota + MaxOpen - 1

\* The entries of a plan or of the rows of a job, by angle or else by place.
Listed(body, statuses) ==
  {<<IF body.operation = "ANGLE_GENERATION" THEN body.angles[i].angle ELSE i, statuses[i]>> :
     i \in DOMAIN statuses}

\* The plan of the answer to body lists the rows of a job created from created_for.
PlanDescribes(body, created_for) ==
  LET plan == build_accepted_response(body)
      job  == NewJob(created_for)
  IN  /\ body.operation = created_for.operation
      /\ Cardinality({i \in DOMAIN plan : plan[i] # "SKIPPED"}) = job.requested
      /\ body.operation # "GENERATE_WITH_CLEANUP"
           => Listed(body, plan) = Listed(created_for, job.sub_jobs)

(***************************************************************************)
(* The plan of a 202 answer, made from the body of the request, lists the  *)
(* rows of the job the answer names, whoever created it and in whatever    *)
(* order its body had the angles (build_accepted_response, _payload_hash). *)
(***************************************************************************)
AnswerDescribesJob ==
  \A r \in Requests : request[r].code = "accepted" =>
    LET job == request[request[r].job]
    IN  job.key = request[r].key /\ PlanDescribes(request[r].body, job.body)

(***************************************************************************)
(* Requests wait for one another's index entries (MIX and angle jobs       *)
(* insert several paths), but not for ever: of the requests that wait only *)
(* for each other, one can proceed or is ended by the database.            *)
(***************************************************************************)
WaitingEnds ==
  \A S \in SUBSET OpenRequests :
    S # {} /\ UNION {WaitsFor(r) : r \in S} \subseteq S
      => \E r \in S : ENABLED (Serve(r) \/ deadlock_detected(r))

hash(r) == payload_hash(request[r].body)
created == {[key |-> request[j].key, body |-> hash(j), job |-> j] : j \in jobs}
answer ==
  [r \in Requests |->
     LET sent == [key |-> request[r].key, body |-> hash(r), code |-> request[r].code]
     IN  IF At(r, "new") THEN [code |-> "unsent"]
         ELSE IF ~At(r, "done") THEN [key |-> sent.key, body |-> sent.body, code |-> "waiting"]
         ELSE IF request[r].code = "accepted"
              THEN [key |-> sent.key, body |-> sent.body, code |-> "accepted",
                    job |-> request[r].job]
              ELSE sent]

Promise == INSTANCE IdempotentCreation WITH Bodies <- {payload_hash(b) : b \in Bodies}

(***************************************************************************)
(* The requests implement the promise of the Idempotency-Key: one job per  *)
(* key; a repeated request is answered with the job its key and body       *)
(* created, or told of a conflict if another body used the key, and the    *)
(* rate limit, the quota and the validation never refuse it; a request     *)
(* that found its key free and lost the race for it ends in an error       *)
(* (receive before allow, replay_race).                                    *)
(***************************************************************************)
ImplementsIdempotentCreation == Promise!Spec
=============================================================================
