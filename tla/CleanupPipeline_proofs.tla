------------------------ MODULE CleanupPipeline_proofs ------------------------
(***************************************************************************)
(* Theorems about CleanupPipeline, for any angles, pool and requests, any  *)
(* number of faults and every activity of the environment, but where a     *)
(* theorem says otherwise.                                                 *)
(***************************************************************************)
EXTENDS CleanupPipeline, SubJobRows_proofs, FiniteSetTheorems

(***************************************************************************)
(* The inductive invariant.  existing is the set of sub-jobs that have a   *)
(* row: angles appear together, in the commit of the cleanup's success,    *)
(* and until then neither the job nor any session calls the job delivered, *)
(* nor the cleanup completed, unless it is about to insert the angles.     *)
(***************************************************************************)
Delivered == {"COMPLETED", "PARTIAL_SUCCESS"}

Record(pc, kind, loaded, next, old, new, todo) ==
  [pc |-> pc, kind |-> kind, loaded |-> loaded, next |-> next, job |-> old, nextJob |-> new,
   todo |-> todo]

IsRecord(r) == r = Record(r.pc, r.kind, r.loaded, r.next, r.job, r.nextJob, r.todo)

CleanupFine(rows, existing) ==
  Cleanup \in DOMAIN rows /\ rows[Cleanup].status \in {"COMPLETED", "SKIPPED"}
    => Angles \subseteq existing

SessionOK(v, existing) ==
  /\ IsRecord(v) /\ IsSession(v)
  /\ DOMAIN v.loaded \subseteq existing
  /\ CleanupFine(v.loaded, existing)
  /\ CleanupFine(v.next, existing \union DOMAIN v.next)
  /\ v.nextJob.status \in Delivered => Angles \subseteq existing \union DOMAIN v.next
  /\ v.pc = "flushed" /\ v.todo # {} =>
       /\ v.todo = Angles /\ Angles \intersect existing = {}
       /\ {Cleanup} \union Angles \subseteq DOMAIN v.next
  /\ DOMAIN v.next \subseteq existing \/ (v.pc = "flushed" /\ v.todo # {})

RowsOK ==
  /\ IsRows(sub) /\ Cleanup \in Existing /\ CleanupFine(sub, Existing)
  /\ Angles \subseteq Existing \/ Angles \intersect Existing = {}
  /\ job \in JobRow
  /\ job.status \in Delivered => Angles \subseteq Existing

OthersOK ==
  /\ queue \in [SubJobs -> Nat]
  /\ faults \in 0..MaxFaults
  /\ overtaken \subseteq SubJobs

SessionsOK ==
  /\ DOMAIN session = Sessions
  /\ \A x \in Sessions : SessionOK(session[x], Existing)
  /\ \A x, y \in Sessions :
       session[x].pc = "flushed" /\ session[y].pc = "flushed" /\ x # y
         => DOMAIN session[x].next \intersect DOMAIN session[y].next = {}

PhaseInv == RowsOK /\ OthersOK /\ SessionsOK

-----------------------------------------------------------------------------
(* Rows and records.                                                       *)

LEMMA NewRows ==
  /\ NewSubJob \in SubJobRow /\ NewJob \in JobRow /\ NewJob.status = "PENDING"
  /\ IsRows(NoRows) /\ DOMAIN NoRows = {}
  /\ Idle = Record("idle", "none", NoRows, NoRows, NewJob, NewJob, {})
<1>1. NewSubJob \in SubJobRow
  BY AttemptsAssumption DEF NewSubJob, SubJobRow, SubJobStatus, FailureClass, QAStatus
<1>2. NewJob \in JobRow /\ NewJob.status = "PENDING"
  BY DEF NewJob, JobRow, JobStatus
<1> QED
  BY <1>1, <1>2 DEF NoRows, IsRows, Idle, Record

LEMMA Fields ==
  ASSUME NEW pc, NEW kind, NEW loaded, NEW next, NEW old, NEW new, NEW todo
  PROVE  LET v == Record(pc, kind, loaded, next, old, new, todo)
         IN  /\ v.pc = pc /\ v.kind = kind /\ v.loaded = loaded /\ v.next = next
             /\ v.job = old /\ v.nextJob = new /\ v.todo = todo
BY DEF Record

\* The records of the changes that the actions make to a session.
Only(pc, kind, loaded, next, old, new, todo) ==
  [pc : {pc}, kind : {kind}, loaded : {loaded}, next : {next}, job : {old}, nextJob : {new},
   todo : {todo}]

LEMMA RecordOnly ==
  ASSUME NEW pc, NEW kind, NEW loaded, NEW next, NEW old, NEW new, NEW todo
  PROVE  /\ Record(pc, kind, loaded, next, old, new, todo)
              \in Only(pc, kind, loaded, next, old, new, todo)
         /\ \A v \in Only(pc, kind, loaded, next, old, new, todo) :
              v = Record(pc, kind, loaded, next, old, new, todo)
BY DEF Record, Only

Planned(r, next, new, todo) ==
  [r EXCEPT !.next = next, !.nextJob = new, !.todo = todo]

PlannedRows(r, next, new) ==
  [r EXCEPT !.next = next, !.nextJob = new]

PlannedNext(r, next) ==
  [r EXCEPT !.next = next]

Dispatched(r, todo) ==
  [r EXCEPT !.todo = todo]

Published(r, pc, kind, todo) ==
  [r EXCEPT !.pc = pc, !.kind = kind, !.todo = todo]

Flushed(r, pc, next, todo, loaded, new) ==
  [r EXCEPT !.pc = pc, !.next = next, !.todo = todo, !.loaded = loaded, !.nextJob = new]

Kept(r, pc, kind, loaded, todo) ==
  [r EXCEPT !.pc = pc, !.kind = kind, !.loaded = loaded, !.todo = todo]

Started(r, kind, loaded, next, old) ==
  [r EXCEPT !.kind = kind, !.loaded = loaded, !.next = next, !.job = old]

Begun(r, pc, kind, loaded, old, new) ==
  [r EXCEPT !.pc = pc, !.kind = kind, !.loaded = loaded, !.job = old, !.nextJob = new]

LEMMA PlannedRecord ==
  ASSUME NEW r, IsRecord(r), NEW next, NEW new, NEW todo
  PROVE  Planned(r, next, new, todo)
           = Record(r.pc, r.kind, r.loaded, next, r.job, new, todo)
<1> DEFINE v == Planned(r, next, new, todo)
<1>1. r \in Only(r.pc, r.kind, r.loaded, r.next, r.job, r.nextJob, r.todo)
  BY RecordOnly DEF IsRecord
<1>2. v \in Only(r.pc, r.kind, r.loaded, next, r.job, new, todo)
  BY <1>1 DEF Only, Planned
<1> HIDE DEF v
<1> QED
  BY <1>2, RecordOnly DEF v

LEMMA PlannedRowsRecord ==
  ASSUME NEW r, IsRecord(r), NEW next, NEW new
  PROVE  PlannedRows(r, next, new)
           = Record(r.pc, r.kind, r.loaded, next, r.job, new, r.todo)
<1> DEFINE v == PlannedRows(r, next, new)
<1>1. r \in Only(r.pc, r.kind, r.loaded, r.next, r.job, r.nextJob, r.todo)
  BY RecordOnly DEF IsRecord
<1>2. v \in Only(r.pc, r.kind, r.loaded, next, r.job, new, r.todo)
  BY <1>1 DEF Only, PlannedRows
<1> HIDE DEF v
<1> QED
  BY <1>2, RecordOnly DEF v

LEMMA PlannedNextRecord ==
  ASSUME NEW r, IsRecord(r), NEW next
  PROVE  PlannedNext(r, next)
           = Record(r.pc, r.kind, r.loaded, next, r.job, r.nextJob, r.todo)
<1> DEFINE v == PlannedNext(r, next)
<1>1. r \in Only(r.pc, r.kind, r.loaded, r.next, r.job, r.nextJob, r.todo)
  BY RecordOnly DEF IsRecord
<1>2. v \in Only(r.pc, r.kind, r.loaded, next, r.job, r.nextJob, r.todo)
  BY <1>1 DEF Only, PlannedNext
<1> HIDE DEF v
<1> QED
  BY <1>2, RecordOnly DEF v

LEMMA DispatchedRecord ==
  ASSUME NEW r, IsRecord(r), NEW todo
  PROVE  Dispatched(r, todo)
           = Record(r.pc, r.kind, r.loaded, r.next, r.job, r.nextJob, todo)
<1> DEFINE v == Dispatched(r, todo)
<1>1. r \in Only(r.pc, r.kind, r.loaded, r.next, r.job, r.nextJob, r.todo)
  BY RecordOnly DEF IsRecord
<1>2. v \in Only(r.pc, r.kind, r.loaded, r.next, r.job, r.nextJob, todo)
  BY <1>1 DEF Only, Dispatched
<1> HIDE DEF v
<1> QED
  BY <1>2, RecordOnly DEF v

LEMMA PublishedRecord ==
  ASSUME NEW r, IsRecord(r), NEW pc, NEW kind, NEW todo
  PROVE  Published(r, pc, kind, todo)
           = Record(pc, kind, r.loaded, r.next, r.job, r.nextJob, todo)
<1> DEFINE v == Published(r, pc, kind, todo)
<1>1. r \in Only(r.pc, r.kind, r.loaded, r.next, r.job, r.nextJob, r.todo)
  BY RecordOnly DEF IsRecord
<1>2. v \in Only(pc, kind, r.loaded, r.next, r.job, r.nextJob, todo)
  BY <1>1 DEF Only, Published
<1> HIDE DEF v
<1> QED
  BY <1>2, RecordOnly DEF v

LEMMA FlushedRecord ==
  ASSUME NEW r, IsRecord(r), NEW pc, NEW next, NEW todo, NEW loaded, NEW new
  PROVE  Flushed(r, pc, next, todo, loaded, new)
           = Record(pc, r.kind, loaded, next, r.job, new, todo)
<1> DEFINE v == Flushed(r, pc, next, todo, loaded, new)
<1>1. r \in Only(r.pc, r.kind, r.loaded, r.next, r.job, r.nextJob, r.todo)
  BY RecordOnly DEF IsRecord
<1>2. v \in Only(pc, r.kind, loaded, next, r.job, new, todo)
  BY <1>1 DEF Only, Flushed
<1> HIDE DEF v
<1> QED
  BY <1>2, RecordOnly DEF v

LEMMA KeptRecord ==
  ASSUME NEW r, IsRecord(r), NEW pc, NEW kind, NEW loaded, NEW todo
  PROVE  Kept(r, pc, kind, loaded, todo)
           = Record(pc, kind, loaded, r.next, r.job, r.nextJob, todo)
<1> DEFINE v == Kept(r, pc, kind, loaded, todo)
<1>1. r \in Only(r.pc, r.kind, r.loaded, r.next, r.job, r.nextJob, r.todo)
  BY RecordOnly DEF IsRecord
<1>2. v \in Only(pc, kind, loaded, r.next, r.job, r.nextJob, todo)
  BY <1>1 DEF Only, Kept
<1> HIDE DEF v
<1> QED
  BY <1>2, RecordOnly DEF v

LEMMA StartedRecord ==
  ASSUME NEW r, IsRecord(r), NEW kind, NEW loaded, NEW next, NEW old
  PROVE  Started(r, kind, loaded, next, old)
           = Record(r.pc, kind, loaded, next, old, r.nextJob, r.todo)
<1> DEFINE v == Started(r, kind, loaded, next, old)
<1>1. r \in Only(r.pc, r.kind, r.loaded, r.next, r.job, r.nextJob, r.todo)
  BY RecordOnly DEF IsRecord
<1>2. v \in Only(r.pc, kind, loaded, next, old, r.nextJob, r.todo)
  BY <1>1 DEF Only, Started
<1> HIDE DEF v
<1> QED
  BY <1>2, RecordOnly DEF v

LEMMA BegunRecord ==
  ASSUME NEW r, IsRecord(r), NEW pc, NEW kind, NEW loaded, NEW old, NEW new
  PROVE  Begun(r, pc, kind, loaded, old, new)
           = Record(pc, kind, loaded, r.next, old, new, r.todo)
<1> DEFINE v == Begun(r, pc, kind, loaded, old, new)
<1>1. r \in Only(r.pc, r.kind, r.loaded, r.next, r.job, r.nextJob, r.todo)
  BY RecordOnly DEF IsRecord
<1>2. v \in Only(pc, kind, loaded, r.next, old, new, r.todo)
  BY <1>1 DEF Only, Begun
<1> HIDE DEF v
<1> QED
  BY <1>2, RecordOnly DEF v

\* What makes a session in order, for a record given by its fields.
LEMMA RecordOK ==
  ASSUME NEW pc \in {"idle", "loaded", "flushed", "publish"}, NEW kind \in SessionKind,
         NEW loaded, IsRows(loaded), NEW next, IsRows(next), NEW old \in JobRow,
         NEW new \in JobRow, NEW todo \in SUBSET SubJobs, NEW E,
         DOMAIN loaded \subseteq E, CleanupFine(loaded, E),
         CleanupFine(next, E \union DOMAIN next),
         new.status \in Delivered => Angles \subseteq E \union DOMAIN next,
         pc = "flushed" /\ todo # {} =>
           /\ todo = Angles /\ Angles \intersect E = {}
           /\ {Cleanup} \union Angles \subseteq DOMAIN next,
         DOMAIN next \subseteq E \/ (pc = "flushed" /\ todo # {})
  PROVE  SessionOK(Record(pc, kind, loaded, next, old, new, todo), E)
<1> DEFINE v == Record(pc, kind, loaded, next, old, new, todo)
<1>1. /\ v.pc = pc /\ v.kind = kind /\ v.loaded = loaded /\ v.next = next
      /\ v.job = old /\ v.nextJob = new /\ v.todo = todo
  BY Fields
<1>2. IsRecord(v)
  BY <1>1 DEF IsRecord
<1> HIDE DEF v
<1>3. IsSession(v)
  BY <1>1 DEF IsSession
<1> QED
  BY <1>1, <1>2, <1>3 DEF SessionOK, v

LEMMA IdleOK ==
  ASSUME NEW E
  PROVE  SessionOK(Idle, E) /\ Idle.pc = "idle" /\ Idle.next = NoRows /\ Idle.todo = {}
<1>1. SessionOK(Record("idle", "none", NoRows, NoRows, NewJob, NewJob, {}), E)
  <2>1. CleanupFine(NoRows, E) /\ CleanupFine(NoRows, E \union DOMAIN NoRows)
    BY NewRows DEF CleanupFine
  <2> QED
    BY <2>1, NewRows, RecordOK DEF SessionKind, Delivered
<1> QED
  BY <1>1, NewRows, Fields

\* What a recompute assigns, and that a failed or unfinished cleanup, while it
\* is all the job has, does not make it delivered.
LEMMA RollupResult ==
  ASSUME NEW D \in SUBSET SubJobs, NEW st \in [D -> SubJobStatus]
  PROVE  /\ Rollup(st, {Cleanup}) \in JobRow
         /\ D = {Cleanup} /\ st[Cleanup] \notin {"COMPLETED", "SKIPPED"}
              => Rollup(st, {Cleanup}).status \notin Delivered
<1> DEFINE C == Counted(st, {Cleanup})
           S == Succeeded(st, {Cleanup})
           F == Failed(st, {Cleanup})
<1>1. IsFiniteSet(SubJobs)
  BY AnglesAssumption, FS_Singleton, FS_Union DEF SubJobs
<1>2. C \subseteq SubJobs /\ S \subseteq SubJobs /\ F \subseteq SubJobs
  BY DEF Counted, Succeeded, Failed
<1>3. Cardinality(C) \in Nat /\ Cardinality(S) \in Nat /\ Cardinality(F) \in Nat
  BY <1>1, <1>2, FS_Subset, FS_CardinalityType
<1>4. compute_parent_status(Cardinality(C), Cardinality(S), Cardinality(F)) \in JobStatus
  BY DEF compute_parent_status, JobStatus
<1>5. Rollup(st, {Cleanup}) \in JobRow
  BY <1>3, <1>4 DEF Rollup, JobRow
<1>6. ASSUME D = {Cleanup}, st[Cleanup] \notin {"COMPLETED", "SKIPPED"}
      PROVE  Rollup(st, {Cleanup}).status \notin Delivered
  <2>1. C = {Cleanup} /\ S = {} /\ (F = {} \/ F = {Cleanup})
    BY <1>6 DEF Counted, Succeeded, Failed
  <2>2. Cardinality(C) = 1 /\ Cardinality(S) = 0 /\ Cardinality(F) \in {0, 1}
    BY <2>1, FS_EmptySet, FS_Singleton
  <2>3. compute_parent_status(Cardinality(C), Cardinality(S), Cardinality(F))
          \in {"PROCESSING", "FAILED"}
    BY <2>2 DEF compute_parent_status
  <2> QED
    BY <2>3 DEF Rollup, Delivered
<1> QED
  BY <1>5, <1>6

-----------------------------------------------------------------------------
(* The shapes of a step.                                                   *)

\* A session goes on as v, and no row changes.
LEMMA SessionStepOK ==
  ASSUME PhaseInv, NEW x \in Sessions, NEW v, session' = [session EXCEPT ![x] = v],
         UNCHANGED <<sub, job>>, OthersOK', SessionOK(v, Existing),
         v.pc = "flushed" => DOMAIN v.next \intersect LockedByOthers(x) = {}
  PROVE  PhaseInv'
<1>1. /\ session'[x] = v /\ \A y \in Sessions \ {x} : session'[y] = session[y]
      /\ DOMAIN session' = Sessions
  BY DEF PhaseInv, SessionsOK
<1>2. \A y \in Sessions : SessionOK(session'[y], Existing')
  BY <1>1 DEF PhaseInv, SessionsOK, Existing
<1>3. \A y \in Sessions \ {x} : v.pc = "flushed" /\ session[y].pc = "flushed"
        => DOMAIN v.next \intersect DOMAIN session[y].next = {}
  BY DEF LockedByOthers
<1>4. \A y, z \in Sessions : session'[y].pc = "flushed" /\ session'[z].pc = "flushed" /\ y # z
        => DOMAIN session'[y].next \intersect DOMAIN session'[z].next = {}
  <2> SUFFICES ASSUME NEW y \in Sessions, NEW z \in Sessions, session'[y].pc = "flushed",
                      session'[z].pc = "flushed", y # z
               PROVE  DOMAIN session'[y].next \intersect DOMAIN session'[z].next = {}
    OBVIOUS
  <2>1. CASE y # x /\ z # x
    BY <1>1, <2>1 DEF PhaseInv, SessionsOK
  <2>2. CASE y = x
    BY <1>1, <1>3, <2>2
  <2>3. CASE z = x
    BY <1>1, <1>3, <2>3
  <2> QED
    BY <2>1, <2>2, <2>3
<1>5. RowsOK'
  BY DEF PhaseInv, RowsOK, Existing
<1> QED
  BY <1>1, <1>2, <1>4, <1>5 DEF PhaseInv, SessionsOK

\* A session ends, or loses what it was doing.
LEMMA SessionEndOK ==
  ASSUME PhaseInv, NEW x \in Sessions, session' = [session EXCEPT ![x] = Idle],
         UNCHANGED <<sub, job>>, OthersOK'
  PROVE  PhaseInv'
<1> DEFINE v == Idle
<1>1. SessionOK(v, Existing) /\ v.pc # "flushed"
  BY IdleOK
<1> HIDE DEF v
<1>2. session' = [session EXCEPT ![x] = v]
  BY DEF v
<1> QED
  BY <1>1, <1>2, SessionStepOK

\* A session that has read the rows of S and plans to write next.
LEMMA BeginOK ==
  ASSUME PhaseInv, NEW kind \in SessionKind, NEW S, S \subseteq Existing,
         NEW next, IsRows(next), DOMAIN next \subseteq Existing, CleanupFine(next, Existing),
         NEW new \in JobRow, new.status \in Delivered => job.status \in Delivered,
         NEW todo \in SUBSET SubJobs
  PROVE  SessionOK(Record("loaded", kind, [s \in S |-> sub[s]], next, job, new, todo), Existing)
<1> DEFINE loaded == [s \in S |-> sub[s]]
<1>1. IsRows(loaded) /\ CleanupFine(loaded, Existing) /\ DOMAIN loaded \subseteq Existing
  <2>1. /\ Existing \subseteq SubJobs /\ DOMAIN loaded = S
        /\ \A s \in S : loaded[s] = sub[s] /\ sub[s] \in SubJobRow
    BY DEF PhaseInv, RowsOK, IsRows, Existing
  <2>2. CleanupFine(loaded, Existing)
    BY <2>1 DEF PhaseInv, RowsOK, CleanupFine, Existing
  <2> QED
    BY <2>1, <2>2 DEF IsRows
<1>2. Existing \union DOMAIN next = Existing
  OBVIOUS
<1>3. job \in JobRow /\ (new.status \in Delivered => Angles \subseteq Existing)
  BY DEF PhaseInv, RowsOK
<1> HIDE DEF loaded
<1>4. SessionOK(Record("loaded", kind, loaded, next, job, new, todo), Existing)
  BY <1>1, <1>2, <1>3, RecordOK
<1> QED
  BY <1>4 DEF loaded

LEMMA BeginRecord ==
  ASSUME NEW kind, NEW S
  PROVE  Begin(kind, S) = Record("loaded", kind, [s \in S |-> sub[s]], NoRows, job, job, {})
<1> DEFINE rows == [s \in S |-> sub[s]]
           pc == "loaded"
<1>1. IsRecord(Idle) /\ Idle.next = NoRows /\ Idle.todo = {}
  BY NewRows, Fields DEF IsRecord
<1>2. Begin(kind, S) = Begun(Idle, pc, kind, rows, job, job)
  BY DEF Begin, Begun
<1> HIDE DEF rows, pc
<1>3. Begin(kind, S) = Record(pc, kind, rows, NoRows, job, job, {})
  BY <1>1, <1>2, BegunRecord
<1> QED
  BY <1>3 DEF rows, pc

LEMMA BeginPlan ==
  ASSUME NEW kind, NEW S, NEW next, NEW new, NEW todo
  PROVE  LET rows == [s \in S |-> sub[s]]
         IN  /\ Planned(Begin(kind, S), next, new, todo)
                  = Record("loaded", kind, rows, next, job, new, todo)
             /\ PlannedRows(Begin(kind, S), next, new)
                  = Record("loaded", kind, rows, next, job, new, {})
             /\ PlannedNext(Begin(kind, S), next)
                  = Record("loaded", kind, rows, next, job, job, {})
<1> DEFINE rows == [s \in S |-> sub[s]]
           b == Begin(kind, S)
<1>1. b = Record("loaded", kind, rows, NoRows, job, job, {})
  BY BeginRecord
<1> HIDE DEF rows, b
<1>2. /\ b.pc = "loaded" /\ b.kind = kind /\ b.loaded = rows /\ b.next = NoRows
      /\ b.job = job /\ b.nextJob = job /\ b.todo = {}
  BY <1>1, Fields
<1>3. IsRecord(b)
  BY <1>1, <1>2 DEF IsRecord
<1>4. /\ Planned(b, next, new, todo) = Record("loaded", kind, rows, next, job, new, todo)
      /\ PlannedRows(b, next, new) = Record("loaded", kind, rows, next, job, new, {})
      /\ PlannedNext(b, next) = Record("loaded", kind, rows, next, job, job, {})
  BY <1>2, <1>3, PlannedRecord, PlannedRowsRecord, PlannedNextRecord
<1> QED
  BY <1>4 DEF b, rows

\* The rows after the commit of session x.
LEMMA WriteRowsOK ==
  ASSUME PhaseInv, NEW x \in Sessions, WriteRows(x)
  PROVE  /\ Existing' = Existing \union DOMAIN session[x].next
         /\ IsRows(sub') /\ CleanupFine(sub', Existing')
<1> DEFINE next == session[x].next
           loaded == session[x].loaded
           E == Existing \union DOMAIN next
           new(s) == IF s \notin DOMAIN next THEN sub[s]
                     ELSE IF s \in DOMAIN loaded THEN WrittenRow(sub[s], loaded[s], next[s])
                     ELSE next[s]
<1>1. sub' = [s \in E |-> new(s)]
  BY DEF WriteRows
<1>2. /\ IsRows(next) /\ IsRows(sub) /\ CleanupFine(sub, Existing) /\ CleanupFine(next, E)
      /\ DOMAIN loaded \subseteq Existing /\ Cleanup \in Existing
  BY DEF PhaseInv, RowsOK, SessionsOK, SessionOK, IsSession
<1>3. /\ E \subseteq SubJobs /\ \A s \in Existing : sub[s] \in SubJobRow
      /\ \A s \in DOMAIN next : next[s] \in SubJobRow
  BY <1>2 DEF IsRows, Existing
<1>4. ASSUME NEW s \in E
      PROVE  /\ new(s) \in SubJobRow
             /\ \/ s \in DOMAIN next /\ new(s).status = next[s].status
                \/ s \in Existing /\ new(s).status = sub[s].status
  <2>1. CASE s \notin DOMAIN next
    BY <1>3, <2>1
  <2>2. CASE s \in DOMAIN next /\ s \in DOMAIN loaded
    <3>1. sub[s] \in SubJobRow /\ next[s] \in SubJobRow
      BY <1>2, <1>3, <2>2
    <3>2. WrittenRow(sub[s], loaded[s], next[s]) \in SubJobRow
      BY <3>1, WrittenRowType
    <3>3. WrittenRow(sub[s], loaded[s], next[s]).status \in {next[s].status, sub[s].status}
      BY DEF WrittenRow, Dirty
    <3> QED
      BY <1>2, <2>2, <3>2, <3>3
  <2>3. CASE s \in DOMAIN next /\ s \notin DOMAIN loaded
    BY <1>3, <2>3
  <2> QED
    BY <2>1, <2>2, <2>3
<1> HIDE DEF new
<1>5. DOMAIN sub' = E /\ \A s \in E : sub'[s] = new(s)
  BY <1>1
<1>6. IsRows(sub')
  BY <1>1, <1>3, <1>4, <1>5 DEF IsRows
<1>7. CleanupFine(sub', E)
  <2> SUFFICES ASSUME sub'[Cleanup].status \in {"COMPLETED", "SKIPPED"}
               PROVE  Angles \subseteq E
    BY DEF CleanupFine
  <2>1. Cleanup \in E /\ E \union DOMAIN next = E /\ Existing \subseteq E
    BY <1>2
  <2>2. \/ Cleanup \in DOMAIN next /\ sub'[Cleanup].status = next[Cleanup].status
        \/ Cleanup \in Existing /\ sub'[Cleanup].status = sub[Cleanup].status
    BY <1>4, <1>5, <2>1
  <2> QED
    BY <1>2, <2>1, <2>2 DEF CleanupFine, Existing
<1> QED
  BY <1>5, <1>6, <1>7 DEF Existing

\* The commit of session x, which goes on as v.
LEMMA CommitOK ==
  ASSUME PhaseInv, NEW x \in Sessions, WriteRows(x),
         DOMAIN session[x].next \intersect LockedByOthers(x) = {},
         job' \in JobRow, job'.status \in {job.status, session[x].nextJob.status},
         NEW v, session' = [session EXCEPT ![x] = v], v.pc # "flushed",
         SessionOK(v, Existing'), OthersOK'
  PROVE  PhaseInv'
<1> DEFINE u == session[x]
           E == Existing \union DOMAIN u.next
<1>1. Existing' = E /\ IsRows(sub') /\ CleanupFine(sub', E)
  BY WriteRowsOK
<1>2. /\ session'[x] = v /\ \A y \in Sessions \ {x} : session'[y] = session[y]
      /\ DOMAIN session' = Sessions
  BY DEF PhaseInv, SessionsOK
<1>3. SessionOK(u, Existing)
  BY DEF PhaseInv, SessionsOK
<1>4. /\ Angles \subseteq E \/ Angles \intersect E = {}
      /\ DOMAIN u.next \subseteq SubJobs
  BY <1>3 DEF PhaseInv, RowsOK, SessionOK, IsSession, IsRows
<1>5. job'.status \in Delivered => Angles \subseteq E
  BY <1>3 DEF PhaseInv, RowsOK, SessionOK
<1>6. RowsOK'
  BY <1>1, <1>4, <1>5 DEF PhaseInv, RowsOK
<1>7. ASSUME NEW y \in Sessions \ {x}
      PROVE  SessionOK(session[y], E)
  <2> DEFINE w == session[y]
  <2>1. SessionOK(w, Existing)
    BY DEF PhaseInv, SessionsOK
  <2>2. CASE E = Existing
    BY <2>1, <2>2
  <2>3. CASE E # Existing
    <3>1. Cleanup \in DOMAIN u.next
      BY <1>3, <2>3 DEF SessionOK
    <3>2. ~(w.pc = "flushed" /\ Cleanup \in DOMAIN w.next)
      BY <3>1 DEF LockedByOthers
    <3>3. ~(w.pc = "flushed" /\ w.todo # {}) /\ Existing \subseteq E
      BY <2>1, <3>2 DEF SessionOK
    <3> HIDE DEF w, E
    <3>4. DOMAIN w.next \subseteq E /\ DOMAIN w.loaded \subseteq E
      BY <2>1, <3>3 DEF SessionOK
    <3>5. CleanupFine(w.loaded, E) /\ CleanupFine(w.next, E \union DOMAIN w.next)
      BY <2>1, <3>3 DEF SessionOK, CleanupFine
    <3>6. w.nextJob.status \in Delivered => Angles \subseteq E \union DOMAIN w.next
      BY <2>1, <3>3 DEF SessionOK
    <3> QED
      BY <2>1, <3>3, <3>4, <3>5, <3>6 DEF SessionOK, w
  <2> QED
    BY <2>2, <2>3
<1>8. \A y \in Sessions : SessionOK(session'[y], E)
  BY <1>1, <1>2, <1>7
<1>9. \A y, z \in Sessions : session'[y].pc = "flushed" /\ session'[z].pc = "flushed" /\ y # z
        => DOMAIN session'[y].next \intersect DOMAIN session'[z].next = {}
  BY <1>2 DEF PhaseInv, SessionsOK
<1> QED
  BY <1>1, <1>2, <1>6, <1>8, <1>9 DEF PhaseInv, SessionsOK

-----------------------------------------------------------------------------
(* The steps of Next.                                                      *)

LEMMA BeginStepOK ==
  ASSUME PhaseInv, NEW x \in Sessions, NEW kind \in SessionKind, NEW S, S \subseteq Existing,
         NEW next, IsRows(next), DOMAIN next \subseteq Existing, CleanupFine(next, Existing),
         NEW new \in JobRow, new.status \in Delivered => job.status \in Delivered,
         NEW todo \in SUBSET SubJobs,
         session' = [session EXCEPT ![x] =
                       Record("loaded", kind, [s \in S |-> sub[s]], next, job, new, todo)],
         UNCHANGED <<sub, job>>, OthersOK'
  PROVE  PhaseInv'
<1> DEFINE v == Record("loaded", kind, [s \in S |-> sub[s]], next, job, new, todo)
<1>1. SessionOK(v, Existing)
  BY BeginOK
<1>2. v.pc = "loaded" /\ session' = [session EXCEPT ![x] = v]
  BY Fields
<1> HIDE DEF v
<1> QED
  BY <1>1, <1>2, SessionStepOK

\* A single row to write, that is not a cleanup's success.
LEMMA OneRow ==
  ASSUME NEW s \in SubJobs, NEW row \in SubJobRow, row.status \notin {"COMPLETED", "SKIPPED"},
         NEW E
  PROVE  /\ IsRows([t \in {s} |-> row]) /\ DOMAIN [t \in {s} |-> row] = {s}
         /\ CleanupFine([t \in {s} |-> row], E)
BY DEF IsRows, CleanupFine

LEMMA StoredRow ==
  ASSUME PhaseInv, NEW s \in Existing
  PROVE  s \in SubJobs /\ sub[s] \in SubJobRow
BY DEF PhaseInv, RowsOK, IsRows, Existing

LEMMA StartOK ==
  ASSUME PhaseInv, NEW w \in Workers, NEW s \in Existing, start_task(w, s)
  PROVE  PhaseInv'
<1> DEFINE row == [sub[s] EXCEPT !.status = "GENERATING"]
           next == [t \in {s} |-> row]
           new == IF s = Cleanup /\ job.status = "PENDING"
                  THEN [job EXCEPT !.status = "PROCESSING"] ELSE job
           kind == "start"
<1>1. w \in Sessions /\ s \in SubJobs /\ job \in JobRow /\ sub[s] \in SubJobRow
  BY StoredRow DEF Sessions, PhaseInv, RowsOK
<1>2. row \in SubJobRow /\ row.status = "GENERATING"
  BY <1>1 DEF SubJobRow, SubJobStatus
<1>3. new \in JobRow /\ (new.status \in Delivered => job.status \in Delivered)
  BY <1>1 DEF JobRow, JobStatus, Delivered
<1>4. session' = [session EXCEPT ![w] =
                    Record("loaded", kind, [t \in {s} |-> sub[t]], next, job, new, {})]
  <2>1. next = [t \in {s} |-> [sub[t] EXCEPT !.status = "GENERATING"]]
    OBVIOUS
  <2> HIDE DEF next
  <2>2. session' = [session EXCEPT ![w] =
                      PlannedRows(Begin(kind, {s}), next, new)]
    BY <2>1 DEF start_task, PlannedRows
  <2> HIDE DEF new
  <2>3. PlannedRows(Begin(kind, {s}), next, new)
          = Record("loaded", kind, [t \in {s} |-> sub[t]], next, job, new, {})
    BY BeginPlan
  <2> QED
    BY <2>2, <2>3
<1>5. OthersOK' /\ UNCHANGED <<sub, job>>
  <2>1. queue' \in [SubJobs -> Nat]
    BY <1>1 DEF start_task, PhaseInv, OthersOK
  <2> QED
    BY <2>1 DEF start_task, PhaseInv, OthersOK
<1>6. IsRows(next) /\ DOMAIN next \subseteq Existing /\ CleanupFine(next, Existing)
  <2> HIDE DEF row
  <2> QED
    BY <1>1, <1>2, OneRow
<1>7. kind \in SessionKind /\ {s} \subseteq Existing /\ {} \in SUBSET SubJobs
  BY DEF SessionKind
<1> HIDE DEF next, new, kind
<1> QED
  BY <1>1, <1>3, <1>4, <1>5, <1>6, <1>7, BeginStepOK

\* What session x sees, and what it makes of the parent.
LEMMA RecomputeOK ==
  ASSUME PhaseInv, NEW x \in Sessions, NEW next, IsRows(next),
         CleanupFine(next, Existing \union DOMAIN next),
         DOMAIN next \subseteq Existing \/ {Cleanup} \union Angles \subseteq DOMAIN next
  PROVE  /\ recompute_parent_status(x, next) \in JobRow
         /\ recompute_parent_status(x, next).status \in Delivered
              => Angles \subseteq Existing \union DOMAIN next
<1> DEFINE loaded == session[x].loaded
           D == Existing \union DOMAIN next
           see(s) == IF s \in DOMAIN next THEN next[s].status
                     ELSE IF s \in DOMAIN loaded THEN loaded[s].status
                     ELSE sub[s].status
           st == [s \in D |-> see(s)]
<1>1. /\ IsRows(loaded) /\ CleanupFine(loaded, Existing) /\ IsRows(sub)
      /\ CleanupFine(sub, Existing) /\ Cleanup \in Existing /\ Existing \subseteq SubJobs
  BY DEF PhaseInv, RowsOK, SessionsOK, SessionOK, IsSession, IsRows, Existing
<1>2. /\ \A s \in DOMAIN next : next[s].status \in SubJobStatus
      /\ \A s \in DOMAIN loaded : loaded[s].status \in SubJobStatus
      /\ \A s \in Existing : sub[s].status \in SubJobStatus
      /\ D \subseteq SubJobs
  BY <1>1 DEF IsRows, SubJobRow, Existing
<1>3. st \in [D -> SubJobStatus]
  BY <1>2
<1>4. recompute_parent_status(x, next) = Rollup(st, {Cleanup})
  BY DEF recompute_parent_status
<1>5. D = {Cleanup} \/ Angles \subseteq D
  BY <1>1, <1>2, AnglesAssumption DEF PhaseInv, RowsOK, SubJobs
<1>6. ~(Angles \subseteq D) => st[Cleanup] \notin {"COMPLETED", "SKIPPED"}
  <2> SUFFICES ASSUME ~(Angles \subseteq D) PROVE see(Cleanup) \notin {"COMPLETED", "SKIPPED"}
    BY <1>1
  <2>1. D \union DOMAIN next = D /\ ~(Angles \subseteq Existing)
    OBVIOUS
  <2> QED
    BY <1>1, <2>1 DEF CleanupFine, Existing
<1> HIDE DEF st
<1> QED
  BY <1>2, <1>3, <1>4, <1>5, <1>6, RollupResult

LEMMA FlushOK ==
  ASSUME PhaseInv, NEW x \in Sessions, NEW next, NEW created, Flush(x, next, created),
         IsRows(next), CleanupFine(next, Existing \union DOMAIN next),
         \/ created = {} /\ DOMAIN next \subseteq Existing
         \/ /\ created = Angles /\ Angles \intersect Existing = {}
            /\ DOMAIN next = {Cleanup} \union Angles
  PROVE  PhaseInv'
<1> DEFINE u == session[x]
           rows == Restrict(u.loaded, DOMAIN u.loaded \intersect DOMAIN next)
           new == recompute_parent_status(x, next)
           pc == "flushed"
           v == Flushed(u, pc, next, created, rows, new)
<1>1. SessionOK(u, Existing)
  BY DEF PhaseInv, SessionsOK
<1>2. session' = [session EXCEPT ![x] = v]
  BY DEF Flush, Flushed
<1>3. v = Record(pc, u.kind, rows, next, u.job, new, created)
  BY <1>1, FlushedRecord DEF SessionOK
<1>4. /\ new \in JobRow
      /\ new.status \in Delivered => Angles \subseteq Existing \union DOMAIN next
  BY RecomputeOK
<1>5. IsRows(rows) /\ DOMAIN rows \subseteq Existing /\ CleanupFine(rows, Existing)
  <2>1. /\ IsRows(u.loaded) /\ DOMAIN u.loaded \subseteq Existing
        /\ CleanupFine(u.loaded, Existing)
    BY <1>1 DEF SessionOK, IsSession
  <2>2. /\ DOMAIN rows = DOMAIN u.loaded \intersect DOMAIN next
        /\ rows = [s \in DOMAIN rows |-> u.loaded[s]]
    BY DEF Restrict
  <2> HIDE DEF rows, u
  <2>3. \A s \in DOMAIN rows : rows[s] = u.loaded[s]
    BY <2>2
  <2> QED
    BY <2>1, <2>2, <2>3 DEF IsRows, CleanupFine
<1>6. u.kind \in SessionKind /\ u.job \in JobRow /\ pc \in {"idle", "loaded", "flushed", "publish"}
  BY <1>1 DEF SessionOK, IsSession
<1>7. created \in SUBSET SubJobs /\ Cleanup \in Existing
  BY DEF SubJobs, PhaseInv, RowsOK
<1> HIDE DEF u, rows, new, v
<1>8. SessionOK(v, Existing)
  <2> HIDE DEF pc
  <2>1. pc = "flushed"
    BY DEF pc
  <2> QED
    BY <1>3, <1>4, <1>5, <1>6, <1>7, <2>1, AnglesAssumption, RecordOK
<1>9. v.next = next /\ DOMAIN next \intersect LockedByOthers(x) = {}
  BY <1>3, Fields DEF Flush
<1>10. OthersOK' /\ UNCHANGED <<sub, job>>
  BY DEF Flush, PhaseInv, OthersOK
<1> QED
  BY <1>2, <1>8, <1>9, <1>10, SessionStepOK

LEMMA FinishAngleOK ==
  ASSUME PhaseInv, NEW w \in Workers, NEW a \in Angles, finish_angle(w, a)
  PROVE  PhaseInv'
<1> DEFINE old == session[w].loaded[a]
<1>1. w \in Sessions /\ SessionOK(session[w], Existing)
  BY DEF Sessions, PhaseInv, SessionsOK
<1>2. a \in Existing /\ old \in SubJobRow /\ old.attempts < MaxAttempts
  BY <1>1 DEF finish_angle, SessionOK, IsSession, IsRows
<1>3. PICK row \in attempt_loop(old, "COMPLETED") : Flush(w, [t \in {a} |-> row], {})
  BY DEF finish_angle
<1>4. row \in SubJobRow
  <2>1. "COMPLETED" \in SubJobStatus
    BY DEF SubJobStatus
  <2> HIDE DEF old
  <2> QED
    BY <1>2, <2>1, AttemptLoopType
<1> DEFINE next == [t \in {a} |-> row]
<1>5. IsRows(next) /\ DOMAIN next \subseteq Existing
  BY <1>2, <1>4 DEF IsRows, SubJobs
<1>6. CleanupFine(next, Existing \union DOMAIN next)
  BY AnglesAssumption DEF CleanupFine
<1>7. Flush(w, next, {})
  BY <1>3
<1> HIDE DEF next
<1> QED
  BY <1>1, <1>5, <1>6, <1>7, FlushOK

\* The success of the cleanup brings the angles, if they are not there yet.
LEMMA FinishCleanupOK ==
  ASSUME PhaseInv, NEW w \in Workers, finish_cleanup(w)
  PROVE  PhaseInv'
<1> DEFINE old == session[w].loaded[Cleanup]
           news(row) == IF row.status = "COMPLETED" THEN create_angle_sub_jobs ELSE {}
           nexts(row) == [s \in {Cleanup} \union (news(row) \ Existing) |->
                            IF s = Cleanup THEN row ELSE NewSubJob]
<1>1. w \in Sessions /\ SessionOK(session[w], Existing)
  BY DEF Sessions, PhaseInv, SessionsOK
<1>2. old \in SubJobRow /\ old.attempts < MaxAttempts
  BY <1>1 DEF finish_cleanup, SessionOK, IsSession, IsRows
<1>3. PICK row \in attempt_loop(old, "COMPLETED") : Flush(w, nexts(row), news(row))
  BY DEF finish_cleanup
<1>4. row \in SubJobRow /\ row.status # "SKIPPED"
  <2>1. "COMPLETED" \in SubJobStatus
    BY DEF SubJobStatus
  <2> HIDE DEF old
  <2>2. row \in SubJobRow /\ row.status \in {"COMPLETED", "FAILED", "REJECTED"}
    BY <1>2, <2>1, AttemptLoopType, AttemptLoopResult
  <2> QED
    BY <2>2
<1> DEFINE created == news(row)
           next == nexts(row)
<1>5. /\ Cleanup \in Existing /\ Cleanup \in SubJobs /\ Angles \subseteq SubJobs
      /\ Angles \subseteq Existing \/ Angles \intersect Existing = {}
  BY DEF PhaseInv, RowsOK, SubJobs
<1>6. /\ created = {} \/ (created = Angles /\ Angles \intersect Existing = {})
      /\ created = {} /\ row.status = "COMPLETED" => Angles \subseteq Existing
  BY <1>5, AnglesAssumption DEF create_angle_sub_jobs
<1> HIDE DEF news
<1>7. /\ DOMAIN next = {Cleanup} \union (created \ Existing)
      /\ next[Cleanup] = row
      /\ \A s \in DOMAIN next : next[s] \in SubJobRow
  BY <1>4, NewRows
<1>8. IsRows(next)
  <2>1. DOMAIN next \subseteq SubJobs
    BY <1>5, <1>6, <1>7
  <2>2. next = [s \in DOMAIN next |-> next[s]]
    BY <1>7
  <2> HIDE DEF next
  <2> QED
    BY <1>7, <2>1, <2>2 DEF IsRows
<1>9. Flush(w, next, created)
  BY <1>3
<1> HIDE DEF next, created
<1>10. CASE created = {}
  <2>1. DOMAIN next \subseteq Existing /\ Existing \union DOMAIN next = Existing
    BY <1>5, <1>7, <1>10
  <2>2. CleanupFine(next, Existing)
    BY <1>4, <1>6, <1>7, <1>10 DEF CleanupFine
  <2> QED
    BY <1>1, <1>8, <1>9, <1>10, <2>1, <2>2, FlushOK
<1>11. CASE created = Angles /\ Angles \intersect Existing = {}
  <2>1. DOMAIN next = {Cleanup} \union Angles
    BY <1>7, <1>11
  <2>2. CleanupFine(next, Existing \union DOMAIN next)
    BY <2>1 DEF CleanupFine
  <2> QED
    BY <1>1, <1>8, <1>9, <1>11, <2>1, <2>2, FlushOK
<1> QED
  BY <1>6, <1>10, <1>11

LEMMA FlushPlannedOK ==
  ASSUME PhaseInv, NEW x \in Sessions, FlushPlanned(x)
  PROVE  PhaseInv'
<1> DEFINE next == session[x].next
<1>1. SessionOK(session[x], Existing) /\ session[x].pc = "loaded"
  BY DEF PhaseInv, SessionsOK, FlushPlanned, At
<1>2. IsRows(next) /\ DOMAIN next \subseteq Existing
      /\ CleanupFine(next, Existing \union DOMAIN next)
  BY <1>1 DEF SessionOK, IsSession
<1>3. Flush(x, next, {})
  BY DEF FlushPlanned
<1> HIDE DEF next
<1> QED
  BY <1>2, <1>3, FlushOK

\* A timeout, a sweep: the rows that are stuck are to be failed.
LEMMA MarkFailedRows ==
  ASSUME PhaseInv, NEW stale, stale \subseteq Existing
  PROVE  LET next == [s \in stale |-> MarkFailed(sub[s])]
         IN  IsRows(next) /\ DOMAIN next = stale /\ CleanupFine(next, Existing)
<1> DEFINE next == [s \in stale |-> MarkFailed(sub[s])]
<1>1. \A s \in stale : /\ s \in SubJobs /\ MarkFailed(sub[s]) \in SubJobRow
                       /\ MarkFailed(sub[s]).status = "FAILED"
  <2> SUFFICES ASSUME NEW s \in stale
               PROVE  /\ s \in SubJobs /\ MarkFailed(sub[s]) \in SubJobRow
                      /\ MarkFailed(sub[s]).status = "FAILED"
    OBVIOUS
  <2>1. s \in SubJobs /\ sub[s] \in SubJobRow
    BY StoredRow
  <2>2. MarkFailed(sub[s]).status = "FAILED"
    BY <2>1 DEF MarkFailed, SubJobRow
  <2> QED
    BY <2>1, <2>2, MarkFailedType
<1>2. DOMAIN next = stale /\ \A s \in stale : next[s] = MarkFailed(sub[s])
  OBVIOUS
<1>3. IsRows(next)
  BY <1>1 DEF IsRows
<1>4. CleanupFine(next, Existing)
  BY <1>1, <1>2 DEF CleanupFine
<1> QED
  BY <1>2, <1>3, <1>4

LEMMA FailStepOK ==
  ASSUME PhaseInv, NEW x \in Sessions, NEW kind \in SessionKind, NEW S, S \subseteq Existing,
         NEW stale, stale \subseteq Existing,
         session' = [session EXCEPT ![x] =
           [Begin(kind, S) EXCEPT !.next = [s \in stale |-> MarkFailed(sub[s])]]],
         UNCHANGED <<sub, job>>, OthersOK'
  PROVE  PhaseInv'
<1> DEFINE next == [s \in stale |-> MarkFailed(sub[s])]
<1>1. IsRows(next) /\ DOMAIN next \subseteq Existing /\ CleanupFine(next, Existing)
  BY MarkFailedRows
<1>2. session' = [session EXCEPT ![x] = PlannedNext(Begin(kind, S), next)]
  BY DEF PlannedNext
<1> HIDE DEF next
<1>3. session' = [session EXCEPT ![x] =
                    Record("loaded", kind, [s \in S |-> sub[s]], next, job, job, {})]
  <2>1. PlannedNext(Begin(kind, S), next)
          = Record("loaded", kind, [s \in S |-> sub[s]], next, job, job, {})
    BY BeginPlan
  <2> QED
    BY <1>2, <2>1
<1>4. job \in JobRow /\ {} \in SUBSET SubJobs
  BY DEF PhaseInv, RowsOK
<1> QED
  BY <1>1, <1>3, <1>4, BeginStepOK

LEMMA TimeoutOK ==
  ASSUME PhaseInv, NEW w \in Workers, NEW s \in Existing, mark_sub_job_timed_out(w, s)
  PROVE  PhaseInv'
<1> DEFINE stale == {s}
           kind == "timeout"
<1>1. w \in Sessions /\ OthersOK' /\ kind \in SessionKind /\ stale \subseteq Existing
  <2>1. s \in SubJobs
    BY StoredRow
  <2> QED
    BY <2>1 DEF Sessions, SessionKind, PhaseInv, OthersOK, mark_sub_job_timed_out
<1>2. CASE sub[s].status \in STUCK_STATUSES
  <2>1. session' = [session EXCEPT ![w] =
          [Begin(kind, stale) EXCEPT !.next = [t \in stale |-> MarkFailed(sub[t])]]]
    BY <1>2 DEF mark_sub_job_timed_out
  <2>2. UNCHANGED <<sub, job>>
    BY DEF mark_sub_job_timed_out
  <2> HIDE DEF stale, kind
  <2> QED
    BY <1>1, <2>1, <2>2, FailStepOK
<1>3. CASE sub[s].status \notin STUCK_STATUSES
  BY <1>1, <1>3, SessionEndOK DEF mark_sub_job_timed_out
<1> QED
  BY <1>2, <1>3

LEMMA SweepOK ==
  ASSUME PhaseInv, NEW w \in Workers, NEW stale \in SUBSET SubJobs,
         reconcile_stuck_sub_jobs(w, stale)
  PROVE  PhaseInv'
<1> DEFINE candidates == {s \in Existing : sub[s].status \in STUCK_STATUSES}
           kind == "sweep"
<1>1. /\ w \in Sessions /\ kind \in SessionKind
      /\ candidates \subseteq Existing /\ stale \subseteq Existing
  BY DEF Sessions, SessionKind, reconcile_stuck_sub_jobs
<1>2. /\ session' = [session EXCEPT ![w] =
           [Begin(kind, candidates) EXCEPT !.next = [s \in stale |-> MarkFailed(sub[s])]]]
      /\ UNCHANGED <<sub, job>> /\ OthersOK'
  BY DEF reconcile_stuck_sub_jobs, PhaseInv, OthersOK
<1> HIDE DEF candidates, kind
<1> QED
  BY <1>1, <1>2, FailStepOK

LEMMA RetryOK ==
  ASSUME PhaseInv, NEW h \in Handlers, NEW s \in Existing, execute_retry(h, s)
  PROVE  PhaseInv'
<1> DEFINE row == [sub[s] EXCEPT !.status = "PENDING", !.failure = "NONE"]
           next == [t \in {s} |-> row]
           new == IF job.status \in TERMINAL_STATUSES
                  THEN [job EXCEPT !.status = "PROCESSING", !.completed = FALSE]
                  ELSE job
           kind == "retry"
           todo == {s}
<1>1. h \in Sessions /\ s \in SubJobs /\ job \in JobRow /\ sub[s] \in SubJobRow
  BY StoredRow DEF Sessions, PhaseInv, RowsOK
<1>2. row \in SubJobRow /\ row.status = "PENDING"
  BY <1>1 DEF SubJobRow, SubJobStatus, FailureClass
<1>3. new \in JobRow /\ (new.status \in Delivered => job.status \in Delivered)
  BY <1>1 DEF JobRow, JobStatus, Delivered
<1>4. session' = [session EXCEPT ![h] =
                    Record("loaded", kind, [t \in {s} |-> sub[t]], next, job, new, todo)]
  <2>1. next = [t \in {s} |-> [sub[t] EXCEPT !.status = "PENDING", !.failure = "NONE"]]
    OBVIOUS
  <2> HIDE DEF next
  <2>2. session' = [session EXCEPT ![h] =
                      Planned(Begin(kind, {s}), next, new, todo)]
    BY <2>1 DEF execute_retry, Planned
  <2> HIDE DEF new, todo
  <2>3. Planned(Begin(kind, {s}), next, new, todo)
          = Record("loaded", kind, [t \in {s} |-> sub[t]], next, job, new, todo)
    BY BeginPlan
  <2> QED
    BY <2>2, <2>3
<1>5. OthersOK' /\ UNCHANGED <<sub, job>>
  BY DEF execute_retry, PhaseInv, OthersOK
<1>6. IsRows(next) /\ DOMAIN next \subseteq Existing /\ CleanupFine(next, Existing)
  <2> HIDE DEF row
  <2> QED
    BY <1>1, <1>2, OneRow
<1>7. kind \in SessionKind /\ {s} \subseteq Existing /\ todo \in SUBSET SubJobs
  BY <1>1 DEF SessionKind
<1> HIDE DEF next, new, kind, todo
<1> QED
  BY <1>1, <1>3, <1>4, <1>5, <1>6, <1>7, BeginStepOK

LEMMA StatusOK ==
  ASSUME PhaseInv, NEW h \in Handlers, get_status(h) \/ answer_status(h)
  PROVE  PhaseInv'
<1>1. h \in Sessions /\ SessionOK(session[h], Existing)
  BY DEF Sessions, PhaseInv, SessionsOK
<1>2. CASE get_status(h)
  <2> DEFINE S == {}
             kind == "status"
             next == NoRows
             todo == {}
  <2>1. Begin(kind, S) = Record("loaded", kind, [s \in S |-> sub[s]], next, job, job, todo)
    BY BeginRecord
  <2>2. /\ session' = [session EXCEPT ![h] = Begin(kind, S)]
        /\ OthersOK' /\ UNCHANGED <<sub, job>>
    BY <1>2 DEF get_status, PhaseInv, OthersOK
  <2>3. /\ IsRows(next) /\ DOMAIN next \subseteq Existing /\ CleanupFine(next, Existing)
        /\ job \in JobRow /\ kind \in SessionKind /\ S \subseteq Existing
        /\ todo \in SUBSET SubJobs
    BY NewRows DEF PhaseInv, RowsOK, SessionKind, CleanupFine
  <2> HIDE DEF S, kind, next, todo
  <2> QED
    BY <1>1, <2>1, <2>2, <2>3, BeginStepOK
<1>3. CASE answer_status(h)
  <2>1. OthersOK'
    BY <1>3 DEF answer_status, PhaseInv, OthersOK
  <2> QED
    BY <1>1, <1>3, <2>1, SessionEndOK DEF answer_status
<1> QED
  BY <1>2, <1>3

LEMMA EndOK ==
  ASSUME PhaseInv, NEW x \in Sessions,
         assertion_fails(x) \/ connections_closed(x) \/ Fault(x)
  PROVE  PhaseInv'
<1>1. OthersOK'
  BY BoundsAssumption DEF PhaseInv, OthersOK, assertion_fails, connections_closed, Fault
<1> QED
  BY <1>1, SessionEndOK DEF assertion_fails, connections_closed, Fault

\* Close(x): the session is over, or goes on to dispatch what it has to.
LEMMA ClosedOK ==
  ASSUME NEW u, IsSession(u), NEW E
  PROVE  LET v == IF u.todo = {} THEN Idle ELSE Published(Idle, "publish", u.kind, u.todo)
         IN  SessionOK(v, E) /\ v.pc # "flushed" /\ v.todo = u.todo
<1> DEFINE pc == "publish"
           v == Published(Idle, pc, u.kind, u.todo)
<1>1. IsRecord(Idle) /\ Idle = Record("idle", "none", NoRows, NoRows, NewJob, NewJob, {})
  BY NewRows, Fields DEF IsRecord
<1>2. /\ Idle.loaded = NoRows /\ Idle.next = NoRows
      /\ Idle.job = NewJob /\ Idle.nextJob = NewJob
  BY NewRows, Fields
<1> HIDE DEF v
<1>3. v = Record(pc, u.kind, NoRows, NoRows, NewJob, NewJob, u.todo)
  <2> HIDE DEF pc
  <2> QED
    BY <1>1, <1>2, PublishedRecord DEF v
<1>4. v.pc = "publish" /\ v.todo = u.todo
  BY <1>3, Fields
<1>5. SessionOK(v, E)
  <2>1. /\ pc \in {"idle", "loaded", "flushed", "publish"} /\ pc # "flushed"
        /\ u.kind \in SessionKind /\ u.todo \in SUBSET SubJobs
    BY DEF IsSession
  <2>2. CleanupFine(NoRows, E) /\ CleanupFine(NoRows, E \union DOMAIN NoRows)
    BY NewRows DEF CleanupFine
  <2> HIDE DEF pc
  <2> QED
    BY <1>3, <2>1, <2>2, NewRows, RecordOK DEF Delivered
<1> QED
  BY <1>4, <1>5, IdleOK DEF v

LEMMA CloseOK ==
  ASSUME PhaseInv, NEW x \in Sessions, WriteRows(x), Close(x),
         DOMAIN session[x].next \intersect LockedByOthers(x) = {},
         job' \in JobRow, job'.status \in {job.status, session[x].nextJob.status},
         OthersOK'
  PROVE  PhaseInv'
<1> DEFINE u == session[x]
           v == IF u.todo = {} THEN Idle ELSE Published(Idle, "publish", u.kind, u.todo)
<1>1. IsSession(u)
  BY DEF PhaseInv, SessionsOK, SessionOK
<1>2. session' = [session EXCEPT ![x] = v]
  BY DEF Close, Published
<1>3. SessionOK(v, Existing') /\ v.pc # "flushed"
  <2> HIDE DEF u
  <2> QED
    BY <1>1, ClosedOK
<1> HIDE DEF v
<1> QED
  BY <1>2, <1>3, CommitOK

LEMMA JobCommitted ==
  ASSUME PhaseInv, NEW x \in Sessions,
         \/ job' = WrittenJob(job, session[x].job, session[x].nextJob)
         \/ job' = RecomputedJob(job, session[x].job, session[x].nextJob)
  PROVE  job' \in JobRow /\ job'.status \in {job.status, session[x].nextJob.status}
<1> DEFINE old == session[x].job
           new == session[x].nextJob
<1>1. job \in JobRow /\ new \in JobRow
  BY DEF PhaseInv, RowsOK, SessionsOK, SessionOK, IsSession
<1> HIDE DEF old, new
<1>2. WrittenJob(job, old, new) \in JobRow /\ RecomputedJob(job, old, new) \in JobRow
  BY <1>1, WrittenJobType
<1>3. WrittenJob(job, old, new).status \in {job.status, new.status}
  BY DEF WrittenJob, Dirty
<1>4. RecomputedJob(job, old, new).status = WrittenJob(job, old, new).status
  BY <1>2 DEF RecomputedJob, WrittenJob
<1> QED
  BY <1>2, <1>3, <1>4 DEF old, new

\* What becomes of a session that has committed a recompute: a task closes its
\* connections, its rows and its angles still in hand.
Committed(u) ==
  IF u.kind = "task" THEN Kept(Idle, "publish", "task", u.loaded, u.todo) ELSE Idle

LEMMA CommittedOK ==
  ASSUME NEW u, NEW E, SessionOK(u, E), NEW F, E \subseteq F
  PROVE  /\ SessionOK(Committed(u), F) /\ Committed(u).pc # "flushed"
         /\ u.kind = "task" =>
              /\ Committed(u).pc = "publish" /\ Committed(u).kind = "task"
              /\ Committed(u).loaded = u.loaded /\ Committed(u).next = NoRows
              /\ Committed(u).todo = u.todo
<1> DEFINE pc == "publish"
           kind == "task"
           v == Kept(Idle, pc, kind, u.loaded, u.todo)
<1>1. /\ IsRecord(Idle) /\ Idle.next = NoRows
      /\ Idle.job = NewJob /\ Idle.nextJob = NewJob
  BY NewRows, Fields DEF IsRecord
<1>2. v = Record(pc, kind, u.loaded, NoRows, NewJob, NewJob, u.todo)
  <2> HIDE DEF pc, kind
  <2> QED
    BY <1>1, KeptRecord
<1>3. /\ v.pc = "publish" /\ v.kind = "task" /\ v.loaded = u.loaded /\ v.next = NoRows
      /\ v.todo = u.todo
  BY <1>2, Fields
<1>4. SessionOK(v, F)
  <2>1. /\ pc \in {"idle", "loaded", "flushed", "publish"} /\ pc # "flushed"
        /\ kind \in SessionKind /\ u.todo \in SUBSET SubJobs /\ IsRows(u.loaded)
        /\ DOMAIN u.loaded \subseteq F
    BY DEF SessionOK, IsSession, SessionKind
  <2>2. CleanupFine(u.loaded, F)
    BY DEF SessionOK, CleanupFine
  <2>3. CleanupFine(NoRows, F \union DOMAIN NoRows)
    BY NewRows DEF CleanupFine
  <2> HIDE DEF v, pc, kind
  <2> QED
    BY <1>2, <2>1, <2>2, <2>3, NewRows, RecordOK DEF Delivered
<1> QED
  BY <1>3, <1>4, IdleOK DEF Committed

LEMMA CommitFlushedOK ==
  ASSUME PhaseInv, NEW x \in Sessions, CommitFlushed(x)
  PROVE  PhaseInv'
<1> DEFINE u == session[x]
           v == Committed(u)
<1>1. DOMAIN u.next \intersect LockedByOthers(x) = {}
  BY DEF CommitFlushed, LockedByOthers, PhaseInv, SessionsOK
<1>2. OthersOK' /\ WriteRows(x) /\ session' = [session EXCEPT ![x] = v]
  BY DEF CommitFlushed, PhaseInv, OthersOK, Committed, Kept
<1>3. job' \in JobRow /\ job'.status \in {job.status, u.nextJob.status}
  BY JobCommitted DEF CommitFlushed
<1>4. SessionOK(v, Existing') /\ v.pc # "flushed"
  <2> DEFINE F == Existing'
  <2>1. Existing \subseteq F /\ SessionOK(u, Existing)
    BY <1>2, WriteRowsOK DEF PhaseInv, SessionsOK
  <2> HIDE DEF u, F
  <2>2. SessionOK(v, F) /\ v.pc # "flushed"
    BY <2>1, CommittedOK
  <2> QED
    BY <2>2 DEF F
<1> HIDE DEF v
<1> QED
  BY <1>1, <1>2, <1>3, <1>4, CommitOK

LEMMA CommitLoadedOK ==
  ASSUME PhaseInv, NEW x \in Sessions, CommitLoaded(x)
  PROVE  PhaseInv'
<1> DEFINE u == session[x]
<1>1. /\ OthersOK' /\ WriteRows(x) /\ u.pc = "loaded"
      /\ DOMAIN u.next \intersect LockedByOthers(x) = {}
  BY DEF CommitLoaded, At, PhaseInv, OthersOK
<1>2. job' \in JobRow /\ job'.status \in {job.status, u.nextJob.status}
  BY JobCommitted DEF CommitLoaded
<1>3. CASE u.kind # "start"
  BY <1>1, <1>2, <1>3, CloseOK DEF CommitLoaded
<1>4. CASE u.kind = "start"
  <2> DEFINE kind == "task"
             v == Started(u, kind, u.next, NoRows, u.nextJob)
  <2>1. session' = [session EXCEPT ![x] = v]
    BY <1>4 DEF CommitLoaded, Started
  <2>2. SessionOK(u, Existing)
    BY DEF PhaseInv, SessionsOK
  <2>3. v = Record("loaded", kind, u.next, NoRows, u.nextJob, u.nextJob, u.todo)
    <3>1. IsRecord(u)
      BY <2>2 DEF SessionOK
    <3> HIDE DEF u, kind
    <3> QED
      BY <1>1, <3>1, StartedRecord
  <2>4. Existing' = Existing \union DOMAIN u.next
    BY <1>1, WriteRowsOK
  <2>5. SessionOK(v, Existing')
    <3>1. /\ kind \in SessionKind /\ IsRows(u.next) /\ u.nextJob \in JobRow
          /\ u.todo \in SUBSET SubJobs
          /\ DOMAIN u.next \subseteq Existing' /\ CleanupFine(u.next, Existing')
          /\ u.nextJob.status \in Delivered => Angles \subseteq Existing'
      BY <2>2, <2>4 DEF SessionOK, IsSession, SessionKind
    <3>2. /\ CleanupFine(NoRows, Existing' \union DOMAIN NoRows)
          /\ Existing' \union DOMAIN NoRows = Existing'
      BY NewRows DEF CleanupFine
    <3> DEFINE F == Existing'
    <3>3. v = Record("loaded", kind, u.next, NoRows, u.nextJob, u.nextJob, u.todo)
      BY <2>3
    <3>4. SessionOK(v, F)
      <4>1. /\ kind \in SessionKind /\ IsRows(u.next) /\ u.nextJob \in JobRow
            /\ u.todo \in SUBSET SubJobs
            /\ DOMAIN u.next \subseteq F /\ CleanupFine(u.next, F)
            /\ u.nextJob.status \in Delivered => Angles \subseteq F
            /\ CleanupFine(NoRows, F \union DOMAIN NoRows) /\ F \union DOMAIN NoRows = F
        BY <3>1, <3>2
      <4> HIDE DEF v, u, kind, F
      <4> QED
        BY <3>3, <4>1, NewRows, RecordOK
    <3> QED
      BY <3>4
  <2>6. v.pc # "flushed"
    BY <2>3, Fields
  <2> HIDE DEF v
  <2> QED
    BY <1>1, <1>2, <2>1, <2>5, <2>6, CommitOK
<1> QED
  BY <1>3, <1>4

LEMMA PublishOK ==
  ASSUME PhaseInv, NEW x \in Sessions, NEW s \in SubJobs, Publish(x, s)
  PROVE  PhaseInv'
<1> DEFINE u == session[x]
           todo == u.todo \ {s}
           v == IF u.todo = {s} THEN Idle ELSE Dispatched(u, todo)
<1>1. session' = [session EXCEPT ![x] = v]
  BY DEF Publish, Dispatched
<1>2. OthersOK' /\ UNCHANGED <<sub, job>>
  <2>1. queue' \in [SubJobs -> Nat]
    BY DEF Publish, PhaseInv, OthersOK
  <2> QED
    BY <2>1 DEF Publish, PhaseInv, OthersOK
<1>3. SessionOK(u, Existing) /\ u.pc = "publish"
  BY DEF PhaseInv, SessionsOK, Publish
<1>4. Dispatched(u, todo) = Record(u.pc, u.kind, u.loaded, u.next, u.job, u.nextJob, todo)
  <2>1. IsRecord(u)
    BY <1>3 DEF SessionOK
  <2> HIDE DEF u, todo
  <2> QED
    BY <2>1, DispatchedRecord
<1>5. SessionOK(v, Existing) /\ v.pc # "flushed"
  <2>1. todo \in SUBSET SubJobs
    BY <1>3 DEF SessionOK, IsSession
  <2>2. Dispatched(u, todo).pc # "flushed"
    BY <1>3, <1>4, Fields
  <2> HIDE DEF u, todo
  <2>3. /\ u.pc \in {"idle", "loaded", "flushed", "publish"} /\ u.kind \in SessionKind
        /\ IsRows(u.loaded) /\ IsRows(u.next) /\ u.job \in JobRow /\ u.nextJob \in JobRow
        /\ DOMAIN u.loaded \subseteq Existing /\ CleanupFine(u.loaded, Existing)
        /\ CleanupFine(u.next, Existing \union DOMAIN u.next)
        /\ u.nextJob.status \in Delivered => Angles \subseteq Existing \union DOMAIN u.next
        /\ ~(u.pc = "flushed" /\ todo # {}) /\ DOMAIN u.next \subseteq Existing
    BY <1>3 DEF SessionOK, IsSession
  <2>4. SessionOK(Dispatched(u, todo), Existing)
    BY <1>4, <2>1, <2>3, RecordOK
  <2> QED
    BY <2>2, <2>4, IdleOK
<1> HIDE DEF v
<1> QED
  BY <1>1, <1>2, <1>5, SessionStepOK

-----------------------------------------------------------------------------
(* The invariant.                                                          *)

LEMMA InitPhase ==
  ASSUME Init
  PROVE  PhaseInv
<1>1. Existing = {Cleanup} /\ sub[Cleanup] = NewSubJob /\ Cleanup \in SubJobs
  BY DEF Init, Existing, SubJobs
<1>2. NewSubJob.status = "PENDING"
  BY DEF NewSubJob
<1>3. RowsOK
  <2>1. IsRows(sub)
    BY <1>1, NewRows DEF Init, IsRows, Existing
  <2>2. CleanupFine(sub, Existing)
    BY <1>1, <1>2 DEF CleanupFine
  <2>3. job \in JobRow /\ job.status \notin Delivered
    BY NewRows DEF Init, Delivered
  <2> QED
    BY <1>1, <2>1, <2>2, <2>3, AnglesAssumption DEF RowsOK
<1>4. OthersOK
  <2>1. queue \in [SubJobs -> Nat]
    BY DEF Init
  <2> QED
    BY <2>1, BoundsAssumption DEF Init, OthersOK
<1>5. SessionsOK
  <2>1. DOMAIN session = Sessions /\ \A x \in Sessions : session[x] = Idle
    BY DEF Init
  <2> QED
    BY <2>1, IdleOK DEF SessionsOK
<1> QED
  BY <1>3, <1>4, <1>5 DEF PhaseInv

LEMMA NextPhase ==
  ASSUME PhaseInv, [Next]_vars
  PROVE  PhaseInv'
<1>1. CASE \E w \in Workers : WorkerStep(w)
  <2> SUFFICES ASSUME NEW w \in Workers, WorkerStep(w)
               PROVE  PhaseInv'
    BY <1>1
  <2>1. CASE \E s \in Existing : start_task(w, s) \/ mark_sub_job_timed_out(w, s)
    BY <2>1, StartOK, TimeoutOK
  <2>2. CASE finish_cleanup(w)
    BY <2>2, FinishCleanupOK
  <2>3. CASE \E a \in Angles : finish_angle(w, a)
    BY <2>3, FinishAngleOK
  <2>4. CASE assertion_fails(w) \/ connections_closed(w)
    BY <2>4, EndOK DEF Sessions
  <2>5. CASE \E stale \in SUBSET SubJobs : reconcile_stuck_sub_jobs(w, stale)
    BY <2>5, SweepOK
  <2> QED
    BY <2>1, <2>2, <2>3, <2>4, <2>5 DEF WorkerStep
<1>2. CASE \E h \in Handlers : HandlerStep(h)
  <2> SUFFICES ASSUME NEW h \in Handlers, HandlerStep(h)
               PROVE  PhaseInv'
    BY <1>2
  <2>1. CASE retry_job(h)
    BY <2>1, RetryOK DEF retry_job, PhaseInv, RowsOK
  <2>2. CASE retry_angle(h)
    BY <2>2, RetryOK DEF retry_angle
  <2>3. CASE get_status(h) \/ answer_status(h)
    BY <2>3, StatusOK
  <2> QED
    BY <2>1, <2>2, <2>3 DEF HandlerStep
<1>3. CASE \E x \in Sessions : SessionStep(x) \/ Fault(x)
  <2> SUFFICES ASSUME NEW x \in Sessions, SessionStep(x) \/ Fault(x)
               PROVE  PhaseInv'
    BY <1>3
  <2>1. CASE CommitLoaded(x)
    BY <2>1, CommitLoadedOK
  <2>2. CASE FlushPlanned(x)
    BY <2>2, FlushPlannedOK
  <2>3. CASE CommitFlushed(x)
    BY <2>3, CommitFlushedOK
  <2>4. CASE \E s \in SubJobs : Publish(x, s)
    BY <2>4, PublishOK
  <2>5. CASE Fault(x)
    BY <2>5, EndOK
  <2> QED
    BY <2>1, <2>2, <2>3, <2>4, <2>5 DEF SessionStep
<1>4. CASE UNCHANGED vars
  BY <1>4 DEF vars, PhaseInv, RowsOK, OthersOK, SessionsOK, Existing
<1> QED
  BY <1>1, <1>2, <1>3, <1>4 DEF Next

LEMMA PhaseHolds ==
  Spec => []PhaseInv
<1>1. Init => PhaseInv
  BY InitPhase
<1>2. PhaseInv /\ [Next]_vars => PhaseInv'
  BY NextPhase
<1> QED
  BY <1>1, <1>2, PTL DEF Spec

\* Every state is well typed, whatever appears while sessions run: the rows
\* of a session are rows of sub-jobs that exist, or that it is about to insert.
THEOREM TypeCorrect ==
  Spec => []TypeOK
<1>1. PhaseInv => TypeOK
  BY DEF PhaseInv, RowsOK, OthersOK, SessionsOK, SessionOK, TypeOK
<1> QED
  BY <1>1, PhaseHolds, PTL

\* run_cleanup inserts the angles in the transaction that stores its success:
\* the angles exist all together or not at all, and no commit of any session,
\* a recompute on stale rows included, calls the job delivered without them.
THEOREM AnglesComeFirst ==
  Spec => []NotDeliveredByCleanupAlone
<1>1. PhaseInv => NotDeliveredByCleanupAlone
  BY DEF PhaseInv, RowsOK, NotDeliveredByCleanupAlone, Delivered
<1> QED
  BY <1>1, PhaseHolds, PTL

-----------------------------------------------------------------------------
(* What is dispatched.                                                     *)

\* The step on which a task's flushed session begins to dispatch is its commit.
LEMMA DispatchFollowsCommit ==
  ASSUME PhaseInv, [Next]_vars, NEW x \in Sessions, session[x].kind = "task",
         session[x].pc = "flushed", session'[x].pc = "publish"
  PROVE  CommitFlushed(x)
<1>1. x \in DOMAIN session /\ session' # session
  BY DEF PhaseInv, SessionsOK
<1>2. ASSUME NEW y, NEW v, session' = [session EXCEPT ![y] = v]
      PROVE  y = x /\ v.pc = "publish"
  BY <1>1, <1>2
<1>3. /\ Idle.pc # "publish"
      /\ \A kind, S, next : PlannedNext(Begin(kind, S), next).pc # "publish"
  <2>1. ASSUME NEW kind, NEW S, NEW next
        PROVE  PlannedNext(Begin(kind, S), next).pc # "publish"
    <3> DEFINE rows == [s \in S |-> sub[s]]
    <3>1. PlannedNext(Begin(kind, S), next) = Record("loaded", kind, rows, next, job, job, {})
      BY BeginPlan
    <3> HIDE DEF rows
    <3> QED
      BY <3>1, Fields
  <2> QED
    BY <2>1, IdleOK
<1>4. ASSUME NEW w, WorkerStep(w)
      PROVE  FALSE
  <2>1. CASE \E s \in Existing : start_task(w, s)
    BY <1>2, <2>1 DEF start_task, IsIdle
  <2>2. ASSUME NEW s \in Existing, mark_sub_job_timed_out(w, s)
        PROVE  FALSE
    <3> DEFINE next == [t \in {s} |-> MarkFailed(sub[t])]
               b == PlannedNext(Begin("timeout", {s}), next)
               v == IF sub[s].status \in STUCK_STATUSES THEN b ELSE Idle
    <3>1. session' = [session EXCEPT ![w] = v]
      BY <2>2 DEF mark_sub_job_timed_out, PlannedNext
    <3>2. b.pc # "publish"
      BY <1>3
    <3> HIDE DEF b
    <3> QED
      BY <1>2, <1>3, <3>1, <3>2
  <2>3. CASE finish_cleanup(w) \/ (\E a \in Angles : finish_angle(w, a))
    <3>1. /\ session[w].pc = "loaded"
          /\ \E next, created : Flush(w, next, created)
      BY <2>3 DEF finish_cleanup, finish_angle, At
    <3>2. \E v : session' = [session EXCEPT ![w] = v]
      BY <3>1 DEF Flush
    <3> QED
      BY <1>2, <3>1, <3>2
  <2>4. CASE assertion_fails(w) \/ connections_closed(w)
    BY <1>2, <2>4 DEF assertion_fails, connections_closed, At
  <2>5. CASE \E stale \in SUBSET SubJobs : reconcile_stuck_sub_jobs(w, stale)
    BY <1>2, <2>5 DEF reconcile_stuck_sub_jobs, IsIdle
  <2> QED
    BY <1>4, <2>1, <2>2, <2>3, <2>4, <2>5 DEF WorkerStep
<1>5. ASSUME NEW h, HandlerStep(h)
      PROVE  FALSE
  <2>1. CASE \E s \in SubJobs : execute_retry(h, s)
    BY <1>2, <2>1 DEF execute_retry, IsIdle
  <2>2. CASE get_status(h)
    BY <1>2, <2>2 DEF get_status, IsIdle
  <2>3. CASE answer_status(h)
    BY <1>2, <2>3 DEF answer_status, At
  <2> QED
    BY <1>5, <2>1, <2>2, <2>3 DEF HandlerStep, retry_job, retry_angle, SubJobs
<1>6. ASSUME NEW y \in Sessions, SessionStep(y) \/ Fault(y)
      PROVE  CommitFlushed(x)
  <2>1. CASE CommitLoaded(y)
    <3>1. session[y].pc = "loaded" /\ \E v : session' = [session EXCEPT ![y] = v]
      BY <2>1 DEF CommitLoaded, At, Close
    <3> QED
      BY <1>2, <3>1
  <2>2. CASE FlushPlanned(y)
    BY <1>2, <2>2 DEF FlushPlanned, At, Flush
  <2>3. CASE CommitFlushed(y)
    <3>1. \E v : session' = [session EXCEPT ![y] = v]
      BY <2>3 DEF CommitFlushed
    <3>2. y = x
      BY <1>2, <3>1
    <3> QED
      BY <2>3, <3>2
  <2>4. CASE \E s \in SubJobs : Publish(y, s)
    BY <1>2, <2>4 DEF Publish
  <2>5. CASE Fault(y)
    BY <1>2, <1>3, <2>5 DEF Fault
  <2> QED
    BY <1>6, <2>1, <2>2, <2>3, <2>4, <2>5 DEF SessionStep
<1>7. CASE UNCHANGED vars
  BY <1>1, <1>7 DEF vars
<1> QED
  BY <1>4, <1>5, <1>6, <1>7 DEF Next

\* A cleanup task dispatches exactly the angles that its own commit has added,
\* never one that another run of the cleanup has created and dispatched.
THEOREM DispatchesItsOwn ==
  Spec => DispatchesWhatItCreated
<1> DEFINE A == \A x \in Sessions :
       session[x].kind = "task" /\ session[x].pc = "flushed" /\ session'[x].pc = "publish"
         => session'[x].todo \subseteq Existing' \ Existing
<1>1. PhaseInv /\ [Next]_vars => A
  <2> SUFFICES ASSUME PhaseInv, [Next]_vars, NEW x \in Sessions, session[x].kind = "task",
                      session[x].pc = "flushed", session'[x].pc = "publish"
               PROVE  session'[x].todo \subseteq Existing' \ Existing
    BY DEF A
  <2> DEFINE u == session[x]
             v == Committed(u)
  <2>1. CommitFlushed(x)
    BY DispatchFollowsCommit
  <2>2. SessionOK(u, Existing) /\ x \in DOMAIN session
    BY DEF PhaseInv, SessionsOK
  <2>3. session' = [session EXCEPT ![x] = v]
    BY <2>1 DEF CommitFlushed, Committed, Kept
  <2>4. v.todo = u.todo
    <3>1. u.kind = "task"
      OBVIOUS
    <3> HIDE DEF u
    <3> QED
      BY <2>2, <3>1, CommittedOK
  <2>5. Existing' = Existing \union DOMAIN u.next
    BY <2>1, WriteRowsOK DEF CommitFlushed
  <2> HIDE DEF v
  <2>6. session'[x].todo = u.todo /\ u.pc = "flushed"
    BY <2>2, <2>3, <2>4
  <2> QED
    BY <2>2, <2>5, <2>6 DEF SessionOK
<1>2. Spec => [][A]_vars
  BY <1>1, PhaseHolds, PTL DEF Spec
<1> QED
  BY <1>2 DEF A, DispatchesWhatItCreated

-----------------------------------------------------------------------------
(***************************************************************************)
(* The solo pool.  With one worker and no request in flight no two         *)
(* sessions are ever open together: what a session loaded is what is       *)
(* stored until it commits, and the sub-jobs it does not know are those it *)
(* is about to insert.                                                     *)
(***************************************************************************)
Statuses(rows) == [s \in DOMAIN rows |-> rows[s].status]
AllSettled(rows) == \A s \in DOMAIN rows : rows[s].status \notin STUCK_STATUSES

\* The statuses after a commit of next over the stored rows.
Coming(next, rows) ==
  [s \in DOMAIN rows \union DOMAIN next |->
     IF s \in DOMAIN next THEN next[s].status ELSE rows[s].status]

SoloSession(v, rows, parent) ==
  /\ v.job = parent
  /\ \A s \in DOMAIN v.loaded : v.loaded[s] = rows[s]
  /\ DOMAIN v.next \intersect DOMAIN rows \subseteq DOMAIN v.loaded
  /\ v.pc = "flushed" => v.nextJob = Rollup(Coming(v.next, rows), {Cleanup})
  /\ v.kind = "start" =>
       /\ v.pc = "loaded" /\ DOMAIN v.next \subseteq DOMAIN rows
       /\ \E s \in DOMAIN v.next : v.next[s].status = "GENERATING"

SoloRow(v, rows, parent) ==
  /\ v.kind \notin {"retry", "status"}
  /\ v.pc \in {"loaded", "flushed"} => SoloSession(v, rows, parent)

SettledRollup(rows, parent) ==
  AllSettled(rows) => parent = Rollup(Statuses(rows), {Cleanup})

SoloInv ==
  /\ SettledRollup(sub, job)
  /\ \A x \in Sessions : SoloRow(session[x], sub, job)

LEMMA SoloMoves ==
  ASSUME NEW w, Sessions = {w}, PhaseInv, SettledRollup(sub', job'), NEW v,
         session' = [session EXCEPT ![w] = v], SoloRow(v, sub', job')
  PROVE  SoloInv'
<1>1. session'[w] = v
  BY DEF PhaseInv, SessionsOK
<1>2. Sessions' = {w}
  BY DEF Sessions
<1> QED
  BY <1>1, <1>2 DEF SoloInv

\* A new session holds what is stored.
LEMMA SoloBegins ==
  ASSUME NEW w, Sessions = {w}, PhaseInv, SoloInv, UNCHANGED <<sub, job>>,
         NEW kind \in {"start", "timeout", "sweep"}, NEW rows, NEW next, NEW new,
         session' = [session EXCEPT ![w] = Record("loaded", kind, rows, next, job, new, {})],
         DOMAIN rows \subseteq Existing, \A s \in DOMAIN rows : rows[s] = sub[s],
         DOMAIN next \subseteq DOMAIN rows,
         kind = "start" => \E s \in DOMAIN next : next[s].status = "GENERATING"
  PROVE  SoloInv'
<1> DEFINE v == Record("loaded", kind, rows, next, job, new, {})
<1>1. /\ v.pc = "loaded" /\ v.kind = kind /\ v.loaded = rows /\ v.next = next /\ v.job = job
  BY Fields
<1>2. session' = [session EXCEPT ![w] = v]
  OBVIOUS
<1> HIDE DEF v
<1>3. SoloSession(v, sub, job)
  BY <1>1 DEF SoloSession, Existing
<1>4. SoloRow(v, sub, job) /\ SettledRollup(sub, job)
  BY <1>1, <1>3 DEF SoloRow, SoloInv
<1> QED
  BY <1>2, <1>4, SoloMoves

LEMMA SoloEnds ==
  ASSUME NEW w, Sessions = {w}, PhaseInv, SettledRollup(sub', job'),
         NEW v, session' = [session EXCEPT ![w] = v], v.pc \in {"idle", "publish"},
         v.kind \notin {"retry", "status"}
  PROVE  SoloInv'
BY SoloMoves DEF SoloRow

LEMMA SoloIdles ==
  ASSUME NEW w, Sessions = {w}, PhaseInv, SettledRollup(sub', job'),
         session' = [session EXCEPT ![w] = Idle]
  PROVE  SoloInv'
<1>1. Idle.pc = "idle" /\ Idle.kind = "none"
  BY DEF Idle
<1> QED
  BY <1>1, SoloEnds

\* What a recompute sees is what the commit will make of the rows.
LEMMA SoloFlush ==
  ASSUME NEW w, Sessions = {w}, PhaseInv, SoloInv, NEW next, NEW created,
         Flush(w, next, created), session[w].pc = "loaded", session[w].kind # "start",
         DOMAIN next \intersect Existing \subseteq DOMAIN session[w].loaded
  PROVE  SoloInv'
<1> DEFINE u == session[w]
           rows == Restrict(u.loaded, DOMAIN u.loaded \intersect DOMAIN next)
           new == recompute_parent_status(w, next)
           v == Flushed(u, "flushed", next, created, rows, new)
<1>1. session' = [session EXCEPT ![w] = v] /\ UNCHANGED <<sub, job>>
  BY DEF Flush, Flushed
<1>2. IsRecord(u) /\ SoloRow(u, sub, job)
  BY DEF PhaseInv, SessionsOK, SessionOK, SoloInv
<1>3. SoloSession(u, sub, job)
  BY <1>2 DEF SoloRow
<1>4. /\ DOMAIN rows = DOMAIN u.loaded \intersect DOMAIN next
      /\ \A s \in DOMAIN rows : rows[s] = u.loaded[s]
  BY DEF Restrict
<1>5. new = Rollup(Coming(next, sub), {Cleanup})
  <2>1. \A s \in DOMAIN u.loaded : u.loaded[s] = sub[s]
    BY <1>3 DEF SoloSession
  <2>2. [s \in Existing \union DOMAIN next |->
           IF s \in DOMAIN next THEN next[s].status
           ELSE IF s \in DOMAIN u.loaded THEN u.loaded[s].status
           ELSE sub[s].status] = Coming(next, sub)
    BY <2>1 DEF Coming, Existing
  <2> QED
    BY <2>2 DEF recompute_parent_status
<1> HIDE DEF new, rows, u
<1>6. v = Record("flushed", u.kind, rows, next, u.job, new, created)
  BY <1>2, FlushedRecord
<1>7. /\ v.pc = "flushed" /\ v.kind = u.kind /\ v.loaded = rows /\ v.next = next
      /\ v.job = u.job /\ v.nextJob = new
  BY <1>6, Fields
<1>8. u.kind \notin {"start", "retry", "status"}
  BY <1>2 DEF SoloRow, u
<1> HIDE DEF v
<1>9. DOMAIN next \intersect DOMAIN sub \subseteq DOMAIN rows
  BY <1>4 DEF Existing, u
<1>10. SoloSession(v, sub, job)
  BY <1>3, <1>4, <1>5, <1>7, <1>8, <1>9 DEF SoloSession
<1>11. SoloRow(v, sub, job) /\ SettledRollup(sub, job)
  BY <1>7, <1>8, <1>10 DEF SoloRow, SoloInv
<1> QED
  BY <1>1, <1>11, SoloMoves

\* A commit stores what was planned.
LEMMA SoloWrites ==
  ASSUME PhaseInv, NEW x \in Sessions, SoloSession(session[x], sub, job), WriteRows(x)
  PROVE  /\ \A s \in DOMAIN session[x].next : s \in DOMAIN sub' /\ sub'[s] = session[x].next[s]
         /\ Statuses(sub') = Coming(session[x].next, sub)
         /\ WrittenJob(job, session[x].job, session[x].nextJob) = session[x].nextJob
         /\ RecomputedJob(job, session[x].job, session[x].nextJob) = session[x].nextJob
<1> DEFINE u == session[x]
           E == Existing \union DOMAIN u.next
           new(s) == IF s \notin DOMAIN u.next THEN sub[s]
                     ELSE IF s \in DOMAIN u.loaded THEN WrittenRow(sub[s], u.loaded[s], u.next[s])
                     ELSE u.next[s]
<1>1. sub' = [s \in E |-> new(s)]
  BY DEF WriteRows
<1>2. IsRows(u.next) /\ IsRows(sub) /\ job \in JobRow /\ u.nextJob \in JobRow
  BY DEF PhaseInv, RowsOK, SessionsOK, SessionOK, IsSession
<1>3. u.job = job /\ \A s \in DOMAIN u.loaded : u.loaded[s] = sub[s]
  BY DEF SoloSession
<1>4. DOMAIN u.loaded \subseteq Existing
  BY DEF PhaseInv, SessionsOK, SessionOK
<1> HIDE DEF u
<1>5. ASSUME NEW s \in DOMAIN u.next
      PROVE  new(s) = u.next[s]
  <2>1. CASE s \in DOMAIN u.loaded
    <3>1. u.loaded[s] = sub[s] /\ sub[s] \in SubJobRow /\ u.next[s] \in SubJobRow
      BY <1>2, <1>3, <1>4, <1>5, <2>1 DEF IsRows, Existing
    <3>2. WrittenRow(sub[s], u.loaded[s], u.next[s]) = u.next[s]
      BY <3>1, FreshRow
    <3> QED
      BY <1>5, <2>1, <3>2
  <2> QED
    BY <1>5, <2>1
<1>6. ASSUME NEW s \in E
      PROVE  new(s) = IF s \in DOMAIN u.next THEN u.next[s] ELSE sub[s]
  BY <1>5, <1>6
<1> HIDE DEF new
<1>7. DOMAIN sub' = E /\ \A s \in E : sub'[s] = IF s \in DOMAIN u.next THEN u.next[s] ELSE sub[s]
  BY <1>1, <1>6
<1>8. Statuses(sub') = Coming(u.next, sub)
  BY <1>7 DEF Statuses, Coming, Existing
<1>9. /\ WrittenJob(job, u.job, u.nextJob) = u.nextJob
      /\ RecomputedJob(job, u.job, u.nextJob) = u.nextJob
  BY <1>2, <1>3, FreshJob
<1> QED
  BY <1>7, <1>8, <1>9 DEF u

LEMMA SoloCommitLoaded ==
  ASSUME NEW w, Sessions = {w}, PhaseInv, SoloInv, CommitLoaded(w)
  PROVE  SoloInv'
<1> DEFINE u == session[w]
           v == [u EXCEPT !.kind = "task", !.loaded = u.next, !.next = NoRows, !.job = u.nextJob]
<1>1. SoloRow(u, sub, job) /\ IsRecord(u) /\ IsRows(u.next)
  BY DEF PhaseInv, SessionsOK, SessionOK, IsSession, SoloInv
<1>2. u.pc = "loaded" /\ u.kind = "start"
  BY <1>1 DEF CommitLoaded, At, SoloRow
<1>3. SoloSession(u, sub, job) /\ WriteRows(w)
  BY <1>1, <1>2 DEF SoloRow, CommitLoaded
<1>4. /\ \A s \in DOMAIN u.next : s \in DOMAIN sub' /\ sub'[s] = u.next[s]
      /\ WrittenJob(job, u.job, u.nextJob) = u.nextJob
  BY <1>3, SoloWrites
<1>5. job' = u.nextJob
  BY <1>4 DEF CommitLoaded
<1>6. session' = [session EXCEPT ![w] = v]
  BY <1>2 DEF CommitLoaded
<1>7. v = Record(u.pc, "task", u.next, NoRows, u.nextJob, u.nextJob, u.todo)
  <2> DEFINE start == Started(u, "task", u.next, NoRows, u.nextJob)
  <2>1. start = Record(u.pc, "task", u.next, NoRows, u.nextJob, u.nextJob, u.todo)
    BY <1>1, StartedRecord
  <2> QED
    BY <2>1 DEF Started
<1>8. ~AllSettled(sub')
  BY <1>2, <1>3, <1>4 DEF SoloSession, AllSettled, STUCK_STATUSES
<1>9. SettledRollup(sub', job')
  BY <1>8 DEF SettledRollup
<1> HIDE DEF u
<1>10. /\ v.pc = u.pc /\ v.kind = "task" /\ v.loaded = u.next /\ v.next = NoRows
       /\ v.job = u.nextJob
  BY <1>7, Fields
<1> HIDE DEF v
<1>11. SoloSession(v, sub', job')
  BY <1>2, <1>4, <1>5, <1>10, NewRows DEF SoloSession
<1>12. SoloRow(v, sub', job')
  BY <1>10, <1>11 DEF SoloRow
<1> QED
  BY <1>6, <1>9, <1>12, SoloMoves

LEMMA SoloCommitFlushed ==
  ASSUME NEW w, Sessions = {w}, PhaseInv, SoloInv, CommitFlushed(w)
  PROVE  SoloInv'
<1> DEFINE u == session[w]
           v == Committed(u)
<1>1. SoloRow(u, sub, job) /\ SessionOK(u, Existing)
  BY DEF SoloInv, PhaseInv, SessionsOK
<1>2. SoloSession(u, sub, job) /\ u.pc = "flushed" /\ WriteRows(w)
  BY <1>1 DEF SoloRow, CommitFlushed
<1>3. /\ Statuses(sub') = Coming(u.next, sub)
      /\ RecomputedJob(job, u.job, u.nextJob) = u.nextJob
  BY <1>2, SoloWrites
<1>4. SettledRollup(sub', job')
  BY <1>2, <1>3 DEF CommitFlushed, SoloSession, SettledRollup
<1>5. session' = [session EXCEPT ![w] = v]
  BY DEF CommitFlushed, Committed, Kept
<1>6. v.pc \in {"idle", "publish"} /\ v.kind \in {"none", "task"}
  <2> HIDE DEF u
  <2>1. Idle.pc = "idle" /\ Idle.kind = "none"
    BY DEF Idle
  <2> QED
    BY <1>1, <2>1, CommittedOK DEF Committed
<1> HIDE DEF v
<1> QED
  BY <1>4, <1>5, <1>6, SoloEnds

LEMMA SoloPublish ==
  ASSUME NEW w, Sessions = {w}, PhaseInv, SoloInv, NEW s \in SubJobs, Publish(w, s)
  PROVE  SoloInv'
<1> DEFINE u == session[w]
           v == IF u.todo = {s} THEN Idle ELSE Dispatched(u, u.todo \ {s})
<1>1. /\ session' = [session EXCEPT ![w] = v] /\ UNCHANGED <<sub, job>> /\ u.pc = "publish"
  BY DEF Publish, Dispatched
<1>2. IsRecord(u) /\ SoloRow(u, sub, job) /\ SettledRollup(sub', job')
  BY <1>1 DEF PhaseInv, SessionsOK, SessionOK, SoloInv
<1> HIDE DEF u
<1>3. v.pc \in {"idle", "publish"} /\ v.kind \in {"none", u.kind}
  <2>1. Idle.pc = "idle" /\ Idle.kind = "none"
    BY DEF Idle
  <2>2. Dispatched(u, u.todo \ {s}).pc = u.pc /\ Dispatched(u, u.todo \ {s}).kind = u.kind
    BY <1>2, DispatchedRecord, Fields
  <2> QED
    BY <1>1, <2>1, <2>2
<1> HIDE DEF v
<1>4. v.kind \notin {"retry", "status"}
  BY <1>2, <1>3 DEF SoloRow
<1> QED
  BY <1>1, <1>2, <1>3, <1>4, SoloEnds

\* A failed sub-job is written by a session that has loaded it.
LEMMA SoloFails ==
  ASSUME NEW w, Sessions = {w}, PhaseInv, SoloInv, UNCHANGED <<sub, job>>,
         NEW kind \in {"timeout", "sweep"}, NEW S, S \subseteq Existing,
         NEW stale, stale \subseteq S,
         session' = [session EXCEPT ![w] =
           [Begin(kind, S) EXCEPT !.next = [s \in stale |-> MarkFailed(sub[s])]]]
  PROVE  SoloInv'
<1> DEFINE next == [s \in stale |-> MarkFailed(sub[s])]
           rows == [s \in S |-> sub[s]]
           b == PlannedNext(Begin(kind, S), next)
<1>1. DOMAIN next = stale
  OBVIOUS
<1>2. session' = [session EXCEPT ![w] = b]
  BY DEF PlannedNext
<1>3. b = Record("loaded", kind, rows, next, job, job, {})
  <2> HIDE DEF next
  <2> QED
    BY BeginPlan
<1>4. DOMAIN rows = S /\ \A s \in DOMAIN rows : rows[s] = sub[s]
  OBVIOUS
<1> HIDE DEF next, rows, b
<1>5. session' = [session EXCEPT ![w] = Record("loaded", kind, rows, next, job, job, {})]
  BY <1>2, <1>3
<1> QED
  BY <1>1, <1>4, <1>5, SoloBegins

LEMMA SoloStart ==
  ASSUME NEW w, Sessions = {w}, PhaseInv, SoloInv, NEW s \in Existing, start_task(w, s)
  PROVE  SoloInv'
<1> DEFINE next == [t \in {s} |-> [sub[t] EXCEPT !.status = "GENERATING"]]
           new == IF s = Cleanup /\ job.status = "PENDING"
                  THEN [job EXCEPT !.status = "PROCESSING"] ELSE job
           rows == [t \in {s} |-> sub[t]]
           kind == "start"
           b == PlannedRows(Begin(kind, {s}), next, new)
<1>1. session' = [session EXCEPT ![w] = b] /\ UNCHANGED <<sub, job>>
  BY DEF start_task, PlannedRows
<1>2. DOMAIN next = {s} /\ \E t \in DOMAIN next : next[t].status = "GENERATING"
  BY StoredRow DEF SubJobRow
<1>3. b = Record("loaded", kind, rows, next, job, new, {})
  <2> HIDE DEF next, new, kind
  <2> QED
    BY BeginPlan
<1>4. /\ DOMAIN rows = {s} /\ \A t \in DOMAIN rows : rows[t] = sub[t]
      /\ kind \in {"start", "timeout", "sweep"}
  OBVIOUS
<1> HIDE DEF next, new, rows, b, kind
<1>5. session' = [session EXCEPT ![w] = Record("loaded", kind, rows, next, job, new, {})]
  BY <1>1, <1>3
<1>6. /\ DOMAIN rows \subseteq Existing /\ DOMAIN next \subseteq DOMAIN rows
      /\ kind = "start" => \E t \in DOMAIN next : next[t].status = "GENERATING"
  BY <1>2, <1>4
<1>7. UNCHANGED <<sub, job>> /\ \A t \in DOMAIN rows : rows[t] = sub[t]
  BY <1>1, <1>4
<1> QED
  BY <1>4, <1>5, <1>6, <1>7, SoloBegins

LEMMA SoloWorker ==
  ASSUME NEW w, Sessions = {w}, PhaseInv, SoloInv, WorkerStep(w)
  PROVE  SoloInv'
<1>1. ASSUME NEW s \in Existing, start_task(w, s)
      PROVE  SoloInv'
  BY <1>1, SoloStart
<1>2. ASSUME UNCHANGED <<sub, job>>, session' = [session EXCEPT ![w] = Idle]
      PROVE  SoloInv'
  BY <1>2, SoloIdles DEF SoloInv
<1>3. ASSUME NEW s \in Existing, mark_sub_job_timed_out(w, s)
      PROVE  SoloInv'
  <2>1. CASE sub[s].status \in STUCK_STATUSES
    <3>1. session' = [session EXCEPT ![w] =
            [Begin("timeout", {s}) EXCEPT !.next = [t \in {s} |-> MarkFailed(sub[t])]]]
          /\ UNCHANGED <<sub, job>>
      BY <1>3, <2>1 DEF mark_sub_job_timed_out
    <3> QED
      BY <3>1, SoloFails
  <2>2. CASE sub[s].status \notin STUCK_STATUSES
    BY <1>2, <1>3, <2>2 DEF mark_sub_job_timed_out
  <2> QED
    BY <2>1, <2>2
<1>4. ASSUME NEW stale \in SUBSET SubJobs, reconcile_stuck_sub_jobs(w, stale)
      PROVE  SoloInv'
  <2> DEFINE candidates == {s \in Existing : sub[s].status \in STUCK_STATUSES}
  <2>1. /\ stale \subseteq candidates /\ candidates \subseteq Existing
        /\ UNCHANGED <<sub, job>>
        /\ session' = [session EXCEPT ![w] =
             [Begin("sweep", candidates) EXCEPT !.next = [s \in stale |-> MarkFailed(sub[s])]]]
    BY <1>4 DEF reconcile_stuck_sub_jobs
  <2> HIDE DEF candidates
  <2> QED
    BY <2>1, SoloFails
<1>5. CASE finish_cleanup(w)
  <2> DEFINE news(row) == IF row.status = "COMPLETED" THEN create_angle_sub_jobs ELSE {}
             nexts(row) == [s \in {Cleanup} \union (news(row) \ Existing) |->
                              IF s = Cleanup THEN row ELSE NewSubJob]
  <2>1. /\ session[w].pc = "loaded" /\ session[w].kind = "task"
        /\ Cleanup \in DOMAIN session[w].loaded
        /\ \E row : Flush(w, nexts(row), news(row))
    BY <1>5 DEF finish_cleanup, At
  <2>2. PICK row : Flush(w, nexts(row), news(row))
    BY <2>1
  <2>3. DOMAIN nexts(row) \intersect Existing \subseteq DOMAIN session[w].loaded
    BY <2>1
  <2> HIDE DEF nexts, news
  <2> QED
    BY <2>1, <2>2, <2>3, SoloFlush
<1>6. ASSUME NEW a \in Angles, finish_angle(w, a)
      PROVE  SoloInv'
  <2>1. PICK row : Flush(w, [t \in {a} |-> row], {})
    BY <1>6 DEF finish_angle
  <2>2. /\ session[w].pc = "loaded" /\ session[w].kind = "task" /\ a \in DOMAIN session[w].loaded
    BY <1>6 DEF finish_angle, At
  <2> DEFINE next == [t \in {a} |-> row]
  <2>3. Flush(w, next, {}) /\ DOMAIN next = {a}
    BY <2>1
  <2> HIDE DEF next
  <2> QED
    BY <2>2, <2>3, SoloFlush
<1>7. CASE assertion_fails(w) \/ connections_closed(w)
  BY <1>2, <1>7 DEF assertion_fails, connections_closed
<1> QED
  BY <1>1, <1>3, <1>4, <1>5, <1>6, <1>7 DEF WorkerStep

LEMMA SoloNext ==
  ASSUME NEW w, Workers = {w}, Handlers = {}, PhaseInv, SoloInv, [Next]_vars
  PROVE  SoloInv'
<1>1. Sessions = {w}
  BY DEF Sessions
<1>2. CASE UNCHANGED vars
  BY <1>1, <1>2 DEF SoloInv, Sessions, vars
<1>3. CASE WorkerStep(w)
  BY <1>1, <1>3, SoloWorker
<1>4. CASE SessionStep(w)
  <2>1. CASE FlushPlanned(w)
    <3>1. /\ session[w].pc = "loaded" /\ session[w].kind \in {"timeout", "sweep"}
          /\ Flush(w, session[w].next, {})
      BY <2>1 DEF FlushPlanned, At
    <3>2. SoloSession(session[w], sub, job)
      BY <1>1, <3>1 DEF SoloInv, SoloRow
    <3>3. DOMAIN session[w].next \intersect Existing \subseteq DOMAIN session[w].loaded
      BY <3>2 DEF SoloSession, Existing
    <3> QED
      BY <1>1, <3>1, <3>3, SoloFlush
  <2> QED
    BY <1>1, <1>4, <2>1, SoloCommitLoaded, SoloCommitFlushed, SoloPublish DEF SessionStep
<1>5. CASE Fault(w)
  <2>1. UNCHANGED <<sub, job>> /\ session' = [session EXCEPT ![w] = Idle]
    BY <1>5 DEF Fault
  <2>2. SettledRollup(sub', job')
    BY <2>1 DEF SoloInv
  <2> QED
    BY <1>1, <2>1, <2>2, SoloIdles
<1> QED
  BY <1>1, <1>2, <1>3, <1>4, <1>5 DEF Next

LEMMA SoloInit ==
  ASSUME Init
  PROVE  SoloInv
<1>1. Cleanup \in DOMAIN sub /\ sub[Cleanup].status \in STUCK_STATUSES
  BY DEF Init, NewSubJob, STUCK_STATUSES
<1>2. \A x \in Sessions : session[x].pc = "idle" /\ session[x].kind = "none"
  BY DEF Init, Idle
<1> QED
  BY <1>1, <1>2 DEF SoloInv, SoloRow, SettledRollup, AllSettled

\* On the solo pool, while no client request writes, and whatever is delivered
\* twice, times out, is swept or crashes: when nothing is left to run and every
\* sub-job that exists has settled, the parent is the rollup of the angles.
THEOREM SoloRollup ==
  ASSUME NEW w, Workers = {w}, Handlers = {}
  PROVE  Spec => []QuiescentRollup
<1>1. PhaseInv /\ SoloInv /\ [Next]_vars => SoloInv'
  BY SoloNext
<1>2. SoloInv => QuiescentRollup
  BY DEF SoloInv, SettledRollup, AllSettled, Statuses, Existing, QuiescentRollup
<1>3. Init => SoloInv
  BY SoloInit
<1> QED
  BY <1>1, <1>2, <1>3, PhaseHolds, PTL DEF Spec

-----------------------------------------------------------------------------
(***************************************************************************)
(* Answers.  An answer is complete if a job that was COMPLETED when it was *)
(* read has delivered all of its angles, and nobody touches them any more. *)
(* The former is what a recompute says only if the rows it does not see    *)
(* cannot change; the latter holds as long as a sub-job of phase two       *)
(* belongs to at most one message or session, whose copy of the row is the *)
(* stored one.  The sweep takes rows that others hold, and two requests at *)
(* a time can retry one angle twice.  A late timeout, too, takes a row     *)
(* that belongs to the message of its retry: of such an angle nothing is   *)
(* said from then on, so the invariant is about a set of angles that the   *)
(* timeouts leave alone.                                                   *)
(***************************************************************************)
Undisturbed ==
  /\ "sweep" \notin Environment
  /\ "retry_angle" \in Environment => \A h, k \in Handlers : h = k

\* The status of an angle that a session of some kind has loaded.
Reads(kind, status) ==
  \/ kind = "start" /\ status = "PENDING"
  \/ kind = "task" /\ status = "GENERATING"
  \/ kind = "timeout" /\ status \in STUCK_STATUSES
  \/ kind = "retry" /\ status = "FAILED"

\* The row of a task that has committed is no longer its own.
Owns(v, a) == a \in DOMAIN v.loaded /\ v.pc # "publish"
Holds(v, a) == Owns(v, a) \/ a \in v.todo

\* What a session v may have loaded, have to dispatch and plan for angle a.
AngleLoaded(v, a, rows) ==
  Owns(v, a) =>
    /\ v.pc \in {"loaded", "flushed"} /\ a \in DOMAIN rows
    /\ v.loaded[a] = rows[a] /\ Reads(v.kind, rows[a].status)

AngleTodo(v, a, rows) ==
  a \in v.todo =>
    \/ v.pc = "publish" /\ a \in DOMAIN rows /\ rows[a].status = "PENDING"
    \/ v.pc = "flushed" /\ a \in DOMAIN v.next /\ a \notin DOMAIN rows
    \/ v.pc = "loaded" /\ v.kind = "retry" /\ a \in DOMAIN v.loaded /\ a \in DOMAIN v.next

AngleNext(v, a) ==
  a \in DOMAIN v.next =>
    /\ Owns(v, a) \/ (a \in v.todo /\ v.next[a].status = "PENDING")
    /\ v.next[a].status # "SKIPPED"
    /\ v.kind = "start" => v.next[a].status = "GENERATING"
    /\ v.kind = "retry" => v.next[a].status = "PENDING"

AngleOK(v, a, rows) == AngleLoaded(v, a, rows) /\ AngleTodo(v, a, rows) /\ AngleNext(v, a)

\* Every angle of F is COMPLETED once next is stored over the rows.
AllDone(rows, next, F) ==
  \A a \in F : IF a \in DOMAIN next THEN next[a].status = "COMPLETED"
                    ELSE a \in DOMAIN rows /\ rows[a].status = "COMPLETED"

JobOK(v, rows, F) ==
  /\ v.pc \in {"loaded", "flushed"} /\ v.nextJob.status = "COMPLETED" => AllDone(rows, v.next, F)
  /\ v.kind = "status" => v.pc = "loaded" /\ v.job = v.nextJob /\ v.next = NoRows
  /\ v.pc = "publish" => v.next = NoRows
  /\ v.kind # "sweep"

AngleInv(a) ==
  /\ \A x \in Sessions : AngleOK(session[x], a, sub)
  /\ \A x, y \in Sessions : Holds(session[x], a) /\ Holds(session[y], a) => x = y
  /\ queue[a] \in {0, 1}
  /\ queue[a] = 1 => /\ a \in Existing /\ sub[a].status = "PENDING"
                     /\ \A x \in Sessions : ~Holds(session[x], a)
  /\ a \in Existing => sub[a].status # "SKIPPED"

AnswerOn(F) ==
  /\ \A a \in F : AngleInv(a)
  /\ \A x \in Sessions : JobOK(session[x], sub, F) /\ (session[x].kind = "retry" => x \in Handlers)
  /\ job.status = "COMPLETED" => AllDone(sub, NoRows, F)

AnswerInv == AnswerOn(Angles \ overtaken)

\* Session x becomes v, and angle a is its alone if it is not left as it was.
Handles(x, v, a) ==
  /\ AngleOK(v, a, sub')
  /\ a \in Existing => a \in Existing'
  /\ a \in Existing' => /\ sub'[a].status # "SKIPPED"
                        /\ Holds(session[x], a) \/ (a \in Existing /\ sub'[a] = sub[a])
  /\ a \in Existing /\ sub[a].status = "COMPLETED" => sub'[a] = sub[a]
  /\ Holds(v, a) =>
       /\ queue'[a] = 0
       /\ \/ Holds(session[x], a) \/ queue[a] = 1
          \/ \A y \in Sessions : y # x => ~Holds(session[y], a)
  /\ queue'[a] \in {0, 1}
  /\ queue'[a] = 1 => /\ a \in Existing' /\ sub'[a].status = "PENDING"
                      /\ queue[a] = 1 \/ Holds(session[x], a)

Moves(x, v, F) ==
  /\ session' = [session EXCEPT ![x] = v]
  /\ \A a \in F : Handles(x, v, a)
  /\ JobOK(v, sub', F) /\ (v.kind = "retry" => x \in Handlers)
  /\ job'.status = "COMPLETED" => AllDone(sub', NoRows, F)

\* What is done stays done.
LEMMA DoneStays ==
  ASSUME NEW F \in SUBSET Angles, AnswerOn(F), NEW x, NEW v, Moves(x, v, F),
         NEW next, AllDone(sub, next, F)
  PROVE  AllDone(sub', next, F)
<1>1. ASSUME NEW a \in F, a \in DOMAIN sub, sub[a].status = "COMPLETED"
      PROVE  a \in DOMAIN sub' /\ sub'[a].status = "COMPLETED"
  <2>1. Handles(x, v, a)
    BY DEF Moves
  <2> QED
    BY <1>1, <2>1 DEF Handles, Existing
<1> QED
  BY <1>1 DEF AllDone

LEMMA AnglesFollow ==
  ASSUME NEW F \in SUBSET Angles, PhaseInv, AnswerOn(F),
         NEW x \in Sessions, NEW v, Moves(x, v, F), NEW a \in F
  PROVE  AngleInv(a)'
<1>1. session'[x] = v /\ \A y \in Sessions \ {x} : session'[y] = session[y]
  BY DEF Moves, PhaseInv, SessionsOK
<1>2. AngleInv(a) /\ Handles(x, v, a)
  BY DEF AnswerOn, Moves
<1>3. ASSUME NEW y \in Sessions \ {x}
      PROVE  AngleOK(session[y], a, sub')
  <2>1. AngleOK(session[y], a, sub)
    BY <1>2 DEF AngleInv
  <2>2. CASE ~Holds(session[y], a)
    BY <2>1, <2>2 DEF Holds, AngleOK, AngleLoaded, AngleTodo, AngleNext
  <2>3. CASE Holds(session[y], a)
    <3>1. ~Holds(session[x], a)
      BY <1>2, <2>3 DEF AngleInv
    <3>2. /\ a \in DOMAIN sub <=> a \in DOMAIN sub'
          /\ a \in DOMAIN sub => sub'[a] = sub[a]
      BY <1>2, <3>1 DEF Handles, Existing
    <3> QED
      BY <2>1, <3>2 DEF AngleOK, AngleLoaded, AngleTodo
  <2> QED
    BY <2>2, <2>3
<1>4. ASSUME NEW y \in Sessions \ {x}, Holds(v, a), Holds(session[y], a)
      PROVE  FALSE
  BY <1>2, <1>4 DEF AngleInv, Handles
<1>5. ASSUME queue'[a] = 1
      PROVE  ~Holds(v, a) /\ \A y \in Sessions \ {x} : ~Holds(session[y], a)
  <2>1. ~Holds(v, a) /\ (queue[a] = 1 \/ Holds(session[x], a))
    BY <1>2, <1>5 DEF Handles
  <2> QED
    BY <1>2, <2>1 DEF AngleInv
<1>6. \A y \in Sessions : AngleOK(session'[y], a, sub')
  BY <1>1, <1>2, <1>3 DEF Handles
<1>7. \A y, z \in Sessions : Holds(session'[y], a) /\ Holds(session'[z], a) => y = z
  BY <1>1, <1>2, <1>4 DEF AngleInv
<1>8. queue'[a] = 1 => /\ a \in Existing' /\ sub'[a].status = "PENDING"
                       /\ \A y \in Sessions : ~Holds(session'[y], a)
  BY <1>1, <1>2, <1>5 DEF Handles
<1>9. queue'[a] \in {0, 1} /\ (a \in Existing' => sub'[a].status # "SKIPPED")
  BY <1>2 DEF Handles
<1>10. Sessions' = Sessions
  BY DEF Sessions
<1> QED
  BY <1>6, <1>7, <1>8, <1>9, <1>10 DEF AngleInv

LEMMA AnswerMoves ==
  ASSUME NEW F \in SUBSET Angles, PhaseInv, AnswerOn(F), NEW x \in Sessions, NEW v, Moves(x, v, F)
  PROVE  AnswerOn(F)'
<1>1. session'[x] = v /\ \A y \in Sessions \ {x} : session'[y] = session[y]
  BY DEF Moves, PhaseInv, SessionsOK
<1>2. ASSUME NEW y \in Sessions \ {x}
      PROVE  JobOK(session[y], sub', F) /\ (session[y].kind = "retry" => y \in Handlers)
  <2>1. JobOK(session[y], sub, F) /\ (session[y].kind = "retry" => y \in Handlers)
    BY DEF AnswerOn
  <2>2. AllDone(sub, session[y].next, F) => AllDone(sub', session[y].next, F)
    BY DoneStays
  <2> QED
    BY <2>1, <2>2 DEF JobOK
<1>3. \A y \in Sessions : /\ JobOK(session'[y], sub', F)
                          /\ session'[y].kind = "retry" => y \in Handlers
  BY <1>1, <1>2 DEF Moves
<1>4. \A a \in F : AngleInv(a)'
  BY AnglesFollow
<1>5. Sessions' = Sessions
  BY DEF Sessions
<1>6. job'.status = "COMPLETED" => AllDone(sub', NoRows, F)
  BY DEF Moves
<1> QED
  BY <1>3, <1>4, <1>5, <1>6 DEF AnswerOn

\* The rows stay as they are.
Takes(x, v, a) ==
  /\ AngleOK(v, a, sub)
  /\ queue'[a] \in {0, queue[a]}
  /\ Holds(v, a) =>
       \/ Holds(session[x], a)
       \/ queue[a] = 1 /\ queue'[a] = 0
       \/ queue[a] = 0 /\ \A y \in Sessions : y # x => ~Holds(session[y], a)

Quiet(x, v, F) ==
  /\ session' = [session EXCEPT ![x] = v]
  /\ \A a \in F : Takes(x, v, a)
  /\ JobOK(v, sub, F) /\ (v.kind = "retry" => x \in Handlers)
  /\ UNCHANGED <<sub, job>>

LEMMA AnswerQuiet ==
  ASSUME NEW F \in SUBSET Angles, PhaseInv, AnswerOn(F), NEW x \in Sessions, NEW v, Quiet(x, v, F)
  PROVE  AnswerOn(F)'
<1>1. ASSUME NEW a \in F
      PROVE  Handles(x, v, a)
  <2>1. AngleInv(a) /\ Takes(x, v, a) /\ sub' = sub /\ Existing' = Existing
    BY DEF AnswerOn, Quiet, Existing
  <2>2. Holds(session[x], a) => queue[a] = 0
    BY <2>1 DEF AngleInv
  <2>3. queue'[a] \in {0, 1} /\ (queue'[a] = 1 => queue[a] = 1)
    BY <2>1 DEF AngleInv, Takes
  <2>4. Holds(v, a) => queue'[a] = 0
    BY <2>1, <2>2 DEF Takes
  <2> QED
    BY <2>1, <2>3, <2>4 DEF AngleInv, Takes, Handles
<1>2. Moves(x, v, F)
  BY <1>1 DEF Quiet, Moves, AnswerOn
<1> QED
  BY <1>2, AnswerMoves

LEMMA AnswerEnds ==
  ASSUME NEW F \in SUBSET Angles, PhaseInv, AnswerOn(F),
         NEW x \in Sessions, session' = [session EXCEPT ![x] = Idle],
         UNCHANGED <<sub, job, queue>>
  PROVE  AnswerOn(F)'
<1> DEFINE v == Idle
<1>1. /\ v.pc = "idle" /\ v.kind = "none" /\ v.todo = {}
      /\ DOMAIN v.loaded = {} /\ DOMAIN v.next = {}
  BY NewRows DEF Idle
<1>2. session' = [session EXCEPT ![x] = v]
  OBVIOUS
<1> HIDE DEF v
<1>3. ASSUME NEW a \in F
      PROVE  Takes(x, v, a)
  BY <1>1 DEF Takes, Holds, Owns, AngleOK, AngleLoaded, AngleTodo, AngleNext
<1>4. JobOK(v, sub, F)
  BY <1>1 DEF JobOK
<1>5. Quiet(x, v, F)
  BY <1>1, <1>2, <1>3, <1>4 DEF Quiet
<1> QED
  BY <1>5, AnswerQuiet

\* Whoever holds an angle that failed is about to retry it.
LEMMA FailedIsFree ==
  ASSUME NEW F \in SUBSET Angles, PhaseInv, AnswerOn(F), NEW a \in F, a \in Existing,
         NEW y \in Sessions, Holds(session[y], a), sub[a].status = "FAILED"
  PROVE  session[y].kind = "retry" /\ session[y].pc # "idle"
<1>1. AngleOK(session[y], a, sub)
  BY DEF AnswerOn, AngleInv
<1> QED
  BY <1>1 DEF Holds, AngleOK, AngleLoaded, AngleTodo, Reads, Existing, STUCK_STATUSES

\* A new session holds what is stored, of an angle that is its alone.
Opens(x, kind, s, rows, next, new, todo, F) ==
  /\ kind \in {"start", "timeout", "retry"} /\ (kind = "retry" => x \in Handlers)
  /\ DOMAIN rows = {s} /\ rows[s] = sub[s] /\ DOMAIN next = {s}
  /\ UNCHANGED <<sub, job>>
  /\ \A a \in F : queue'[a] = queue[a] \/ (a = s /\ queue'[a] = 0)
  /\ new.status = "COMPLETED" => job.status = "COMPLETED"
  /\ todo = IF kind = "retry" THEN {s} ELSE {}
  /\ s \in F =>
       /\ Reads(kind, sub[s].status)
       /\ next[s].status # "SKIPPED"
       /\ kind = "start" => next[s].status = "GENERATING"
       /\ kind = "retry" => next[s].status = "PENDING"
       /\ \/ Holds(session[x], s)
          \/ queue[s] = 1 /\ queue'[s] = 0
          \/ queue[s] = 0 /\ \A y \in Sessions : y # x => ~Holds(session[y], s)

LEMMA AnswerBegins ==
  ASSUME NEW F \in SUBSET Angles, PhaseInv, AnswerOn(F), NEW x \in Sessions, NEW s \in Existing,
         NEW kind, NEW rows, NEW next, NEW new, NEW todo,
         session' = [session EXCEPT ![x] = Record("loaded", kind, rows, next, job, new, todo)],
         Opens(x, kind, s, rows, next, new, todo, F)
  PROVE  AnswerOn(F)'
<1> USE DEF Opens
<1> DEFINE v == Record("loaded", kind, rows, next, job, new, todo)
<1>1. /\ v.pc = "loaded" /\ v.kind = kind /\ v.loaded = rows /\ v.next = next /\ v.job = job
      /\ v.nextJob = new /\ v.todo = todo
  BY Fields
<1>2. session' = [session EXCEPT ![x] = v]
  OBVIOUS
<1> HIDE DEF v
<1>3. ASSUME NEW a \in F
      PROVE  Takes(x, v, a)
  <2>1. CASE a = s
    <3>1. AngleLoaded(v, a, sub)
      BY <1>1, <2>1 DEF AngleLoaded, Existing
    <3>2. AngleTodo(v, a, sub)
      BY <1>1, <2>1 DEF AngleTodo
    <3>3. AngleNext(v, a)
      BY <1>1, <2>1 DEF AngleNext, Owns
    <3> QED
      BY <2>1, <3>1, <3>2, <3>3 DEF Takes, AngleOK
  <2>2. CASE a # s
    <3>1. a \notin DOMAIN v.loaded /\ a \notin DOMAIN v.next /\ a \notin v.todo
      BY <1>1, <2>2
    <3> QED
      BY <2>2, <3>1 DEF Takes, Holds, Owns, AngleOK, AngleLoaded, AngleTodo, AngleNext
  <2> QED
    BY <2>1, <2>2
<1>4. JobOK(v, sub, F)
  <2>1. ASSUME new.status = "COMPLETED"
        PROVE  AllDone(sub, next, F)
    <3>1. AllDone(sub, NoRows, F) /\ DOMAIN NoRows = {}
      BY <2>1, NewRows DEF AnswerOn
    <3>2. \A a \in F : sub[a].status = "COMPLETED" /\ a \in DOMAIN sub
      BY <3>1 DEF AllDone
    <3>3. s \notin F
      BY <3>2 DEF Reads, STUCK_STATUSES
    <3> QED
      BY <3>2, <3>3 DEF AllDone
  <2> QED
    BY <1>1, <2>1 DEF JobOK
<1>5. Quiet(x, v, F)
  BY <1>1, <1>2, <1>3, <1>4 DEF Quiet, AnswerOn
<1> QED
  BY <1>5, AnswerQuiet

LEMMA AnswerStart ==
  ASSUME NEW F \in SUBSET Angles, PhaseInv, AnswerOn(F),
         NEW w \in Workers, NEW s \in Existing, start_task(w, s)
  PROVE  AnswerOn(F)'
<1> DEFINE next == [t \in {s} |-> [sub[t] EXCEPT !.status = "GENERATING"]]
           new == IF s = Cleanup /\ job.status = "PENDING"
                  THEN [job EXCEPT !.status = "PROCESSING"] ELSE job
           rows == [t \in {s} |-> sub[t]]
           kind == "start"
           b == PlannedRows(Begin(kind, {s}), next, new)
           todo == {}
<1>1. session' = [session EXCEPT ![w] = b] /\ UNCHANGED <<sub, job>>
  BY DEF start_task, PlannedRows
<1>2. /\ DOMAIN next = {s} /\ next[s].status = "GENERATING"
      /\ DOMAIN rows = {s} /\ rows[s] = sub[s]
      /\ new.status = "COMPLETED" => job.status = "COMPLETED"
  BY StoredRow DEF SubJobRow, PhaseInv, RowsOK, JobRow
<1>3. b = Record("loaded", kind, rows, next, job, new, todo)
  <2> HIDE DEF next, new, kind
  <2> QED
    BY BeginPlan
<1>4. /\ w \in Sessions /\ kind = "start" /\ todo = {}
      /\ queue \in [SubJobs -> Nat] /\ s \in SubJobs
  BY StoredRow DEF Sessions, PhaseInv, OthersOK
<1> HIDE DEF next, new, rows, b, kind, todo
<1>5. session' = [session EXCEPT ![w] = Record("loaded", kind, rows, next, job, new, todo)]
  BY <1>1, <1>3
<1>6. queue[s] > 0 /\ queue' = [queue EXCEPT ![s] = @ - 1]
  BY DEF start_task
<1>7. s \in F => queue[s] = 1 /\ queue'[s] = 0 /\ sub[s].status = "PENDING"
  BY <1>4, <1>6 DEF AnswerOn, AngleInv
<1>8. \A a \in F : queue'[a] = queue[a] \/ (a = s /\ queue'[a] = 0)
  BY <1>4, <1>6, <1>7 DEF SubJobs
<1>9. Opens(w, kind, s, rows, next, new, todo, F)
  BY <1>1, <1>2, <1>4, <1>7, <1>8 DEF Reads, Opens
<1> QED
  BY <1>4, <1>5, <1>9, AnswerBegins

\* A timeout that fires when its task has committed is of no angle of F.
LEMMA AnswerTimeout ==
  ASSUME NEW F \in SUBSET Angles, PhaseInv, AnswerOn(F),
         NEW w \in Workers, NEW s \in Existing, mark_sub_job_timed_out(w, s),
         F \intersect overtaken' = {}
  PROVE  AnswerOn(F)'
<1>1. w \in Sessions /\ UNCHANGED <<sub, job, queue>>
  BY DEF Sessions, mark_sub_job_timed_out
<1>3. CASE sub[s].status \notin STUCK_STATUSES
  BY <1>1, <1>3, AnswerEnds DEF mark_sub_job_timed_out
<1>4. CASE sub[s].status \in STUCK_STATUSES
  <2> DEFINE next == [t \in {s} |-> MarkFailed(sub[t])]
             rows == [t \in {s} |-> sub[t]]
             kind == "timeout"
             b == PlannedNext(Begin(kind, {s}), next)
             todo == {}
  <2>1. session' = [session EXCEPT ![w] = b]
    BY <1>4 DEF mark_sub_job_timed_out, PlannedNext
  <2>2. /\ DOMAIN next = {s} /\ next[s].status = "FAILED"
        /\ DOMAIN rows = {s} /\ rows[s] = sub[s]
    BY StoredRow DEF SubJobRow, MarkFailed
  <2>3. b = Record("loaded", kind, rows, next, job, job, todo)
    <3> HIDE DEF next, kind
    <3> QED
      BY BeginPlan
  <2>4. kind = "timeout" /\ todo = {}
    OBVIOUS
  <2> HIDE DEF next, rows, b, kind, todo
  <2>5. session' = [session EXCEPT ![w] = Record("loaded", kind, rows, next, job, job, todo)]
    BY <2>1, <2>3
  <2>6. s \in F => Holds(session[w], s)
    BY <1>4 DEF mark_sub_job_timed_out, At, Holds, Owns
  <2>7. Opens(w, kind, s, rows, next, job, todo, F)
    BY <1>1, <1>4, <2>2, <2>4, <2>6 DEF Reads, Opens
  <2> QED
    BY <1>1, <2>5, <2>7, AnswerBegins
<1> QED
  BY <1>3, <1>4

LEMMA AnswerRetry ==
  ASSUME NEW F \in SUBSET Angles, PhaseInv, AnswerOn(F),
         NEW h \in Handlers, NEW s \in Existing, execute_retry(h, s),
         s \in F => \A k \in Handlers : k = h
  PROVE  AnswerOn(F)'
<1> DEFINE next == [t \in {s} |-> [sub[t] EXCEPT !.status = "PENDING", !.failure = "NONE"]]
           new == IF job.status \in TERMINAL_STATUSES
                  THEN [job EXCEPT !.status = "PROCESSING", !.completed = FALSE]
                  ELSE job
           rows == [t \in {s} |-> sub[t]]
           kind == "retry"
           todo == {s}
           b == Planned(Begin(kind, {s}), next, new, todo)
<1>1. session' = [session EXCEPT ![h] = b] /\ UNCHANGED <<sub, job, queue>>
  BY DEF execute_retry, Planned
<1>2. /\ DOMAIN next = {s} /\ next[s].status = "PENDING"
      /\ DOMAIN rows = {s} /\ rows[s] = sub[s]
      /\ new.status = "COMPLETED" => job.status = "COMPLETED"
  BY StoredRow DEF SubJobRow, PhaseInv, RowsOK, JobRow
<1>3. b = Record("loaded", kind, rows, next, job, new, todo)
  <2> HIDE DEF next, new, kind, todo
  <2> QED
    BY BeginPlan
<1>4. /\ h \in Sessions /\ kind = "retry" /\ todo = {s}
      /\ session[h].pc = "idle" /\ sub[s].status = "FAILED"
  BY DEF Sessions, execute_retry, IsIdle, check_retry_preconditions
<1> HIDE DEF next, new, rows, b, kind, todo
<1>5. session' = [session EXCEPT ![h] = Record("loaded", kind, rows, next, job, new, todo)]
  BY <1>1, <1>3
<1>6. s \in F => queue[s] = 0 /\ \A y \in Sessions : y # h => ~Holds(session[y], s)
  <2> SUFFICES ASSUME s \in F
               PROVE  queue[s] = 0 /\ \A y \in Sessions : y # h => ~Holds(session[y], s)
    OBVIOUS
  <2>1. queue[s] = 0
    BY <1>4 DEF AnswerOn, AngleInv
  <2>2. ASSUME NEW y \in Sessions, y # h, Holds(session[y], s)
        PROVE  FALSE
    <3>1. session[y].kind = "retry"
      BY <1>4, <2>2, FailedIsFree
    <3> QED
      BY <2>2, <3>1 DEF AnswerOn
  <2> QED
    BY <2>1, <2>2
<1>7. Opens(h, kind, s, rows, next, new, todo, F)
  BY <1>1, <1>2, <1>4, <1>6 DEF Reads, Opens
<1> QED
  BY <1>4, <1>5, <1>7, AnswerBegins

LEMMA AnswerStatus ==
  ASSUME NEW F \in SUBSET Angles, PhaseInv, AnswerOn(F),
         NEW h \in Handlers, get_status(h) \/ answer_status(h)
  PROVE  AnswerOn(F)'
<1>1. h \in Sessions
  BY DEF Sessions
<1>2. CASE get_status(h)
  <2> DEFINE v == Begin("status", {})
             S == {}
             rows == [s \in S |-> sub[s]]
  <2>1. /\ session' = [session EXCEPT ![h] = v] /\ UNCHANGED <<sub, job, queue>>
    BY <1>2 DEF get_status
  <2>2. v = Record("loaded", "status", rows, NoRows, job, job, {})
    BY BeginRecord
  <2>3. DOMAIN rows = {} /\ DOMAIN NoRows = {}
    BY NewRows
  <2> HIDE DEF rows, S, v
  <2>4. /\ v.pc = "loaded" /\ v.kind = "status" /\ v.loaded = rows /\ v.next = NoRows
        /\ v.job = job /\ v.nextJob = job /\ v.todo = {}
    BY <2>2, Fields
  <2>5. ASSUME NEW a \in F
        PROVE  Takes(h, v, a)
    BY <2>1, <2>3, <2>4 DEF Takes, Holds, Owns, AngleOK, AngleLoaded, AngleTodo, AngleNext
  <2>6. JobOK(v, sub, F)
    BY <2>4 DEF JobOK, AnswerOn
  <2>7. Quiet(h, v, F)
    BY <2>1, <2>4, <2>5, <2>6 DEF Quiet
  <2> QED
    BY <1>1, <2>7, AnswerQuiet
<1>3. CASE answer_status(h)
  BY <1>1, <1>3, AnswerEnds DEF answer_status
<1> QED
  BY <1>2, <1>3

-----------------------------------------------------------------------------
(* What a flush announces, and what a commit makes of it.                  *)

\* A recompute that says COMPLETED has seen every angle COMPLETED.
LEMMA RollupCompleted ==
  ASSUME NEW D \in SUBSET SubJobs, NEW st \in [D -> SubJobStatus],
         Rollup(st, {Cleanup}).status = "COMPLETED",
         NEW a \in Angles, a \in D, st[a] # "SKIPPED"
  PROVE  st[a] = "COMPLETED"
<1> DEFINE C == Counted(st, {Cleanup})
           S == Succeeded(st, {Cleanup})
           F == Failed(st, {Cleanup})
<1>1. a \in C /\ S \subseteq C /\ C \subseteq SubJobs
  BY AnglesAssumption DEF Counted, Succeeded
<1>2. IsFiniteSet(C)
  BY <1>1, AnglesAssumption, FS_Singleton, FS_Union, FS_Subset DEF SubJobs
<1>3. Cardinality(S) = Cardinality(C)
  BY DEF Rollup, compute_parent_status
<1>4. S = C
  BY <1>1, <1>2, <1>3, FS_Subset
<1> QED
  BY <1>1, <1>4 DEF Succeeded

\* The rows of a flush: its own angles, or all of them if it creates them.
Plans(u, next, created, F) ==
  \A a \in F :
    /\ a \in DOMAIN next =>
         /\ a \in DOMAIN u.loaded \/ (a \in created /\ next[a].status = "PENDING")
         /\ next[a].status # "SKIPPED"
    /\ a \in created => a \in DOMAIN next /\ a \notin Existing

LEMMA FlushSeesAll ==
  ASSUME NEW F \in SUBSET Angles, PhaseInv, AnswerOn(F),
         NEW x \in Sessions, NEW next, NEW created,
         session[x].pc = "loaded",
         Plans(session[x], next, created, F), IsRows(next),
         Angles \subseteq Existing \union DOMAIN next,
         recompute_parent_status(x, next).status = "COMPLETED"
  PROVE  AllDone(sub, next, F)
<1> DEFINE loaded == session[x].loaded
           D == Existing \union DOMAIN next
           see(s) == IF s \in DOMAIN next THEN next[s].status
                     ELSE IF s \in DOMAIN loaded THEN loaded[s].status
                     ELSE sub[s].status
           st == [s \in D |-> see(s)]
<1>1. recompute_parent_status(x, next) = Rollup(st, {Cleanup})
  BY DEF recompute_parent_status
<1>2. /\ \A s \in DOMAIN next : next[s].status \in SubJobStatus
      /\ \A s \in DOMAIN loaded : loaded[s].status \in SubJobStatus
      /\ \A s \in Existing : sub[s].status \in SubJobStatus
      /\ D \subseteq SubJobs
  <2>1. IsRows(loaded) /\ IsRows(sub)
    BY DEF PhaseInv, RowsOK, SessionsOK, SessionOK, IsSession
  <2> QED
    BY <2>1 DEF IsRows, SubJobRow, Existing
<1>3. st \in [D -> SubJobStatus]
  BY <1>2
<1>4. ASSUME NEW a \in F
      PROVE  /\ a \in D /\ st[a] # "SKIPPED"
             /\ a \notin DOMAIN next => a \in DOMAIN sub /\ st[a] = sub[a].status
             /\ a \in DOMAIN next => st[a] = next[a].status
  <2>1. AngleInv(a) /\ AngleOK(session[x], a, sub)
    BY DEF AnswerOn, AngleInv
  <2>2. a \in D
    OBVIOUS
  <2>3. CASE a \in DOMAIN next
    BY <2>2, <2>3 DEF Plans
  <2>4. CASE a \notin DOMAIN next
    <3>1. a \in Existing /\ see(a) = sub[a].status
      BY <2>1, <2>4 DEF AngleOK, AngleLoaded, Owns
    <3> QED
      BY <2>1, <2>2, <2>4, <3>1 DEF AngleInv, Existing
  <2> QED
    BY <2>3, <2>4
<1> HIDE DEF st
<1>5. ASSUME NEW a \in F
      PROVE  st[a] = "COMPLETED"
  <2>1. a \in Angles /\ a \in D /\ st[a] # "SKIPPED" /\ D \in SUBSET SubJobs
    BY <1>2, <1>4
  <2>2. Rollup(st, {Cleanup}).status = "COMPLETED"
    BY <1>1
  <2> HIDE DEF D
  <2> QED
    BY <1>3, <2>1, <2>2, RollupCompleted
<1> QED
  BY <1>4, <1>5 DEF AllDone

LEMMA AnswerFlush ==
  ASSUME NEW F \in SUBSET Angles, PhaseInv, PhaseInv', AnswerOn(F),
         NEW x \in Sessions, NEW next, NEW created,
         Flush(x, next, created), session[x].pc = "loaded",
         session[x].kind \in {"task", "timeout"},
         Plans(session[x], next, created, F)
  PROVE  AnswerOn(F)'
<1> DEFINE u == session[x]
           rows == Restrict(u.loaded, DOMAIN u.loaded \intersect DOMAIN next)
           new == recompute_parent_status(x, next)
           v == Flushed(u, "flushed", next, created, rows, new)
<1>1. /\ session' = [session EXCEPT ![x] = v] /\ UNCHANGED <<sub, job, queue>>
      /\ DOMAIN next \intersect LockedByOthers(x) = {}
  BY DEF Flush, Flushed
<1>2. IsRecord(u) /\ \A a \in F : AngleInv(a) /\ AngleOK(u, a, sub)
  BY DEF PhaseInv, SessionsOK, SessionOK, AnswerOn, AngleInv
<1>3. /\ DOMAIN rows = DOMAIN u.loaded \intersect DOMAIN next
      /\ \A s \in DOMAIN rows : rows[s] = u.loaded[s]
  BY DEF Restrict
<1>4. SessionOK(session'[x], Existing) /\ session'[x] = v
  <2>1. session'[x] = v
    BY <1>1 DEF PhaseInv, SessionsOK
  <2>2. Sessions' = Sessions /\ Existing' = Existing
    BY <1>1 DEF Sessions, Existing
  <2> HIDE DEF v
  <2> QED
    BY <2>1, <2>2 DEF PhaseInv, SessionsOK
<1>5. new.status = "COMPLETED" => AllDone(sub, next, F)
  <2> SUFFICES ASSUME new.status = "COMPLETED" PROVE AllDone(sub, next, F)
    OBVIOUS
  <2>1. v.next = next /\ v.nextJob = new
    <3> HIDE DEF u, rows, new
    <3> QED
      BY <1>2, FlushedRecord, Fields
  <2> HIDE DEF v
  <2>2. IsRows(next) /\ Angles \subseteq Existing \union DOMAIN next
    BY <1>4, <2>1 DEF SessionOK, IsSession, Delivered
  <2> QED
    BY <2>2, FlushSeesAll
<1> HIDE DEF new, rows
<1>6. v = Record("flushed", u.kind, rows, next, u.job, new, created)
  <2> HIDE DEF u
  <2> QED
    BY <1>2, FlushedRecord
<1>7. /\ v.pc = "flushed" /\ v.kind = u.kind /\ v.loaded = rows /\ v.next = next
      /\ v.job = u.job /\ v.nextJob = new /\ v.todo = created
  BY <1>6, Fields
<1> HIDE DEF v
<1>8. ASSUME NEW a \in F, NEW y \in Sessions, y # x, a \in created
      PROVE  ~Holds(session[y], a)
  <2>1. a \notin DOMAIN sub /\ a \notin LockedByOthers(x)
    BY <1>1, <1>8 DEF Plans, Existing
  <2>2. ~(session[y].pc = "flushed" /\ a \in DOMAIN session[y].next)
    BY <1>8, <2>1 DEF LockedByOthers
  <2>3. AngleOK(session[y], a, sub)
    BY DEF AnswerOn, AngleInv
  <2> QED
    BY <2>1, <2>2, <2>3 DEF Holds, Owns, AngleOK, AngleLoaded, AngleTodo
<1>9. ASSUME NEW a \in F
      PROVE  Takes(x, v, a)
  <2>1. AngleLoaded(v, a, sub)
    BY <1>2, <1>3, <1>7 DEF AngleOK, AngleLoaded, Owns
  <2>2. AngleTodo(v, a, sub)
    BY <1>7 DEF Plans, AngleTodo, Existing
  <2>3. AngleNext(v, a)
    BY <1>3, <1>7 DEF Plans, AngleNext, Owns
  <2>4. ASSUME a \in created
        PROVE  queue[a] = 0 /\ \A y \in Sessions : y # x => ~Holds(session[y], a)
    BY <1>2, <1>8, <2>4 DEF Plans, AngleInv
  <2>5. Holds(v, a) => Holds(u, a) \/ a \in created
    BY <1>3, <1>7 DEF Holds, Owns
  <2> QED
    BY <1>1, <2>1, <2>2, <2>3, <2>4, <2>5 DEF AngleOK, Takes
<1>10. JobOK(v, sub, F)
  BY <1>5, <1>7 DEF JobOK
<1>11. Quiet(x, v, F)
  BY <1>1, <1>7, <1>9, <1>10 DEF Quiet, AnswerOn
<1> QED
  BY <1>11, AnswerQuiet

LEMMA AnswerFinish ==
  ASSUME NEW F \in SUBSET Angles, PhaseInv, PhaseInv', AnswerOn(F), NEW w \in Workers,
         finish_cleanup(w) \/ \E a \in Angles : finish_angle(w, a)
  PROVE  AnswerOn(F)'
<1>1. w \in Sessions /\ SessionOK(session[w], Existing)
  BY DEF Sessions, PhaseInv, SessionsOK
<1>2. CASE finish_cleanup(w)
  <2> DEFINE news(row) == IF row.status = "COMPLETED" THEN create_angle_sub_jobs ELSE {}
             nexts(row) == [s \in {Cleanup} \union (news(row) \ Existing) |->
                              IF s = Cleanup THEN row ELSE NewSubJob]
  <2>1. session[w].pc = "loaded" /\ session[w].kind = "task"
    BY <1>2 DEF finish_cleanup, At
  <2>2. PICK row : Flush(w, nexts(row), news(row))
    BY <1>2 DEF finish_cleanup
  <2> DEFINE next == nexts(row)
             created == news(row)
  <2>3. \A a \in created : a \notin Existing
    BY DEF create_angle_sub_jobs
  <2> HIDE DEF news
  <2>4. \A a \in F : /\ a \in DOMAIN next <=> a \in created
                     /\ a \in DOMAIN next => next[a].status = "PENDING"
    BY <2>3, AnglesAssumption DEF NewSubJob
  <2>5. Flush(w, next, created)
    BY <2>2
  <2> HIDE DEF next, created
  <2>6. Plans(session[w], next, created, F)
    BY <2>3, <2>4 DEF Plans
  <2> QED
    BY <1>1, <2>1, <2>5, <2>6, AnswerFlush
<1>3. ASSUME NEW a \in Angles, finish_angle(w, a)
      PROVE  AnswerOn(F)'
  <2> DEFINE old == session[w].loaded[a]
  <2>1. /\ session[w].pc = "loaded" /\ session[w].kind = "task" /\ a \in DOMAIN session[w].loaded
        /\ old \in SubJobRow /\ old.attempts < MaxAttempts
    BY <1>1, <1>3 DEF finish_angle, At, SessionOK, IsSession, IsRows
  <2>2. PICK row \in attempt_loop(old, "COMPLETED") : Flush(w, [t \in {a} |-> row], {})
    BY <1>3 DEF finish_angle
  <2>3. row.status # "SKIPPED"
    <3>1. "COMPLETED" \in SubJobStatus
      BY DEF SubJobStatus
    <3> HIDE DEF old
    <3>2. row.status \in {"COMPLETED", "FAILED", "REJECTED"}
      BY <2>1, <2>2, <3>1, AttemptLoopResult
    <3> QED
      BY <3>2
  <2> DEFINE next == [t \in {a} |-> row]
             created == {}
  <2>4. DOMAIN next = {a} /\ next[a] = row /\ Flush(w, next, created) /\ created = {}
    BY <2>2
  <2> HIDE DEF next, created
  <2>5. Plans(session[w], next, created, F)
    BY <2>1, <2>3, <2>4 DEF Plans
  <2> QED
    BY <1>1, <2>1, <2>4, <2>5, AnswerFlush
<1> QED
  BY <1>2, <1>3

\* Without the sweep only a timeout has its row planned when it is flushed.
LEMMA AnswerFlushPlanned ==
  ASSUME NEW F \in SUBSET Angles, PhaseInv, PhaseInv', AnswerOn(F),
         NEW x \in Sessions, FlushPlanned(x),
         session[x].kind # "sweep"
  PROVE  AnswerOn(F)'
<1> DEFINE next == session[x].next
           created == {}
<1>1. /\ session[x].pc = "loaded" /\ session[x].kind = "timeout" /\ Flush(x, next, created)
  BY DEF FlushPlanned, At
<1>2. Plans(session[x], next, created, F)
  <2> SUFFICES ASSUME NEW a \in F, a \in DOMAIN next
               PROVE  a \in DOMAIN session[x].loaded /\ next[a].status # "SKIPPED"
    BY DEF Plans
  <2>1. AngleOK(session[x], a, sub)
    BY DEF AnswerOn, AngleInv
  <2> QED
    BY <1>1, <2>1 DEF AngleOK, AngleNext, AngleTodo, Owns
<1> HIDE DEF next, created
<1> QED
  BY <1>1, <1>2, AnswerFlush

\* A commit stores the angles as they were planned.
LEMMA AngleWrites ==
  ASSUME NEW F \in SUBSET Angles, PhaseInv, AnswerOn(F),
         NEW x \in Sessions, WriteRows(x), NEW a \in F,
         session[x].pc \in {"loaded", "flushed"}
  PROVE  /\ a \in DOMAIN session[x].next => a \in DOMAIN sub' /\ sub'[a] = session[x].next[a]
         /\ a \notin DOMAIN session[x].next =>
              /\ a \in DOMAIN sub' <=> a \in DOMAIN sub
              /\ a \in DOMAIN sub => sub'[a] = sub[a]
<1> DEFINE u == session[x]
           E == Existing \union DOMAIN u.next
           new(s) == IF s \notin DOMAIN u.next THEN sub[s]
                     ELSE IF s \in DOMAIN u.loaded THEN WrittenRow(sub[s], u.loaded[s], u.next[s])
                     ELSE u.next[s]
<1>1. sub' = [s \in E |-> new(s)]
  BY DEF WriteRows
<1>2. IsRows(u.next) /\ IsRows(sub)
  BY DEF PhaseInv, RowsOK, SessionsOK, SessionOK, IsSession
<1>3. AngleOK(u, a, sub) /\ u.pc # "publish"
  BY DEF AnswerOn, AngleInv
<1> HIDE DEF u
<1>4. CASE a \in DOMAIN u.next
  <2>1. new(a) = u.next[a]
    <3>1. CASE a \in DOMAIN u.loaded
      <4>1. u.loaded[a] = sub[a] /\ sub[a] \in SubJobRow /\ u.next[a] \in SubJobRow
        BY <1>2, <1>3, <1>4, <3>1 DEF IsRows, AngleOK, AngleLoaded, Owns
      <4>2. WrittenRow(sub[a], u.loaded[a], u.next[a]) = u.next[a]
        BY <4>1, FreshRow
      <4> QED
        BY <1>4, <3>1, <4>2
    <3> QED
      BY <1>4, <3>1
  <2> HIDE DEF new
  <2> QED
    BY <1>1, <1>4, <2>1 DEF u
<1>5. CASE a \notin DOMAIN u.next
  BY <1>1, <1>5 DEF u, Existing
<1> QED
  BY <1>4, <1>5 DEF u

Commits(x, v, F) ==
  /\ session[x].pc \in {"loaded", "flushed"} /\ WriteRows(x)
  /\ session' = [session EXCEPT ![x] = v]
  /\ \A a \in F : AngleOK(v, a, sub') /\ (Holds(v, a) => Holds(session[x], a))
  /\ JobOK(v, sub', F) /\ (v.kind = "retry" => x \in Handlers)
  /\ job'.status \in {job.status, session[x].nextJob.status}
  /\ UNCHANGED queue

\* What has been announced is true after the commit.
LEMMA Announced ==
  ASSUME NEW F \in SUBSET Angles, PhaseInv, AnswerOn(F), NEW x \in Sessions, WriteRows(x),
         session[x].pc \in {"loaded", "flushed"}, AllDone(sub, session[x].next, F)
  PROVE  AllDone(sub', NoRows, F)
<1>1. ASSUME NEW a \in F
      PROVE  a \in DOMAIN sub' /\ sub'[a].status = "COMPLETED"
  BY AngleWrites DEF AllDone
<1> QED
  BY <1>1, NewRows DEF AllDone

LEMMA AnswerCommits ==
  ASSUME NEW F \in SUBSET Angles, PhaseInv, AnswerOn(F),
         NEW x \in Sessions, NEW v, Commits(x, v, F)
  PROVE  AnswerOn(F)'
<1> DEFINE u == session[x]
<1>1. /\ JobOK(u, sub, F) /\ u.pc \in {"loaded", "flushed"} /\ WriteRows(x)
      /\ job'.status \in {job.status, u.nextJob.status} /\ UNCHANGED queue
  BY DEF AnswerOn, Commits
<1>2. ASSUME NEW a \in F
      PROVE  /\ AngleInv(a) /\ AngleOK(u, a, sub)
             /\ a \in DOMAIN u.next => a \in DOMAIN sub' /\ sub'[a] = u.next[a]
             /\ a \notin DOMAIN u.next =>
                  /\ a \in DOMAIN sub' <=> a \in DOMAIN sub
                  /\ a \in DOMAIN sub => sub'[a] = sub[a]
  BY <1>1, AngleWrites DEF AnswerOn, AngleInv
<1> HIDE DEF u
<1>3. ASSUME NEW a \in F, a \in DOMAIN u.next
      PROVE  /\ Holds(u, a)
             /\ u.next[a].status # "SKIPPED"
             /\ a \in DOMAIN sub => sub[a].status # "COMPLETED"
  <2>1. Holds(u, a) /\ u.next[a].status # "SKIPPED"
    BY <1>2, <1>3 DEF AngleOK, AngleNext, Holds
  <2>2. ASSUME a \in DOMAIN sub
        PROVE  Owns(u, a)
    BY <1>1, <1>2, <1>3, <2>2 DEF AngleOK, AngleNext, AngleTodo, Owns
  <2>3. a \in DOMAIN sub => sub[a].status # "COMPLETED"
    BY <1>2, <2>2 DEF AngleOK, AngleLoaded, Reads, STUCK_STATUSES
  <2> QED
    BY <2>1, <2>3
<1>4. ASSUME NEW a \in F
      PROVE  Handles(x, v, a)
  <2>1. AngleOK(v, a, sub') /\ (Holds(v, a) => Holds(u, a))
    BY DEF Commits, u
  <2>2. Holds(u, a) => queue[a] = 0
    BY <1>2 DEF AngleInv, u
  <2>3. queue'[a] = queue[a] /\ queue[a] \in {0, 1}
    BY <1>1, <1>2 DEF AngleInv
  <2>4. a \in Existing => a \in Existing'
    BY <1>2 DEF Existing
  <2>5. a \in Existing' => /\ sub'[a].status # "SKIPPED"
                           /\ Holds(u, a) \/ (a \in Existing /\ sub'[a] = sub[a])
    BY <1>2, <1>3 DEF AngleInv, Existing
  <2>6. a \in Existing /\ sub[a].status = "COMPLETED" => sub'[a] = sub[a]
    BY <1>2, <1>3 DEF Existing
  <2>7. queue'[a] = 1 => a \in Existing' /\ sub'[a].status = "PENDING"
    <3> SUFFICES ASSUME queue[a] = 1
                 PROVE  a \in Existing' /\ sub'[a].status = "PENDING"
      BY <2>3
    <3>1. a \in Existing /\ sub[a].status = "PENDING"
      BY <1>2 DEF AngleInv
    <3>2. a \notin DOMAIN u.next
      BY <1>3, <2>2
    <3> QED
      BY <1>2, <3>1, <3>2 DEF Existing
  <2> QED
    BY <2>1, <2>2, <2>3, <2>4, <2>5, <2>6, <2>7 DEF Handles, u
<1>5. job'.status = "COMPLETED" => AllDone(sub', NoRows, F)
  <2>1. CASE u.nextJob.status = "COMPLETED"
    <3>1. AllDone(sub, u.next, F)
      BY <1>1, <2>1 DEF JobOK
    <3> QED
      BY <1>1, <3>1, Announced DEF u
  <2>2. CASE job.status = "COMPLETED"
    <3>1. \A a \in F : a \in DOMAIN sub /\ sub[a].status = "COMPLETED"
      BY <2>2, NewRows DEF AnswerOn, AllDone
    <3>2. \A a \in F : a \notin DOMAIN u.next
      BY <1>3, <3>1
    <3>3. AllDone(sub, u.next, F)
      BY <3>1, <3>2 DEF AllDone
    <3> QED
      BY <1>1, <3>3, Announced DEF u
  <2> QED
    BY <1>1, <2>1, <2>2
<1>6. Moves(x, v, F)
  BY <1>4, <1>5 DEF Commits, Moves
<1> QED
  BY <1>6, AnswerMoves

\* A retry that has committed keeps what it has to dispatch.
LEMMA AnswerClose ==
  ASSUME NEW F \in SUBSET Angles, PhaseInv, AnswerOn(F), NEW x \in Sessions,
         session[x].pc = "loaded", session[x].kind = "retry",
         WriteRows(x), Close(x), job'.status \in {job.status, session[x].nextJob.status},
         UNCHANGED queue
  PROVE  AnswerOn(F)'
<1> DEFINE u == session[x]
           p == Published(Idle, "publish", u.kind, u.todo)
           v == IF u.todo = {} THEN Idle ELSE p
<1>1. session' = [session EXCEPT ![x] = v]
  BY DEF Close, Published
<1>2. JobOK(u, sub, F) /\ (u.kind = "retry" => x \in Handlers)
  BY DEF AnswerOn
<1>3. ASSUME NEW a \in F
      PROVE  /\ AngleOK(u, a, sub)
             /\ a \in DOMAIN u.next => a \in DOMAIN sub' /\ sub'[a] = u.next[a]
  BY AngleWrites DEF AnswerOn, AngleInv
<1>4. Idle.pc = "idle" /\ Idle.kind = "none" /\ DOMAIN Idle.loaded = {} /\ Idle.todo = {}
      /\ Idle.loaded = NoRows /\ Idle.next = NoRows /\ DOMAIN NoRows = {} /\ IsRecord(Idle)
  BY NewRows, IdleOK DEF Idle, SessionOK
<1>5. /\ v.pc \in {"idle", "publish"} /\ v.kind \in {"none", u.kind}
      /\ v.loaded = NoRows /\ v.next = NoRows /\ v.todo = u.todo
      /\ u.todo # {} => v.pc = "publish"
  <2>1. p = Record("publish", u.kind, NoRows, NoRows, Idle.job, Idle.nextJob, u.todo)
    <3> HIDE DEF u
    <3> QED
      BY <1>4, PublishedRecord
  <2> HIDE DEF p, u
  <2>2. /\ p.pc = "publish" /\ p.kind = u.kind /\ p.loaded = NoRows /\ p.next = NoRows
        /\ p.todo = u.todo
    BY <2>1, Fields
  <2> QED
    BY <1>4, <2>2
<1>6. /\ u.pc \in {"loaded", "flushed"} /\ u.kind # "status"
  BY <1>2 DEF JobOK
<1> HIDE DEF v
<1>7. ASSUME NEW a \in F
      PROVE  AngleOK(v, a, sub') /\ (Holds(v, a) => Holds(u, a))
  <2>1. a \notin DOMAIN v.loaded /\ a \notin DOMAIN v.next
    BY <1>4, <1>5
  <2>2. ASSUME a \in u.todo
        PROVE  a \in DOMAIN u.next /\ u.next[a].status = "PENDING"
    <3>1. AngleOK(u, a, sub)
      BY <1>3
    <3> QED
      BY <2>2, <3>1 DEF AngleOK, AngleLoaded, AngleTodo, AngleNext
  <2>3. a \in u.todo => v.pc = "publish" /\ a \in DOMAIN sub' /\ sub'[a].status = "PENDING"
    BY <1>3, <1>5, <2>2
  <2> QED
    BY <1>5, <2>1, <2>3 DEF Holds, Owns, AngleOK, AngleLoaded, AngleTodo, AngleNext
<1>8. JobOK(v, sub', F) /\ (v.kind = "retry" => x \in Handlers)
  BY <1>2, <1>5, <1>6 DEF JobOK
<1>9. Commits(x, v, F)
  BY <1>1, <1>6, <1>7, <1>8 DEF Commits
<1> QED
  BY <1>9, AnswerCommits

LEMMA AnswerCommitLoaded ==
  ASSUME NEW F \in SUBSET Angles, PhaseInv, AnswerOn(F), NEW x \in Sessions, CommitLoaded(x)
  PROVE  AnswerOn(F)'
<1>1. /\ session[x].pc = "loaded" /\ session[x].kind \in {"start", "retry"}
      /\ WriteRows(x) /\ UNCHANGED queue
  BY DEF CommitLoaded, At
<1>2. job'.status \in {job.status, session[x].nextJob.status}
  BY JobCommitted DEF CommitLoaded
<1>3. CASE session[x].kind = "retry"
  <2>1. Close(x)
    BY <1>3 DEF CommitLoaded
  <2> QED
    BY <1>1, <1>2, <1>3, <2>1, AnswerClose
<1>4. CASE session[x].kind = "start"
  <2> DEFINE u == session[x]
             v == Started(u, "task", u.next, NoRows, u.nextJob)
  <2>1. session' = [session EXCEPT ![x] = v]
    BY <1>4 DEF CommitLoaded, Started
  <2>2. IsRecord(u) /\ JobOK(u, sub, F)
    BY DEF PhaseInv, SessionsOK, SessionOK, AnswerOn
  <2>3. ASSUME NEW a \in F
        PROVE  /\ AngleOK(u, a, sub)
               /\ a \in DOMAIN u.next => a \in DOMAIN sub' /\ sub'[a] = u.next[a]
    BY <1>1, AngleWrites DEF AnswerOn, AngleInv
  <2>4. u.nextJob.status = "COMPLETED" => AllDone(sub', NoRows, F)
    BY <1>1, <2>2, Announced DEF JobOK
  <2> HIDE DEF u
  <2>5. /\ v.pc = u.pc /\ v.kind = "task" /\ v.loaded = u.next /\ v.next = NoRows
        /\ v.nextJob = u.nextJob /\ v.todo = u.todo
    BY <2>2, StartedRecord, Fields
  <2> HIDE DEF v
  <2>6. u.pc = "loaded" /\ u.kind = "start" /\ DOMAIN NoRows = {}
    BY <1>1, <1>4, NewRows DEF u
  <2>7. ASSUME NEW a \in F
        PROVE  AngleOK(v, a, sub') /\ (Holds(v, a) => Holds(u, a))
    <3>1. a \notin u.todo
      BY <2>3, <2>6 DEF AngleOK, AngleTodo
    <3>2. a \in DOMAIN u.next => Owns(u, a) /\ u.next[a].status = "GENERATING"
      BY <2>3, <2>6, <3>1 DEF AngleOK, AngleNext
    <3>3. AngleLoaded(v, a, sub')
      BY <2>3, <2>5, <2>6, <3>2 DEF AngleLoaded, Reads, Owns
    <3> QED
      BY <2>5, <2>6, <3>1, <3>2, <3>3 DEF Holds, Owns, AngleOK, AngleTodo, AngleNext
  <2>8. JobOK(v, sub', F)
    BY <2>4, <2>5, <2>6 DEF JobOK
  <2>9. Commits(x, v, F)
    BY <1>1, <1>2, <2>1, <2>5, <2>7, <2>8 DEF Commits, u
  <2> QED
    BY <2>9, AnswerCommits
<1> QED
  BY <1>1, <1>3, <1>4

LEMMA AnswerPublish ==
  ASSUME NEW F \in SUBSET Angles, PhaseInv, AnswerOn(F),
         NEW x \in Sessions, NEW s \in SubJobs, Publish(x, s)
  PROVE  AnswerOn(F)'
<1> DEFINE u == session[x]
           d == Dispatched(u, u.todo \ {s})
           v == IF u.todo = {s} THEN Idle ELSE d
<1>1. /\ session' = [session EXCEPT ![x] = v] /\ UNCHANGED <<sub, job>>
      /\ u.pc = "publish" /\ s \in u.todo /\ queue' = [queue EXCEPT ![s] = @ + 1]
  BY DEF Publish, Dispatched
<1>2. /\ IsRecord(u) /\ JobOK(u, sub, F) /\ (u.kind = "retry" => x \in Handlers)
      /\ queue \in [SubJobs -> Nat]
  BY DEF PhaseInv, OthersOK, SessionsOK, SessionOK, AnswerOn
<1>3. ASSUME NEW a \in F
      PROVE  AngleInv(a) /\ AngleOK(u, a, sub)
  BY DEF AnswerOn, AngleInv
<1>4. /\ Idle.pc = "idle" /\ Idle.kind = "none" /\ Idle.todo = {}
      /\ Idle.loaded = NoRows /\ Idle.next = NoRows /\ DOMAIN NoRows = {}
  BY NewRows DEF Idle
<1>5. /\ v.pc \in {"idle", "publish"} /\ v.kind \in {"none", u.kind}
      /\ v.todo = u.todo \ {s} /\ (v.pc = "idle" => v.loaded = NoRows)
      /\ v.next \in {NoRows, u.next} /\ (v.todo # {} => v.pc = "publish")
  <2> HIDE DEF u
  <2>1. /\ d.pc = u.pc /\ d.kind = u.kind /\ d.loaded = u.loaded /\ d.next = u.next
        /\ d.todo = u.todo \ {s}
    BY <1>2, DispatchedRecord, Fields
  <2> HIDE DEF d
  <2> QED
    BY <1>1, <1>4, <2>1
<1> HIDE DEF v
<1>6. u.kind # "status"
  BY <1>1, <1>2 DEF JobOK
<1>7. ASSUME NEW a \in F
      PROVE  Handles(x, v, a)
  <2>1. /\ ~Owns(u, a) /\ a \notin DOMAIN u.next
        /\ a \in u.todo => a \in DOMAIN sub /\ sub[a].status = "PENDING" /\ Holds(u, a)
    BY <1>1, <1>2, <1>3, <1>4 DEF AngleOK, AngleTodo, Holds, Owns, JobOK
  <2>2. ~Owns(v, a) /\ a \notin DOMAIN v.next
    BY <1>4, <1>5, <2>1 DEF Owns
  <2>3. queue'[a] = IF a = s THEN queue[a] + 1 ELSE queue[a]
    BY <1>1, <1>2 DEF SubJobs
  <2>4. AngleInv(a) /\ (Holds(u, a) => queue[a] = 0)
    BY <1>3 DEF AngleInv, u
  <2>5. Holds(v, a) => a # s /\ a \in v.todo /\ a \in u.todo
    BY <1>5, <2>2 DEF Holds
  <2>6. a \in v.todo => v.pc = "publish" /\ a \in u.todo
    BY <1>5
  <2>7. AngleOK(v, a, sub)
    BY <2>1, <2>2, <2>6 DEF AngleOK, AngleLoaded, AngleTodo, AngleNext
  <2>8. Existing' = Existing /\ sub' = sub
    BY <1>1 DEF Existing
  <2>9. a \in Existing <=> a \in DOMAIN sub
    BY DEF Existing
  <2>10. queue'[a] \in {0, 1} /\ (queue'[a] = 1 => queue[a] = 1 \/ Holds(u, a))
    BY <1>1, <2>1, <2>3, <2>4 DEF AngleInv
  <2>11. queue'[a] = 1 => a \in Existing /\ sub[a].status = "PENDING"
    BY <1>1, <2>1, <2>3, <2>4, <2>9 DEF AngleInv
  <2>12. Holds(v, a) => Holds(u, a) /\ queue'[a] = 0
    BY <2>1, <2>3, <2>4, <2>5
  <2> QED
    BY <2>4, <2>7, <2>8, <2>10, <2>11, <2>12 DEF Handles, AngleInv, u
<1>8. JobOK(v, sub', F) /\ (v.kind = "retry" => x \in Handlers)
  BY <1>1, <1>2, <1>4, <1>5, <1>6 DEF JobOK
<1>9. job'.status = "COMPLETED" => AllDone(sub', NoRows, F)
  BY <1>1 DEF AnswerOn
<1>10. Moves(x, v, F)
  BY <1>1, <1>7, <1>8, <1>9 DEF Moves
<1> QED
  BY <1>10, AnswerMoves

LEMMA AnswerCommitFlushed ==
  ASSUME NEW F \in SUBSET Angles, PhaseInv, AnswerOn(F), NEW x \in Sessions, CommitFlushed(x)
  PROVE  AnswerOn(F)'
<1> DEFINE u == session[x]
           v == Committed(u)
<1>1. /\ u.pc = "flushed" /\ WriteRows(x) /\ UNCHANGED queue
      /\ session' = [session EXCEPT ![x] = v]
  BY DEF CommitFlushed, Committed, Kept
<1>2. job'.status \in {job.status, u.nextJob.status}
  BY JobCommitted DEF CommitFlushed
<1>3. SessionOK(u, Existing) /\ JobOK(u, sub, F)
  BY DEF PhaseInv, SessionsOK, AnswerOn
<1>4. ASSUME NEW a \in F
      PROVE  /\ AngleOK(u, a, sub)
             /\ a \in DOMAIN u.next => a \in DOMAIN sub' /\ sub'[a] = u.next[a]
  BY <1>1, AngleWrites DEF AnswerOn, AngleInv
<1> HIDE DEF u
<1>5. /\ v.pc \in {"idle", "publish"} /\ v.kind \in {"none", "task"} /\ v.next = NoRows
      /\ v.todo # {} => v.pc = "publish" /\ v.todo = u.todo
      /\ v.pc = "idle" => v.loaded = NoRows
  <2>1. /\ Idle.pc = "idle" /\ Idle.kind = "none" /\ Idle.todo = {}
        /\ Idle.loaded = NoRows /\ Idle.next = NoRows
    BY DEF Idle
  <2>2. CASE u.kind = "task"
    BY <1>3, <2>2, CommittedOK
  <2>3. CASE u.kind # "task"
    BY <2>1, <2>3 DEF Committed
  <2> QED
    BY <2>2, <2>3
<1> HIDE DEF v
<1>6. DOMAIN NoRows = {}
  BY NewRows
<1>7. ASSUME NEW a \in F
      PROVE  AngleOK(v, a, sub') /\ (Holds(v, a) => Holds(u, a))
  <2>1. ~Owns(v, a) /\ a \notin DOMAIN v.next
    BY <1>5, <1>6 DEF Owns
  <2>2. ASSUME a \in v.todo
        PROVE  /\ v.pc = "publish" /\ a \in u.todo
               /\ a \in DOMAIN sub' /\ sub'[a].status = "PENDING"
    <3>1. v.pc = "publish" /\ a \in u.todo
      BY <1>5, <2>2
    <3>2. a \in DOMAIN u.next /\ u.next[a].status = "PENDING"
      BY <1>1, <1>4, <3>1 DEF u, AngleOK, AngleLoaded, AngleTodo, AngleNext
    <3> QED
      BY <1>4, <3>1, <3>2
  <2> QED
    BY <2>1, <2>2 DEF Holds, AngleOK, AngleLoaded, AngleTodo, AngleNext
<1>8. JobOK(v, sub', F)
  BY <1>5 DEF JobOK
<1>9. Commits(x, v, F)
  BY <1>1, <1>2, <1>5, <1>7, <1>8 DEF Commits, u
<1> QED
  BY <1>9, AnswerCommits

LEMMA AnswerWorker ==
  ASSUME Undisturbed, NEW F \in SUBSET Angles, F \intersect overtaken' = {},
         PhaseInv, PhaseInv', AnswerOn(F), NEW w \in Workers, WorkerStep(w)
  PROVE  AnswerOn(F)'
<1>1. CASE \E s \in Existing : start_task(w, s) \/ mark_sub_job_timed_out(w, s)
  BY <1>1, AnswerStart, AnswerTimeout
<1>2. CASE finish_cleanup(w) \/ \E a \in Angles : finish_angle(w, a)
  BY <1>2, AnswerFinish
<1>3. CASE assertion_fails(w) \/ connections_closed(w)
  <2>1. /\ w \in Sessions /\ session' = [session EXCEPT ![w] = Idle]
        /\ UNCHANGED <<sub, job, queue>>
    BY <1>3 DEF assertion_fails, connections_closed, Sessions
  <2> QED
    BY <2>1, AnswerEnds
<1>4. ~ \E stale \in SUBSET SubJobs : reconcile_stuck_sub_jobs(w, stale)
  BY DEF Undisturbed, reconcile_stuck_sub_jobs
<1> QED
  BY <1>1, <1>2, <1>3, <1>4 DEF WorkerStep

LEMMA AnswerHandler ==
  ASSUME Undisturbed, NEW F \in SUBSET Angles, PhaseInv, AnswerOn(F), NEW h \in Handlers,
         HandlerStep(h)
  PROVE  AnswerOn(F)'
<1>1. CASE retry_job(h)
  <2>1. Cleanup \in Existing /\ Cleanup \notin Angles /\ execute_retry(h, Cleanup)
    BY <1>1, AnglesAssumption DEF retry_job, PhaseInv, RowsOK
  <2> QED
    BY <2>1, AnswerRetry
<1>2. CASE retry_angle(h)
  <2>1. PICK a \in Angles \intersect Existing : execute_retry(h, a)
    BY <1>2 DEF retry_angle
  <2>2. \A k \in Handlers : k = h
    BY <1>2 DEF retry_angle, Undisturbed
  <2> QED
    BY <2>1, <2>2, AnswerRetry
<1>3. CASE get_status(h) \/ answer_status(h)
  BY <1>3, AnswerStatus
<1> QED
  BY <1>1, <1>2, <1>3 DEF HandlerStep

LEMMA AnswerNext ==
  ASSUME Undisturbed, NEW F \in SUBSET Angles, F \intersect overtaken' = {},
         PhaseInv, PhaseInv', AnswerOn(F), [Next]_vars
  PROVE  AnswerOn(F)'
<1>1. CASE \E w \in Workers : WorkerStep(w)
  BY <1>1, AnswerWorker
<1>2. CASE \E h \in Handlers : HandlerStep(h)
  BY <1>2, AnswerHandler
<1>3. ASSUME NEW x \in Sessions, SessionStep(x)
      PROVE  AnswerOn(F)'
  <2>1. CASE FlushPlanned(x)
    <3>1. session[x].kind # "sweep"
      BY DEF AnswerOn, JobOK
    <3> QED
      BY <2>1, <3>1, AnswerFlushPlanned
  <2> QED
    BY <1>3, <2>1, AnswerCommitLoaded, AnswerCommitFlushed, AnswerPublish DEF SessionStep
<1>4. ASSUME NEW x \in Sessions, Fault(x)
      PROVE  AnswerOn(F)'
  <2>1. /\ session' = [session EXCEPT ![x] = Idle]
        /\ UNCHANGED <<sub, job, queue>>
    BY <1>4 DEF Fault
  <2> QED
    BY <2>1, AnswerEnds
<1>5. CASE UNCHANGED vars
  BY <1>5 DEF vars, AnswerOn, AngleInv, Existing, Sessions
<1> QED
  BY <1>1, <1>2, <1>3, <1>4, <1>5 DEF Next

LEMMA AnswerInit ==
  ASSUME Init
  PROVE  AnswerInv
<1>1. /\ Idle.pc = "idle" /\ Idle.kind = "none" /\ Idle.todo = {}
      /\ DOMAIN Idle.loaded = {} /\ DOMAIN Idle.next = {}
  BY NewRows DEF Idle
<1>2. \A x \in Sessions : session[x] = Idle
  BY DEF Init
<1>3. ASSUME NEW a \in Angles
      PROVE  AngleInv(a)
  <2>1. ~Holds(Idle, a) /\ AngleOK(Idle, a, sub)
    BY <1>1 DEF Holds, Owns, AngleOK, AngleLoaded, AngleTodo, AngleNext
  <2>2. queue[a] = 0 /\ a \notin Existing
    BY AnglesAssumption DEF Init, SubJobs, Existing
  <2> QED
    BY <1>2, <2>1, <2>2 DEF AngleInv
<1>4. JobOK(Idle, sub, Angles \ overtaken)
  BY <1>1 DEF JobOK
<1>5. job.status = "PENDING"
  BY DEF Init, NewJob
<1> QED
  BY <1>1, <1>2, <1>3, <1>4, <1>5 DEF AnswerInv, AnswerOn

\* The history only grows, and only with what a late timeout takes.
LEMMA OvertakenGrows ==
  ASSUME [Next]_vars
  PROVE  overtaken \subseteq overtaken'
<1>1. CASE \E w \in Workers : WorkerStep(w)
  <2> SUFFICES ASSUME NEW w \in Workers, WorkerStep(w)
               PROVE  overtaken \subseteq overtaken'
    BY <1>1
  <2> QED
    BY DEF WorkerStep, start_task, mark_sub_job_timed_out, finish_cleanup, finish_angle, Flush,
           assertion_fails, connections_closed, reconcile_stuck_sub_jobs
<1>2. CASE \E h \in Handlers : HandlerStep(h)
  BY <1>2 DEF HandlerStep, retry_job, retry_angle, execute_retry, get_status, answer_status
<1>3. CASE \E x \in Sessions : SessionStep(x) \/ Fault(x)
  BY <1>3 DEF SessionStep, CommitLoaded, FlushPlanned, Flush, CommitFlushed, Publish, Fault
<1>4. CASE UNCHANGED vars
  BY <1>4 DEF vars
<1> QED
  BY <1>1, <1>2, <1>3, <1>4 DEF Next

LEMMA AnswerShrinks ==
  ASSUME NEW F, NEW G \in SUBSET F, AnswerOn(F)
  PROVE  AnswerOn(G)
BY DEF AnswerOn, JobOK, AllDone

\* While the sweep is off, and angles are retried by one request at a time if
\* at all: an answer put together from two queries that calls the job COMPLETED
\* shows every requested angle COMPLETED, unless a late timeout has overtaken a
\* retry of the angle, however workers, timeouts, crashes and redeliveries
\* interleave with the two.
THEOREM AnswersAreComplete ==
  ASSUME Undisturbed
  PROVE  Spec => []CompletedAnswerIsComplete
<1>1. PhaseInv /\ PhaseInv' /\ AnswerInv /\ [Next]_vars => AnswerInv'
  <2> SUFFICES ASSUME PhaseInv, PhaseInv', AnswerInv, [Next]_vars
               PROVE  AnswerInv'
    OBVIOUS
  <2>1. PICK F \in SUBSET Angles : F = Angles \ overtaken'
    OBVIOUS
  <2>2. F \in SUBSET (Angles \ overtaken) /\ F \intersect overtaken' = {}
    BY <2>1, OvertakenGrows
  <2>3. AnswerOn(F)
    BY <2>2, AnswerShrinks DEF AnswerInv
  <2>4. AnswerOn(F)'
    BY <2>2, <2>3, AnswerNext
  <2> QED
    BY <2>1, <2>4 DEF AnswerInv
<1>2. AnswerInv => CompletedAnswerIsComplete
  <2> SUFFICES ASSUME AnswerInv, NEW h \in Handlers, At(h, "loaded", {"status"}),
                      session[h].job.status = "COMPLETED", NEW a \in Angles \ overtaken
               PROVE  AngleStatuses[a] = "COMPLETED"
    BY DEF CompletedAnswerIsComplete, build_job_status_response
  <2> DEFINE F == Angles \ overtaken
  <2>1. JobOK(session[h], sub, F)
    BY DEF AnswerInv, AnswerOn, Sessions
  <2>2. AllDone(sub, NoRows, F)
    BY <2>1 DEF JobOK, At
  <2> QED
    BY <2>2, NewRows DEF AllDone, AngleStatuses, Existing
<1>3. Init => AnswerInv
  BY AnswerInit
<1> QED
  BY <1>1, <1>2, <1>3, PhaseHolds, PTL DEF Spec
=============================================================================
