-------------------------- MODULE AssetStore_proofs --------------------------
(***************************************************************************)
(* Theorems about AssetStore, for any sub-jobs, workers, retention and     *)
(* bounds: uploads and outputs against the rows that describe them, and    *)
(* provider calls against the costs that are recorded.                     *)
(***************************************************************************)
EXTENDS AssetStore, SubJobRows_proofs, Sums_proofs

-----------------------------------------------------------------------------
(* Paths and asset rows.                                                   *)

LEMMA UploadPaths ==
  ASSUME NEW s \in SubJobs
  PROVE  /\ Input(s) \in Uploads(s)
         /\ \A p \in Uploads(s) : p \in Paths /\ p.sub = s /\ p.n = 0 /\ p.role # "OUTPUT"
                                  /\ KindOf(p.role) \in Kinds
<1>1. /\ "INPUT" \in RolesOf(OperationOf[s])
      /\ \A role \in RolesOf(OperationOf[s]) :
           role \in {"INPUT", "MASK", "SECONDARY", "SECONDARY_MASK", "BACKGROUND"}
  BY OperationsAssumption DEF RolesOf
<1>2. Uploads(s) \subseteq Paths
  BY DEF Paths
<1>3. ASSUME NEW p \in Uploads(s)
      PROVE  p.sub = s /\ p.n = 0 /\ p.role # "OUTPUT" /\ KindOf(p.role) \in Kinds
  BY <1>1, <1>3 DEF Uploads, PathOf, KindOf, Kinds
<1> QED
  BY <1>1, <1>2, <1>3 DEF Uploads, Input

LEMMA OutputPaths ==
  ASSUME NEW s \in SubJobs, NEW p \in Outputs(s)
  PROVE  p \in Paths /\ p.role = "OUTPUT" /\ p.n \in Nat /\ KindOf(p.role) \in Kinds
<1>1. p \in Paths
  BY DEF Paths
<1>2. p.role = "OUTPUT" /\ p.n \in 1..MaxOutputs
  BY DEF Outputs, PathOf
<1> QED
  BY <1>1, <1>2 DEF KindOf, Kinds

AssetRow == [expires : Deadlines, purged : BOOLEAN]

LEMMA CreateAsset ==
  ASSUME today \in 0..MaxDay, NEW p, KindOf(p.role) \in Kinds
  PROVE  create_asset(p) \in [expires : Deadlines, purged : {FALSE}]
<1>1. /\ RETENTION_DAYS["MASK"] \in Nat \ {0} /\ RETENTION_DAYS["INPUT"] \in Nat \ {0}
      /\ RETENTION_DAYS["OUTPUT"] \in Nat \ {0}
  BY RetentionAssumption DEF Kinds
<1>2. compute_expires_at(KindOf(p.role)) \in Deadlines
  BY <1>1, BoundsAssumption DEF Kinds, compute_expires_at, Deadlines
<1> QED
  BY <1>2 DEF create_asset

\* The row of a session's output, or none.
LEMMA AssetRowsShape ==
  ASSUME NEW a \in AssetRows
  PROVE  /\ DOMAIN a = {} \/ \E p \in Paths : DOMAIN a = {p}
         /\ DOMAIN a \subseteq Paths
         /\ \A p \in DOMAIN a : a[p] \in AssetRow /\ ~a[p].purged
<1>1. PICK D \in {{}} \union {{p} : p \in Paths} :
        a \in [D -> [expires : Deadlines, purged : {FALSE}]]
  BY DEF AssetRows
<1> QED
  BY <1>1 DEF AssetRow

LEMMA AssetRowsMember ==
  /\ NoAssets \in AssetRows /\ DOMAIN NoAssets = {}
  /\ \A p \in Paths, row \in [expires : Deadlines, purged : {FALSE}] :
       [q \in {p} |-> row] \in AssetRows
<1> DEFINE Row == [expires : Deadlines, purged : {FALSE}]
<1>1. \A D \in {{}} \union {{p} : p \in Paths} : [D -> Row] \subseteq AssetRows
  BY DEF AssetRows
<1> HIDE DEF Row
<1>2. NoAssets \in [{} -> Row]
  BY DEF NoAssets
<1>3. \A p \in Paths, row \in Row : [q \in {p} |-> row] \in [{p} -> Row]
  OBVIOUS
<1>4. \A p \in Paths : [{p} -> Row] \subseteq AssetRows
  BY <1>1
<1>5. NoAssets \in AssetRows
  BY <1>1, <1>2
<1>6. \A p \in Paths, row \in Row : [q \in {p} |-> row] \in AssetRows
  BY <1>3, <1>4
<1> QED
  BY <1>5, <1>6 DEF NoAssets, Row

-----------------------------------------------------------------------------
(* The attempt loop, one attempt at a time.  Between two attempts the row  *)
(* differs from the loaded one in its attempts only.                       *)

Spending(v) ==
  /\ v.row = [v.loaded EXCEPT !.attempts = v.row.attempts]
  /\ v.loaded.attempts <= v.row.attempts

SessionOK(v) ==
  /\ v \in Session
  /\ v.costs <= v.row.attempts
  /\ v.pc = "reading" => v.row = v.loaded /\ v.costs = 0
  /\ v.pc = "calling" => Spending(v) /\ (v.row.attempts >= MaxAttempts => v.costs = 0)
  /\ v.pc = "storing" => Spending(v) /\ v.loaded.attempts < v.row.attempts
  /\ v.pc = "ended" => v.row \in attempt_loop(v.loaded, SuccessOf(v.sub))
  /\ v.pc # "ended" => DOMAIN v.asset = {}

LEMMA SuccessStatus ==
  \A s : SuccessOf(s) \in SubJobStatus
BY DEF SuccessOf, SubJobStatus

\* A session that has spent an attempt and has to decide what it came to.
Spent(v) ==
  /\ v \in Session
  /\ v.pc = "calling"
  /\ Spending(v) /\ v.loaded.attempts < v.row.attempts
  /\ v.costs <= v.row.attempts
  /\ DOMAIN v.asset = {}

LEMMA SpentSession ==
  ASSUME NEW v, SessionOK(v), v.pc = "calling", v.row.attempts < MaxAttempts
  PROVE  /\ Spent(Spend(v)) /\ Spend(v).costs = v.costs
         /\ Spent(record_cost_event(Spend(v)))
         /\ record_cost_event(Spend(v)).costs = v.costs + 1
<1>1. v \in Session /\ v.row \in SubJobRow /\ v.loaded \in SubJobRow
  BY DEF SessionOK, Session
<1>2. /\ v.row.attempts \in Nat /\ v.row.attempts + 1 \in 0..MaxAttempts
      /\ v.loaded.attempts \in Nat /\ v.loaded.attempts <= v.row.attempts
      /\ v.costs \in Nat /\ v.costs <= v.row.attempts /\ v.costs + 1 \in 0..MaxAttempts
  BY <1>1, AttemptsAssumption DEF SessionOK, Spending, SubJobRow, Session
<1> DEFINE row == [v.row EXCEPT !.attempts = v.row.attempts + 1]
<1>3. row \in SubJobRow /\ row.attempts = v.row.attempts + 1
  BY <1>1, <1>2 DEF SubJobRow
<1>4. row = [v.loaded EXCEPT !.attempts = row.attempts]
  <2>1. v.row = [v.loaded EXCEPT !.attempts = v.row.attempts]
    BY DEF SessionOK, Spending
  <2> QED
    BY <1>1, <1>3, <2>1 DEF SubJobRow
<1>5. Spend(v) = [v EXCEPT !.row = row]
  BY <1>1 DEF Spend, Session
<1> HIDE DEF row
<1>6. /\ Spend(v) \in Session /\ Spend(v).pc = "calling" /\ Spend(v).row = row
      /\ Spend(v).loaded = v.loaded /\ Spend(v).costs = v.costs /\ Spend(v).asset = v.asset
  BY <1>1, <1>3, <1>5 DEF Session
<1>7. DOMAIN v.asset = {}
  BY DEF SessionOK
<1>8. Spent(Spend(v))
  BY <1>2, <1>3, <1>4, <1>6, <1>7 DEF Spent, Spending
<1> DEFINE c == record_cost_event(Spend(v))
<1>9. /\ c \in Session /\ c.pc = "calling" /\ c.row = row
      /\ c.loaded = v.loaded /\ c.costs = v.costs + 1 /\ c.asset = v.asset
  BY <1>2, <1>6 DEF record_cost_event, Session
<1> HIDE DEF c
<1>10. Spent(c)
  BY <1>2, <1>3, <1>4, <1>7, <1>9 DEF Spent, Spending
<1> QED
  BY <1>6, <1>8, <1>9, <1>10 DEF c

LEMMA LoopOutcomes ==
  ASSUME NEW v, Spent(v)
  PROVE  /\ fail(v.row, "SAFETY_REFUSAL") \in attempt_loop(v.loaded, SuccessOf(v.sub))
         /\ fail(v.row, "INTERNAL") \in attempt_loop(v.loaded, SuccessOf(v.sub))
         /\ v.row.attempts >= MaxAttempts
              => fail(v.row, "TRANSIENT") \in attempt_loop(v.loaded, SuccessOf(v.sub))
         /\ [v.row EXCEPT !.status = SuccessOf(v.sub)]
              \in attempt_loop(v.loaded, SuccessOf(v.sub))
<1>1. v.row \in SubJobRow /\ v.loaded \in SubJobRow
  BY DEF Spent, Session
<1>2. v.row.attempts \in (v.loaded.attempts + 1)..MaxAttempts
  BY <1>1, AttemptsAssumption DEF Spent, SubJobRow
<1>3. v.row = [v.loaded EXCEPT !.attempts = v.row.attempts]
  BY DEF Spent, Spending
<1>4. attempt_outcomes(v.row, SuccessOf(v.sub)) \subseteq attempt_loop(v.loaded, SuccessOf(v.sub))
  BY <1>2, <1>3 DEF attempt_loop
<1>5. v.row.attempts >= MaxAttempts => v.row = [v.loaded EXCEPT !.attempts = MaxAttempts]
  BY <1>1, <1>2, <1>3, AttemptsAssumption
<1> QED
  BY <1>4, <1>5 DEF attempt_outcomes, attempt_loop

LEMMA SessionAfterError ==
  ASSUME NEW v, Spent(v), NEW class \in ProviderErrors
  PROVE  SessionOK(AfterError(v, class)) /\ AfterError(v, class).costs = v.costs
<1>1. v \in Session /\ v.row \in SubJobRow /\ v.loaded \in SubJobRow /\ v.costs \in Nat
  BY DEF Spent, Session
<1>2. CASE class = "TRANSIENT" /\ v.row.attempts < MaxAttempts
  BY <1>1, <1>2, AttemptsAssumption DEF AfterError, SessionOK, Spent, SubJobRow
<1>3. CASE ~(class = "TRANSIENT" /\ v.row.attempts < MaxAttempts)
  <2> DEFINE row == fail(v.row, class)
  <2>1. row \in SubJobRow /\ row.attempts = v.row.attempts
    <3>1. row \in SubJobRow
      BY <1>1, FailType DEF ProviderErrors, FailureClass
    <3>2. row.attempts = v.row.attempts
      BY <1>1 DEF fail, SubJobRow
    <3> QED
      BY <3>1, <3>2
  <2>2. row \in attempt_loop(v.loaded, SuccessOf(v.sub))
    <3>1. v.row.attempts \in 0..MaxAttempts
      BY <1>1 DEF SubJobRow
    <3>2. CASE class = "TRANSIENT"
      <4>1. v.row.attempts >= MaxAttempts
        BY <1>3, <3>1, <3>2, AttemptsAssumption
      <4> QED
        BY <3>2, <4>1, LoopOutcomes
    <3>3. CASE class \in {"SAFETY_REFUSAL", "INTERNAL"}
      BY <3>3, LoopOutcomes
    <3> QED
      BY <3>2, <3>3 DEF ProviderErrors
  <2>3. AfterError(v, class) = [v EXCEPT !.pc = "ended", !.row = row]
    BY <1>3 DEF AfterError
  <2> HIDE DEF row
  <2> DEFINE e == [v EXCEPT !.pc = "ended", !.row = row]
  <2>4. /\ e \in Session /\ e.pc = "ended" /\ e.row = row /\ e.loaded = v.loaded
        /\ e.sub = v.sub /\ e.costs = v.costs
    BY <1>1, <2>1 DEF Session
  <2> HIDE DEF e
  <2>5. v.costs <= row.attempts
    BY <2>1 DEF Spent
  <2>6. SessionOK(e)
    BY <2>2, <2>4, <2>5 DEF SessionOK
  <2> QED
    BY <2>3, <2>4, <2>6 DEF e
<1> QED
  BY <1>2, <1>3

LEMMA ErrorKeepsAsset ==
  ASSUME NEW v, Spent(v), NEW class
  PROVE  DOMAIN AfterError(v, class).asset = {}
BY DEF AfterError, Spent, Session

LEMMA OutputsFinite ==
  \A s : IsFiniteSet(Outputs(s))
<1> SUFFICES ASSUME NEW s PROVE IsFiniteSet(Outputs(s))
  OBVIOUS
<1>1. IsFiniteSet(1..MaxOutputs)
  BY BoundsAssumption, FS_Interval
<1> DEFINE path == [n \in 1..MaxOutputs |-> PathOf(s, "OUTPUT", n)]
<1>2. Outputs(s) = {path[n] : n \in 1..MaxOutputs}
  BY DEF Outputs
<1>3. path \in Surjection(1..MaxOutputs, Outputs(s))
  BY <1>2 DEF Surjection
<1> QED
  BY <1>1, <1>3, FS_Surjection

-----------------------------------------------------------------------------
(* The kinds of steps.  A worker turns from one session to another.        *)

AnySession == Session \union {Idle}
CostOf(v) == IF v = Idle THEN 0 ELSE v.costs
HeldBy(v) == IF v = Idle THEN {} ELSE DOMAIN v.asset

\* TypeOK but for unbilled, and what a session is made of.
Shape ==
  /\ today \in 0..MaxDay
  /\ DOMAIN rows \subseteq Paths /\ \A p \in DOMAIN rows : rows[p] \in AssetRow
  /\ objects \subseteq Paths
  /\ sub \in [SubJobs -> SubJobRow]
  /\ queue \subseteq SubJobs
  /\ task \in [Workers -> AnySession]
  /\ \A w \in Workers : task[w] = Idle \/ SessionOK(task[w])
  /\ \/ sweep = Idle
     \/ sweep \in [pc : {"deleting"}, todo : SUBSET DOMAIN rows, marked : SUBSET DOMAIN rows]
  /\ unbilled \in Int /\ faults \in 0..MaxFaults

Turns(w, v) ==
  /\ v = Idle \/ SessionOK(v)
  /\ task' = [task EXCEPT ![w] = v]
  /\ sub' \in [SubJobs -> SubJobRow] /\ queue' \subseteq SubJobs
  /\ UNCHANGED <<today, sweep>>

Works(w, v) ==
  /\ Turns(w, v)
  /\ HeldBy(task[w]) = {} /\ HeldBy(v) = {}
  /\ unbilled' = unbilled + CostOf(v) - CostOf(task[w])
  /\ UNCHANGED <<rows, objects, faults>>

Stores(w, v) ==
  /\ Turns(w, v)
  /\ task[w] # Idle /\ v # Idle
  /\ HeldBy(task[w]) = {} /\ CostOf(v) = CostOf(task[w])
  /\ \E p \in NewPaths(task[w].sub) : HeldBy(v) = {p} /\ objects' = objects \union {p}
  /\ UNCHANGED <<rows, unbilled, faults>>

Records(w) ==
  /\ Turns(w, Idle)
  /\ task[w] # Idle
  /\ rows' = WithRows(task[w].asset)
  /\ unbilled' = unbilled - CostOf(task[w])
  /\ UNCHANGED <<objects, faults>>

Loses(w) ==
  /\ Turns(w, Idle)
  /\ task[w] # Idle
  /\ faults < MaxFaults /\ faults' = faults + 1
  /\ \/ objects' = objects
     \/ /\ HeldBy(task[w]) = {}
        /\ \E p \in NewPaths(task[w].sub) : objects' = objects \union {p}
  /\ UNCHANGED <<rows, unbilled>>

Submits(s) ==
  /\ s \notin Submitted /\ Uploads(s) \subseteq objects
  /\ \E new : /\ DOMAIN new = Uploads(s) /\ rows' = WithRows(new)
              /\ \A p \in Uploads(s) : new[p] \in AssetRow /\ ~new[p].purged
  /\ queue' \subseteq SubJobs
  /\ UNCHANGED <<today, objects, sub, task, sweep, unbilled, faults>>

Updates ==
  /\ sub' \in [SubJobs -> SubJobRow] /\ queue' \subseteq SubJobs
  /\ UNCHANGED <<today, rows, objects, task, sweep, unbilled, faults>>

LEMMA SessionKinds ==
  /\ Idle \notin Session
  /\ \A w \in Workers : Shape => (At(w, "idle") <=> task[w] = Idle)
<1>1. Idle.pc = "idle" /\ \A v \in Session : v.pc # "idle"
  BY DEF Idle, Session
<1> QED
  BY <1>1 DEF Shape, AnySession, At

LEMMA StartStep ==
  ASSUME Shape, NEW w \in Workers, NEW s \in SubJobs, start_task(w, s)
  PROVE  \E v \in AnySession : Works(w, v)
<1> DEFINE v == [pc |-> "reading", sub |-> s, loaded |-> sub'[s], row |-> sub'[s],
                 costs |-> 0, asset |-> NoAssets]
<1>1. sub' \in [SubJobs -> SubJobRow]
  <2>1. [sub[s] EXCEPT !.status = "GENERATING"] \in SubJobRow
    BY DEF Shape, SubJobRow, SubJobStatus
  <2>2. sub' = [sub EXCEPT ![s] = [@ EXCEPT !.status = "GENERATING"]]
    BY DEF start_task
  <2> QED
    BY <2>1, <2>2 DEF Shape
<1>2. sub'[s] \in SubJobRow /\ sub'[s].attempts \in Nat
  BY <1>1 DEF SubJobRow
<1>3. /\ v \in Session /\ v.pc = "reading" /\ v.row = v.loaded /\ v.costs = 0
      /\ v.asset = NoAssets /\ v.row.attempts \in Nat
  BY <1>2, AssetRowsMember, AttemptsAssumption DEF Session
<1>4. task' = [task EXCEPT ![w] = v] /\ At(w, "idle")
      /\ queue' = queue \ {s}
      /\ UNCHANGED <<today, rows, objects, sweep, unbilled, faults>>
  BY DEF start_task, Set
<1> HIDE DEF v
<1>5. SessionOK(v) /\ v # Idle /\ v \in AnySession
  BY <1>3, AssetRowsMember, SessionKinds DEF SessionOK, AnySession
<1>6. task[w] = Idle
  BY <1>4, SessionKinds
<1>7. HeldBy(task[w]) = {} /\ CostOf(task[w]) = 0 /\ HeldBy(v) = {} /\ CostOf(v) = 0
  BY <1>3, <1>5, <1>6, AssetRowsMember DEF HeldBy, CostOf
<1>8. unbilled' = unbilled + CostOf(v) - CostOf(task[w])
  BY <1>4, <1>7 DEF Shape
<1>9. Works(w, v)
  BY <1>1, <1>4, <1>5, <1>7, <1>8 DEF Works, Turns, Shape
<1> QED
  BY <1>5, <1>9

\* A step of the loop, in which the session goes on as v.
LEMMA LoopStep ==
  ASSUME Shape, NEW w \in Workers, ~At(w, "idle"), ~At(w, "ended"),
         NEW v \in AnySession, v = Idle \/ SessionOK(v),
         HeldBy(v) = {}, Set(w, v),
         unbilled' = unbilled + CostOf(v) - CostOf(task[w]),
         UNCHANGED <<today, rows, objects, sub, queue, sweep, faults>>
  PROVE  Works(w, v)
<1>1. SessionOK(task[w]) /\ task[w] # Idle
  BY SessionKinds DEF Shape
<1>2. HeldBy(task[w]) = {}
  BY <1>1 DEF SessionOK, HeldBy, At
<1> QED
  BY <1>2 DEF Works, Turns, Set, Shape

LEMMA DownloadStep ==
  ASSUME Shape, NEW w \in Workers, download_bytes(w)
  PROVE  \E v \in AnySession : Works(w, v)
<1>1. SessionOK(task[w]) /\ At(w, "reading") /\ task[w] # Idle
  BY SessionKinds DEF Shape, download_bytes, At, Idle
<1>2. task[w] \in Session /\ task[w].row = task[w].loaded /\ task[w].costs = 0
  BY <1>1 DEF SessionOK, At
<1>3. unbilled \in Int /\ unbilled' = unbilled /\ UNCHANGED <<today, rows, objects, sub, queue, sweep, faults>>
  BY DEF download_bytes, Shape
<1>4. CASE Set(w, Idle)
  <2>1. Idle \in AnySession /\ HeldBy(Idle) = {} /\ CostOf(Idle) = 0 /\ CostOf(task[w]) = 0
    BY <1>1, <1>2 DEF AnySession, HeldBy, CostOf
  <2> QED
    BY <1>1, <1>3, <1>4, <2>1, LoopStep DEF At
<1>5. CASE Set(w, [task[w] EXCEPT !.pc = "calling"])
  <2> DEFINE v == [task[w] EXCEPT !.pc = "calling"]
  <2>1. /\ v \in Session /\ v.pc = "calling" /\ v.row = task[w].row /\ v.loaded = task[w].loaded
        /\ v.costs = 0 /\ v.asset = task[w].asset
    BY <1>2 DEF Session
  <2>2. task[w].row \in SubJobRow /\ task[w].row.attempts \in Nat
    BY <1>2 DEF Session, SubJobRow
  <2>3. task[w].row = [task[w].row EXCEPT !.attempts = task[w].row.attempts]
    BY <2>2 DEF SubJobRow
  <2>4. DOMAIN task[w].asset = {}
    BY <1>1 DEF SessionOK, At
  <2>5. Set(w, v)
    BY <1>5
  <2> HIDE DEF v
  <2>6. SessionOK(v)
    BY <1>1, <1>2, <2>1, <2>2, <2>3, <2>4 DEF SessionOK, Spending
  <2>7. v \in AnySession /\ v # Idle
    BY <2>1, SessionKinds DEF AnySession
  <2>8. HeldBy(v) = {} /\ CostOf(v) = 0 /\ CostOf(task[w]) = 0
    BY <1>1, <1>2, <2>1, <2>4, <2>7 DEF HeldBy, CostOf
  <2> QED
    BY <1>1, <1>3, <2>5, <2>6, <2>7, <2>8, LoopStep DEF At
<1> QED
  BY <1>4, <1>5 DEF download_bytes

LEMMA RefusedStep ==
  ASSUME Shape, NEW w \in Workers, acquire_refused(w)
  PROVE  \E v \in AnySession : Works(w, v)
<1>1. SessionOK(task[w]) /\ At(w, "calling") /\ task[w] # Idle /\ task[w].row.attempts < MaxAttempts
  BY SessionKinds DEF Shape, acquire_refused, At, Idle
<1> DEFINE v == AfterError(Spend(task[w]), "TRANSIENT")
<1>2. SessionOK(v) /\ v.costs = task[w].costs
  BY <1>1, SpentSession, SessionAfterError DEF At, ProviderErrors
<1>3. Set(w, v) /\ unbilled' = unbilled
      /\ UNCHANGED <<today, rows, objects, sub, queue, sweep, faults>>
  BY DEF acquire_refused
<1>4. DOMAIN v.asset = {}
  BY <1>1, SpentSession, ErrorKeepsAsset DEF At
<1> HIDE DEF v
<1>5. v \in AnySession /\ v # Idle
  BY <1>2, SessionKinds DEF AnySession, SessionOK
<1>6. /\ HeldBy(v) = {} /\ CostOf(v) = CostOf(task[w])
      /\ CostOf(task[w]) \in Nat /\ unbilled \in Int
  BY <1>1, <1>2, <1>4, <1>5 DEF HeldBy, CostOf, Shape, SessionOK, Session
<1> QED
  BY <1>1, <1>2, <1>3, <1>5, <1>6, LoopStep DEF At

LEMMA GenerateStep ==
  ASSUME Shape, NEW w \in Workers, generate(w)
  PROVE  \E v \in AnySession : Works(w, v)
<1>1. SessionOK(task[w]) /\ At(w, "calling") /\ task[w] # Idle /\ task[w].row.attempts < MaxAttempts
  BY SessionKinds DEF Shape, generate, At, Idle
<1> DEFINE called == record_cost_event(Spend(task[w]))
<1>2. Spent(called) /\ called.costs = task[w].costs + 1
  BY <1>1, SpentSession DEF At
<1>3. PICK v : /\ Set(w, v)
               /\ \/ v = [called EXCEPT !.pc = "storing"]
                  \/ \E class \in ProviderErrors : v = AfterError(called, class)
  BY DEF generate
<1> HIDE DEF called
<1>4. SessionOK(v) /\ v.costs = called.costs /\ DOMAIN v.asset = {}
  <2>1. CASE v = [called EXCEPT !.pc = "storing"]
    <3>1. /\ v \in Session /\ v.pc = "storing" /\ v.row = called.row /\ v.costs = called.costs
          /\ v.loaded = called.loaded /\ v.asset = called.asset
      BY <1>2, <2>1 DEF Spent, Session
    <3> QED
      BY <1>2, <3>1 DEF Spent, SessionOK, Spending
  <2>2. ASSUME NEW class \in ProviderErrors, v = AfterError(called, class)
        PROVE  SessionOK(v) /\ v.costs = called.costs /\ DOMAIN v.asset = {}
    BY <1>2, <2>2, SessionAfterError, ErrorKeepsAsset
  <2> QED
    BY <1>3, <2>1, <2>2
<1>5. unbilled' = unbilled + 1 /\ UNCHANGED <<today, rows, objects, sub, queue, sweep, faults>>
  BY DEF generate
<1>6. v \in AnySession /\ v # Idle
  BY <1>4, SessionKinds DEF AnySession, SessionOK
<1>7. /\ HeldBy(v) = {} /\ CostOf(v) = CostOf(task[w]) + 1
      /\ CostOf(task[w]) \in Nat /\ unbilled \in Int
  BY <1>1, <1>2, <1>4, <1>6 DEF HeldBy, CostOf, Shape, SessionOK, Session
<1>8. unbilled' = unbilled + CostOf(v) - CostOf(task[w])
  BY <1>5, <1>7
<1> QED
  BY <1>1, <1>3, <1>4, <1>5, <1>6, <1>7, <1>8, LoopStep DEF At

LEMMA AssertionStep ==
  ASSUME Shape, NEW w \in Workers, assertion_fails(w)
  PROVE  Works(w, Idle)
<1>1. SessionOK(task[w]) /\ At(w, "calling") /\ task[w] # Idle /\ task[w].row.attempts >= MaxAttempts
  BY SessionKinds DEF Shape, assertion_fails, At, Idle
<1>2. task[w].costs = 0
  BY <1>1 DEF SessionOK, At
<1>3. /\ Idle \in AnySession /\ HeldBy(Idle) = {} /\ CostOf(Idle) = 0 /\ CostOf(task[w]) = 0
      /\ unbilled \in Int
  BY <1>1, <1>2 DEF AnySession, HeldBy, CostOf, Shape
<1>4. Set(w, Idle) /\ unbilled' = unbilled /\ UNCHANGED <<today, rows, objects, sub, queue, sweep, faults>>
  BY DEF assertion_fails
<1> QED
  BY <1>1, <1>3, <1>4, LoopStep DEF At

LEMMA StoreStep ==
  ASSUME Shape, NEW w \in Workers, complete_success(w)
  PROVE  \E v \in AnySession : Stores(w, v)
<1>1. SessionOK(task[w]) /\ At(w, "storing") /\ task[w] # Idle /\ task[w] \in Session
  BY SessionKinds DEF Shape, complete_success, At, Idle, SessionOK
<1> DEFINE success == SuccessOf(task[w].sub)
<1>2. PICK p \in NewPaths(task[w].sub) :
        /\ objects' = objects \union {p}
        /\ Set(w, [task[w] EXCEPT !.pc = "ended", !.row.status = success,
                                  !.asset = [q \in {p} |-> create_asset(q)]])
  BY DEF complete_success
<1> DEFINE row == [task[w].row EXCEPT !.status = success]
           a == [q \in {p} |-> create_asset(p)]
           v == [task[w] EXCEPT !.pc = "ended", !.row = row, !.asset = a]
<1>3. row \in SubJobRow /\ row.attempts = task[w].row.attempts
  BY <1>1, SuccessStatus DEF Session, SubJobRow
<1>4. a \in AssetRows /\ DOMAIN a = {p}
  <2>1. p \in Paths /\ KindOf(p.role) \in Kinds
    BY <1>1, <1>2, OutputPaths DEF NewPaths, Session
  <2> QED
    BY <2>1, CreateAsset, AssetRowsMember DEF Shape
<1>5. Set(w, v)
  <2>1. a = [q \in {p} |-> create_asset(q)]
    OBVIOUS
  <2> HIDE DEF a
  <2>2. v = [task[w] EXCEPT !.pc = "ended", !.row.status = success, !.asset = a]
    BY <1>1 DEF Session
  <2> QED
    BY <1>2, <2>1, <2>2
<1>6. row \in attempt_loop(task[w].loaded, success)
  <2> DEFINE called == [task[w] EXCEPT !.pc = "calling"]
  <2>1. /\ called \in Session /\ called.pc = "calling" /\ called.row = task[w].row
        /\ called.loaded = task[w].loaded /\ called.costs = task[w].costs
        /\ called.asset = task[w].asset /\ called.sub = task[w].sub
    BY <1>1 DEF Session
  <2> HIDE DEF called
  <2>2. Spent(called)
    BY <1>1, <2>1 DEF Spent, SessionOK, Spending, At
  <2> QED
    BY <2>1, <2>2, LoopOutcomes
<1> HIDE DEF row, a, success
<1>7. /\ v \in Session /\ v.pc = "ended" /\ v.row = row /\ v.asset = a
      /\ v.loaded = task[w].loaded /\ v.sub = task[w].sub /\ v.costs = task[w].costs
  BY <1>1, <1>3, <1>4 DEF Session
<1> HIDE DEF v
<1>8. SessionOK(v) /\ v # Idle /\ v \in AnySession
  BY <1>1, <1>3, <1>6, <1>7, SessionKinds DEF SessionOK, AnySession, success
<1>9. HeldBy(task[w]) = {} /\ HeldBy(v) = {p} /\ CostOf(v) = CostOf(task[w])
  BY <1>1, <1>4, <1>7, <1>8 DEF HeldBy, CostOf, SessionOK, At
<1>10. UNCHANGED <<today, rows, sub, queue, sweep, unbilled, faults>>
  BY DEF complete_success
<1> QED
  BY <1>1, <1>2, <1>5, <1>8, <1>9, <1>10 DEF Stores, Turns, Set, Shape

LEMMA LostUploadStep ==
  ASSUME Shape, NEW w \in Workers, upload_exhausted(w)
  PROVE  Loses(w)
<1>1. SessionOK(task[w]) /\ At(w, "storing") /\ task[w] # Idle /\ task[w] \in Session
  BY SessionKinds DEF Shape, upload_exhausted, At, Idle, SessionOK
<1>2. HeldBy(task[w]) = {}
  BY <1>1 DEF HeldBy, SessionOK, At
<1>3. PICK stored \in SUBSET NewPaths(task[w].sub) :
        Cardinality(stored) <= 1 /\ objects' = objects \union stored
  BY DEF upload_exhausted
<1>4. objects' = objects \/ \E p \in NewPaths(task[w].sub) : objects' = objects \union {p}
  <2>1. IsFiniteSet(stored)
    <3>1. stored \subseteq Outputs(task[w].sub)
      BY <1>3 DEF NewPaths
    <3> QED
      BY <3>1, OutputsFinite, FS_Subset
  <2>2. ASSUME NEW p \in stored, NEW q \in stored
        PROVE  p = q
    <3>1. {p, q} \subseteq stored
      OBVIOUS
    <3>2. Cardinality({p, q}) <= Cardinality(stored)
      BY <2>1, <3>1, FS_Subset
    <3>3. p # q => Cardinality({p, q}) = 2
      <4>1. Cardinality({p}) = 1 /\ IsFiniteSet({p})
        BY FS_Singleton
      <4>2. p # q => Cardinality({p} \union {q}) = Cardinality({p}) + 1
        BY <4>1, FS_AddElement
      <4>3. {p} \union {q} = {p, q}
        OBVIOUS
      <4> QED
        BY <4>1, <4>2, <4>3
    <3>4. Cardinality(stored) \in Nat
      BY <2>1, FS_CardinalityType
    <3> QED
      BY <1>3, <3>2, <3>3, <3>4
  <2>3. CASE stored = {}
    BY <1>3, <2>3
  <2>4. CASE stored # {}
    <3>1. PICK p \in stored : stored = {p}
      BY <2>2, <2>4
    <3> QED
      BY <1>3, <3>1
  <2> QED
    BY <2>3, <2>4
<1>5. /\ faults < MaxFaults /\ faults' = faults + 1 /\ task' = [task EXCEPT ![w] = Idle]
      /\ UNCHANGED <<today, rows, sub, queue, sweep, unbilled>>
  BY DEF upload_exhausted, Set
<1> QED
  BY <1>1, <1>2, <1>4, <1>5 DEF Loses, Turns, Shape

LEMMA FinishStep ==
  ASSUME Shape, NEW w \in Workers, finish_task(w)
  PROVE  Records(w)
<1>1. task[w] # Idle /\ task[w] \in Session
  BY SessionKinds DEF Shape, finish_task, At, Idle, SessionOK
<1>2. sub' \in [SubJobs -> SubJobRow]
  <2> DEFINE s == task[w].sub
  <2>1. s \in SubJobs /\ WrittenRow(sub[s], task[w].loaded, task[w].row) \in SubJobRow
    BY <1>1, WrittenRowType DEF Shape, Session
  <2>2. sub' = [sub EXCEPT ![s] = WrittenRow(sub[s], task[w].loaded, task[w].row)]
    BY DEF finish_task
  <2> QED
    BY <2>1, <2>2 DEF Shape
<1>3. CostOf(task[w]) = task[w].costs
  BY <1>1 DEF CostOf
<1>4. /\ rows' = WithRows(task[w].asset) /\ unbilled' = unbilled - task[w].costs
      /\ task' = [task EXCEPT ![w] = Idle] /\ UNCHANGED <<today, objects, queue, sweep, faults>>
  BY DEF finish_task, Set
<1> QED
  BY <1>1, <1>2, <1>3, <1>4 DEF Records, Turns, Shape

LEMMA CrashStep ==
  ASSUME Shape, NEW w \in Workers, crash(w)
  PROVE  Loses(w)
<1>1. task[w] # Idle /\ task[w] \in Session
  BY SessionKinds DEF Shape, crash, Busy, SessionOK
<1>2. sub' \in [SubJobs -> SubJobRow]
  <2>1. MarkFailed(sub[task[w].sub]) \in SubJobRow
    BY <1>1, MarkFailedType DEF Shape, Session
  <2> QED
    BY <2>1 DEF crash, Shape
<1> QED
  BY <1>1, <1>2 DEF Loses, Turns, crash, Shape, Set

LEMMA JobStepKinds ==
  ASSUME Shape, NEW s \in SubJobs, JobStep(s)
  PROVE  Submits(s) \/ Updates
<1>1. CASE create_job_for_request(s)
  <2> DEFINE new == [p \in Uploads(s) |-> create_asset(p)]
  <2>1. \A p \in Uploads(s) : create_asset(p) \in AssetRow /\ ~create_asset(p).purged
    <3>1. \A p \in Uploads(s) : create_asset(p) \in [expires : Deadlines, purged : {FALSE}]
      BY UploadPaths, CreateAsset DEF Shape
    <3> QED
      BY <3>1 DEF AssetRow
  <2>2. DOMAIN new = Uploads(s) /\ \A p \in Uploads(s) : new[p] \in AssetRow /\ ~new[p].purged
    BY <2>1
  <2>3. rows' = WithRows(new)
    BY <1>1 DEF create_job_for_request
  <2> HIDE DEF new
  <2> QED
    BY <1>1, <2>2, <2>3 DEF create_job_for_request, Submits, Shape
<1>2. CASE reconcile_stuck_sub_jobs(s)
  <2>1. MarkFailed(sub[s]) \in SubJobRow
    BY MarkFailedType DEF Shape
  <2> QED
    BY <1>2, <2>1 DEF reconcile_stuck_sub_jobs, Updates, Shape
<1>3. CASE retry(s)
  <2>1. [sub[s] EXCEPT !.status = "PENDING", !.failure = "NONE"] \in SubJobRow
    BY DEF Shape, SubJobRow, SubJobStatus, FailureClass
  <2> QED
    BY <1>3, <2>1 DEF retry, Updates, Shape
<1> QED
  BY <1>1, <1>2, <1>3 DEF JobStep

TaskMoves(w) ==
  (\E v \in AnySession : Works(w, v) \/ Stores(w, v)) \/ Records(w) \/ Loses(w)

LEMMA TaskStepKinds ==
  ASSUME Shape, NEW w \in Workers, TaskStep(w)
  PROVE  TaskMoves(w)
<1>1. Idle \in AnySession
  BY DEF AnySession
<1> QED
  BY <1>1, StartStep, DownloadStep, RefusedStep, GenerateStep, AssertionStep, StoreStep,
     LostUploadStep, FinishStep, CrashStep
  DEF TaskStep, TaskMoves

SweepMoves ==
  expire_assets \/ (\E p \in Paths : delete(p) \/ delete_failed(p)) \/ mark_purged

LEMMA NextKinds ==
  ASSUME Shape, [Next]_vars
  PROVE  \/ \E w \in Workers : TaskMoves(w)
         \/ \E s \in SubJobs : Submits(s)
         \/ Updates \/ SweepMoves \/ NextDay
<1>1. CASE \E w \in Workers : TaskStep(w)
  BY <1>1, TaskStepKinds
<1>2. CASE \E s \in SubJobs : JobStep(s)
  BY <1>2, JobStepKinds
<1>3. CASE SweepStep \/ \E p \in Paths : delete_failed(p)
  BY <1>3 DEF SweepStep, SweepMoves
<1>4. CASE UNCHANGED vars
  BY <1>4 DEF vars, Updates, Shape
<1> QED
  BY <1>1, <1>2, <1>3, <1>4 DEF Next

LEMMA RowsAdded ==
  ASSUME NEW new
  PROVE  /\ DOMAIN WithRows(new) = DOMAIN rows \union DOMAIN new
         /\ \A p \in DOMAIN rows \ DOMAIN new : WithRows(new)[p] = rows[p]
         /\ \A p \in DOMAIN new : WithRows(new)[p] = new[p]
BY DEF WithRows

-----------------------------------------------------------------------------
(* Shape is inductive.                                                     *)

LEMMA InitShape == Init => Shape
<1> SUFFICES ASSUME Init PROVE Shape
  OBVIOUS
<1>1. NewSubJob \in SubJobRow
  BY AttemptsAssumption DEF NewSubJob, SubJobRow, SubJobStatus, FailureClass, QAStatus
<1>2. objects \subseteq Paths
  BY DEF Init, Paths
<1>3. DOMAIN rows = {}
  BY AssetRowsMember DEF Init
<1> QED
  BY <1>1, <1>2, <1>3, BoundsAssumption DEF Init, Shape, AnySession

\* A sweep's batch stays one of rows when rows are added.
LEMMA TurnShape ==
  ASSUME Shape, NEW w \in Workers, NEW v \in AnySession, Turns(w, v)
  PROVE  /\ task' \in [Workers -> AnySession]
         /\ \A x \in Workers : task'[x] = Idle \/ SessionOK(task'[x])
         /\ task'[w] = v /\ \A x \in Workers \ {w} : task'[x] = task[x]
BY DEF Shape, Turns

LEMMA StepShape == Shape /\ [Next]_vars => Shape'
<1> SUFFICES ASSUME Shape, [Next]_vars PROVE Shape'
  OBVIOUS
<1>1. ASSUME NEW w \in Workers, NEW v \in AnySession, Works(w, v)
      PROVE  Shape'
  <2>1. unbilled' \in Int
    <3>1. CostOf(v) \in Int /\ CostOf(task[w]) \in Int
      BY DEF Shape, AnySession, CostOf, Session
    <3> QED
      BY <1>1, <3>1 DEF Works, Shape
  <2> QED
    BY <1>1, <2>1, TurnShape DEF Works, Turns, Shape
<1>2. ASSUME NEW w \in Workers, NEW v \in AnySession, Stores(w, v)
      PROVE  Shape'
  <2>1. objects' \subseteq Paths
    <3>1. task[w] \in Session /\ task[w].sub \in SubJobs
      BY <1>2 DEF Stores, Shape, AnySession, Session
    <3>2. NewPaths(task[w].sub) \subseteq Paths
      BY <3>1, OutputPaths DEF NewPaths
    <3> QED
      BY <1>2, <3>2 DEF Stores, Shape
  <2> QED
    BY <1>2, <2>1, TurnShape DEF Stores, Turns, Shape
<1>3. ASSUME NEW w \in Workers, Records(w)
      PROVE  Shape'
  <2>1. task[w] \in Session /\ Idle \in AnySession
    BY <1>3 DEF Records, Shape, AnySession
  <2> DEFINE a == task[w].asset
  <2>2. a \in AssetRows /\ task[w].costs \in Nat
    BY <2>1 DEF Session
  <2>3. rows' = WithRows(a)
    BY <1>3 DEF Records
  <2> HIDE DEF a
  <2>4. /\ DOMAIN rows' = DOMAIN rows \union DOMAIN a
        /\ DOMAIN rows' \subseteq Paths /\ \A p \in DOMAIN rows' : rows'[p] \in AssetRow
    BY <2>2, <2>3, AssetRowsShape, RowsAdded DEF Shape
  <2>5. unbilled' \in Int
    BY <1>3, <2>1, <2>2 DEF Records, Shape, CostOf
  <2>6. \/ sweep' = Idle
        \/ sweep' \in [pc : {"deleting"}, todo : SUBSET DOMAIN rows', marked : SUBSET DOMAIN rows']
    BY <1>3, <2>4 DEF Records, Turns, Shape
  <2> QED
    BY <1>3, <2>1, <2>4, <2>5, <2>6, TurnShape DEF Records, Turns, Shape
<1>4. ASSUME NEW w \in Workers, Loses(w)
      PROVE  Shape'
  <2>1. task[w] \in Session /\ task[w].sub \in SubJobs /\ Idle \in AnySession
    BY <1>4 DEF Loses, Shape, AnySession, Session
  <2>2. objects' \subseteq Paths
    <3>1. NewPaths(task[w].sub) \subseteq Paths
      BY <2>1, OutputPaths DEF NewPaths
    <3> QED
      BY <1>4, <3>1 DEF Loses, Shape
  <2>3. faults' \in 0..MaxFaults
    BY <1>4, BoundsAssumption DEF Loses, Shape
  <2> QED
    BY <1>4, <2>1, <2>2, <2>3, TurnShape DEF Loses, Turns, Shape
<1>5. ASSUME NEW s \in SubJobs, Submits(s)
      PROVE  Shape'
  <2>1. PICK new : /\ DOMAIN new = Uploads(s) /\ rows' = WithRows(new)
                   /\ \A p \in Uploads(s) : new[p] \in AssetRow /\ ~new[p].purged
    BY <1>5 DEF Submits
  <2>2. /\ DOMAIN rows' = DOMAIN rows \union Uploads(s)
        /\ \A p \in DOMAIN rows' : rows'[p] = IF p \in Uploads(s) THEN new[p] ELSE rows[p]
    BY <2>1 DEF WithRows
  <2>3. Uploads(s) \subseteq Paths
    BY UploadPaths
  <2>4. /\ DOMAIN rows \subseteq DOMAIN rows'
        /\ DOMAIN rows' \subseteq Paths /\ \A p \in DOMAIN rows' : rows'[p] \in AssetRow
    BY <2>1, <2>2, <2>3 DEF Shape
  <2>5. \/ sweep' = Idle
        \/ sweep' \in [pc : {"deleting"}, todo : SUBSET DOMAIN rows', marked : SUBSET DOMAIN rows']
    BY <1>5, <2>4 DEF Submits, Shape
  <2> QED
    BY <1>5, <2>4, <2>5 DEF Submits, Shape
<1>6. CASE Updates
  BY <1>6 DEF Updates, Shape
<1>7. CASE NextDay
  BY <1>7, BoundsAssumption DEF NextDay, Shape
<1>8. CASE SweepMoves
  <2>1. CASE expire_assets
    <3>1. PICK batch \in get_expired_unpurged :
            sweep' = [pc |-> "deleting", todo |-> batch, marked |-> {}]
      BY <2>1 DEF expire_assets
    <3>2. batch \subseteq DOMAIN rows
      BY <3>1 DEF get_expired_unpurged, EarliestOf, ExpiredUnpurged
    <3> QED
      BY <2>1, <3>1, <3>2 DEF expire_assets, Shape
  <2>2. ASSUME NEW p \in Paths, delete(p)
        PROVE  Shape'
    <3>1. sweep \in [pc : {"deleting"}, todo : SUBSET DOMAIN rows, marked : SUBSET DOMAIN rows]
      BY <2>2 DEF delete, Shape, Idle
    <3>2. sweep' \in [pc : {"deleting"}, todo : SUBSET DOMAIN rows, marked : SUBSET DOMAIN rows]
      BY <2>2, <3>1 DEF delete
    <3> QED
      BY <2>2, <3>2 DEF delete, Shape
  <2>3. ASSUME NEW p \in Paths, delete_failed(p)
        PROVE  Shape'
    BY <2>3, BoundsAssumption DEF delete_failed, Shape
  <2>4. CASE mark_purged
    <3>1. DOMAIN rows' = DOMAIN rows /\ \A p \in DOMAIN rows' : rows'[p] \in AssetRow
      BY <2>4 DEF mark_purged, Shape, AssetRow
    <3> QED
      BY <2>4, <3>1 DEF mark_purged, Shape
  <2> QED
    BY <1>8, <2>1, <2>2, <2>3, <2>4 DEF SweepMoves
<1> QED
  BY NextKinds, <1>1, <1>2, <1>3, <1>4, <1>5, <1>6, <1>7, <1>8 DEF TaskMoves

(***************************************************************************)
(* What a session ends with, attempt by attempt, is one of the outcomes    *)
(* attempt_loop gives of the row the session loaded.                       *)
(***************************************************************************)
THEOREM LoopIsSummarised == Spec => []LoopEndsAsSummarised
<1>1. Shape => LoopEndsAsSummarised
  BY SessionKinds DEF Shape, LoopEndsAsSummarised, SessionOK, At, Idle
<1> QED
  BY <1>1, InitShape, StepShape, PTL DEF Spec

-----------------------------------------------------------------------------
(***************************************************************************)
(* Costs.  The sum over the busy workers changes by what one of them does. *)
(***************************************************************************)
Working(t) == {x \in Workers : t[x] # Idle}
CostsOf(t) == [x \in Working(t) |-> t[x].costs]
Total(t) == Sum(CostsOf(t))

LEMMA CostsType ==
  ASSUME NEW t \in [Workers -> AnySession]
  PROVE  /\ IsFiniteSet(Working(t)) /\ CostsOf(t) \in [Working(t) -> Nat]
         /\ Total(t) \in Nat
<1>1. IsFiniteSet(Working(t))
  BY WorkersAssumption, FS_Subset DEF Working
<1>2. \A w \in Working(t) : t[w].costs \in Nat
  BY DEF AnySession, Session, Working
<1>3. CostsOf(t) \in [Working(t) -> Nat]
  BY <1>2 DEF CostsOf
<1> QED
  BY <1>1, <1>3, SumType DEF Total

\* What one worker adds to the sum of the others.
LEMMA TotalOfOne ==
  ASSUME NEW t \in [Workers -> AnySession], NEW w \in Workers
  PROVE  /\ Total(t) = Total([t EXCEPT ![w] = Idle]) + CostOf(t[w])
         /\ Total([t EXCEPT ![w] = Idle]) \in Nat
         /\ CostOf(t[w]) \in 0..MaxAttempts
<1> DEFINE rest == [t EXCEPT ![w] = Idle]
<1>1. rest \in [Workers -> AnySession]
  BY DEF AnySession
<1>2. /\ Working(rest) = Working(t) \ {w}
      /\ \A x \in Working(rest) : rest[x] = t[x]
  BY DEF Working
<1> HIDE DEF rest
<1>3. Total(rest) \in Nat
  BY <1>1, CostsType
<1>4. CostOf(t[w]) \in 0..MaxAttempts
  BY AttemptsAssumption DEF AnySession, Session, CostOf
<1>5. CASE w \in Working(t)
  <2>1. /\ CostsOf(rest) \in [Working(t) \ {w} -> Nat]
        /\ \A x \in Working(t) \ {w} : CostsOf(rest)[x] = CostsOf(t)[x]
    BY <1>1, <1>2, CostsType DEF CostsOf
  <2>2. IsFiniteSet(Working(t)) /\ CostsOf(t) \in [Working(t) -> Nat]
    BY CostsType
  <2>3. Sum(CostsOf(t)) = Sum(CostsOf(rest)) + CostsOf(t)[w]
    BY <1>5, <2>1, <2>2, SumWithElement
  <2>4. CostsOf(t)[w] = CostOf(t[w])
    BY <1>5 DEF CostsOf, CostOf, Working
  <2> QED
    BY <1>3, <1>4, <2>3, <2>4 DEF Total, rest
<1>6. CASE w \notin Working(t)
  <2>1. t[w] = Idle /\ CostOf(t[w]) = 0
    BY <1>6 DEF Working, CostOf
  <2>2. rest = t
    BY <2>1 DEF rest
  <2>3. Total(t) = Total(rest) /\ Total(t) = Total(rest) + CostOf(t[w])
    BY <1>3, <2>1, <2>2
  <2> QED
    BY <1>3, <1>4, <2>3 DEF rest
<1> QED
  BY <1>5, <1>6

LEMMA TotalMoves ==
  ASSUME NEW t \in [Workers -> AnySession], NEW w \in Workers, NEW v \in AnySession
  PROVE  /\ Total([t EXCEPT ![w] = v]) = Total(t) - CostOf(t[w]) + CostOf(v)
         /\ CostOf(t[w]) \in 0..MaxAttempts /\ CostOf(v) \in 0..MaxAttempts
         /\ Total(t) \in Nat
<1> DEFINE n == [t EXCEPT ![w] = v]
<1>1. n \in [Workers -> AnySession] /\ n[w] = v
  OBVIOUS
<1>2. [n EXCEPT ![w] = Idle] = [t EXCEPT ![w] = Idle]
  OBVIOUS
<1> HIDE DEF n
<1>3. /\ Total(n) = Total([t EXCEPT ![w] = Idle]) + CostOf(v)
      /\ CostOf(v) \in 0..MaxAttempts
  BY <1>1, <1>2, TotalOfOne
<1>4. /\ Total(t) = Total([t EXCEPT ![w] = Idle]) + CostOf(t[w])
      /\ Total([t EXCEPT ![w] = Idle]) \in Nat /\ CostOf(t[w]) \in 0..MaxAttempts
  BY TotalOfOne
<1>5. /\ Total(n) = Total(t) - CostOf(t[w]) + CostOf(v) /\ Total(t) \in Nat
  BY <1>3, <1>4, AttemptsAssumption
<1> QED
  BY <1>3, <1>4, <1>5 DEF n

LEMMA RunningIsTotal ==
  ASSUME Shape
  PROVE  CallsAreCosted <=>
           Total(task) <= unbilled /\ unbilled <= Total(task) + MaxAttempts * faults
<1>1. [w \in Busy |-> task[w].costs] = CostsOf(task)
  BY SessionKinds DEF Busy, CostsOf, Working
<1> QED
  BY <1>1, Zenon DEF CallsAreCosted, Total, Sum

CostInv ==
  Total(task) <= unbilled /\ unbilled <= Total(task) + MaxAttempts * faults

LEMMA InitCostInv == Init => CostInv
<1> SUFFICES ASSUME Init PROVE CostInv
  OBVIOUS
<1>1. Working(task) = {}
  BY DEF Working, Init
<1>2. Total(task) = 0
  <2>1. task \in [Workers -> AnySession]
    BY InitShape DEF Shape
  <2> QED
    BY <1>1, <2>1, CostsType, SumType DEF Total
<1> QED
  BY <1>2, AttemptsAssumption DEF CostInv, Init

LEMMA StepCostInv == Shape /\ CostInv /\ [Next]_vars => CostInv'
<1> SUFFICES ASSUME Shape, CostInv, [Next]_vars PROVE CostInv'
  OBVIOUS
<1>1. /\ task \in [Workers -> AnySession] /\ unbilled \in Int /\ faults \in Nat
      /\ MaxAttempts \in Nat
  BY BoundsAssumption, AttemptsAssumption DEF Shape
<1>2. Total(task) \in Nat
  BY <1>1, CostsType
<1>3. MaxAttempts * (faults + 1) = MaxAttempts * faults + MaxAttempts
      /\ MaxAttempts * faults \in Nat
  BY <1>1
<1>4. Idle \in AnySession /\ CostOf(Idle) = 0
  BY DEF AnySession, CostOf
<1>5. ASSUME NEW w \in Workers, NEW v \in AnySession, Works(w, v)
      PROVE  CostInv'
  <2>1. /\ Total(task') = Total(task) - CostOf(task[w]) + CostOf(v)
        /\ CostOf(task[w]) \in 0..MaxAttempts /\ CostOf(v) \in 0..MaxAttempts
    BY <1>1, <1>5, TotalMoves DEF Works, Turns
  <2>2. unbilled' = unbilled + CostOf(v) - CostOf(task[w]) /\ faults' = faults
    BY <1>5 DEF Works
  <2> QED
    BY <1>1, <1>2, <1>3, <2>1, <2>2 DEF CostInv
<1>6. ASSUME NEW w \in Workers, NEW v \in AnySession, Stores(w, v)
      PROVE  CostInv'
  <2>1. /\ Total(task') = Total(task) - CostOf(task[w]) + CostOf(v)
        /\ CostOf(task[w]) \in 0..MaxAttempts /\ CostOf(v) \in 0..MaxAttempts
    BY <1>1, <1>6, TotalMoves DEF Stores, Turns
  <2>2. unbilled' = unbilled /\ CostOf(v) = CostOf(task[w]) /\ faults' = faults
    BY <1>6 DEF Stores
  <2> QED
    BY <1>1, <1>2, <1>3, <2>1, <2>2 DEF CostInv
<1>7. ASSUME NEW w \in Workers, Records(w)
      PROVE  CostInv'
  <2>1. /\ Total(task') = Total(task) - CostOf(task[w]) + CostOf(Idle)
        /\ CostOf(task[w]) \in 0..MaxAttempts
    BY <1>1, <1>4, <1>7, TotalMoves DEF Records, Turns
  <2>2. unbilled' = unbilled - CostOf(task[w]) /\ faults' = faults
    BY <1>7 DEF Records
  <2> QED
    BY <1>1, <1>2, <1>3, <1>4, <2>1, <2>2 DEF CostInv
<1>8. ASSUME NEW w \in Workers, Loses(w)
      PROVE  CostInv'
  <2>1. /\ Total(task') = Total(task) - CostOf(task[w]) + CostOf(Idle)
        /\ CostOf(task[w]) \in 0..MaxAttempts
    BY <1>1, <1>4, <1>8, TotalMoves DEF Loses, Turns
  <2>2. unbilled' = unbilled /\ faults' = faults + 1
    BY <1>8 DEF Loses
  <2> DEFINE lost == MaxAttempts * faults
  <2>3. MaxAttempts * faults' = lost + MaxAttempts /\ lost \in Nat
    BY <1>3, <2>2
  <2>4. Total(task) <= unbilled /\ unbilled <= Total(task) + lost
    BY DEF CostInv
  <2> HIDE DEF lost
  <2>5. Total(task') <= unbilled' /\ unbilled' <= Total(task') + lost + MaxAttempts
    BY <1>1, <1>2, <1>4, <2>1, <2>2, <2>3, <2>4
  <2> QED
    BY <1>1, <1>2, <1>4, <2>1, <2>3, <2>5 DEF CostInv
<1>9. ASSUME UNCHANGED <<task, unbilled>>, faults' = faults \/ faults' = faults + 1
      PROVE  CostInv'
  BY <1>1, <1>2, <1>3, <1>9 DEF CostInv
<1>10. (\E s \in SubJobs : Submits(s)) \/ Updates \/ SweepMoves \/ NextDay
         => UNCHANGED <<task, unbilled>> /\ (faults' = faults \/ faults' = faults + 1)
  BY DEF Submits, Updates, SweepMoves, NextDay, expire_assets, delete, delete_failed, mark_purged
<1> QED
  BY NextKinds, <1>5, <1>6, <1>7, <1>8, <1>9, <1>10 DEF TaskMoves

(***************************************************************************)
(* Every provider call is a committed cost event, one of a running task,   *)
(* or one of the at most MaxAttempts a fault rolled back.                  *)
(***************************************************************************)
THEOREM CallsAreAccounted == Spec => []CallsAreCosted
<1>1. Shape /\ CostInv => CallsAreCosted
  BY RunningIsTotal DEF CostInv
<1> QED
  BY <1>1, InitShape, StepShape, InitCostInv, StepCostInv, PTL DEF Spec

\* The state is well typed whatever the tasks and the sweep do to it: in
\* particular the accounts of calls stay numbers, and a row never holds more
\* than MaxAttempts attempts.
THEOREM TypeCorrect == Spec => []TypeOK
<1>1. Shape /\ CostInv => TypeOK
  <2> SUFFICES ASSUME Shape, CostInv PROVE TypeOK
    OBVIOUS
  <2>1. unbilled \in Nat
    <3>1. Total(task) \in Nat /\ unbilled \in Int
      BY CostsType DEF Shape
    <3> QED
      BY <3>1 DEF CostInv
  <2>2. \A w \in Workers : task[w] = Idle \/ task[w] \in Session
    BY DEF Shape, AnySession
  <2> QED
    BY <2>1, <2>2 DEF Shape, TypeOK, AssetRow
<1> QED
  BY <1>1, InitShape, StepShape, InitCostInv, StepCostInv, PTL DEF Spec

-----------------------------------------------------------------------------
(***************************************************************************)
(* Bytes.  BytesFollowRows speaks of committed rows; what keeps it true is *)
(* what sessions hold (an output stored and not yet committed) and what    *)
(* the retention sweep has selected and deleted (not yet committed).       *)
(***************************************************************************)

\* An output that a session will commit is stored, and is nobody else's.
HeldIsStored ==
  \A w \in Workers : \A p \in HeldBy(task[w]) :
    /\ p \in objects /\ p \notin DOMAIN rows /\ p.role = "OUTPUT"
    /\ \A x \in Workers \ {w} : p \notin HeldBy(task[x])

\* The rows of a job's uploads are committed together.
UploadsTogether ==
  \A s \in SubJobs : \A p \in Uploads(s) : p \in DOMAIN rows => s \in Submitted

\* A batch holds expired rows, and those of its deleted objects are gone.
SweepTakesExpired ==
  sweep # Idle =>
    /\ \A p \in sweep.todo \union sweep.marked : Expired(p)
    /\ \A p \in sweep.marked : p \notin objects

BytesInv == HeldIsStored /\ UploadsTogether /\ SweepTakesExpired /\ BytesFollowRows

LEMMA InitBytesInv == Init => BytesInv
<1> SUFFICES ASSUME Init PROVE BytesInv
  OBVIOUS
<1>1. DOMAIN rows = {} /\ sweep = Idle /\ \A w \in Workers : HeldBy(task[w]) = {}
  BY AssetRowsMember DEF Init, HeldBy
<1> QED
  BY <1>1 DEF BytesInv, HeldIsStored, UploadsTogether, SweepTakesExpired, BytesFollowRows

\* Rows keep their deadline and are not purged but by the sweep's commit.
LEMMA StoresKeepBytes ==
  ASSUME Shape, BytesInv, NEW w \in Workers, NEW v \in AnySession, Stores(w, v)
  PROVE  BytesInv'
<1>1. PICK p \in NewPaths(task[w].sub) : HeldBy(v) = {p} /\ objects' = objects \union {p}
  BY DEF Stores
<1>2. p \notin objects /\ p \notin DOMAIN rows /\ p.role = "OUTPUT"
  <2>1. task[w].sub \in SubJobs
    BY DEF Stores, Shape, AnySession, Session
  <2> QED
    BY <1>1, <2>1, OutputPaths DEF NewPaths
<1>3. /\ task'[w] = v /\ \A x \in Workers \ {w} : task'[x] = task[x]
      /\ UNCHANGED <<today, rows, sweep>>
  BY TurnShape DEF Stores, Turns
<1>4. HeldIsStored'
  BY <1>1, <1>2, <1>3 DEF HeldIsStored, BytesInv
<1>5. UploadsTogether'
  BY <1>3 DEF BytesInv, UploadsTogether, Submitted
<1>6. SweepTakesExpired'
  <2>1. sweep # Idle => sweep.marked \subseteq DOMAIN rows
    BY DEF Shape
  <2> QED
    BY <1>1, <1>2, <1>3, <2>1 DEF BytesInv, SweepTakesExpired, Expired
<1>7. BytesFollowRows'
  BY <1>1, <1>2, <1>3 DEF BytesInv, BytesFollowRows, Expired
<1> QED
  BY <1>4, <1>5, <1>6, <1>7 DEF BytesInv

LEMMA WorksKeepBytes ==
  ASSUME Shape, BytesInv, NEW w \in Workers, NEW v \in AnySession, Works(w, v)
  PROVE  BytesInv'
<1>1. /\ task'[w] = v /\ \A x \in Workers \ {w} : task'[x] = task[x]
      /\ HeldBy(v) = {} /\ UNCHANGED <<today, rows, objects, sweep>>
  BY TurnShape DEF Works, Turns
<1> QED
  BY <1>1 DEF BytesInv, HeldIsStored, UploadsTogether, Submitted, SweepTakesExpired,
              Expired, BytesFollowRows

\* The rows that new adds are of stored objects and not purged.
LEMMA NewRowsKeepBytes ==
  ASSUME Shape, BytesInv, NEW new, rows' = WithRows(new),
         DOMAIN new \subseteq objects, DOMAIN new \intersect DOMAIN rows = {},
         \A p \in DOMAIN new : ~new[p].purged,
         UNCHANGED <<today, objects, sweep>>
  PROVE  SweepTakesExpired' /\ BytesFollowRows'
<1>1. /\ DOMAIN rows' = DOMAIN rows \union DOMAIN new
      /\ \A p \in DOMAIN rows : rows'[p] = rows[p]
      /\ \A p \in DOMAIN new : rows'[p] = new[p]
  BY RowsAdded
<1>2. SweepTakesExpired'
  <2>1. sweep # Idle => sweep.todo \subseteq DOMAIN rows /\ sweep.marked \subseteq DOMAIN rows
    BY DEF Shape
  <2> QED
    BY <1>1, <2>1 DEF BytesInv, SweepTakesExpired, Expired
<1>3. BytesFollowRows'
  BY <1>1 DEF BytesInv, BytesFollowRows, Expired
<1> QED
  BY <1>2, <1>3

LEMMA RecordsKeepBytes ==
  ASSUME Shape, BytesInv, NEW w \in Workers, Records(w)
  PROVE  BytesInv'
<1> DEFINE a == task[w].asset
<1>1. /\ rows' = WithRows(a) /\ HeldBy(task[w]) = DOMAIN a /\ a \in AssetRows
      /\ UNCHANGED <<today, objects, sweep>>
  BY DEF Records, Turns, HeldBy, Shape, AnySession, Session
<1>2. task'[w] = Idle /\ \A x \in Workers \ {w} : task'[x] = task[x]
  BY TurnShape DEF Records, AnySession
<1> HIDE DEF a
<1>3. /\ DOMAIN a \subseteq objects /\ DOMAIN a \intersect DOMAIN rows = {}
      /\ \A p \in DOMAIN a : p.role = "OUTPUT"
      /\ \A x \in Workers \ {w} : HeldBy(task[x]) \intersect DOMAIN a = {}
  BY <1>1 DEF BytesInv, HeldIsStored
<1>4. SweepTakesExpired' /\ BytesFollowRows'
  BY <1>1, <1>3, AssetRowsShape, NewRowsKeepBytes
<1>5. DOMAIN rows' = DOMAIN rows \union DOMAIN a
  BY <1>1, RowsAdded
<1>6. HeldIsStored'
  BY <1>1, <1>2, <1>3, <1>5 DEF BytesInv, HeldIsStored, HeldBy
<1>7. UploadsTogether'
  BY <1>3, <1>5, UploadPaths DEF BytesInv, UploadsTogether, Submitted
<1> QED
  BY <1>4, <1>6, <1>7 DEF BytesInv

LEMMA LosesKeepBytes ==
  ASSUME Shape, BytesInv, NEW w \in Workers, Loses(w)
  PROVE  BytesInv'
<1>1. /\ task'[w] = Idle /\ \A x \in Workers \ {w} : task'[x] = task[x]
      /\ UNCHANGED <<today, rows, sweep>>
  BY TurnShape DEF Loses, Turns, AnySession
<1>2. /\ objects \subseteq objects'
      /\ \A p \in objects' \ objects : p \notin DOMAIN rows
  BY DEF Loses, NewPaths
<1>3. HeldIsStored'
  BY <1>1, <1>2 DEF BytesInv, HeldIsStored, HeldBy
<1>4. UploadsTogether'
  BY <1>1 DEF BytesInv, UploadsTogether, Submitted
<1>5. SweepTakesExpired'
  <2>1. sweep # Idle => sweep.marked \subseteq DOMAIN rows
    BY DEF Shape
  <2> QED
    BY <1>1, <1>2, <2>1 DEF BytesInv, SweepTakesExpired, Expired
<1>6. BytesFollowRows'
  BY <1>1, <1>2 DEF BytesInv, BytesFollowRows, Expired
<1> QED
  BY <1>3, <1>4, <1>5, <1>6 DEF BytesInv

LEMMA SubmitsKeepBytes ==
  ASSUME Shape, BytesInv, NEW s \in SubJobs, Submits(s)
  PROVE  BytesInv'
<1>1. PICK new : /\ DOMAIN new = Uploads(s) /\ rows' = WithRows(new)
                 /\ \A p \in Uploads(s) : new[p] \in AssetRow /\ ~new[p].purged
  BY DEF Submits
<1>2. /\ s \notin Submitted /\ Uploads(s) \subseteq objects
      /\ UNCHANGED <<today, objects, task, sweep>>
  BY DEF Submits
<1>3. Uploads(s) \intersect DOMAIN rows = {}
  BY <1>2 DEF BytesInv, UploadsTogether
<1>4. SweepTakesExpired' /\ BytesFollowRows'
  BY <1>1, <1>2, <1>3, NewRowsKeepBytes
<1>5. DOMAIN rows' = DOMAIN rows \union Uploads(s)
  BY <1>1, RowsAdded
<1>6. HeldIsStored'
  BY <1>2, <1>5, UploadPaths DEF BytesInv, HeldIsStored
<1>7. UploadsTogether'
  <2> SUFFICES ASSUME NEW t \in SubJobs, NEW p \in Uploads(t), p \in DOMAIN rows'
               PROVE  Input(t) \in DOMAIN rows'
    BY DEF UploadsTogether, Submitted
  <2>1. CASE p \in DOMAIN rows
    BY <1>5, <2>1 DEF BytesInv, UploadsTogether, Submitted
  <2>2. CASE p \in Uploads(s)
    <3>1. t = s
      BY <2>2, UploadPaths
    <3> QED
      BY <1>5, <3>1, UploadPaths
  <2> QED
    BY <1>5, <2>1, <2>2
<1> QED
  BY <1>4, <1>6, <1>7 DEF BytesInv

LEMMA SweepKeepsBytes ==
  ASSUME Shape, BytesInv, SweepMoves
  PROVE  BytesInv'
<1>1. CASE expire_assets
  <2>1. PICK batch \in get_expired_unpurged :
          sweep' = [pc |-> "deleting", todo |-> batch, marked |-> {}]
    BY <1>1 DEF expire_assets
  <2>2. \A p \in batch : Expired(p)
    BY <2>1 DEF get_expired_unpurged, EarliestOf, ExpiredUnpurged
  <2>3. UNCHANGED <<today, rows, objects, task>>
    BY <1>1 DEF expire_assets
  <2>4. SweepTakesExpired'
    BY <2>1, <2>2, <2>3 DEF SweepTakesExpired, Expired
  <2> QED
    BY <2>3, <2>4 DEF BytesInv, HeldIsStored, UploadsTogether, Submitted, BytesFollowRows,
                      Expired
<1>2. ASSUME NEW p \in Paths, delete(p) \/ delete_failed(p)
      PROVE  BytesInv'
  <2>1. /\ sweep # Idle /\ p \in sweep.todo /\ p \in DOMAIN rows /\ Expired(p)
    BY <1>2 DEF delete, delete_failed, Idle, Shape, BytesInv, SweepTakesExpired
  <2>2. /\ UNCHANGED <<today, rows, task>>
        /\ objects' = objects \/ objects' = objects \ {p}
    BY <1>2 DEF delete, delete_failed
  <2>3. HeldIsStored'
    BY <2>1, <2>2 DEF BytesInv, HeldIsStored
  <2>4. UploadsTogether' /\ BytesFollowRows'
    BY <2>1, <2>2 DEF BytesInv, UploadsTogether, Submitted, BytesFollowRows, Expired
  <2>5. SweepTakesExpired'
    <3>1. CASE delete(p)
      <4>1. /\ sweep \in [pc : {"deleting"}, todo : SUBSET DOMAIN rows, marked : SUBSET DOMAIN rows]
            /\ sweep' = [sweep EXCEPT !.todo = @ \ {p}, !.marked = @ \union {p}]
            /\ objects' = objects \ {p}
        BY <2>1, <3>1 DEF delete, Shape
      <4>2. sweep'.todo = sweep.todo \ {p} /\ sweep'.marked = sweep.marked \union {p}
        BY <4>1
      <4> QED
        BY <2>1, <2>2, <4>1, <4>2 DEF BytesInv, SweepTakesExpired, Expired
    <3>2. CASE delete_failed(p)
      BY <3>2 DEF delete_failed, SweepTakesExpired
    <3> QED
      BY <1>2, <3>1, <3>2
  <2> QED
    BY <2>3, <2>4, <2>5 DEF BytesInv
<1>3. CASE mark_purged
  <2>1. /\ sweep # Idle /\ sweep' = Idle /\ UNCHANGED <<today, objects, task>>
    BY <1>3 DEF mark_purged, Idle
  <2>2. /\ DOMAIN rows' = DOMAIN rows
        /\ \A p \in DOMAIN rows :
             /\ rows'[p].expires = rows[p].expires
             /\ rows'[p].purged => rows[p].purged \/ p \in sweep.marked
    BY <1>3 DEF mark_purged, Shape, AssetRow
  <2>3. \A p \in sweep.marked : p \notin objects
    BY <2>1 DEF BytesInv, SweepTakesExpired
  <2>4. HeldIsStored' /\ UploadsTogether' /\ SweepTakesExpired'
    BY <2>1, <2>2 DEF BytesInv, HeldIsStored, UploadsTogether, Submitted, SweepTakesExpired
  <2>5. BytesFollowRows'
    BY <2>1, <2>2, <2>3 DEF BytesInv, BytesFollowRows, Expired
  <2> QED
    BY <2>4, <2>5 DEF BytesInv
<1> QED
  BY <1>1, <1>2, <1>3 DEF SweepMoves

LEMMA NextDayKeepsBytes ==
  ASSUME Shape, BytesInv, NextDay
  PROVE  BytesInv'
<1>1. /\ UNCHANGED <<rows, objects, task, sweep>>
      /\ \A p \in DOMAIN rows : Expired(p) => Expired(p)'
  <2>1. \A p \in DOMAIN rows : rows[p].expires \in Int
    BY RetentionAssumption, BoundsAssumption DEF Shape, AssetRow, Deadlines
  <2> QED
    BY <2>1 DEF NextDay, Expired, Shape
<1>2. sweep # Idle => sweep.todo \union sweep.marked \subseteq DOMAIN rows
  BY DEF Shape
<1> QED
  BY <1>1, <1>2 DEF BytesInv, HeldIsStored, UploadsTogether, Submitted, SweepTakesExpired,
                    BytesFollowRows

LEMMA StepBytesInv == Shape /\ BytesInv /\ [Next]_vars => BytesInv'
<1> SUFFICES ASSUME Shape, BytesInv, [Next]_vars PROVE BytesInv'
  OBVIOUS
<1>1. CASE Updates
  BY <1>1 DEF Updates, BytesInv, HeldIsStored, UploadsTogether, Submitted, SweepTakesExpired,
              Expired, BytesFollowRows
<1> QED
  BY NextKinds, <1>1, WorksKeepBytes, StoresKeepBytes, RecordsKeepBytes, LosesKeepBytes,
     SubmitsKeepBytes, SweepKeepsBytes, NextDayKeepsBytes
  DEF TaskMoves

(***************************************************************************)
(* Until its deadline an asset row has its bytes, and purged_at is set     *)
(* only on a row whose bytes are gone, for any retention times, any limit  *)
(* of the sweep and however many workers store outputs meanwhile.          *)
(***************************************************************************)
THEOREM BytesAreKept == Spec => []BytesFollowRows
<1>1. BytesInv => BytesFollowRows
  BY DEF BytesInv
<1> QED
  BY <1>1, InitShape, StepShape, InitBytesInv, StepBytesInv, PTL DEF Spec

(***************************************************************************)
(* Step by step: only the retention sweep takes an object away, and only   *)
(* one whose row is past its deadline; a row is never deleted, its         *)
(* deadline never moves (a retry does not renew it), and purged_at is set  *)
(* once, after the deadline and after the bytes are gone.                  *)
(***************************************************************************)
RetentionStep ==
  /\ \A p \in objects \ objects' : p \in DOMAIN rows /\ Expired(p)
  /\ \A p \in DOMAIN rows :
       /\ p \in DOMAIN rows' /\ rows'[p].expires = rows[p].expires
       /\ rows'[p].purged # rows[p].purged => rows'[p].purged /\ Expired(p) /\ p \notin objects

\* Rows are added beside those there are, and nothing is taken away.
LEMMA AddingRetains ==
  ASSUME NEW new, rows' = WithRows(new), DOMAIN new \intersect DOMAIN rows = {},
         objects \subseteq objects'
  PROVE  RetentionStep
<1>1. /\ DOMAIN rows' = DOMAIN rows \union DOMAIN new
      /\ \A p \in DOMAIN rows : rows'[p] = rows[p]
  BY RowsAdded
<1> QED
  BY <1>1 DEF RetentionStep

LEMMA SweepRetains ==
  ASSUME Shape, BytesInv, SweepMoves
  PROVE  RetentionStep
<1>1. CASE expire_assets
  BY <1>1 DEF expire_assets, RetentionStep
<1>2. ASSUME NEW p \in Paths, delete(p) \/ delete_failed(p)
      PROVE  RetentionStep
  <2>1. p \in DOMAIN rows /\ Expired(p)
    BY <1>2 DEF delete, delete_failed, Idle, Shape, BytesInv, SweepTakesExpired
  <2>2. rows' = rows /\ objects \ objects' \subseteq {p}
    BY <1>2 DEF delete, delete_failed
  <2> QED
    BY <2>1, <2>2 DEF RetentionStep
<1>3. CASE mark_purged
  <2>1. sweep # Idle /\ objects' = objects
    BY <1>3 DEF mark_purged, Idle
  <2>2. \A p \in sweep.marked : Expired(p) /\ p \notin objects
    BY <2>1 DEF BytesInv, SweepTakesExpired
  <2>3. /\ DOMAIN rows' = DOMAIN rows
        /\ \A p \in DOMAIN rows :
             /\ rows'[p].expires = rows[p].expires
             /\ rows'[p].purged # rows[p].purged => rows'[p].purged /\ p \in sweep.marked
    BY <1>3 DEF mark_purged, Shape, AssetRow
  <2> QED
    BY <2>1, <2>2, <2>3 DEF RetentionStep
<1> QED
  BY <1>1, <1>2, <1>3 DEF SweepMoves

THEOREM NothingGoesEarly == Spec => [][RetentionStep]_vars
<1>1. Shape /\ BytesInv /\ [Next]_vars => RetentionStep
  <2> SUFFICES ASSUME Shape, BytesInv, [Next]_vars PROVE RetentionStep
    OBVIOUS
  <2>1. CASE UNCHANGED <<rows, objects>>
    BY <2>1 DEF RetentionStep
  <2>2. ASSUME NEW w \in Workers, TaskMoves(w)
        PROVE  RetentionStep
    <3>1. ASSUME NEW v \in AnySession, Stores(w, v)
          PROVE  RetentionStep
      <4>1. rows' = rows /\ objects \subseteq objects'
        BY <3>1 DEF Stores, Turns
      <4> QED
        BY <4>1 DEF RetentionStep
    <3>2. CASE Records(w)
      <4>1. /\ rows' = WithRows(task[w].asset) /\ objects' = objects
            /\ HeldBy(task[w]) = DOMAIN task[w].asset
        BY <3>2 DEF Records, Turns, HeldBy, Shape, AnySession, Session
      <4>2. DOMAIN task[w].asset \intersect DOMAIN rows = {}
        BY <4>1 DEF BytesInv, HeldIsStored
      <4> QED
        BY <4>1, <4>2, AddingRetains
    <3>3. CASE Loses(w)
      <4>1. rows' = rows /\ objects \subseteq objects'
        BY <3>3 DEF Loses, Turns
      <4> QED
        BY <4>1 DEF RetentionStep
    <3> QED
      BY <2>1, <2>2, <3>1, <3>2, <3>3 DEF TaskMoves, Works
  <2>3. ASSUME NEW s \in SubJobs, Submits(s)
        PROVE  RetentionStep
    <3>1. PICK new : DOMAIN new = Uploads(s) /\ rows' = WithRows(new)
      BY <2>3 DEF Submits
    <3>2. Uploads(s) \intersect DOMAIN rows = {} /\ objects' = objects
      BY <2>3 DEF Submits, BytesInv, UploadsTogether
    <3> QED
      BY <3>1, <3>2, AddingRetains
  <2>4. CASE Updates \/ NextDay
    BY <2>1, <2>4 DEF Updates, NextDay
  <2> QED
    BY NextKinds, SweepRetains, <2>2, <2>3, <2>4
<1> QED
  BY <1>1, InitShape, StepShape, InitBytesInv, StepBytesInv, PTL DEF Spec

-----------------------------------------------------------------------------
(* Orphans: only a step that loses a session adds one, and counts a fault. *)

OrphanInv == IsFiniteSet(Orphans) /\ OrphanTakesFault

LEMMA OrphanMember ==
  ASSUME Shape
  PROVE  \A p : p \in Orphans <=>
           /\ p \in objects /\ p.role = "OUTPUT" /\ p \notin DOMAIN rows
           /\ \A w \in Workers : p \notin HeldBy(task[w])
<1>1. UNION {DOMAIN task[w].asset : w \in Busy} = UNION {HeldBy(task[w]) : w \in Workers}
  BY SessionKinds DEF Busy, HeldBy
<1> QED
  BY <1>1 DEF Orphans

LEMMA InitOrphanInv == Init => OrphanInv
<1> SUFFICES ASSUME Init PROVE OrphanInv
  OBVIOUS
<1>1. Orphans = {}
  <2>1. \A p \in objects : p.role # "OUTPUT"
    BY UploadPaths DEF Init
  <2> QED
    BY <2>1 DEF Orphans
<1> QED
  BY <1>1, FS_EmptySet DEF OrphanInv, OrphanTakesFault, Init

\* At most one output more than before counts a fault.
LEMMA OrphanBound ==
  ASSUME Shape, OrphanInv,
         \/ Orphans' \subseteq Orphans /\ faults' \in {faults, faults + 1}
         \/ (\E p : Orphans' \subseteq Orphans \union {p}) /\ faults' = faults + 1
  PROVE  OrphanInv'
<1>1. Cardinality(Orphans) \in Nat /\ Cardinality(Orphans) <= faults /\ faults \in Nat
      /\ IsFiniteSet(Orphans)
  BY FS_CardinalityType, BoundsAssumption DEF OrphanInv, OrphanTakesFault, Shape
<1>2. CASE Orphans' \subseteq Orphans /\ faults' \in {faults, faults + 1}
  <2>1. IsFiniteSet(Orphans') /\ Cardinality(Orphans') <= Cardinality(Orphans)
    BY <1>1, <1>2, FS_Subset
  <2>2. Cardinality(Orphans') \in Nat
    BY <2>1, FS_CardinalityType
  <2>3. Cardinality(Orphans') <= faults'
    BY <1>1, <1>2, <2>1, <2>2
  <2> QED
    BY <2>1, <2>3 DEF OrphanInv, OrphanTakesFault
<1>3. ASSUME NEW p, Orphans' \subseteq Orphans \union {p}, faults' = faults + 1
      PROVE  OrphanInv'
  <2>1. /\ IsFiniteSet(Orphans \union {p})
        /\ Cardinality(Orphans \union {p}) \in {Cardinality(Orphans), Cardinality(Orphans) + 1}
    <3>1. IsFiniteSet(Orphans \union {p})
          /\ Cardinality(Orphans \union {p}) =
               IF p \in Orphans THEN Cardinality(Orphans) ELSE Cardinality(Orphans) + 1
      BY <1>1, FS_AddElement
    <3> QED
      BY <3>1
  <2>2. IsFiniteSet(Orphans') /\ Cardinality(Orphans') <= Cardinality(Orphans \union {p})
    BY <1>3, <2>1, FS_Subset
  <2>3. Cardinality(Orphans') \in Nat
    BY <2>2, FS_CardinalityType
  <2>4. Cardinality(Orphans') <= faults'
    BY <1>1, <1>3, <2>1, <2>2, <2>3
  <2> QED
    BY <2>2, <2>4 DEF OrphanInv, OrphanTakesFault
<1> QED
  BY <1>2, <1>3

LEMMA StepOrphanInv == Shape /\ OrphanInv /\ [Next]_vars => OrphanInv'
<1> SUFFICES ASSUME Shape, OrphanInv, [Next]_vars PROVE OrphanInv'
  OBVIOUS
<1>1. /\ Shape'
      /\ \A p : p \in Orphans' <=>
           /\ p \in objects' /\ p.role = "OUTPUT" /\ p \notin DOMAIN rows'
           /\ \A w \in Workers : p \notin HeldBy(task'[w])
  <2>1. Shape'
    BY StepShape
  <2>2. (UNION {DOMAIN task[w].asset : w \in Busy} = UNION {HeldBy(task[w]) : w \in Workers})'
    <3>1. \A w \in Workers : task'[w].pc = "idle" <=> task'[w] = Idle
      BY <2>1 DEF Shape, AnySession, Session, Idle
    <3> QED
      BY <3>1 DEF Busy, At, HeldBy
  <2> QED
    BY <2>1, <2>2 DEF Orphans
<1>2. ASSUME NEW w \in Workers, NEW v \in AnySession, Works(w, v)
      PROVE  OrphanInv'
  <2>1. /\ \A x \in Workers \ {w} : task'[x] = task[x]
        /\ HeldBy(task[w]) = {} /\ UNCHANGED <<rows, objects, faults>>
    BY <1>2, TurnShape DEF Works
  <2>2. Orphans' \subseteq Orphans
    BY <1>1, <2>1, OrphanMember
  <2> QED
    BY <2>1, <2>2, OrphanBound
<1>3. ASSUME NEW w \in Workers, NEW v \in AnySession, Stores(w, v)
      PROVE  OrphanInv'
  <2>1. /\ task'[w] = v /\ \A x \in Workers \ {w} : task'[x] = task[x]
        /\ HeldBy(task[w]) = {} /\ UNCHANGED <<rows, faults>>
        /\ \E p : HeldBy(v) = {p} /\ objects' = objects \union {p}
    BY <1>3, TurnShape DEF Stores
  <2>2. Orphans' \subseteq Orphans
    BY <1>1, <2>1, OrphanMember
  <2> QED
    BY <2>1, <2>2, OrphanBound
<1>4. ASSUME NEW w \in Workers, Records(w)
      PROVE  OrphanInv'
  <2>1. /\ \A x \in Workers \ {w} : task'[x] = task[x]
        /\ UNCHANGED <<objects, faults>>
        /\ DOMAIN rows' = DOMAIN rows \union HeldBy(task[w])
    <3>1. rows' = WithRows(task[w].asset) /\ HeldBy(task[w]) = DOMAIN task[w].asset
      BY <1>4 DEF Records, HeldBy
    <3> QED
      BY <1>4, <3>1, TurnShape, RowsAdded DEF Records, AnySession
  <2>2. Orphans' \subseteq Orphans
    BY <1>1, <2>1, OrphanMember
  <2> QED
    BY <2>1, <2>2, OrphanBound
<1>5. ASSUME NEW w \in Workers, Loses(w)
      PROVE  OrphanInv'
  <2>1. /\ \A x \in Workers \ {w} : task'[x] = task[x]
        /\ UNCHANGED rows /\ faults' = faults + 1
    BY <1>5, TurnShape DEF Loses, AnySession
  <2>2. \E p : Orphans' \subseteq Orphans \union {p}
    <3>1. CASE objects' = objects
      <4>1. task[w].asset \in AssetRows /\ HeldBy(task[w]) = DOMAIN task[w].asset
        BY <1>5 DEF Loses, Shape, AnySession, Session, HeldBy
      <4>2. \E p : HeldBy(task[w]) \subseteq {p}
        BY <4>1, AssetRowsShape
      <4> QED
        BY <1>1, <2>1, <3>1, <4>2, OrphanMember
    <3>2. CASE HeldBy(task[w]) = {} /\ \E p : objects' = objects \union {p}
      BY <1>1, <2>1, <3>2, OrphanMember
    <3> QED
      BY <1>5, <3>1, <3>2 DEF Loses
  <2> QED
    BY <2>1, <2>2, OrphanBound
<1>6. ASSUME UNCHANGED task, objects' \subseteq objects, DOMAIN rows \subseteq DOMAIN rows',
             faults' \in {faults, faults + 1}
      PROVE  OrphanInv'
  <2>1. Orphans' \subseteq Orphans
    BY <1>1, <1>6, OrphanMember
  <2> QED
    BY <1>6, <2>1, OrphanBound
<1>7. (\E s \in SubJobs : Submits(s)) \/ Updates \/ SweepMoves \/ NextDay
        => /\ UNCHANGED task /\ objects' \subseteq objects /\ DOMAIN rows \subseteq DOMAIN rows'
           /\ faults' \in {faults, faults + 1}
  <2>1. ASSUME NEW s \in SubJobs, Submits(s)
        PROVE  /\ UNCHANGED <<task, objects, faults>> /\ DOMAIN rows \subseteq DOMAIN rows'
    BY <2>1, RowsAdded DEF Submits
  <2>2. SweepMoves => /\ UNCHANGED task /\ objects' \subseteq objects
                      /\ DOMAIN rows' = DOMAIN rows /\ faults' \in {faults, faults + 1}
    BY DEF SweepMoves, expire_assets, delete, delete_failed, mark_purged
  <2> QED
    BY <2>1, <2>2 DEF Updates, NextDay
<1> QED
  BY NextKinds, <1>2, <1>3, <1>4, <1>5, <1>6, <1>7 DEF TaskMoves

(***************************************************************************)
(* A stored output that no row describes, and so no sweep will delete,     *)
(* took a fault each, however many tasks ran and lost their sub-jobs.      *)
(***************************************************************************)
THEOREM OrphansTakeFaults == Spec => []OrphanTakesFault
<1>1. OrphanInv => OrphanTakesFault
  BY DEF OrphanInv
<1> QED
  BY <1>1, InitShape, StepShape, InitOrphanInv, StepOrphanInv, PTL DEF Spec
=============================================================================
