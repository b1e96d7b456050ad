-------------------------- MODULE SubJobRows_proofs --------------------------
(***************************************************************************)
(* The operators of SubJobRows and StatusRollup, for any number of         *)
(* attempts and of sub-jobs.                                               *)
(***************************************************************************)
EXTENDS SubJobRows, FiniteSetTheorems, TLAPS

\* A committed row mixes columns of two rows.
LEMMA WrittenRowType ==
  ASSUME NEW stored \in SubJobRow, NEW new \in SubJobRow, NEW old
  PROVE  WrittenRow(stored, old, new) \in SubJobRow
BY DEF WrittenRow, Dirty, SubJobRow

LEMMA WrittenJobType ==
  ASSUME NEW stored \in JobRow, NEW new \in JobRow, NEW old
  PROVE  /\ WrittenJob(stored, old, new) \in JobRow
         /\ RecomputedJob(stored, old, new) \in JobRow
<1>1. WrittenJob(stored, old, new) \in JobRow
  BY DEF WrittenJob, Dirty, JobRow
<1> QED
  BY <1>1 DEF RecomputedJob, JobRow

\* What was loaded and is still stored is replaced by what was planned.
LEMMA FreshRow ==
  ASSUME NEW old \in SubJobRow, NEW new \in SubJobRow
  PROVE  WrittenRow(old, old, new) = new
BY DEF WrittenRow, Dirty, SubJobRow

LEMMA FreshJob ==
  ASSUME NEW old \in JobRow, NEW new \in JobRow
  PROVE  WrittenJob(old, old, new) = new /\ RecomputedJob(old, old, new) = new
<1>1. WrittenJob(old, old, new) = new
  BY DEF WrittenJob, Dirty, JobRow
<1> QED
  BY <1>1 DEF RecomputedJob, JobRow

LEMMA FailType ==
  ASSUME NEW row \in SubJobRow, NEW class \in FailureClass
  PROVE  fail(row, class) \in SubJobRow
BY DEF fail, SubJobRow, SubJobStatus

\* The loop never takes attempt_count past the ceiling.
LEMMA AttemptLoopType ==
  ASSUME NEW row \in SubJobRow, row.attempts < MaxAttempts,
         NEW success \in SubJobStatus
  PROVE  attempt_loop(row, success) \subseteq SubJobRow
<1>1. /\ (row.attempts + 1)..MaxAttempts \subseteq 0..MaxAttempts
      /\ MaxAttempts \in 0..MaxAttempts
  BY AttemptsAssumption DEF SubJobRow
<1>2. \A n \in 0..MaxAttempts : [row EXCEPT !.attempts = n] \in SubJobRow
  BY DEF SubJobRow
<1>3. \A r \in SubJobRow : attempt_outcomes(r, success) \subseteq SubJobRow
  <2> SUFFICES ASSUME NEW r \in SubJobRow
               PROVE  attempt_outcomes(r, success) \subseteq SubJobRow
    OBVIOUS
  <2>1. [r EXCEPT !.status = success] \in SubJobRow
    BY DEF SubJobRow
  <2>2. fail(r, "SAFETY_REFUSAL") \in SubJobRow /\ fail(r, "INTERNAL") \in SubJobRow
    BY FailType DEF FailureClass
  <2> QED
    BY <2>1, <2>2 DEF attempt_outcomes
<1>4. fail([row EXCEPT !.attempts = MaxAttempts], "TRANSIENT") \in SubJobRow
  BY <1>1, <1>2, FailType DEF FailureClass
<1> QED
  BY <1>1, <1>2, <1>3, <1>4 DEF attempt_loop

LEMMA MarkFailedType ==
  ASSUME NEW row \in SubJobRow
  PROVE  MarkFailed(row) \in SubJobRow
BY DEF MarkFailed, SubJobRow, SubJobStatus, FailureClass

\* What the attempt loop may do to a row.
LEMMA AttemptLoopResult ==
  ASSUME NEW row \in SubJobRow, row.attempts < MaxAttempts, NEW success \in SubJobStatus,
         NEW r \in attempt_loop(row, success)
  PROVE  r.qa = row.qa /\ r.status \in {success, "FAILED", "REJECTED"}
<1>1. \A n \in 0..MaxAttempts : [row EXCEPT !.attempts = n] \in SubJobRow
  BY DEF SubJobRow
<1>2. \A q \in SubJobRow, class \in FailureClass :
        fail(q, class).qa = q.qa /\ fail(q, class).status \in {"FAILED", "REJECTED"}
  BY DEF fail, SubJobRow
<1>3. CASE r = fail([row EXCEPT !.attempts = MaxAttempts], "TRANSIENT")
  <2>1. MaxAttempts \in 0..MaxAttempts
    BY AttemptsAssumption
  <2>2. [row EXCEPT !.attempts = MaxAttempts].qa = row.qa
    BY DEF SubJobRow
  <2> QED
    BY <1>1, <1>2, <1>3, <2>1, <2>2 DEF FailureClass
<1>4. CASE \E n \in (row.attempts + 1)..MaxAttempts :
             r \in attempt_outcomes([row EXCEPT !.attempts = n], success)
  <2>1. PICK n \in (row.attempts + 1)..MaxAttempts :
          r \in attempt_outcomes([row EXCEPT !.attempts = n], success)
    BY <1>4
  <2> DEFINE q == [row EXCEPT !.attempts = n]
  <2>2. n \in 0..MaxAttempts
    BY AttemptsAssumption DEF SubJobRow
  <2>3. q \in SubJobRow /\ q.qa = row.qa
    BY <1>1, <2>2 DEF SubJobRow
  <2>4. [q EXCEPT !.status = success].qa = q.qa /\ [q EXCEPT !.status = success].status = success
    BY <2>3 DEF SubJobRow
  <2>5. r \in {[q EXCEPT !.status = success], fail(q, "SAFETY_REFUSAL"), fail(q, "INTERNAL")}
    BY <2>1 DEF attempt_outcomes
  <2> HIDE DEF q
  <2>6. CASE r = [q EXCEPT !.status = success]
    BY <2>3, <2>4, <2>6
  <2>7. CASE r = fail(q, "SAFETY_REFUSAL") \/ r = fail(q, "INTERNAL")
    BY <1>2, <2>3, <2>7 DEF FailureClass
  <2> QED
    BY <2>5, <2>6, <2>7
<1> QED
  BY <1>3, <1>4 DEF attempt_loop

-----------------------------------------------------------------------------
(***************************************************************************)
(* The table of business rule 3, which compute_parent_status decides from  *)
(* three counts: with any number of sub-jobs that count (no skipped angle, *)
(* and no cleanup step next to its angles) the parent is closed exactly    *)
(* when all have ended, as COMPLETED exactly when all were delivered and   *)
(* as FAILED exactly when there are some and none was.                     *)
(***************************************************************************)
Ended == {"COMPLETED", "FAILED", "REJECTED"}

THEOREM RollupTable ==
  ASSUME NEW D, IsFiniteSet(D), NEW st \in [D -> SubJobStatus], NEW steps
  PROVE  LET counted == Counted(st, steps)
             parent  == Rollup(st, steps).status
         IN  /\ parent \in TERMINAL_STATUSES <=> \A s \in counted : st[s] \in Ended
             /\ parent = "COMPLETED" <=> \A s \in counted : st[s] = "COMPLETED"
             /\ parent = "FAILED" <=> /\ counted # {}
                                      /\ \A s \in counted : st[s] \in {"FAILED", "REJECTED"}
<1> DEFINE C == Counted(st, steps)
           S == Succeeded(st, steps)
           F == Failed(st, steps)
           c == Cardinality(C)
           n == Cardinality(S)
           f == Cardinality(F)
<1>1. C \subseteq D /\ S \subseteq C /\ F \subseteq C /\ S \intersect F = {}
  BY DEF Counted, Succeeded, Failed
<1>2. /\ S = C <=> \A s \in C : st[s] = "COMPLETED"
      /\ F = C <=> \A s \in C : st[s] \in {"FAILED", "REJECTED"}
      /\ S \union F = C <=> \A s \in C : st[s] \in Ended
  BY DEF Succeeded, Failed, Ended
<1> HIDE DEF C, S, F
<1>3. /\ IsFiniteSet(C) /\ IsFiniteSet(S) /\ IsFiniteSet(F)
      /\ c \in Nat /\ n \in Nat /\ f \in Nat
      /\ n <= c /\ f <= c /\ (n = c => S = C) /\ (f = c => F = C)
  <2>1. IsFiniteSet(C)
    BY <1>1, FS_Subset
  <2> QED
    BY <1>1, <2>1, FS_Subset, FS_CardinalityType
<1>4. Cardinality(S \union F) = n + f /\ (n + f = c => S \union F = C) /\ n + f <= c
  <2>1. Cardinality(S \union F) = n + f
    <3>1. Cardinality(S \intersect F) = 0
      BY <1>1, FS_EmptySet
    <3>2. Cardinality(S \union F) = n + f - Cardinality(S \intersect F)
      BY <1>3, FS_Union
    <3> QED
      BY <1>3, <3>1, <3>2
  <2>2. S \union F \subseteq C
    BY <1>1
  <2> QED
    BY <1>3, <2>1, <2>2, FS_Subset
<1>5. C = {} <=> c = 0
  BY <1>3, FS_EmptySet
<1>6. Rollup(st, steps).status = compute_parent_status(c, n, f)
  BY DEF Rollup, C, S, F
<1> HIDE DEF c, n, f
<1>7. /\ compute_parent_status(c, n, f) \in TERMINAL_STATUSES <=> n + f = c
      /\ compute_parent_status(c, n, f) = "COMPLETED" <=> n = c
      /\ compute_parent_status(c, n, f) = "FAILED" <=> f = c /\ c # 0
  BY <1>3, <1>4 DEF compute_parent_status, TERMINAL_STATUSES
<1>8. (n = c <=> S = C) /\ (f = c <=> F = C) /\ (n + f = c <=> S \union F = C)
  BY <1>3, <1>4 DEF c, n, f
<1> QED
  BY <1>2, <1>5, <1>6, <1>7, <1>8 DEF C
=============================================================================
