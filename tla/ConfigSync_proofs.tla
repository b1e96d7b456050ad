-------------------------- MODULE ConfigSync_proofs --------------------------
(***************************************************************************)
(* Theorems about ConfigSync, for any syncs, readers and creating requests *)
(* and any contents of the sheet.                                          *)
(***************************************************************************)
EXTENDS ConfigSync, TLAPS

-----------------------------------------------------------------------------
(* The versions are a sequence, to which a commit appends.                 *)

LEMMA LogDomain ==
  ASSUME NEW q, IsList(q)
  PROVE  Len(q) \in Nat /\ DOMAIN q = 1..Len(q)
BY DEF IsList

LEMMA LogAppend ==
  ASSUME NEW q, IsList(q), NEW x
  PROVE  /\ IsList(Append(q, x))
         /\ Len(Append(q, x)) = Len(q) + 1
         /\ \A i \in DOMAIN q : Append(q, x)[i] = q[i]
         /\ Append(q, x)[Len(q) + 1] = x
         /\ DOMAIN Append(q, x) = DOMAIN q \union {Len(q) + 1}
<1> DEFINE S == {q[i] : i \in DOMAIN q} \union {x}
           r == Append(q, x)
<1>1. q \in Seq(S) /\ x \in S
  <2>1. Len(q) \in Nat /\ DOMAIN q = 1..Len(q)
    BY LogDomain
  <2>2. \A i \in 1..Len(q) : q[i] \in S
    BY <2>1
  <2>3. q = [i \in 1..Len(q) |-> q[i]]
    BY DEF IsList
  <2> HIDE DEF S
  <2>4. q \in Seq(S)
    BY <2>1, <2>2, <2>3
  <2> QED
    BY <2>4 DEF S
<1> HIDE DEF S
<1>2. /\ r \in Seq(S) /\ Len(r) = Len(q) + 1 /\ Len(q) \in Nat
      /\ \A i \in 1..Len(q) : r[i] = q[i]
      /\ r[Len(q) + 1] = x
  BY <1>1
<1>3. DOMAIN q = 1..Len(q) /\ DOMAIN r = 1..(Len(q) + 1)
  BY <1>1, <1>2
<1> HIDE DEF r
<1>4. r = [i \in 1..Len(r) |-> r[i]]
  BY <1>2
<1>5. IsList(r)
  <2> DEFINE T == {r[i] : i \in DOMAIN r}
  <2>1. \A i \in 1..Len(r) : r[i] \in T
    BY <1>2, <1>3
  <2> HIDE DEF T
  <2>2. r \in Seq(T)
    BY <1>2, <1>4, <2>1
  <2> QED
    BY <2>2 DEF T, IsList
<1> QED
  BY <1>2, <1>3, <1>5 DEF r

\* The log with one version deactivated is a log of the same length.
LEMMA LogReplaced ==
  ASSUME NEW q, IsList(q), NEW r, DOMAIN r = DOMAIN q, r = [i \in DOMAIN q |-> r[i]]
  PROVE  IsList(r) /\ Len(r) = Len(q)
<1>1. Len(q) \in Nat /\ DOMAIN q = 1..Len(q)
  BY LogDomain
<1> DEFINE T == {r[i] : i \in DOMAIN r}
<1>2. \A i \in 1..Len(q) : r[i] \in T
  BY <1>1
<1> HIDE DEF T
<1>3. r = [i \in 1..Len(q) |-> r[i]]
  BY <1>1
<1>4. r \in Seq(T) /\ Len(r) = Len(q)
  BY <1>1, <1>2, <1>3
<1> QED
  BY <1>4 DEF T, IsList
-----------------------------------------------------------------------------
(***************************************************************************)
(* One activation at a time.  What keeps syncs apart is the number: it is  *)
(* unique among committed rows and among those inserted, and the numbers   *)
(* have no gap, so only one sync at a time gets past its INSERT.           *)
(***************************************************************************)
SyncPc == {"idle", "fetched", "normalized", "numbered", "inserted", "found", "activated",
           "committed"}
Inserted == {"inserted", "found", "activated"}
Carrying == {"normalized", "numbered"} \union Inserted

\* A session, when there are len versions and the active one is current.
SessionOK(v, len, current) ==
  /\ v.pc \in SyncPc
  /\ v.pc \in Carrying => v.status \in SyncStatus
  /\ v.pc \in {"numbered", "inserted"} =>
       /\ v = [pc |-> v.pc, status |-> v.status, payload |-> v.payload, number |-> v.number]
       /\ v.number \in 1..(len + 1)
  /\ v.pc \in Inserted => v.number = len + 1
  /\ v.pc \in {"found", "activated"} =>
       /\ v = [pc |-> v.pc, status |-> "SUCCESS", payload |-> v.payload,
               number |-> v.number, current |-> v.current]
       /\ v.current = current

IsRow(x) ==
  x = [number |-> x.number, payload |-> x.payload, status |-> x.status, active |-> x.active]

LogOK ==
  /\ IsList(versions)
  /\ \A v \in DOMAIN versions :
       /\ IsRow(versions[v]) /\ versions[v].number = v
       /\ versions[v].active \in BOOLEAN /\ versions[v].status \in SyncStatus
  /\ ActiveRows = {v \in Successes : \A w \in Successes : w <= v}
  /\ Successes # {} => ActiveRows # {}

SyncsOK ==
  /\ sync = [s \in Syncs |-> sync[s]]
  /\ \A s \in Syncs : SessionOK(sync[s], Len(versions), get_active)
  /\ \A s, t \in InTransaction : s = t

SyncInv == LogOK /\ SyncsOK

LEMMA VersionDomain ==
  ASSUME LogOK
  PROVE  Len(versions) \in Nat /\ DOMAIN versions = 1..Len(versions)
BY LogDomain DEF LogOK

\* There is an active version if ever a sync has succeeded, and only one.
LEMMA ActiveVersion ==
  ASSUME LogOK
  PROVE  /\ get_active \in {None} \union DOMAIN versions
         /\ get_active # None => ActiveRows = {get_active} /\ get_active \in Successes
         /\ get_active = None => ActiveRows = {} /\ Successes = {}
<1>1. /\ \A v \in DOMAIN versions : v \in Nat \ {0}
      /\ ActiveRows \subseteq DOMAIN versions
  BY VersionDomain DEF ActiveRows
<1>2. ASSUME NEW v \in ActiveRows, NEW w \in ActiveRows
      PROVE  v = w
  <2>1. v <= w /\ w <= v
    BY DEF LogOK
  <2> QED
    BY <1>1, <2>1
<1>3. CASE ActiveRows = {}
  BY <1>3 DEF get_active, LogOK
<1>4. CASE ActiveRows # {}
  <2>1. get_active \in ActiveRows
    BY <1>4 DEF get_active
  <2> QED
    BY <1>1, <1>2, <1>4, <2>1 DEF None, LogOK
<1> QED
  BY <1>3, <1>4

LEMMA InitSyncInv == Init => SyncInv
<1> SUFFICES ASSUME Init PROVE SyncInv
  OBVIOUS
<1>1. SyncsOK
  BY DEF Init, SyncsOK, SessionOK, SyncPc, Carrying, Inserted, InTransaction
<1>2. CASE versions = <<>>
  <2>1. DOMAIN versions = {} /\ IsList(versions)
    BY <1>2 DEF IsList
  <2> QED
    BY <1>1, <2>1 DEF SyncInv, LogOK, ActiveRows, Successes
<1>3. ASSUME NEW x, x = [number |-> 1, payload |-> Seed, status |-> "SUCCESS", active |-> TRUE],
             versions = <<x>>
      PROVE  SyncInv
  <2>1. DOMAIN versions = {1} /\ versions[1] = x /\ versions \in Seq({x})
    BY <1>3
  <2>2. IsList(versions)
    <3>1. {versions[i] : i \in DOMAIN versions} = {x}
      BY <2>1
    <3> QED
      BY <2>1, <3>1 DEF IsList
  <2>3. IsRow(x) /\ x.number = 1 /\ x.status = "SUCCESS" /\ x.active = TRUE
    BY <1>3 DEF IsRow
  <2>4. ActiveRows = {1} /\ Successes = {1}
    BY <2>1, <2>3 DEF ActiveRows, Successes
  <2>5. ActiveRows = {v \in Successes : \A w \in Successes : w <= v}
    <3>1. 1 <= 1
      OBVIOUS
    <3> QED
      BY <2>4, <3>1
  <2> QED
    BY <1>1, <2>1, <2>2, <2>3, <2>4, <2>5 DEF SyncInv, LogOK, SyncStatus
<1> QED
  BY <1>2, <1>3 DEF Init

\* A sync that goes on as v while the versions stay as they are.
LEMMA SyncGoesOn ==
  ASSUME SyncInv, NEW s \in Syncs, NEW v, SetSync(s, v), versions' = versions,
         SessionOK(v, Len(versions), get_active),
         v.pc \in Inserted => \A t \in InTransaction : t = s
  PROVE  SyncInv'
<1>1. /\ sync'[s] = v /\ \A t \in Syncs \ {s} : sync'[t] = sync[t]
      /\ sync' = [t \in Syncs |-> sync'[t]]
  BY DEF SyncInv, SyncsOK, SetSync
<1>2. LogOK'
  BY DEF SyncInv, LogOK, ActiveRows, Successes
<1>3. get_active' = get_active
  BY DEF get_active, ActiveRows
<1>4. \A t \in Syncs : SessionOK(sync'[t], Len(versions'), get_active')
  BY <1>1, <1>3 DEF SyncInv, SyncsOK
<1>5. \A x, y \in Syncs :
         sync'[x].pc \in Inserted /\ sync'[y].pc \in Inserted => x = y
  BY <1>1 DEF SyncInv, SyncsOK, InTransaction, Inserted
<1>6. (\A x, y \in InTransaction : x = y)'
  BY <1>5 DEF InTransaction, Inserted
<1> QED
  BY <1>1, <1>2, <1>4, <1>6 DEF SyncInv, SyncsOK

\* A step that touches neither syncs nor versions.
LEMMA NoSync ==
  ASSUME SyncInv, UNCHANGED <<versions, sync>>
  PROVE  SyncInv'
BY DEF SyncInv, LogOK, SyncsOK, ActiveRows, Successes, get_active, InTransaction

\* Sessions that hold nothing of the versions are always in order.
LEMMA IdleOK ==
  ASSUME NEW n, NEW k
  PROVE  /\ SessionOK([pc |-> "idle"], n, k)
         /\ SessionOK([pc |-> "committed"], n, k)
         /\ \A x : SessionOK([pc |-> "fetched", rows |-> x], n, k)
         /\ \A x : \A y \in SyncStatus :
               SessionOK([pc |-> "normalized", status |-> y, payload |-> x], n, k)
BY DEF SessionOK, SyncPc, Carrying, Inserted

LEMMA FetchSyncInv ==
  ASSUME SyncInv, NEW s \in Syncs, fetch_rows(s)
  PROVE  SyncInv'
<1> DEFINE v == [pc |-> "fetched", rows |-> sheet]
<1>1. SetSync(s, v) /\ versions' = versions
  BY DEF fetch_rows
<1>2. SessionOK(v, Len(versions), get_active) /\ v.pc \notin Inserted
  BY IdleOK DEF Inserted
<1> HIDE DEF v
<1> QED
  BY <1>1, <1>2, SyncGoesOn

\* What a sync that makes progress in idle, or in normalized, becomes.
LEMMA EndSyncInv ==
  ASSUME SyncInv, NEW s \in Syncs, EndSync(s), versions' = versions
  PROVE  SyncInv'
<1> DEFINE v == [pc |-> "idle"]
<1>1. SetSync(s, v)
  BY DEF EndSync
<1>2. SessionOK(v, Len(versions), get_active) /\ v.pc \notin Inserted
  BY IdleOK DEF Inserted
<1> HIDE DEF v
<1> QED
  BY <1>1, <1>2, SyncGoesOn

LEMMA NormalizedSyncInv ==
  ASSUME SyncInv, NEW s \in Syncs, NEW x, NEW y \in SyncStatus, versions' = versions,
         SetSync(s, [pc |-> "normalized", status |-> y, payload |-> x])
  PROVE  SyncInv'
<1> DEFINE v == [pc |-> "normalized", status |-> y, payload |-> x]
<1>1. SetSync(s, v)
  OBVIOUS
<1>2. SessionOK(v, Len(versions), get_active) /\ v.pc \notin Inserted
  BY IdleOK DEF Inserted
<1> HIDE DEF v
<1> QED
  BY <1>1, <1>2, SyncGoesOn

LEMMA NormalizeSyncInv ==
  ASSUME SyncInv, NEW s \in Syncs, normalize(s)
  PROVE  SyncInv'
<1> DEFINE new == normalize_sheet_rows(sync[s].rows, Global(get_active))
<1>1. /\ versions' = versions
      /\ \/ SetSync(s, [pc |-> "normalized", status |-> "FAILED", payload |-> FailedPayload])
         \/ EndSync(s)
         \/ SetSync(s, [pc |-> "normalized", status |-> "SUCCESS", payload |-> new])
  BY DEF normalize
<1> HIDE DEF new
<1>2. "FAILED" \in SyncStatus /\ "SUCCESS" \in SyncStatus
  BY DEF SyncStatus
<1> QED
  BY <1>1, <1>2, EndSyncInv, NormalizedSyncInv

\* The numbers are those of the places, so the next one is that of the next place.
LEMMA NumbersArePlaces ==
  ASSUME LogOK
  PROVE  Numbers = 1..Len(versions)
BY VersionDomain DEF LogOK, Numbers

LEMMA NumberSyncInv ==
  ASSUME SyncInv, NEW s \in Syncs, get_next_version_number(s)
  PROVE  SyncInv'
<1> DEFINE max == IF Numbers = {} THEN 0
                  ELSE CHOOSE n \in Numbers : \A k \in Numbers : k <= n
           v == [pc |-> "numbered", status |-> sync[s].status, payload |-> sync[s].payload,
                 number |-> max + 1]
<1>1. SetSync(s, v) /\ versions' = versions
  BY DEF get_next_version_number
<1>2. Len(versions) \in Nat /\ Numbers = 1..Len(versions)
  BY VersionDomain, NumbersArePlaces DEF SyncInv
<1>3. max = Len(versions)
  <2>1. CASE Len(versions) = 0
    BY <1>2, <2>1
  <2>2. CASE Len(versions) # 0
    <3>1. Len(versions) \in Numbers /\ \A k \in Numbers : k <= Len(versions)
      BY <1>2, <2>2
    <3>2. /\ max \in Numbers /\ \A k \in Numbers : k <= max
      BY <3>1
    <3> QED
      BY <1>2, <3>1, <3>2
  <2> QED
    BY <2>1, <2>2
<1>4. sync[s].status \in SyncStatus
  BY DEF SyncInv, SyncsOK, SessionOK, Carrying, get_next_version_number, SyncAt
<1> HIDE DEF max
<1>5. SessionOK(v, Len(versions), get_active) /\ v.pc \notin Inserted
  BY <1>2, <1>3, <1>4 DEF SessionOK, SyncPc, Carrying, Inserted
<1> HIDE DEF v
<1> QED
  BY <1>1, <1>5, SyncGoesOn

\* The INSERT goes through only with the next number, which nobody else holds.
LEMMA CreateSyncInv ==
  ASSUME SyncInv, NEW s \in Syncs, create_version(s)
  PROVE  SyncInv'
<1>1. CASE sync[s].number \in Numbers
  BY <1>1, EndSyncInv DEF create_version
<1>2. CASE sync[s].number \notin Numbers
  <2> DEFINE v == [sync[s] EXCEPT !.pc = "inserted"]
             n == Len(versions)
  <2>1. /\ SetSync(s, v) /\ versions' = versions
        /\ \A t \in InTransaction : sync[t].number # sync[s].number
        /\ sync[s].pc = "numbered"
    BY <1>2 DEF create_version, SyncAt
  <2>2. n \in Nat /\ Numbers = 1..n
    BY VersionDomain, NumbersArePlaces DEF SyncInv
  <2>3. /\ sync[s] = [pc |-> "numbered", status |-> sync[s].status,
                      payload |-> sync[s].payload, number |-> sync[s].number]
        /\ sync[s].number \in 1..(n + 1) /\ sync[s].status \in SyncStatus
    BY <2>1 DEF SyncInv, SyncsOK, SessionOK, Carrying
  <2>4. sync[s].number = n + 1
    BY <1>2, <2>2, <2>3
  <2>5. InTransaction = {}
    BY <2>1, <2>4 DEF SyncInv, SyncsOK, SessionOK, InTransaction, Inserted
  <2>6. v = [pc |-> "inserted", status |-> sync[s].status,
             payload |-> sync[s].payload, number |-> sync[s].number]
    BY <2>3
  <2> HIDE DEF v
  <2>7. v.pc = "inserted" /\ v.status = sync[s].status /\ v.payload = sync[s].payload
        /\ v.number = sync[s].number
    BY <2>6
  <2>8. SessionOK(v, n, get_active)
    BY <2>2, <2>3, <2>4, <2>6, <2>7 DEF SessionOK, SyncPc, Carrying, Inserted
  <2> QED
    BY <2>1, <2>5, <2>8, SyncGoesOn
<1> QED
  BY <1>1, <1>2

LEMMA FindSyncInv ==
  ASSUME SyncInv, NEW s \in Syncs, find_current(s)
  PROVE  SyncInv'
<1> DEFINE v == [pc |-> "found", status |-> "SUCCESS", payload |-> sync[s].payload,
                 number |-> sync[s].number, current |-> get_active]
<1>1. SetSync(s, v) /\ versions' = versions /\ sync[s].pc = "inserted"
  BY DEF find_current, SyncAt
<1>2. sync[s].number = Len(versions) + 1 /\ \A t \in InTransaction : t = s
  BY <1>1 DEF SyncInv, SyncsOK, SessionOK, InTransaction, Inserted
<1>3. SessionOK(v, Len(versions), get_active)
  BY <1>2 DEF SessionOK, SyncPc, Carrying, Inserted, SyncStatus
<1> HIDE DEF v
<1> QED
  BY <1>1, <1>2, <1>3, SyncGoesOn

\* The version found is still the active one: the index refuses nothing.
LEMMA ActivateSyncInv ==
  ASSUME SyncInv, NEW s \in Syncs, activate_version(s)
  PROVE  SyncInv'
<1> DEFINE v == [sync[s] EXCEPT !.pc = "activated"]
<1>1. sync[s].pc = "found" /\ versions' = versions
  BY DEF activate_version, SyncAt
<1>2. /\ sync[s] = [pc |-> "found", status |-> "SUCCESS", payload |-> sync[s].payload,
                    number |-> sync[s].number, current |-> sync[s].current]
      /\ sync[s].current = get_active /\ sync[s].number = Len(versions) + 1
      /\ \A t \in InTransaction : t = s
  BY <1>1 DEF SyncInv, SyncsOK, SessionOK, InTransaction, Inserted
<1>3. ActiveRows \subseteq {sync[s].current}
  BY <1>2, ActiveVersion DEF SyncInv
<1>4. SetSync(s, v)
  BY <1>3 DEF activate_version
<1>5. v = [pc |-> "activated", status |-> "SUCCESS", payload |-> sync[s].payload,
           number |-> sync[s].number, current |-> sync[s].current]
  BY <1>2
<1> HIDE DEF v
<1>6. /\ v.pc = "activated" /\ v.status = "SUCCESS" /\ v.payload = sync[s].payload
      /\ v.number = sync[s].number /\ v.current = sync[s].current
  BY <1>5
<1>7. SessionOK(v, Len(versions), get_active)
  BY <1>2, <1>5, <1>6 DEF SessionOK, SyncPc, Carrying, Inserted, SyncStatus
<1> QED
  BY <1>1, <1>2, <1>4, <1>7, SyncGoesOn

\* Nobody else is between its INSERT and its commit, so no session is upset by one.
LEMMA CommitSyncs ==
  ASSUME SyncInv, NEW s \in InTransaction, NEW v, v.pc \in {"idle", "committed"},
         SetSync(s, v), Len(versions)' = Len(versions) + 1
  PROVE  SyncsOK'
<1>0. s \in Syncs
  BY DEF InTransaction
<1>1. /\ sync'[s] = v /\ \A t \in Syncs \ {s} : sync'[t] = sync[t]
      /\ sync' = [t \in Syncs |-> sync'[t]]
  BY <1>0 DEF SyncInv, SyncsOK, SetSync
<1>2. Len(versions) \in Nat
  BY VersionDomain DEF SyncInv
<1>3. \A t \in Syncs \ {s} : sync[t].pc \notin Inserted
  BY DEF SyncInv, SyncsOK, InTransaction, Inserted
<1>4. ASSUME NEW t \in Syncs
      PROVE  SessionOK(sync'[t], Len(versions)', get_active')
  <2>1. CASE t = s
    BY <1>1, <2>1 DEF SessionOK, SyncPc, Carrying, Inserted
  <2>2. CASE t # s
    <3>1. SessionOK(sync[t], Len(versions), get_active) /\ sync[t].pc \notin Inserted
      BY <1>3, <2>2 DEF SyncInv, SyncsOK
    <3>2. 1..(Len(versions) + 1) \subseteq 1..(Len(versions)' + 1)
      BY <1>2
    <3> QED
      BY <1>1, <2>2, <3>1, <3>2 DEF SessionOK, Inserted
  <2> QED
    BY <2>1, <2>2
<1>5. \A x \in Syncs : sync'[x].pc \notin Inserted
  BY <1>1, <1>3 DEF Inserted
<1>6. (\A x, y \in InTransaction : x = y)'
  BY <1>5 DEF InTransaction, Inserted
<1> QED
  BY <1>1, <1>4, <1>6 DEF SyncsOK

\* What a commit does to the rows: it appends one, and deactivates another.
Commits(s, active) ==
  LET n == Len(versions) + 1
  IN  /\ n \in Nat /\ DOMAIN versions = 1..Len(versions) /\ n \notin DOMAIN versions
      /\ s \in InTransaction /\ sync[s].pc \in Carrying
      /\ IsList(versions') /\ Len(versions') = n
      /\ DOMAIN versions' = DOMAIN versions \union {n}
      /\ IsRow(versions'[n]) /\ versions'[n].number = n
      /\ versions'[n].payload = sync[s].payload /\ versions'[n].status = sync[s].status
      /\ versions'[n].active = active
      /\ \A v \in DOMAIN versions :
           /\ IsRow(versions'[v]) /\ versions'[v].number = v
           /\ versions'[v].status = versions[v].status
           /\ versions'[v].payload = versions[v].payload
           /\ versions'[v].active = IF active THEN FALSE ELSE versions[v].active

LEMMA FailedRows ==
  ASSUME SyncInv, NEW s \in Syncs, commit_failed(s)
  PROVE  Commits(s, FALSE) /\ sync[s].status = "FAILED" /\ SetSync(s, [pc |-> "idle"])
<1> DEFINE n == Len(versions) + 1
           row == Row(s, FALSE)
<1>1. /\ sync[s].pc = "inserted" /\ sync[s].status = "FAILED"
      /\ versions' = Append(versions, row) /\ SetSync(s, [pc |-> "idle"])
  BY DEF commit_failed, SyncAt, EndSync
<1>2. /\ n \in Nat /\ DOMAIN versions = 1..Len(versions) /\ n \notin DOMAIN versions
      /\ IsList(versions)
  BY VersionDomain DEF SyncInv, LogOK
<1>3. sync[s].number = n /\ s \in InTransaction
  BY <1>1 DEF SyncInv, SyncsOK, SessionOK, InTransaction, Inserted
<1>4. /\ IsRow(row) /\ row.number = n /\ row.status = sync[s].status /\ row.active = FALSE
      /\ row.payload = sync[s].payload
  BY <1>1, <1>3 DEF Row, IsRow
<1> HIDE DEF row
<1>5. /\ IsList(versions') /\ Len(versions') = n
      /\ \A i \in DOMAIN versions : versions'[i] = versions[i]
      /\ versions'[n] = row /\ DOMAIN versions' = DOMAIN versions \union {n}
  BY <1>1, <1>2, LogAppend
<1>6. \A v \in DOMAIN versions : IsRow(versions'[v]) /\ versions'[v].number = v
  BY <1>5 DEF SyncInv, LogOK
<1> QED
  BY <1>1, <1>2, <1>3, <1>4, <1>5, <1>6 DEF Commits, Carrying, Inserted

LEMMA FailedSyncInv ==
  ASSUME SyncInv, NEW s \in Syncs, commit_failed(s)
  PROVE  SyncInv'
<1> DEFINE n == Len(versions) + 1
           v == [pc |-> "idle"]
<1>1. Commits(s, FALSE) /\ sync[s].status = "FAILED" /\ SetSync(s, v)
  BY FailedRows
<1>2. v.pc \in {"idle", "committed"}
  OBVIOUS
<1> HIDE DEF v
<1>3. ActiveRows' = ActiveRows /\ Successes' = Successes
  BY <1>1 DEF Commits, ActiveRows, Successes
<1>4. LogOK'
  <2>1. \A w \in DOMAIN versions' :
          /\ IsRow(versions'[w]) /\ versions'[w].number = w
          /\ versions'[w].active \in BOOLEAN /\ versions'[w].status \in SyncStatus
    BY <1>1 DEF Commits, SyncInv, LogOK, SyncStatus
  <2> QED
    BY <1>1, <1>3, <2>1 DEF SyncInv, LogOK, Commits
<1>5. SyncsOK'
  BY <1>1, <1>2, CommitSyncs DEF Commits
<1> QED
  BY <1>4, <1>5 DEF SyncInv

LEMMA CommitRows ==
  ASSUME SyncInv, NEW s \in Syncs, commit(s)
  PROVE  Commits(s, TRUE) /\ sync[s].status = "SUCCESS" /\ SetSync(s, [pc |-> "committed"])
<1> DEFINE n == Len(versions) + 1
           row == Row(s, TRUE)
           q == [v \in DOMAIN versions |->
                   IF v = sync[s].current THEN [versions[v] EXCEPT !.active = FALSE]
                   ELSE versions[v]]
<1>1. /\ sync[s].pc = "activated"
      /\ versions' = Append(q, row) /\ SetSync(s, [pc |-> "committed"])
  BY DEF commit, SyncAt
<1>2. /\ n \in Nat /\ DOMAIN versions = 1..Len(versions) /\ n \notin DOMAIN versions
      /\ IsList(versions) /\ \A v \in DOMAIN versions : v \in Nat /\ v <= n
  BY VersionDomain DEF SyncInv, LogOK
<1>3. /\ sync[s].number = n /\ sync[s].status = "SUCCESS" /\ sync[s].current = get_active
      /\ s \in InTransaction
  <2>1. /\ sync[s].number = n /\ sync[s].current = get_active /\ s \in InTransaction
        /\ sync[s] = [pc |-> "activated", status |-> "SUCCESS", payload |-> sync[s].payload,
                      number |-> sync[s].number, current |-> sync[s].current]
    BY <1>1 DEF SyncInv, SyncsOK, SessionOK, InTransaction, Inserted
  <2> QED
    BY <2>1
<1>4. /\ IsRow(row) /\ row.number = n /\ row.status = sync[s].status /\ row.active = TRUE
      /\ row.payload = sync[s].payload
  BY <1>3 DEF Row, IsRow
<1>5. /\ DOMAIN q = DOMAIN versions /\ q = [v \in DOMAIN versions |-> q[v]]
      /\ \A v \in DOMAIN versions :
           q[v] = IF v = sync[s].current THEN [versions[v] EXCEPT !.active = FALSE]
                  ELSE versions[v]
  OBVIOUS
<1> HIDE DEF row, q
<1>6. ASSUME NEW v \in DOMAIN versions
      PROVE  /\ IsRow(q[v]) /\ q[v].number = v /\ q[v].active = FALSE
             /\ q[v].status = versions[v].status /\ q[v].payload = versions[v].payload
  <2>1. IsRow(versions[v]) /\ versions[v].number = v /\ versions[v].active \in BOOLEAN
    BY DEF SyncInv, LogOK
  <2>2. CASE v = sync[s].current
    <3>1. q[v] = [number |-> v, payload |-> versions[v].payload,
                  status |-> versions[v].status, active |-> FALSE]
      BY <1>5, <2>1, <2>2 DEF IsRow
    <3> DEFINE x == q[v]
    <3>2. x = [number |-> v, payload |-> versions[v].payload,
               status |-> versions[v].status, active |-> FALSE]
      BY <3>1
    <3> HIDE DEF x
    <3>3. /\ x.number = v /\ x.active = FALSE /\ x.status = versions[v].status
          /\ x.payload = versions[v].payload
      BY <3>2
    <3>4. IsRow(x)
      BY <3>2, <3>3 DEF IsRow
    <3> QED
      BY <3>3, <3>4 DEF x
  <2>3. CASE v # sync[s].current
    <3>1. v \notin ActiveRows
      BY <1>3, <2>3, ActiveVersion DEF SyncInv
    <3> QED
      BY <1>5, <2>1, <2>3, <3>1 DEF ActiveRows
  <2> QED
    BY <2>2, <2>3
<1>7. IsList(q) /\ Len(q) = Len(versions)
  BY <1>2, <1>5, LogReplaced
<1>8. /\ IsList(versions') /\ Len(versions') = n
      /\ \A i \in DOMAIN versions : versions'[i] = q[i]
      /\ versions'[n] = row /\ DOMAIN versions' = DOMAIN versions \union {n}
  BY <1>1, <1>5, <1>7, LogAppend
<1>9. \A v \in DOMAIN versions :
         /\ IsRow(versions'[v]) /\ versions'[v].number = v /\ versions'[v].active = FALSE
         /\ versions'[v].status = versions[v].status
         /\ versions'[v].payload = versions[v].payload
  BY <1>6, <1>8
<1> QED
  BY <1>1, <1>2, <1>3, <1>4, <1>8, <1>9 DEF Commits, Carrying, Inserted

LEMMA CommitSyncInv ==
  ASSUME SyncInv, NEW s \in Syncs, commit(s)
  PROVE  SyncInv'
<1> DEFINE n == Len(versions) + 1
           v == [pc |-> "committed"]
<1>1. Commits(s, TRUE) /\ sync[s].status = "SUCCESS" /\ SetSync(s, v)
  BY CommitRows
<1>2. v.pc \in {"idle", "committed"}
  OBVIOUS
<1> HIDE DEF v
<1>3. Successes' = Successes \union {n}
  <2>1. /\ DOMAIN versions' = DOMAIN versions \union {n} /\ versions'[n].status = "SUCCESS"
        /\ \A w \in DOMAIN versions : versions'[w].status = versions[w].status
    BY <1>1 DEF Commits
  <2> HIDE DEF n
  <2> QED
    BY <2>1 DEF Successes
<1>4. ActiveRows' = {n}
  BY <1>1 DEF Commits, ActiveRows
<1>5. ActiveRows' = {w \in Successes' : \A x \in Successes' : x <= w}
  <2>1. \A w \in Successes : w \in Nat /\ w <= n /\ ~(n <= w)
    BY <1>1 DEF Commits, Successes
  <2>2. n <= n
    BY <1>1 DEF Commits
  <2> QED
    BY <1>3, <1>4, <2>1, <2>2
<1>6. LogOK'
  <2>1. \A w \in DOMAIN versions' :
          /\ IsRow(versions'[w]) /\ versions'[w].number = w
          /\ versions'[w].active \in BOOLEAN /\ versions'[w].status \in SyncStatus
    BY <1>1 DEF Commits, SyncInv, LogOK, SyncStatus
  <2> QED
    BY <1>1, <1>4, <1>5, <2>1 DEF LogOK, Commits
<1>7. SyncsOK'
  BY <1>1, <1>2, CommitSyncs DEF Commits
<1> QED
  BY <1>6, <1>7 DEF SyncInv

LEMMA StepSyncInv == SyncInv /\ [Next]_vars => SyncInv'
<1> SUFFICES ASSUME SyncInv, [Next]_vars PROVE SyncInv'
  OBVIOUS
<1>1. ASSUME NEW s \in Syncs, SyncStep(s)
      PROVE  SyncInv'
  <2>1. CASE invalidate_cache(s)
    BY <2>1, EndSyncInv DEF invalidate_cache
  <2> QED
    BY <1>1, <2>1, FetchSyncInv, NormalizeSyncInv, NumberSyncInv, CreateSyncInv,
       FailedSyncInv, FindSyncInv, ActivateSyncInv, CommitSyncInv DEF SyncStep
<1>2. CASE \E r \in Readers : read_cache(r) \/ read_past_cache(r) \/ write_cache(r)
  BY <1>2, NoSync DEF read_cache, read_past_cache, write_cache
<1>3. CASE \E c \in Creators : validate(c) \/ create_job(c)
  BY <1>3, NoSync DEF validate, create_job
<1>4. CASE expire \/ Edit \/ UNCHANGED vars
  BY <1>4, NoSync DEF expire, Edit, vars
<1> QED
  BY <1>1, <1>2, <1>3, <1>4 DEF Next

LEMMA SyncInvariant == Spec => []SyncInv
BY InitSyncInv, StepSyncInv, PTL DEF Spec

(***************************************************************************)
(* Numbers follow the commits without a gap, the active version is the     *)
(* latest success, and the partial unique index never refuses an           *)
(* activation, however many syncs overlap.                                 *)
(***************************************************************************)
THEOREM LatestSuccessIsActive == Spec => []ActiveIsLatestSuccess
<1>1. SyncInv => ActiveIsLatestSuccess
  BY DEF SyncInv, LogOK, SyncsOK, SessionOK, SyncPc, ActiveIsLatestSuccess, SyncAt
<1> QED
  BY <1>1, SyncInvariant, PTL
-----------------------------------------------------------------------------
(* Versions are immutable but for is_active.                               *)

Keeps ==
  \A v \in DOMAIN versions :
    /\ v \in DOMAIN versions'
    /\ versions'[v].payload = versions[v].payload /\ versions'[v].status = versions[v].status

\* What a step does to the versions.
LEMMA StepVersions ==
  ASSUME SyncInv, [Next]_vars
  PROVE  \/ versions' = versions
         \/ \E s \in Syncs : Commits(s, FALSE) /\ commit_failed(s)
         \/ \E s \in Syncs : Commits(s, TRUE) /\ commit(s)
<1>1. ASSUME NEW s \in Syncs, SyncStep(s)
      PROVE  \/ versions' = versions
             \/ Commits(s, FALSE) /\ commit_failed(s)
             \/ Commits(s, TRUE) /\ commit(s)
  <2>1. CASE commit_failed(s)
    BY <2>1, FailedRows
  <2>2. CASE commit(s)
    BY <2>2, CommitRows
  <2> QED
    BY <1>1, <2>1, <2>2 DEF SyncStep, fetch_rows, normalize, get_next_version_number,
       create_version, find_current, activate_version, invalidate_cache
<1>2. CASE \E r \in Readers : read_cache(r) \/ read_past_cache(r) \/ write_cache(r)
  BY <1>2 DEF read_cache, read_past_cache, write_cache
<1>3. CASE \E c \in Creators : validate(c) \/ create_job(c)
  BY <1>3 DEF validate, create_job
<1>4. CASE expire \/ Edit \/ UNCHANGED vars
  BY <1>4 DEF expire, Edit, vars
<1> QED
  BY <1>1, <1>2, <1>3, <1>4 DEF Next

LEMMA StepKeeps ==
  ASSUME SyncInv, [Next]_vars
  PROVE  Keeps
<1>1. ASSUME NEW s, NEW a, Commits(s, a)
      PROVE  Keeps
  BY <1>1 DEF Commits, Keeps
<1>2. versions' = versions => Keeps
  BY DEF Keeps
<1> QED
  BY <1>1, <1>2, StepVersions

(***************************************************************************)
(* A committed version never goes away, and no sync changes its payload or *)
(* its status: what a job pins is what was there when it was created.      *)
(***************************************************************************)
THEOREM VersionsAreImmutable == Spec => [][Keeps]_vars
<1>1. SyncInv /\ [Next]_vars => Keeps
  BY StepKeeps
<1> QED
  BY <1>1, SyncInvariant, PTL DEF Spec

(***************************************************************************)
(* A sync that read the active version before another activated its own    *)
(* (find_current) never takes the system back to an older version.         *)
(***************************************************************************)
ActiveMovesOn == get_active <= get_active'

\* get_active by the successes alone.
ActiveIsNewest ==
  /\ get_active \in Nat
  /\ get_active # None => get_active \in Successes /\ \A v \in Successes : v <= get_active
  /\ get_active = None => Successes = {}

THEOREM ActiveNeverGoesBack == Spec => [][ActiveMovesOn]_vars
<1>1. SyncInv => ActiveIsNewest
  <2>1. LogOK => ActiveIsNewest
    BY ActiveVersion, VersionDomain DEF LogOK, ActiveIsNewest, None
  <2> QED
    BY <2>1 DEF SyncInv
<1>2. SyncInv /\ [Next]_vars => ActiveMovesOn
  <2> SUFFICES ASSUME SyncInv, [Next]_vars PROVE ActiveMovesOn
    OBVIOUS
  <2>1. SyncInv'
    BY StepSyncInv
  <2>2. ActiveIsNewest /\ ActiveIsNewest'
    BY <1>1, <2>1, PTL
  <2>3. Successes \subseteq Successes'
    BY StepKeeps DEF Keeps, Successes
  <2> QED
    BY <2>2, <2>3 DEF ActiveIsNewest, ActiveMovesOn, None
<1> QED
  BY <1>2, SyncInvariant, PTL DEF Spec

-----------------------------------------------------------------------------
(* Whoever names a version names one that exists, and one that serves it.  *)

NamesInv ==
  /\ sheet \in Sheets
  /\ cache \in {None} \union DOMAIN versions
  /\ reader = [r \in Readers |-> reader[r]]
  /\ \A r \in Readers : reader[r].pc = "read" => reader[r].version \in DOMAIN versions
  /\ creator = [c \in Creators |-> creator[c]]
  /\ \A c \in Creators :
       \/ creator[c] = [pc |-> "idle"]
       \/ /\ creator[c] = [pc |-> creator[c].pc, version |-> creator[c].version]
          /\ creator[c].pc \in {"valid", "created"}
          /\ creator[c].version \in DOMAIN versions
          /\ accepts(BodyOf[c], Payload(creator[c].version), Stored(BodyOf[c]))

LEMMA InitNames == Init => NamesInv
BY DEF Init, NamesInv

\* Sessions stay as they are, the versions grow.
LEMMA NamesKept ==
  ASSUME NamesInv, Keeps, sheet' \in Sheets, UNCHANGED <<reader, creator>>,
         cache' \in {None} \union DOMAIN versions
  PROVE  NamesInv'
<1>1. \A v \in DOMAIN versions : v \in DOMAIN versions' /\ Payload(v)' = Payload(v)
  BY DEF Keeps, Payload
<1> QED
  BY <1>1 DEF NamesInv

LEMMA ReaderNames ==
  ASSUME NamesInv, NEW r \in Readers, UNCHANGED <<sheet, versions, creator>>,
         cache' \in {None} \union DOMAIN versions, NEW v, reader' = [reader EXCEPT ![r] = v],
         v.pc = "read" => v.version \in DOMAIN versions
  PROVE  NamesInv'
BY DEF NamesInv, Payload

LEMMA CreatorNames ==
  ASSUME NamesInv, NEW c \in Creators, UNCHANGED <<sheet, versions, cache, reader>>,
         NEW pc \in {"valid", "created"}, NEW v \in DOMAIN versions,
         creator' = [creator EXCEPT ![c] = [pc |-> pc, version |-> v]],
         accepts(BodyOf[c], Payload(v), Stored(BodyOf[c]))
  PROVE  NamesInv'
<1>1. /\ creator'[c] = [pc |-> pc, version |-> v]
      /\ \A d \in Creators \ {c} : creator'[d] = creator[d]
      /\ creator' = [d \in Creators |-> creator'[d]]
  BY DEF NamesInv
<1>2. creator'[c].pc = pc /\ creator'[c].version = v
  BY <1>1
<1> QED
  BY <1>1, <1>2 DEF NamesInv, Payload

LEMMA StepNames == SyncInv /\ NamesInv /\ [Next]_vars => NamesInv'
<1> SUFFICES ASSUME SyncInv, NamesInv, [Next]_vars PROVE NamesInv'
  OBVIOUS
<1>1. Keeps
  BY StepKeeps
<1>2. get_active # None => get_active \in DOMAIN versions
  BY ActiveVersion DEF SyncInv
<1>3. ASSUME NEW s \in Syncs, SyncStep(s)
      PROVE  NamesInv'
  BY <1>1, <1>3, NamesKept DEF NamesInv, SyncStep, fetch_rows, normalize,
     get_next_version_number, create_version, commit_failed, find_current, activate_version,
     commit, invalidate_cache
<1>4. ASSUME NEW r \in Readers, read_cache(r) \/ read_past_cache(r)
      PROVE  NamesInv'
  <2> DEFINE v == [pc |-> "read", version |-> get_active]
  <2>1. reader' = [reader EXCEPT ![r] = v] /\ UNCHANGED <<sheet, versions, creator, cache>>
    BY <1>4 DEF read_cache, read_past_cache
  <2>2. v.version \in DOMAIN versions
    BY <1>2, <1>4 DEF read_cache, read_past_cache
  <2> HIDE DEF v
  <2> QED
    BY <2>1, <2>2, ReaderNames DEF NamesInv
<1>5. ASSUME NEW r \in Readers, write_cache(r)
      PROVE  NamesInv'
  <2> DEFINE v == [pc |-> "idle"]
  <2>1. /\ reader' = [reader EXCEPT ![r] = v] /\ UNCHANGED <<sheet, versions, creator>>
        /\ cache' \in {None} \union DOMAIN versions
    BY <1>5 DEF write_cache, NamesInv
  <2>2. v.pc # "read"
    OBVIOUS
  <2> HIDE DEF v
  <2> QED
    BY <2>1, <2>2, ReaderNames
<1>6. ASSUME NEW c \in Creators, validate(c)
      PROVE  NamesInv'
  BY <1>2, <1>6, CreatorNames DEF validate
<1>7. ASSUME NEW c \in Creators, create_job(c)
      PROVE  NamesInv'
  <2>1. /\ creator[c] = [pc |-> "valid", version |-> creator[c].version]
        /\ creator[c].version \in DOMAIN versions
        /\ accepts(BodyOf[c], Payload(creator[c].version), Stored(BodyOf[c]))
    BY <1>7 DEF create_job, NamesInv
  <2>2. [creator[c] EXCEPT !.pc = "created"]
          = [pc |-> "created", version |-> creator[c].version]
    BY <2>1
  <2>3. creator' = [creator EXCEPT ![c] = [pc |-> "created", version |-> creator[c].version]]
    BY <1>7, <2>2 DEF create_job
  <2> QED
    BY <1>7, <2>1, <2>3, CreatorNames DEF create_job
<1>8. CASE expire \/ Edit \/ UNCHANGED vars
  BY <1>1, <1>8, NamesKept DEF NamesInv, expire, Edit, vars
<1> QED
  BY <1>3, <1>4, <1>5, <1>6, <1>7, <1>8 DEF Next

LEMMA NamesInvariant == Spec => [](SyncInv /\ NamesInv)
BY InitSyncInv, StepSyncInv, InitNames, StepNames, PTL DEF Spec

\* The type invariant: the rows are typed, and only rows that exist are named.
THEOREM TypeCorrect == Spec => []TypeOK
<1>1. SyncInv /\ NamesInv => TypeOK
  <2> SUFFICES ASSUME SyncInv, NamesInv PROVE TypeOK
    OBVIOUS
  <2>1. \A v \in DOMAIN versions :
          versions[v].active => versions[v].status = "SUCCESS"
    BY DEF SyncInv, LogOK, ActiveRows, Successes
  <2>2. \A v \in DOMAIN versions :
          /\ versions[v].number \in Nat \ {0} /\ versions[v].active \in BOOLEAN
          /\ versions[v].status \in SyncStatus
    BY VersionDomain DEF SyncInv, LogOK
  <2>3. \A c \in Creators : creator[c].pc # "idle" => creator[c].version \in DOMAIN versions
    BY DEF NamesInv
  <2> QED
    BY <2>1, <2>2, <2>3 DEF NamesInv, TypeOK
<1> QED
  BY <1>1, NamesInvariant, PTL

(***************************************************************************)
(* The version a job pins accepts the request that created the job, from   *)
(* its validation (validate) on, however many versions are activated       *)
(* before and after the insert (create_job).                               *)
(***************************************************************************)
THEOREM PinsServe == Spec => []PinnedConfigServesJob
<1>1. NamesInv => PinnedConfigServesJob
  BY DEF NamesInv, PinnedConfigServesJob
<1> QED
  BY <1>1, NamesInvariant, PTL

(***************************************************************************)
(* A failed sync is never served: whatever the cache holds, a reader is    *)
(* about to write to it, or a request was validated against and pins, was  *)
(* once the active version, although each of them outlives the activation  *)
(* of other versions.                                                      *)
(***************************************************************************)
NamesSuccesses ==
  /\ cache \in {None} \union Successes
  /\ \A r \in Readers : reader[r].pc = "read" => reader[r].version \in Successes
  /\ \A c \in Creators : creator[c].pc # "idle" => creator[c].version \in Successes

LEMMA StepNamesSuccesses ==
  ASSUME SyncInv, NamesInv, NamesSuccesses, [Next]_vars
  PROVE  NamesSuccesses'
<1>1. \A v \in Successes : v \in Successes'
  BY StepKeeps DEF Keeps, Successes
<1>2. get_active # None => get_active \in Successes
  BY ActiveVersion DEF SyncInv, LogOK
<1>3. /\ reader = [r \in Readers |-> reader[r]]
      /\ creator = [c \in Creators |-> creator[c]]
  BY DEF NamesInv
<1>4. ASSUME UNCHANGED <<reader, creator>>, cache' \in {cache, None}
      PROVE  NamesSuccesses'
  BY <1>1, <1>4 DEF NamesSuccesses
<1>5. ASSUME NEW s \in Syncs, SyncStep(s)
      PROVE  NamesSuccesses'
  BY <1>4, <1>5 DEF SyncStep, fetch_rows, normalize, get_next_version_number,
     create_version, commit_failed, find_current, activate_version, commit, invalidate_cache
<1>6. ASSUME NEW r \in Readers, read_cache(r) \/ read_past_cache(r)
      PROVE  NamesSuccesses'
  <2>1. /\ reader' = [reader EXCEPT ![r] = [pc |-> "read", version |-> get_active]]
        /\ get_active # None /\ UNCHANGED <<cache, creator>>
    BY <1>6 DEF read_cache, read_past_cache
  <2>2. \A x \in Readers : reader'[x].pc = "read" =>
          reader'[x].version = get_active \/ reader'[x] = reader[x]
    BY <1>3, <2>1
  <2>3. \A x \in Readers : reader'[x].pc = "read" => reader'[x].version \in Successes
    BY <1>2, <2>1, <2>2 DEF NamesSuccesses
  <2> QED
    BY <1>1, <2>1, <2>3 DEF NamesSuccesses
<1>7. ASSUME NEW r \in Readers, write_cache(r)
      PROVE  NamesSuccesses'
  <2>1. /\ reader[r].pc = "read" /\ cache' \in {cache, reader[r].version}
        /\ reader' = [reader EXCEPT ![r] = [pc |-> "idle"]] /\ creator' = creator
    BY <1>7 DEF write_cache
  <2>2. \A x \in Readers : reader'[x].pc = "read" => reader'[x] = reader[x]
    BY <1>3, <2>1
  <2> QED
    BY <1>1, <2>1, <2>2 DEF NamesSuccesses
<1>8. ASSUME NEW c \in Creators, validate(c)
      PROVE  NamesSuccesses'
  <2>1. /\ creator' = [creator EXCEPT ![c] = [pc |-> "valid", version |-> get_active]]
        /\ get_active # None /\ UNCHANGED <<cache, reader>>
    BY <1>8 DEF validate
  <2>2. \A x \in Creators :
          creator'[x].version = get_active \/ creator'[x] = creator[x]
    BY <1>3, <2>1
  <2> QED
    BY <1>1, <1>2, <2>1, <2>2 DEF NamesSuccesses
<1>9. ASSUME NEW c \in Creators, create_job(c)
      PROVE  NamesSuccesses'
  <2>1. /\ creator[c].pc = "valid" /\ UNCHANGED <<cache, reader>>
        /\ creator' = [creator EXCEPT ![c] = [creator[c] EXCEPT !.pc = "created"]]
        /\ creator[c] = [pc |-> creator[c].pc, version |-> creator[c].version]
    BY <1>9 DEF create_job, NamesInv
  <2>2. /\ creator'[c].version = creator[c].version
        /\ \A x \in Creators \ {c} : creator'[x] = creator[x]
    BY <1>3, <2>1
  <2> QED
    BY <1>1, <2>1, <2>2 DEF NamesSuccesses
<1>10. CASE expire \/ Edit \/ UNCHANGED vars
  BY <1>4, <1>10 DEF expire, Edit, vars
<1> QED
  BY <1>5, <1>6, <1>7, <1>8, <1>9, <1>10 DEF Next

THEOREM OnlySuccessesAreNamed == Spec => []NamesSuccesses
<1>1. Init => NamesSuccesses
  BY DEF Init, NamesSuccesses
<1>2. SyncInv /\ NamesInv /\ NamesSuccesses /\ [Next]_vars => NamesSuccesses'
  BY StepNamesSuccesses
<1> QED
  BY <1>1, <1>2, NamesInvariant, PTL DEF Spec

-----------------------------------------------------------------------------
(***************************************************************************)
(* The sheet does not carry the operations, presets and palette: each sync *)
(* copies them from the version it normalized against, which another sync  *)
(* may have replaced by the time it commits.  That is harmless, because    *)
(* all successful versions and all payloads on the way have the same ones: *)
(* those of the seed, or none if there was no seed.                        *)
(***************************************************************************)
Block(p) == <<p.operations, p.presets, p.palette>>

HasBlock(b) ==
  /\ Successes = {} => b = Block(NoGlobal)
  /\ \A v \in Successes : Block(Payload(v)) = b
  /\ \A s \in Syncs :
       sync[s].pc \in Carrying /\ sync[s].status = "SUCCESS" => Block(sync[s].payload) = b

BlockInv == \E b \in {Block(NoGlobal), Block(Seed)} : HasBlock(b)

LEMMA InitBlock == Init => BlockInv
<1> SUFFICES ASSUME Init PROVE BlockInv
  OBVIOUS
<1>1. \A s \in Syncs : sync[s].pc \notin Carrying
  BY DEF Init, Carrying, Inserted
<1>2. CASE versions = <<>>
  BY <1>1, <1>2 DEF BlockInv, HasBlock, Successes
<1>3. ASSUME NEW x, x = [number |-> 1, payload |-> Seed, status |-> "SUCCESS", active |-> TRUE],
             versions = <<x>>
      PROVE  BlockInv
  <2>1. DOMAIN versions = {1} /\ versions[1] = x /\ x.payload = Seed /\ x.status = "SUCCESS"
    BY <1>3
  <2>2. Successes = {1} /\ Payload(1) = Seed
    BY <2>1 DEF Successes, Payload
  <2>3. HasBlock(Block(Seed))
    BY <1>1, <2>2 DEF HasBlock
  <2> QED
    BY <2>3 DEF BlockInv
<1> QED
  BY <1>2, <1>3 DEF Init

\* What a sync copies is the block of all.
LEMMA NormalizedBlock ==
  ASSUME LogOK, NEW b, HasBlock(b), NEW rows
  PROVE  Block(normalize_sheet_rows(rows, Global(get_active))) = b
<1>1. Block(normalize_sheet_rows(rows, Global(get_active))) = Block(Global(get_active))
  BY DEF Block, normalize_sheet_rows
<1>2. CASE get_active = None
  BY <1>1, <1>2, ActiveVersion DEF HasBlock, Global
<1>3. CASE get_active # None
  <2>1. get_active \in Successes /\ Block(Global(get_active)) = Block(Payload(get_active))
    BY <1>3, ActiveVersion DEF Global, Block
  <2> QED
    BY <1>1, <2>1 DEF HasBlock
<1> QED
  BY <1>2, <1>3

\* A sync that carries nothing on, or carries on what it carried.
LEMMA BlockGoesOn ==
  ASSUME SyncInv, NEW b, HasBlock(b), NEW s \in Syncs, NEW v, SetSync(s, v),
         versions' = versions,
         v.pc \in Carrying /\ v.status = "SUCCESS" => Block(v.payload) = b
  PROVE  HasBlock(b)'
<1>1. sync'[s] = v /\ \A t \in Syncs \ {s} : sync'[t] = sync[t]
  BY DEF SyncInv, SyncsOK, SetSync
<1>2. Successes' = Successes /\ \A w : Payload(w)' = Payload(w)
  BY DEF Successes, Payload
<1> QED
  BY <1>1, <1>2 DEF HasBlock

LEMMA BlockCommitted ==
  ASSUME SyncInv, NEW b, HasBlock(b), NEW s \in Syncs, NEW a, Commits(s, a),
         NEW v, v.pc \notin Carrying, SetSync(s, v)
  PROVE  HasBlock(b)'
<1> DEFINE n == Len(versions) + 1
<1>1. sync'[s] = v /\ \A t \in Syncs \ {s} : sync'[t] = sync[t]
  BY DEF SyncInv, SyncsOK, SetSync
<1>2. /\ DOMAIN versions' = DOMAIN versions \union {n} /\ sync[s].pc \in Carrying
      /\ versions'[n].payload = sync[s].payload /\ versions'[n].status = sync[s].status
      /\ \A w \in DOMAIN versions : /\ versions'[w].status = versions[w].status
                                   /\ versions'[w].payload = versions[w].payload
  BY DEF Commits
<1> HIDE DEF n
<1>3. \A w \in Successes' : \/ w \in Successes /\ versions'[w].payload = versions[w].payload
                            \/ w = n /\ sync[s].status = "SUCCESS"
  BY <1>2 DEF Successes
<1>4. \A w \in Successes' : Block(versions'[w].payload) = b
  BY <1>2, <1>3 DEF HasBlock, Payload
<1>5. Successes \subseteq Successes'
  BY <1>2 DEF Successes
<1>6. \A t \in Syncs :
        sync'[t].pc \in Carrying /\ sync'[t].status = "SUCCESS" => Block(sync'[t].payload) = b
  BY <1>1 DEF HasBlock
<1> QED
  BY <1>4, <1>5, <1>6 DEF HasBlock, Payload

LEMMA SyncStepBlock ==
  ASSUME SyncInv, NEW b, HasBlock(b), NEW s \in Syncs, SyncStep(s)
  PROVE  HasBlock(b)'
<1> DEFINE idle == [pc |-> "idle"]
           done == [pc |-> "committed"]
           Carries(v) == v.pc \in Carrying /\ v.status = "SUCCESS" => Block(v.payload) = b
<1>1. Carries(sync[s])
  BY DEF HasBlock
<1>2. idle.pc \notin Carrying /\ done.pc \notin Carrying
  BY DEF Carrying, Inserted
<1>3. CASE EndSync(s) /\ versions' = versions
  BY <1>2, <1>3, BlockGoesOn DEF EndSync
<1>4. CASE fetch_rows(s)
  <2> DEFINE v == [pc |-> "fetched", rows |-> sheet]
  <2>1. SetSync(s, v) /\ versions' = versions /\ v.pc \notin Carrying
    BY <1>4 DEF fetch_rows, Carrying, Inserted
  <2> HIDE DEF v
  <2> QED
    BY <2>1, BlockGoesOn
<1>5. CASE normalize(s)
  <2> DEFINE new == normalize_sheet_rows(sync[s].rows, Global(get_active))
             v == [pc |-> "normalized", status |-> "FAILED", payload |-> FailedPayload]
             w == [pc |-> "normalized", status |-> "SUCCESS", payload |-> new]
  <2>1. versions' = versions /\ (SetSync(s, v) \/ EndSync(s) \/ SetSync(s, w))
    BY <1>5 DEF normalize
  <2>2. v.status = "FAILED" /\ w.payload = new
    OBVIOUS
  <2>3. Block(new) = b
    BY NormalizedBlock DEF SyncInv
  <2> HIDE DEF v, w, new
  <2> QED
    BY <1>3, <2>1, <2>2, <2>3, BlockGoesOn
<1>6. CASE get_next_version_number(s)
  <2> DEFINE max == IF Numbers = {} THEN 0
                    ELSE CHOOSE n \in Numbers : \A k \in Numbers : k <= n
             v == [pc |-> "numbered", status |-> sync[s].status, payload |-> sync[s].payload,
                   number |-> max + 1]
  <2>1. SetSync(s, v) /\ versions' = versions /\ sync[s].pc \in Carrying
    BY <1>6 DEF get_next_version_number, SyncAt, Carrying
  <2>2. v.status = sync[s].status /\ v.payload = sync[s].payload
    OBVIOUS
  <2> HIDE DEF v
  <2> QED
    BY <1>1, <2>1, <2>2, BlockGoesOn
<1>7. CASE create_version(s)
  <2> DEFINE v == [sync[s] EXCEPT !.pc = "inserted"]
  <2>1. sync[s].pc = "numbered" /\ versions' = versions /\ (SetSync(s, v) \/ EndSync(s))
    BY <1>7 DEF create_version, SyncAt
  <2>2. v.status = sync[s].status /\ v.payload = sync[s].payload /\ sync[s].pc \in Carrying
    BY <2>1 DEF Carrying
  <2> HIDE DEF v
  <2> QED
    BY <1>1, <1>3, <2>1, <2>2, BlockGoesOn
<1>8. CASE commit_failed(s)
  BY <1>2, <1>8, FailedRows, BlockCommitted
<1>9. CASE find_current(s)
  <2> DEFINE v == [pc |-> "found", status |-> "SUCCESS", payload |-> sync[s].payload,
                   number |-> sync[s].number, current |-> get_active]
  <2>1. /\ SetSync(s, v) /\ versions' = versions
        /\ sync[s].pc \in Carrying /\ sync[s].status = "SUCCESS"
    BY <1>9 DEF find_current, SyncAt, Carrying, Inserted
  <2>2. v.payload = sync[s].payload
    OBVIOUS
  <2> HIDE DEF v
  <2> QED
    BY <1>1, <2>1, <2>2, BlockGoesOn
<1>10. CASE activate_version(s)
  <2> DEFINE v == [sync[s] EXCEPT !.pc = "activated"]
             w == [pc |-> "refused"]
  <2>1. /\ sync[s].pc = "found" /\ versions' = versions /\ (SetSync(s, v) \/ SetSync(s, w))
    BY <1>10 DEF activate_version, SyncAt
  <2>2. /\ v.status = sync[s].status /\ v.payload = sync[s].payload
        /\ sync[s].pc \in Carrying /\ w.pc \notin Carrying
    BY <2>1 DEF Carrying, Inserted
  <2> HIDE DEF v, w
  <2> QED
    BY <1>1, <2>1, <2>2, BlockGoesOn
<1>11. CASE commit(s)
  BY <1>2, <1>11, CommitRows, BlockCommitted
<1>12. CASE invalidate_cache(s)
  BY <1>3, <1>12 DEF invalidate_cache
<1> QED
  BY <1>4, <1>5, <1>6, <1>7, <1>8, <1>9, <1>10, <1>11, <1>12 DEF SyncStep

LEMMA StepBlock == SyncInv /\ BlockInv /\ [Next]_vars => BlockInv'
<1> SUFFICES ASSUME SyncInv, [Next]_vars,
                    NEW b \in {Block(NoGlobal), Block(Seed)}, HasBlock(b)
             PROVE  HasBlock(b)'
  BY DEF BlockInv
<1>1. ASSUME UNCHANGED <<versions, sync>>
      PROVE  HasBlock(b)'
  BY <1>1 DEF HasBlock, Successes, Payload
<1>2. CASE \E r \in Readers : read_cache(r) \/ read_past_cache(r) \/ write_cache(r)
  BY <1>1, <1>2 DEF read_cache, read_past_cache, write_cache
<1>3. CASE \E c \in Creators : validate(c) \/ create_job(c)
  BY <1>1, <1>3 DEF validate, create_job
<1>4. CASE expire \/ Edit \/ UNCHANGED vars
  BY <1>1, <1>4 DEF expire, Edit, vars
<1> QED
  BY <1>2, <1>3, <1>4, SyncStepBlock DEF Next

(***************************************************************************)
(* No sync loses the operations, presets and palette of the global block   *)
(* (normalize_sheet_rows), whichever version was active when it read.      *)
(***************************************************************************)
THEOREM BlockSurvives == Spec => []GlobalBlockSurvives
<1>1. BlockInv => GlobalBlockSurvives
  BY DEF BlockInv, HasBlock, Block, GlobalBlockSurvives
<1> QED
  BY <1>1, SyncInvariant, InitSyncInv, StepSyncInv, InitBlock, StepBlock, PTL DEF Spec

-----------------------------------------------------------------------------
(***************************************************************************)
(* The catalogue against the validation of each route, for a payload that  *)
(* enables the operation and a bucket that holds what the body names.      *)
(***************************************************************************)
Honest(body, payload) ==
  Advertised(body, build_config_response(payload)) /\ AsksForAngles(body)
    <=> accepts(body, payload, Stored(body))

LEMMA NamedPathsAreStored ==
  ASSUME NEW body
  PROVE  /\ \A i \in DOMAIN body.angles : photo_accepted(Stored(body), body.angles[i].path)
         /\ \A i \in DOMAIN body.photos : photo_accepted(Stored(body), body.photos[i])
         /\ \A i \in DOMAIN body.masks : \A j \in DOMAIN body.photos :
               mask_accepted(Stored(body), body.masks[i], body.photos[j])
<1> DEFINE upload == [owned |-> TRUE, image |-> TRUE, mask |-> TRUE, size |-> 1]
           paths == {body.angles[i].path : i \in DOMAIN body.angles}
                      \union {body.photos[i] : i \in DOMAIN body.photos}
                      \union {body.masks[i] : i \in DOMAIN body.masks}
<1>1. upload.owned /\ upload.image /\ upload.mask
  OBVIOUS
<1> HIDE DEF upload
<1>2. Stored(body) = [p \in paths |-> upload]
  BY DEF Stored, upload
<1>3. /\ \A i \in DOMAIN body.angles : body.angles[i].path \in paths
      /\ \A i \in DOMAIN body.photos : body.photos[i] \in paths
      /\ \A i \in DOMAIN body.masks : body.masks[i] \in paths
  OBVIOUS
<1> HIDE DEF paths
<1>4. \A p \in paths : p \in DOMAIN Stored(body) /\ Stored(body)[p] = upload
  BY <1>2
<1> QED
  BY <1>1, <1>3, <1>4 DEF photo_accepted, mask_accepted, exists, inspect_and_validate,
     validate_mask

\* The lists of the response: what is active in the payload.
LEMMA ResponseLists ==
  ASSUME NEW payload
  PROVE  /\ build_config_response(payload).categories = payload.categories
         /\ \A x : x \in build_config_response(payload).presets <=> validate_preset(payload, x)
         /\ \A x : x \in build_config_response(payload).palette <=> validate_palette(payload, x)
BY DEF build_config_response, validate_preset, validate_palette

\* The angle a client finds enabled is the one the route finds enabled.
Offered(payload, code, angle, synthetic) ==
  LET angles == payload.categories[code].angles
  IN  angle \in DOMAIN angles /\ angles[angle].enabled
        /\ (synthetic => angles[angle].synthetic_allowed)

LEMMA OfferedAngle ==
  ASSUME NEW payload, NEW code, NEW angle, NEW synthetic
  PROVE  Offered(payload, code, angle, synthetic)
           <=> /\ angle_spec(payload, code, angle).enabled
               /\ synthetic => angle_spec(payload, code, angle).synthetic_allowed
<1> DEFINE angles == payload.categories[code].angles
           spec == angle_spec(payload, code, angle)
<1>1. CASE angle \in DOMAIN angles
  <2>1. spec = angles[angle]
    BY <1>1 DEF angle_spec
  <2> QED
    BY <1>1, <2>1 DEF Offered
<1>2. CASE angle \notin DOMAIN angles
  <2>1. spec = [enabled |-> FALSE, synthetic_allowed |-> FALSE]
    BY <1>2 DEF angle_spec
  <2>2. ~spec.enabled
    BY <2>1
  <2> QED
    BY <1>2, <2>2 DEF Offered
<1> QED
  BY <1>1, <1>2

LEMMA AnglesHonest ==
  ASSUME NEW body, IsBody(body), body.operation = "ANGLE_GENERATION", NEW payload
  PROVE  Honest(body, payload)
<1> DEFINE code == body.category
           response == build_config_response(payload)
           Synthetic(i) == body.angles[i].mode = "synthetic"
           Passes(i) ==
             /\ angle_spec(payload, code, body.angles[i].angle).enabled
             /\ Synthetic(i) => angle_spec(payload, code, body.angles[i].angle).synthetic_allowed
<1>1. accepts(body, payload, Stored(body)) <=> validate_request(body, payload, Stored(body))
  BY DEF accepts
<1>2. \A i \in Requested(body) : photo_accepted(Stored(body), body.angles[i].path)
  BY NamedPathsAreStored DEF Requested
<1>3. validate_request(body, payload, Stored(body))
        <=> /\ category_active(payload, code) /\ Requested(body) # {}
            /\ \A i \in Requested(body) : Passes(i)
  BY <1>2 DEF validate_request
<1>4. \A i : Passes(i) <=> Offered(payload, code, body.angles[i].angle, Synthetic(i))
  BY OfferedAngle
<1>5. response.categories = payload.categories
  BY ResponseLists
<1>6. AsksForAngles(body) <=> Requested(body) # {}
  BY DEF AsksForAngles
<1>7. Advertised(body, response)
        <=> /\ category_active(payload, code)
            /\ \A i \in Requested(body) :
                 Offered(payload, code, body.angles[i].angle, Synthetic(i))
  <2> HIDE DEF response
  <2> QED
    BY <1>5 DEF Advertised, Offered, category_active, find_category
<1> HIDE DEF Passes, Synthetic, code
<1> QED
  BY <1>1, <1>3, <1>4, <1>6, <1>7 DEF Honest

LEMMA CleanupHonest ==
  ASSUME NEW body, IsBody(body), body.operation = "GENERATE_WITH_CLEANUP",
         NEW payload, body.operation \in payload.operations
  PROVE  Honest(body, payload)
<1> DEFINE code == body.category
           response == build_config_response(payload)
           Passes(i) == angle_spec(payload, code, body.angles[i].angle).enabled
<1>1. accepts(body, payload, Stored(body)) <=> validate_cleanup(body, payload, Stored(body))
  BY DEF accepts
<1>2. photo_accepted(Stored(body), body.photos[1])
  BY NamedPathsAreStored DEF IsBody, IsList
<1>3. validate_cleanup(body, payload, Stored(body))
        <=> /\ category_active(payload, code) /\ body.angles # <<>> /\ AnglesDiffer(body)
            /\ \A i \in DOMAIN body.angles : Passes(i)
  BY <1>2 DEF validate_cleanup, validate_operation_enabled
<1>4. \A i : Passes(i) <=> Offered(payload, code, body.angles[i].angle, FALSE)
  BY OfferedAngle
<1>5. response.categories = payload.categories
  BY ResponseLists
<1>6. AsksForAngles(body) <=> body.angles # <<>> /\ AnglesDiffer(body)
  BY DEF AsksForAngles
<1>7. Advertised(body, response)
        <=> /\ category_active(payload, code)
            /\ \A i \in DOMAIN body.angles :
                 Offered(payload, code, body.angles[i].angle, FALSE)
  <2> HIDE DEF response
  <2> QED
    BY <1>5 DEF Advertised, Offered, category_active, find_category
<1> HIDE DEF Passes, code
<1> QED
  BY <1>1, <1>3, <1>4, <1>6, <1>7 DEF Honest

LEMMA MatchHonest ==
  ASSUME NEW body, IsBody(body), body.operation = "MATCH",
         NEW payload, body.operation \in payload.operations
  PROVE  Honest(body, payload)
<1>1. accepts(body, payload, Stored(body)) <=> validate_match(body, payload, Stored(body))
  BY DEF accepts
<1>2. photo_accepted(Stored(body), body.photos[1])
  BY NamedPathsAreStored DEF IsBody, IsList
<1> QED
  BY <1>1, <1>2, ResponseLists DEF Honest, Advertised, AsksForAngles, validate_match,
     category_active, find_category, validate_operation_enabled

\* A mask comes with every photo of the operations that take masks.
LEMMA PairsAccepted ==
  ASSUME NEW body, IsBody(body), body.operation \in {"RECOLOR", "MIX"}
  PROVE  validate_pairs(body, Stored(body))
<1>1. DOMAIN body.photos = DOMAIN body.masks
  BY DEF IsBody, IsList
<1> QED
  BY <1>1, NamedPathsAreStored DEF validate_pairs

LEMMA PairsHonest ==
  ASSUME NEW body, IsBody(body), body.operation \in {"RECOLOR", "MIX"},
         NEW payload, body.operation \in payload.operations
  PROVE  Honest(body, payload)
<1>1. CASE body.operation = "RECOLOR"
  <2>1. accepts(body, payload, Stored(body)) <=> validate_recolor(body, payload, Stored(body))
    BY <1>1 DEF accepts
  <2> QED
    BY <1>1, <2>1, PairsAccepted, ResponseLists DEF Honest, Advertised, AsksForAngles,
       validate_recolor, validate_operation_enabled
<1>2. CASE body.operation = "MIX"
  <2>1. accepts(body, payload, Stored(body)) <=> validate_mix(body, payload, Stored(body))
    BY <1>2 DEF accepts
  <2> QED
    BY <1>2, <2>1, PairsAccepted DEF Honest, Advertised, AsksForAngles, validate_mix,
       validate_operation_enabled
<1> QED
  BY <1>1, <1>2

LEMMA BackgroundHonest ==
  ASSUME NEW body, IsBody(body),
         body.operation \in {"BACKGROUND_REMOVAL", "BACKGROUND_REPLACEMENT"},
         NEW payload, body.operation \in payload.operations
  PROVE  Honest(body, payload)
<1>1. accepts(body, payload, Stored(body)) <=> validate_background(body, payload, Stored(body))
  BY DEF accepts
<1>2. body.operation = "BACKGROUND_REMOVAL" => body.option = NoOption
  BY DEF IsBody
<1>3. validate_background(body, payload, Stored(body))
        <=> (body.option # NoOption => validate_preset(payload, body.option))
  BY NamedPathsAreStored DEF validate_background, validate_operation_enabled
<1>4. Advertised(body, build_config_response(payload)) /\ AsksForAngles(body)
        <=> (body.option # NoOption => validate_preset(payload, body.option))
  <2> DEFINE response == build_config_response(payload)
  <2>1. \A x : x \in response.presets <=> validate_preset(payload, x)
    BY ResponseLists
  <2> HIDE DEF response
  <2>2. Advertised(body, response)
          <=> (body.operation = "BACKGROUND_REPLACEMENT"
                 => body.option \in response.presets \union {NoOption})
    BY DEF Advertised
  <2>3. AsksForAngles(body)
    BY DEF AsksForAngles
  <2> QED
    BY <1>2, <2>1, <2>2, <2>3 DEF response
<1> QED
  BY <1>1, <1>3, <1>4 DEF Honest

(***************************************************************************)
(* GET /config (build_config_response) is complete and sound: whatever the *)
(* sheet has made of the active version, a body is refused by the routes   *)
(* exactly when it asks for something the response does not offer.         *)
(***************************************************************************)
THEOREM CatalogueHonest == Spec => []CatalogueIsHonest
<1>1. ASSUME NEW body \in Bodies, NEW payload,
             body.operation \in payload.operations \union {"ANGLE_GENERATION"}
      PROVE  Honest(body, payload)
  <2>1. IsBody(body)
    BY BodiesAssumption
  <2>2. body.operation \in {"ANGLE_GENERATION", "GENERATE_WITH_CLEANUP", "MATCH", "RECOLOR",
                            "MIX", "BACKGROUND_REMOVAL", "BACKGROUND_REPLACEMENT"}
    BY <2>1 DEF IsBody
  <2> QED
    BY <1>1, <2>1, <2>2, AnglesHonest, CleanupHonest, MatchHonest, PairsHonest,
       BackgroundHonest
<1>2. CatalogueIsHonest
  BY <1>1 DEF CatalogueIsHonest, Honest
<1> QED
  BY <1>2, PTL
=============================================================================
