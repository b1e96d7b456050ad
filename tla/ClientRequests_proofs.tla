------------------------ MODULE ClientRequests_proofs ------------------------
(***************************************************************************)
(* Theorems about ClientRequests, for every set of requests, keys, bodies, *)
(* configurations and bucket contents, and every limit.                    *)
(***************************************************************************)
EXTENDS ClientRequests, FiniteSetTheorems, WellFoundedInduction, TLAPS

-----------------------------------------------------------------------------
(***************************************************************************)
(* What the ways to end a step do to the requests.  A step moves one       *)
(* request; only a receive changes its key and its body.                   *)
(***************************************************************************)
Only(r) == \A q \in Requests \ {r} : request'[q] = request[q]

KeepsAsked(r) ==
  /\ request'[r].key = request[r].key
  /\ request'[r].body = request[r].body
  /\ request'[r].begun_today = request[r].begun_today

LEMMA RequestFields ==
  ASSUME TypeOK, NEW r \in Requests
  PROVE  /\ request[r] \in Request
         /\ request[r].pc \in Open \union {"new", "done"}
         /\ request[r].key \in Keys \union {NoKey}
         /\ request[r].body \in Bodies
         /\ request[r].flushed \in Nat
         /\ request[r].begun_today \in BOOLEAN
         /\ request[r].code \in Code
         /\ request[r].job \in Requests
BY DEF TypeOK, Request

\* Goto moves the program counter of one request and nothing else.
LEMMA GotoMoves ==
  ASSUME TypeOK, NEW r \in Requests, NEW pc \in Open, Goto(r, pc)
  PROVE  /\ request' \in [Requests -> Request]
         /\ Only(r) /\ KeepsAsked(r)
         /\ request'[r].pc = pc
         /\ request'[r].flushed = request[r].flushed
         /\ request'[r].code = request[r].code
         /\ request'[r].job = request[r].job
<1>1. request[r] \in Request /\ request \in [Requests -> Request]
  BY DEF TypeOK
<1>2. [request[r] EXCEPT !.pc = pc] \in Request
  BY <1>1 DEF Request
<1>3. request' = [request EXCEPT ![r] = [request[r] EXCEPT !.pc = pc]]
  BY DEF Goto
<1> QED
  BY <1>1, <1>2, <1>3 DEF Request, Only, KeepsAsked

\* An answer ends one request.
LEMMA AnswerMoves ==
  ASSUME TypeOK, NEW r \in Requests, NEW code \in Code, NEW j \in Requests, Answer(r, code, j)
  PROVE  /\ request' \in [Requests -> Request]
         /\ Only(r) /\ KeepsAsked(r)
         /\ request'[r].pc = "done"
         /\ request'[r].flushed = request[r].flushed
         /\ request'[r].code = code
         /\ request'[r].job = j
<1>1. request[r] \in Request /\ request \in [Requests -> Request]
  BY DEF TypeOK
<1>2. [request[r] EXCEPT !.pc = "done", !.code = code, !.job = j] \in Request
  BY <1>1 DEF Request
<1>3. request' = [request EXCEPT ![r] = [request[r] EXCEPT !.pc = "done", !.code = code, !.job = j]]
  BY DEF Answer
<1> QED
  BY <1>1, <1>2, <1>3 DEF Request, Only, KeepsAsked

\* What a request whose key is in use becomes.
LEMMA ReplayedRequest ==
  ASSUME NEW sent \in Request, NEW j \in Requests,
         payload_hash(request[j].body) = payload_hash(sent.body)
  PROVE  /\ replayed(sent, j) \in Request
         /\ replayed(sent, j).pc = "done"
         /\ replayed(sent, j).key = sent.key
         /\ replayed(sent, j).body = sent.body
         /\ replayed(sent, j).flushed = sent.flushed
         /\ replayed(sent, j).code = "accepted"
         /\ replayed(sent, j).job = j
BY DEF replayed, Request, Code

LEMMA ConflictingRequest ==
  ASSUME NEW sent \in Request, NEW j \in Requests,
         payload_hash(request[j].body) # payload_hash(sent.body)
  PROVE  /\ replayed(sent, j) \in Request
         /\ replayed(sent, j).pc = "done"
         /\ replayed(sent, j).key = sent.key
         /\ replayed(sent, j).body = sent.body
         /\ replayed(sent, j).flushed = sent.flushed
         /\ replayed(sent, j).code = "conflict"
         /\ replayed(sent, j).job = sent.job
BY DEF replayed, Request, Code

-----------------------------------------------------------------------------
(***************************************************************************)
(* The steps of the system, sorted by what they do to the requests and to  *)
(* the committed rows.                                                     *)
(***************************************************************************)
Early == {"admitting", "counting", "validating", "inserting"}

KeepsOutcome(r) ==
  /\ request'[r].flushed = request[r].flushed
  /\ request'[r].code = request[r].code
  /\ request'[r].job = request[r].job

\* r is received and its key is free.
Admits(r) ==
  /\ At(r, "new") /\ request'[r].pc = "admitting" /\ request'[r].key \in Keys
  /\ get_by_idempotency_key(request'[r].key) = {}
  /\ Cardinality(OpenRequests) < MaxOpen
  /\ Only(r) /\ KeepsOutcome(r)
  /\ UNCHANGED <<jobs, today, messages, faults>>

\* r is received and answered from a job of its key.
Replays(r) ==
  /\ At(r, "new") /\ request'[r].pc = "done" /\ request'[r].key \in Keys
  /\ request'[r].flushed = request[r].flushed
  /\ Only(r)
  /\ \E j \in jobs :
       /\ request[j].key = request'[r].key
       /\ \/ /\ payload_hash(request[j].body) = payload_hash(request'[r].body)
             /\ request'[r].code = "accepted" /\ request'[r].job = j
          \/ /\ payload_hash(request[j].body) # payload_hash(request'[r].body)
             /\ request'[r].code = "conflict"
  /\ UNCHANGED <<jobs, today, messages, faults>>

\* r passes a check, or finds its key taken when it inserts.
Advances(r) ==
  /\ request[r].pc \in Early
  /\ request'[r].pc \in {"counting", "validating", "inserting", "raced"}
  /\ request'[r].pc = "validating" => Cardinality(today) < DailyQuota
  /\ request'[r].pc = "inserting" => At(r, "validating")
  /\ Only(r) /\ KeepsAsked(r) /\ KeepsOutcome(r)
  /\ UNCHANGED <<jobs, today, messages, faults>>

Inserts(r) ==
  /\ At(r, "inserting") /\ request'[r].pc = "inserted"
  /\ HoldersOfKey(r) = {} /\ get_by_idempotency_key(request[r].key) = {}
  /\ Only(r) /\ KeepsAsked(r) /\ KeepsOutcome(r)
  /\ UNCHANGED <<jobs, today, messages, faults>>

Flushes(r) ==
  /\ HasAssetLeft(r) /\ request'[r].pc = "inserted"
  /\ HoldersOfPath(r) = {}
  /\ NextPath(r) \notin UNION {PathsOf(j) : j \in jobs}
  /\ request'[r].flushed = request[r].flushed + 1
  /\ request'[r].code = request[r].code /\ request'[r].job = request[r].job
  /\ Only(r) /\ KeepsAsked(r)
  /\ UNCHANGED <<jobs, today, messages, faults>>

Commits(r) ==
  /\ At(r, "inserted") /\ ~HasAssetLeft(r) /\ request'[r].pc = "committed"
  /\ Only(r) /\ KeepsAsked(r) /\ KeepsOutcome(r)
  /\ jobs' = jobs \union {r}
  /\ today' = IF request[r].begun_today THEN today \union {r} ELSE today
  /\ UNCHANGED <<messages, faults>>

Dispatches(r) ==
  /\ At(r, "committed") /\ request'[r].pc = "done"
  /\ request'[r].code = "accepted" /\ request'[r].job = r
  /\ request'[r].flushed = request[r].flushed
  /\ Only(r) /\ KeepsAsked(r)
  /\ messages' = [messages EXCEPT ![r] = @ + 1]
  /\ UNCHANGED <<jobs, today, faults>>

\* r is refused before its INSERT, fails or is cut off; once committed, only
\* a fault ends it so.
Ends(r) ==
  /\ request[r].pc \in Open /\ request'[r].pc = "done"
  /\ request'[r].code \in {"refused", "error"}
  /\ request'[r].code = "refused" => request[r].pc \in Early
  /\ request'[r].flushed = request[r].flushed
  /\ Only(r) /\ KeepsAsked(r)
  /\ faults' >= faults /\ (At(r, "committed") => faults' > 0)
  /\ UNCHANGED <<jobs, today, messages>>

Moves(r) ==
  \/ Admits(r) \/ Replays(r) \/ Advances(r) \/ Inserts(r) \/ Flushes(r)
  \/ Commits(r) \/ Dispatches(r) \/ Ends(r)

\* Midnight.
Passes ==
  /\ \A q \in Requests :
       /\ request'[q].pc = request[q].pc /\ request'[q].key = request[q].key
       /\ request'[q].body = request[q].body /\ KeepsOutcome(q)
       /\ request'[q].begun_today = FALSE
  /\ today' = {}
  /\ UNCHANGED <<jobs, messages, faults>>

Rests == UNCHANGED <<request, jobs, today, messages, faults>>

LEMMA ReceiveMoves ==
  ASSUME TypeOK, NEW r \in Requests, NEW key \in Keys, NEW body \in Bodies,
         receive(r, key, body)
  PROVE  TypeOK' /\ Moves(r)
<1> DEFINE sent == [request[r] EXCEPT !.key = key, !.body = body, !.begun_today = TRUE]
<1> DEFINE found == get_by_idempotency_key(key)
<1>1. /\ sent \in Request
      /\ sent.key = key /\ sent.body = body
      /\ sent.flushed = request[r].flushed
      /\ sent.code = request[r].code /\ sent.job = request[r].job
      /\ [sent EXCEPT !.pc = "admitting"] \in Request
      /\ [sent EXCEPT !.pc = "admitting"].pc = "admitting"
      /\ [sent EXCEPT !.pc = "admitting"].key = key
      /\ [sent EXCEPT !.pc = "admitting"].body = body
      /\ [sent EXCEPT !.pc = "admitting"].flushed = request[r].flushed
      /\ [sent EXCEPT !.pc = "admitting"].code = request[r].code
      /\ [sent EXCEPT !.pc = "admitting"].job = request[r].job
  <2>1. /\ sent \in Request
        /\ sent.key = key /\ sent.body = body
        /\ sent.flushed = request[r].flushed
        /\ sent.code = request[r].code /\ sent.job = request[r].job
    <3>1. request[r] \in Request
      BY RequestFields
    <3> QED
      BY <3>1 DEF Request
  <2> HIDE DEF sent
  <2> QED
    BY <2>1 DEF Request, Open
<1>2. /\ At(r, "new") /\ Cardinality(OpenRequests) < MaxOpen
      /\ UNCHANGED <<jobs, today, tokens, messages, faults>>
      /\ \/ found = {} /\ request' = [request EXCEPT ![r] = [sent EXCEPT !.pc = "admitting"]]
         \/ \E j \in found : request' = [request EXCEPT ![r] = replayed(sent, j)]
  BY DEF receive
<1> HIDE DEF sent
<1>3. CASE found = {} /\ request' = [request EXCEPT ![r] = [sent EXCEPT !.pc = "admitting"]]
  <2>1. request' \in [Requests -> Request] /\ Only(r) /\ request'[r] = [sent EXCEPT !.pc = "admitting"]
    BY <1>1, <1>3 DEF TypeOK, Only
  <2>2. TypeOK'
    BY <1>2, <2>1 DEF TypeOK
  <2>3. get_by_idempotency_key(request'[r].key) = {}
    BY <1>1, <1>3, <2>1
  <2>4. Admits(r)
    BY <1>1, <1>2, <2>1, <2>3 DEF Admits, KeepsOutcome
  <2> QED
    BY <2>2, <2>4 DEF Moves
<1>4. ASSUME NEW j \in found, request' = [request EXCEPT ![r] = replayed(sent, j)]
      PROVE  TypeOK' /\ Moves(r)
  <2>1. j \in jobs /\ j \in Requests /\ request[j].key = key
    BY <1>4 DEF get_by_idempotency_key, TypeOK
  <2>2. /\ replayed(sent, j) \in Request
        /\ replayed(sent, j).pc = "done"
        /\ replayed(sent, j).key = key
        /\ replayed(sent, j).body = body
        /\ replayed(sent, j).flushed = request[r].flushed
        /\ \/ /\ payload_hash(request[j].body) = payload_hash(body)
              /\ replayed(sent, j).code = "accepted" /\ replayed(sent, j).job = j
           \/ /\ payload_hash(request[j].body) # payload_hash(body)
              /\ replayed(sent, j).code = "conflict"
    BY <1>1, <2>1, ReplayedRequest, ConflictingRequest
  <2>3. request' \in [Requests -> Request] /\ Only(r) /\ request'[r] = replayed(sent, j)
    BY <1>4, <2>2 DEF TypeOK, Only
  <2>4. TypeOK'
    BY <1>2, <2>3 DEF TypeOK
  <2>5. Replays(r)
    BY <1>2, <2>1, <2>2, <2>3 DEF Replays
  <2> QED
    BY <2>4, <2>5 DEF Moves
<1> QED
  BY <1>2, <1>3, <1>4

LEMMA AllowMoves ==
  ASSUME TypeOK, NEW r \in Requests, allow(r)
  PROVE  TypeOK' /\ Moves(r)
<1>1. tokens' \in 0..(RateLimit + 1)
  BY LimitsAssumption DEF allow, TypeOK
<1>2. CASE Goto(r, "counting")
  <2>1. TypeOK'
    BY <1>1, <1>2, GotoMoves DEF allow, TypeOK, Open
  <2>2. Advances(r)
    BY <1>2, GotoMoves DEF allow, Advances, KeepsOutcome, Open, Early, At
  <2> QED
    BY <2>1, <2>2 DEF Moves
<1>3. CASE Refuse(r)
  <2>1. Answer(r, "refused", r) /\ "refused" \in Code
    BY <1>3 DEF Refuse, Code
  <2>2. TypeOK'
    BY <1>1, <2>1, AnswerMoves DEF allow, TypeOK
  <2>3. Ends(r)
    BY <2>1, AnswerMoves DEF allow, Ends, Early, Open, At, TypeOK
  <2> QED
    BY <2>2, <2>3 DEF Moves
<1> QED
  BY <1>2, <1>3 DEF allow

LEMMA CountMoves ==
  ASSUME TypeOK, NEW r \in Requests, count_created_today(r)
  PROVE  TypeOK' /\ Moves(r)
<1>0. IsFiniteSet(today) /\ Cardinality(today) \in Nat
  BY RequestsAssumption, FS_Subset, FS_CardinalityType DEF TypeOK
<1>1. CASE Goto(r, "validating") /\ ~(Cardinality(today) >= DailyQuota)
  <2>1. TypeOK'
    BY <1>1, GotoMoves DEF count_created_today, TypeOK, Open
  <2>2. Advances(r)
    BY <1>0, <1>1, GotoMoves, LimitsAssumption
    DEF count_created_today, Advances, KeepsOutcome, Open, Early, At
  <2> QED
    BY <2>1, <2>2 DEF Moves
<1>2. CASE Refuse(r)
  <2>1. Answer(r, "refused", r) /\ "refused" \in Code
    BY <1>2 DEF Refuse, Code
  <2>2. TypeOK'
    BY <2>1, AnswerMoves DEF count_created_today, TypeOK
  <2>3. Ends(r)
    BY <2>1, AnswerMoves DEF count_created_today, Ends, Early, Open, At, TypeOK
  <2> QED
    BY <2>2, <2>3 DEF Moves
<1> QED
  BY <1>1, <1>2 DEF count_created_today

LEMMA ValidateMoves ==
  ASSUME TypeOK, NEW r \in Requests, validate(r)
  PROVE  TypeOK' /\ Moves(r)
<1>1. CASE Goto(r, "inserting")
  <2>1. TypeOK'
    BY <1>1, GotoMoves DEF validate, TypeOK, Open
  <2>2. Advances(r)
    BY <1>1, GotoMoves DEF validate, Advances, KeepsOutcome, Open, Early, At
  <2> QED
    BY <2>1, <2>2 DEF Moves
<1>2. CASE Refuse(r)
  <2>1. Answer(r, "refused", r) /\ "refused" \in Code
    BY <1>2 DEF Refuse, Code
  <2>2. TypeOK'
    BY <2>1, AnswerMoves DEF validate, TypeOK
  <2>3. Ends(r)
    BY <2>1, AnswerMoves DEF validate, Ends, Early, Open, At, TypeOK
  <2> QED
    BY <2>2, <2>3 DEF Moves
<1> QED
  BY <1>1, <1>2 DEF validate

LEMMA FlushJobMoves ==
  ASSUME TypeOK, NEW r \in Requests, flush_job(r)
  PROVE  TypeOK' /\ Moves(r)
<1>1. CASE get_by_idempotency_key(request[r].key) = {}
  <2>1. Goto(r, "inserted")
    BY <1>1 DEF flush_job
  <2>2. TypeOK'
    BY <2>1, GotoMoves DEF flush_job, TypeOK, Open
  <2>3. Inserts(r)
    BY <1>1, <2>1, GotoMoves DEF flush_job, Inserts, KeepsOutcome, Open
  <2> QED
    BY <2>2, <2>3 DEF Moves
<1>2. CASE get_by_idempotency_key(request[r].key) # {}
  <2>1. Goto(r, "raced")
    BY <1>2 DEF flush_job
  <2>2. TypeOK'
    BY <2>1, GotoMoves DEF flush_job, TypeOK, Open
  <2>3. Advances(r)
    BY <2>1, GotoMoves DEF flush_job, Advances, KeepsOutcome, Open, Early, At
  <2> QED
    BY <2>2, <2>3 DEF Moves
<1> QED
  BY <1>1, <1>2

LEMMA FlushAssetMoves ==
  ASSUME TypeOK, NEW r \in Requests, flush_asset(r)
  PROVE  TypeOK' /\ Moves(r)
<1>1. CASE Answer(r, "error", r)
  <2>1. "error" \in Code
    BY DEF Code
  <2>2. TypeOK'
    BY <1>1, <2>1, AnswerMoves DEF flush_asset, TypeOK
  <2>3. Ends(r)
    BY <1>1, <2>1, AnswerMoves DEF flush_asset, HasAssetLeft, Ends, Open, At, TypeOK
  <2> QED
    BY <2>2, <2>3 DEF Moves
<1>2. CASE /\ NextPath(r) \notin UNION {PathsOf(j) : j \in jobs}
           /\ request' = [request EXCEPT ![r].flushed = @ + 1]
  <2>1. request[r] \in Request /\ request \in [Requests -> Request]
    BY DEF TypeOK
  <2>2. [request[r] EXCEPT !.flushed = @ + 1] \in Request
    BY <2>1 DEF Request
  <2>3. request' = [request EXCEPT ![r] = [request[r] EXCEPT !.flushed = @ + 1]]
    BY <1>2
  <2>4. /\ request' \in [Requests -> Request] /\ Only(r) /\ KeepsAsked(r)
        /\ request'[r].pc = request[r].pc
        /\ request'[r].flushed = request[r].flushed + 1
        /\ request'[r].code = request[r].code /\ request'[r].job = request[r].job
    BY <2>1, <2>2, <2>3 DEF Request, Only, KeepsAsked
  <2>5. TypeOK'
    BY <2>4 DEF flush_asset, TypeOK
  <2>6. Flushes(r)
    BY <1>2, <2>4 DEF flush_asset, Flushes, HasAssetLeft, At
  <2> QED
    BY <2>5, <2>6 DEF Moves
<1> QED
  BY <1>1, <1>2 DEF flush_asset

LEMMA CommitMoves ==
  ASSUME TypeOK, NEW r \in Requests, commit(r)
  PROVE  TypeOK' /\ Moves(r)
<1>1. Goto(r, "committed")
  BY DEF commit
<1>2. TypeOK'
  BY <1>1, GotoMoves DEF commit, TypeOK, Open
<1>3. Commits(r)
  BY <1>1, GotoMoves DEF commit, Commits, KeepsOutcome, Open
<1> QED
  BY <1>2, <1>3 DEF Moves

LEMMA DispatchMoves ==
  ASSUME TypeOK, NEW r \in Requests, dispatch(r)
  PROVE  TypeOK' /\ Moves(r)
<1>1. Answer(r, "accepted", r) /\ "accepted" \in Code
  BY DEF dispatch, Code
<1>2. TypeOK'
  BY <1>1, AnswerMoves DEF dispatch, TypeOK
<1>3. Dispatches(r)
  BY <1>1, AnswerMoves DEF dispatch, Dispatches
<1> QED
  BY <1>2, <1>3 DEF Moves

LEMMA ReplayRaceMoves ==
  ASSUME TypeOK, NEW r \in Requests, replay_race(r)
  PROVE  TypeOK' /\ Moves(r)
<1>1. Answer(r, "error", r) /\ "error" \in Code
  BY DEF replay_race, Code
<1>2. TypeOK'
  BY <1>1, AnswerMoves DEF replay_race, TypeOK
<1>3. Ends(r)
  BY <1>1, AnswerMoves DEF replay_race, Ends, Open, At, TypeOK
<1> QED
  BY <1>2, <1>3 DEF Moves

LEMMA DeadlockMoves ==
  ASSUME TypeOK, NEW r \in Requests, deadlock_detected(r)
  PROVE  TypeOK' /\ Moves(r)
<1>1. r \in OpenRequests /\ WaitsFor(r) # {}
  BY DEF deadlock_detected, InCycle
<1>2. At(r, "inserting") \/ At(r, "inserted")
  BY <1>1 DEF WaitsFor, HasAssetLeft
<1>3. Answer(r, "error", r) /\ "error" \in Code
  BY DEF deadlock_detected, Code
<1>4. TypeOK'
  BY <1>3, AnswerMoves DEF deadlock_detected, TypeOK
<1>5. Ends(r)
  BY <1>2, <1>3, AnswerMoves DEF deadlock_detected, Ends, Open, At, TypeOK
<1> QED
  BY <1>4, <1>5 DEF Moves

LEMMA FaultMoves ==
  ASSUME TypeOK, NEW r \in Requests, fault(r)
  PROVE  TypeOK' /\ Moves(r)
<1>1. Answer(r, "error", r) /\ "error" \in Code
  BY DEF fault, Code
<1>2. TypeOK'
  BY <1>1, AnswerMoves, LimitsAssumption DEF fault, TypeOK
<1>3. Ends(r)
  BY <1>1, AnswerMoves DEF fault, Ends, TypeOK
<1> QED
  BY <1>2, <1>3 DEF Moves

LEMMA MinutePasses ==
  ASSUME TypeOK, NextMinute
  PROVE  TypeOK' /\ Rests
BY LimitsAssumption DEF TypeOK, NextMinute, Rests

LEMMA DayPasses ==
  ASSUME TypeOK, NextDay
  PROVE  TypeOK' /\ Passes
<1>1. ASSUME NEW q \in Requests
      PROVE  [request[q] EXCEPT !.begun_today = FALSE] \in Request
  <2>1. request[q] \in Request
    BY DEF TypeOK
  <2> QED
    BY <2>1 DEF Request
<1>2. request' = [q \in Requests |-> [request[q] EXCEPT !.begun_today = FALSE]]
  BY DEF NextDay
<1>3. TypeOK'
  BY <1>1, <1>2 DEF TypeOK, NextDay
<1>4. \A q \in Requests :
        /\ request'[q].pc = request[q].pc /\ request'[q].key = request[q].key
        /\ request'[q].body = request[q].body /\ KeepsOutcome(q)
        /\ request'[q].begun_today = FALSE
  <2> SUFFICES ASSUME NEW q \in Requests
               PROVE  /\ request'[q].pc = request[q].pc /\ request'[q].key = request[q].key
                      /\ request'[q].body = request[q].body /\ KeepsOutcome(q)
                      /\ request'[q].begun_today = FALSE
    OBVIOUS
  <2>1. request[q] \in Request /\ request'[q] = [request[q] EXCEPT !.begun_today = FALSE]
    BY <1>2 DEF TypeOK
  <2> QED
    BY <2>1 DEF Request, KeepsOutcome
<1>5. Passes
  BY <1>4 DEF Passes, NextDay
<1> QED
  BY <1>3, <1>5

\* Once sent, a request carries a key.
KeySent == \A r \in Requests : ~At(r, "new") => request[r].key \in Keys

(***************************************************************************)
(* The kinds above are all there is: every step keeps the state well typed *)
(* and moves one request, turns midnight, or leaves all this alone.        *)
(***************************************************************************)
LEMMA NextMoves ==
  ASSUME TypeOK, [Next]_vars
  PROVE  TypeOK' /\ ((\E r \in Requests : Moves(r)) \/ Passes \/ Rests)
<1>1. ASSUME NEW r \in Requests, Serve(r)
      PROVE  TypeOK' /\ Moves(r)
  BY <1>1, AllowMoves, CountMoves, ValidateMoves, FlushJobMoves, FlushAssetMoves, CommitMoves,
     DispatchMoves, ReplayRaceMoves
  DEF Serve
<1>2. CASE UNCHANGED vars
  BY <1>2 DEF vars, TypeOK, Request, Rests
<1> QED
  BY <1>1, <1>2, ReceiveMoves, DeadlockMoves, FaultMoves, MinutePasses, DayPasses DEF Next

-----------------------------------------------------------------------------
(* Types.                                                                  *)

LEMMA InitFields ==
  ASSUME Init
  PROVE  /\ TypeOK
         /\ \A r \in Requests :
              /\ request[r].pc = "new" /\ request[r].flushed = 0
              /\ request[r].code = "none" /\ messages[r] = 0
         /\ jobs = {} /\ today = {} /\ faults = 0
<1> DEFINE first == CHOOSE b \in Bodies : TRUE
<1>1. first \in Bodies
  BY RequestsAssumption
<1>2. request = [r \in Requests |->
                  [pc |-> "new", key |-> NoKey, body |-> first,
                   flushed |-> 0, begun_today |-> FALSE, code |-> "none", job |-> r]]
  BY DEF Init
<1> HIDE DEF first
<1>3. /\ request \in [Requests -> Request]
      /\ \A r \in Requests : request[r].pc = "new" /\ request[r].flushed = 0
                               /\ request[r].code = "none"
  BY <1>1, <1>2 DEF Request, Open, Code
<1>4. /\ jobs = {} /\ today = {} /\ tokens = 0 /\ faults = 0
      /\ messages = [r \in Requests |-> 0]
  BY DEF Init
<1> QED
  BY <1>3, <1>4, LimitsAssumption DEF TypeOK

TypeInv == TypeOK /\ KeySent

LEMMA InitTypeInv == Init => TypeInv
BY InitFields DEF TypeInv, KeySent, At

LEMMA StepTypeInv == TypeInv /\ [Next]_vars => TypeInv'
<1> SUFFICES ASSUME TypeInv, [Next]_vars PROVE TypeInv'
  OBVIOUS
<1> USE DEF TypeInv
<1>1. TypeOK' /\ ((\E r \in Requests : Moves(r)) \/ Passes \/ Rests)
  BY NextMoves
<1>2. ASSUME NEW r \in Requests, Moves(r)
      PROVE  KeySent'
  <2>1. request'[r].pc # "new" => request'[r].key \in Keys
    BY <1>2
    DEF Moves, Admits, Replays, Advances, Inserts, Flushes, Commits, Dispatches, Ends,
        HasAssetLeft, KeepsAsked, KeySent, At, Open, Early
  <2>2. Only(r)
    BY <1>2 DEF Moves, Admits, Replays, Advances, Inserts, Flushes, Commits, Dispatches, Ends
  <2> QED
    BY <2>1, <2>2 DEF KeySent, At, Only
<1>3. CASE Passes
  BY <1>1, <1>3 DEF Passes, KeySent, At
<1>4. CASE Rests
  BY <1>1, <1>4 DEF Rests, KeySent, At
<1> QED
  BY <1>1, <1>2, <1>3, <1>4

(***************************************************************************)
(* The state is well typed in every reachable state; in particular a job   *)
(* counts for today only once it is committed, and the limiter's counter   *)
(* stays within one of the limit.                                          *)
(***************************************************************************)
THEOREM TypeCorrect == Spec => []TypeOK
<1>1. TypeInv => TypeOK
  BY DEF TypeInv
<1> QED
  BY <1>1, InitTypeInv, StepTypeInv, PTL DEF Spec

-----------------------------------------------------------------------------
(***************************************************************************)
(* One job per key.  The property says nothing of a request between its    *)
(* INSERT and its COMMIT; the unique index does.                           *)
(***************************************************************************)
\* A committed job belongs to a request that has nothing left to do but dispatch.
JobsAreBehind == \A j \in jobs : At(j, "committed") \/ At(j, "done")

\* An INSERT that has succeeded holds its key against jobs and other INSERTs.
InsertedHoldsKey ==
  \A r \in Requests : At(r, "inserted") =>
    /\ \A j \in jobs : request[j].key # request[r].key
    /\ \A q \in Requests \ {r} : At(q, "inserted") => request[q].key # request[r].key

KeyInv == TypeInv /\ JobsAreBehind /\ InsertedHoldsKey /\ OneJobPerKey

LEMMA InitKeyInv == Init => KeyInv
BY InitTypeInv, InitFields DEF KeyInv, JobsAreBehind, InsertedHoldsKey, OneJobPerKey, At

\* No step touches the key or the body of a committed job.
LEMMA JobsAreFixed ==
  ASSUME TypeOK, JobsAreBehind, NEW r \in Requests, Moves(r), NEW j \in jobs
  PROVE  request'[j].key = request[j].key /\ request'[j].body = request[j].body
<1>1. CASE j = r
  <2>1. KeepsAsked(r)
    BY <1>1 DEF JobsAreBehind, Moves, At, Admits, Replays, Advances, Inserts, Flushes,
                Commits, Dispatches, Ends, Early, HasAssetLeft
  <2> QED
    BY <1>1, <2>1 DEF KeepsAsked
<1>2. CASE j # r
  BY <1>2 DEF TypeOK, Only, Moves, Admits, Replays, Advances, Inserts, Flushes, Commits,
              Dispatches, Ends
<1> QED
  BY <1>1, <1>2

LEMMA StepKeyInv == KeyInv /\ [Next]_vars => KeyInv'
<1> SUFFICES ASSUME KeyInv, [Next]_vars PROVE KeyInv'
  OBVIOUS
<1>1. TypeInv' /\ TypeOK /\ TypeOK' /\ JobsAreBehind /\ InsertedHoldsKey /\ OneJobPerKey
  BY StepTypeInv DEF KeyInv, TypeInv
<1>2. (\E r \in Requests : Moves(r)) \/ Passes \/ Rests
  BY NextMoves DEF KeyInv, TypeInv
<1>3. ASSUME NEW r \in Requests, Moves(r)
      PROVE  JobsAreBehind' /\ InsertedHoldsKey' /\ OneJobPerKey'
  <2>1. Only(r) /\ jobs \subseteq Requests
    BY <1>1, <1>3 DEF Moves, Admits, Replays, Advances, Inserts, Flushes, Commits, Dispatches,
                      Ends, TypeOK
  <2>2. CASE Inserts(r)
    <3>1. \A q \in Requests \ {r} : At(q, "inserted") => request[q].key # request[r].key
      BY <2>2 DEF Inserts, HoldersOfKey
    <3>2. \A j \in jobs : request[j].key # request[r].key
      BY <2>2 DEF Inserts, get_by_idempotency_key
    <3> QED
      BY <1>1, <2>1, <2>2, <3>1, <3>2
      DEF Inserts, Only, KeepsAsked, At, JobsAreBehind, InsertedHoldsKey, OneJobPerKey
  <2>3. CASE Commits(r)
    BY <1>1, <2>1, <2>3
    DEF Commits, Only, KeepsAsked, At, JobsAreBehind, InsertedHoldsKey, OneJobPerKey
  <2>4. CASE ~Inserts(r) /\ ~Commits(r)
    <3>1. jobs' = jobs /\ (At(r, "inserted")' => At(r, "inserted") /\ KeepsAsked(r))
      BY <1>3, <2>4 DEF Moves, Admits, Replays, Advances, Flushes, Dispatches, Ends,
                        HasAssetLeft, At
    <3>2. r \in jobs => At(r, "done")'
      BY <1>1, <1>3, <2>4
      DEF Moves, Admits, Replays, Advances, Flushes, Dispatches, Ends, JobsAreBehind,
          HasAssetLeft, At, Early
    <3>3. \A j \in jobs : request'[j].key = request[j].key
      BY <1>1, <1>3, JobsAreFixed
    <3> QED
      BY <1>1, <2>1, <3>1, <3>2, <3>3
      DEF Only, KeepsAsked, At, JobsAreBehind, InsertedHoldsKey, OneJobPerKey
  <2> QED
    BY <2>2, <2>3, <2>4
<1>4. CASE Passes \/ Rests
  <2>1. /\ jobs' = jobs /\ jobs \subseteq Requests
        /\ \A q \in Requests : request'[q].pc = request[q].pc /\ request'[q].key = request[q].key
    BY <1>1, <1>4 DEF Passes, Rests, TypeOK
  <2>2. JobsAreBehind'
    BY <1>1, <2>1 DEF At, JobsAreBehind
  <2>3. InsertedHoldsKey'
    BY <1>1, <2>1 DEF At, InsertedHoldsKey
  <2>4. OneJobPerKey'
    BY <1>1, <2>1 DEF OneJobPerKey
  <2> QED
    BY <1>1, <2>2, <2>3, <2>4 DEF KeyInv
<1> QED
  BY <1>1, <1>2, <1>3, <1>4 DEF KeyInv

(***************************************************************************)
(* A key creates at most one job, in whatever order the requests that use  *)
(* it look it up, insert, roll back and commit.                            *)
(***************************************************************************)
THEOREM KeyIsUnique == Spec => []OneJobPerKey
<1>1. KeyInv => OneJobPerKey
  BY DEF KeyInv
<1> QED
  BY <1>1, InitKeyInv, StepKeyInv, PTL DEF Spec

-----------------------------------------------------------------------------
(***************************************************************************)
(* One owner per upload: the same argument for the unique index of the     *)
(* storage paths, whose entries a request takes one after the other.       *)
(***************************************************************************)
\* The paths a transaction has inserted and not committed.
HeldPaths(r) ==
  IF At(r, "inserted") THEN {Assets(r)[i] : i \in 1..request[r].flushed} ELSE {}

InsertedHoldsPaths ==
  \A r \in Requests :
    /\ \A j \in jobs : HeldPaths(r) \intersect PathsOf(j) = {}
    /\ \A q \in Requests \ {r} : HeldPaths(r) \intersect HeldPaths(q) = {}

FlushedInOrder ==
  \A r \in Requests :
    /\ ~At(r, "inserted") /\ ~At(r, "committed") /\ ~At(r, "done") => request[r].flushed = 0
    /\ At(r, "inserted") => request[r].flushed <= Len(Assets(r))

PathInv == KeyInv /\ FlushedInOrder /\ InsertedHoldsPaths /\ OneOwnerPerUpload

LEMMA AssetsAreSequences ==
  ASSUME TypeOK, NEW r \in Requests
  PROVE  Len(Assets(r)) \in Nat /\ DOMAIN Assets(r) = 1..Len(Assets(r))
<1> DEFINE assets == NewJob(request[r].body).assets
<1>1. request[r].body \in Bodies
  BY RequestFields
<1>2. IsList(assets)
  BY <1>1, BodiesAssumption
<1> HIDE DEF assets
<1>3. Len(assets) \in Nat /\ DOMAIN assets = 1..Len(assets)
  BY <1>2 DEF IsList
<1> QED
  BY <1>3 DEF Assets, assets

LEMMA InitPathInv == Init => PathInv
BY InitKeyInv, InitFields
DEF PathInv, FlushedInOrder, InsertedHoldsPaths, HeldPaths, OneOwnerPerUpload, At

\* A transaction with no asset left holds all the paths of its job.
LEMMA CommitHoldsAll ==
  ASSUME TypeOK, FlushedInOrder, NEW r \in Requests, At(r, "inserted"), ~HasAssetLeft(r)
  PROVE  PathsOf(r) = HeldPaths(r)
<1>1. request[r].flushed \in Nat /\ request[r].flushed <= Len(Assets(r))
  BY RequestFields DEF FlushedInOrder
<1>2. request[r].flushed = Len(Assets(r))
  BY <1>1, AssetsAreSequences DEF HasAssetLeft
<1> QED
  BY <1>2, AssetsAreSequences DEF PathsOf, HeldPaths

\* The held paths and the paths of jobs depend on the request alone.
LEMMA HeldOfOthers ==
  ASSUME NEW r, NEW q \in Requests \ {r}, Only(r)
  PROVE  HeldPaths(q)' = HeldPaths(q) /\ PathsOf(q)' = PathsOf(q)
<1>1. request'[q] = request[q]
  BY DEF Only
<1>2. Assets(q)' = Assets(q)
  BY <1>1 DEF Assets
<1> QED
  BY <1>1, <1>2 DEF HeldPaths, PathsOf, At

LEMMA StepPathInv == PathInv /\ [Next]_vars => PathInv'
<1> SUFFICES ASSUME PathInv, [Next]_vars PROVE PathInv'
  OBVIOUS
<1>1. /\ KeyInv' /\ TypeOK /\ TypeOK' /\ JobsAreBehind /\ jobs \subseteq Requests
      /\ FlushedInOrder /\ InsertedHoldsPaths /\ OneOwnerPerUpload
  BY StepKeyInv DEF PathInv, KeyInv, TypeInv, TypeOK
<1>2. (\E r \in Requests : Moves(r)) \/ Passes \/ Rests
  BY NextMoves DEF PathInv, KeyInv, TypeInv
<1>3. ASSUME NEW r \in Requests, Moves(r)
      PROVE  FlushedInOrder' /\ InsertedHoldsPaths' /\ OneOwnerPerUpload'
  <2>1. Only(r)
    BY <1>3 DEF Moves, Admits, Replays, Advances, Inserts, Flushes, Commits, Dispatches, Ends
  <2>2. \A q \in Requests \ {r} :
          /\ HeldPaths(q)' = HeldPaths(q) /\ PathsOf(q)' = PathsOf(q)
          /\ At(q, "inserted")' = At(q, "inserted")
    BY <2>1, HeldOfOthers DEF Only, At
  <2>3. \A j \in jobs : PathsOf(j)' = PathsOf(j)
    BY <1>1, <1>3, JobsAreFixed DEF PathsOf, Assets
  <2>4. FlushedInOrder'
    <3>1. KeepsAsked(r) => Assets(r)' = Assets(r)
      BY DEF KeepsAsked, Assets
    <3>2. /\ ~At(r, "inserted")' /\ ~At(r, "committed")' /\ ~At(r, "done")' => request'[r].flushed = 0
          /\ At(r, "inserted")' => request'[r].flushed <= Len(Assets(r)')
      BY <1>1, <1>3, <3>1, AssetsAreSequences, RequestFields
      DEF Moves, Admits, Replays, Advances, Inserts, Flushes, Commits, Dispatches, Ends,
          KeepsOutcome, FlushedInOrder, HasAssetLeft, At, Early
    <3>3. \A q \in Requests \ {r} : request'[q] = request[q] /\ Assets(q)' = Assets(q)
      BY <2>1 DEF Only, Assets
    <3> QED
      BY <1>1, <3>2, <3>3 DEF FlushedInOrder, At
  <2>5. CASE Flushes(r)
    <3>1. HeldPaths(r)' = HeldPaths(r) \union {NextPath(r)}
      <4>1. Assets(r)' = Assets(r) /\ request[r].flushed \in Nat
        BY <1>1, <2>5, RequestFields DEF Flushes, KeepsAsked, Assets
      <4>2. 1..(request[r].flushed + 1) = 1..request[r].flushed \union {request[r].flushed + 1}
        BY <4>1
      <4> QED
        BY <2>5, <4>1, <4>2 DEF Flushes, HasAssetLeft, HeldPaths, NextPath, At
    <3>2. \A j \in jobs : NextPath(r) \notin PathsOf(j)
      BY <2>5 DEF Flushes
    <3>3. \A q \in Requests \ {r} : NextPath(r) \notin HeldPaths(q)
      BY <2>5 DEF Flushes, HoldersOfPath, HeldPaths
    <3>4. jobs' = jobs
      BY <2>5 DEF Flushes
    <3> QED
      BY <1>1, <2>2, <2>3, <2>4, <3>1, <3>2, <3>3, <3>4 DEF InsertedHoldsPaths, OneOwnerPerUpload
  <2>6. CASE Commits(r)
    <3>1. PathsOf(r)' = PathsOf(r) /\ HeldPaths(r)' = {}
      BY <2>6 DEF Commits, KeepsAsked, PathsOf, Assets, HeldPaths, At
    <3>2. PathsOf(r) = HeldPaths(r)
      BY <1>1, <2>6, CommitHoldsAll DEF Commits
    <3>3. jobs' = jobs \union {r}
      BY <2>6 DEF Commits
    <3> QED
      BY <1>1, <2>2, <2>3, <2>4, <3>1, <3>2, <3>3 DEF InsertedHoldsPaths, OneOwnerPerUpload
  <2>7. CASE ~Flushes(r) /\ ~Commits(r)
    <3>1. jobs' = jobs
      BY <1>3, <2>7 DEF Moves, Admits, Replays, Advances, Inserts, Dispatches, Ends
    <3>2. HeldPaths(r)' = {}
      <4>1. At(r, "inserted")' => request'[r].flushed = 0
        BY <1>1, <1>3, <2>7
        DEF Moves, Admits, Replays, Advances, Inserts, Dispatches, Ends, KeepsOutcome,
            FlushedInOrder, At
      <4> QED
        BY <4>1 DEF HeldPaths
    <3> QED
      BY <1>1, <2>2, <2>3, <2>4, <3>1, <3>2 DEF InsertedHoldsPaths, OneOwnerPerUpload
  <2> QED
    BY <2>5, <2>6, <2>7
<1>4. ASSUME Passes \/ Rests
      PROVE  FlushedInOrder' /\ InsertedHoldsPaths' /\ OneOwnerPerUpload'
  <2>1. /\ jobs' = jobs
        /\ \A q \in Requests :
             /\ request'[q].pc = request[q].pc /\ request'[q].flushed = request[q].flushed
             /\ request'[q].body = request[q].body
    BY <1>4 DEF Passes, Rests, KeepsOutcome
  <2>2. \A q \in Requests : HeldPaths(q)' = HeldPaths(q) /\ Assets(q)' = Assets(q)
    BY <2>1 DEF HeldPaths, Assets, At
  <2>3. \A j \in jobs : PathsOf(j)' = PathsOf(j)
    BY <1>1, <2>2 DEF PathsOf
  <2> QED
    BY <1>1, <2>1, <2>2, <2>3 DEF FlushedInOrder, InsertedHoldsPaths, OneOwnerPerUpload, At
<1> QED
  BY <1>1, <1>2, <1>3, <1>4 DEF PathInv

(***************************************************************************)
(* Two jobs never own the same stored upload, whatever paths their bodies  *)
(* name and in whatever order the assets are inserted.                     *)
(***************************************************************************)
THEOREM UploadHasOneOwner == Spec => []OneOwnerPerUpload
<1>1. PathInv => OneOwnerPerUpload
  BY DEF PathInv
<1> QED
  BY <1>1, InitPathInv, StepPathInv, PTL DEF Spec

-----------------------------------------------------------------------------
(* The dispatch of a job's first task.                                     *)

\* Nothing is published for a request before its dispatch, and what is stays.
MessageInv ==
  /\ TypeInv
  /\ \A r \in Requests :
       /\ messages[r] = 0 \/ (messages[r] = 1 /\ r \in jobs /\ At(r, "done"))
       /\ At(r, "committed") => r \in jobs
       /\ r \in jobs => messages[r] = 1 \/ At(r, "committed") \/ faults > 0
       /\ r \in jobs => At(r, "committed") \/ At(r, "done")

LEMMA InitMessageInv == Init => MessageInv
BY InitTypeInv, InitFields DEF MessageInv, At

LEMMA StepMessageInv == MessageInv /\ [Next]_vars => MessageInv'
<1> SUFFICES ASSUME MessageInv, [Next]_vars PROVE MessageInv'
  OBVIOUS
<1> DEFINE Sent(r) ==
             /\ messages[r] = 0 \/ (messages[r] = 1 /\ r \in jobs /\ At(r, "done"))
             /\ At(r, "committed") => r \in jobs
             /\ r \in jobs => messages[r] = 1 \/ At(r, "committed") \/ faults > 0
             /\ r \in jobs => At(r, "committed") \/ At(r, "done")
<1>1. TypeInv' /\ TypeOK /\ TypeOK' /\ \A r \in Requests : Sent(r)
  BY StepTypeInv DEF MessageInv, TypeInv
<1>2. (\E r \in Requests : Moves(r)) \/ Passes \/ Rests
  BY NextMoves DEF MessageInv, TypeInv
<1>3. faults \in Nat /\ faults' \in Nat /\ messages \in [Requests -> Nat]
  BY <1>1, LimitsAssumption DEF TypeOK
<1>4. ASSUME NEW r \in Requests, Moves(r), NEW q \in Requests
      PROVE  Sent(q)'
  <2>1. Only(r) /\ faults' >= faults
    BY <1>3, <1>4 DEF Moves, Admits, Replays, Advances, Inserts, Flushes, Commits, Dispatches, Ends
  <2>2. CASE q # r
    <3>1. request'[q] = request[q] /\ messages'[q] = messages[q] /\ (q \in jobs' <=> q \in jobs)
      BY <1>3, <1>4, <2>1, <2>2
      DEF Only, Moves, Admits, Replays, Advances, Inserts, Flushes, Commits, Dispatches, Ends
    <3> QED
      BY <1>1, <1>3, <2>1, <3>1 DEF At
  <2>3. CASE q = r
    BY <1>1, <1>3, <1>4, <2>3
    DEF Moves, Admits, Replays, Advances, Inserts, Flushes, Commits, Dispatches, Ends, At,
        HasAssetLeft, Early, Open
  <2> QED
    BY <2>2, <2>3
<1>5. ASSUME Passes \/ Rests, NEW q \in Requests
      PROVE  Sent(q)'
  <2>1. request'[q].pc = request[q].pc /\ UNCHANGED <<jobs, messages, faults>>
    BY <1>5 DEF Passes, Rests
  <2> QED
    BY <1>1, <2>1 DEF At
<1> HIDE DEF Sent
<1>6. \A q \in Requests : Sent(q)'
  BY <1>2, <1>4, <1>5
<1> QED
  BY <1>1, <1>6 DEF MessageInv, Sent

(***************************************************************************)
(* The first task of a job is published at most once, only for a committed *)
(* job, and it is missing only before its creator's dispatch or after a    *)
(* fault: neither replays nor lost races publish.                          *)
(***************************************************************************)
THEOREM DispatchesOnce == Spec => []DispatchedOnce
<1>1. MessageInv => DispatchedOnce
  BY DEF MessageInv, DispatchedOnce
<1> QED
  BY <1>1, InitMessageInv, StepMessageInv, PTL DEF Spec

-----------------------------------------------------------------------------
(***************************************************************************)
(* The quota.  A request that passed the count today will perhaps add a    *)
(* job to today; together with the jobs of today these requests are never  *)
(* more than the quota and the sessions of the API allow.                  *)
(***************************************************************************)
Passing ==
  {r \in Requests : request[r].pc \in {"validating", "inserting", "inserted"}
                      /\ request[r].begun_today}

QuotaInv ==
  /\ TypeInv
  /\ Cardinality(OpenRequests) <= MaxOpen
  /\ Cardinality(today \union Passing) <= DailyQuota + MaxOpen - 1

LEMMA SmallerSet ==
  ASSUME NEW S \in SUBSET Requests, NEW T \in SUBSET S
  PROVE  Cardinality(T) <= Cardinality(S) /\ Cardinality(S) \in Nat /\ Cardinality(T) \in Nat
<1>1. IsFiniteSet(S)
  BY RequestsAssumption, FS_Subset
<1> QED
  BY <1>1, FS_Subset, FS_CardinalityType

LEMMA InitQuotaInv == Init => QuotaInv
<1> SUFFICES ASSUME Init PROVE QuotaInv
  OBVIOUS
<1>1. OpenRequests = {} /\ today = {} /\ Passing = {}
  BY InitFields DEF OpenRequests, Passing, Open
<1>2. Cardinality({}) = 0
  BY FS_EmptySet
<1> QED
  BY <1>1, <1>2, InitTypeInv, LimitsAssumption DEF QuotaInv

LEMMA StepQuotaInv == QuotaInv /\ [Next]_vars => QuotaInv'
<1> SUFFICES ASSUME QuotaInv, [Next]_vars PROVE QuotaInv'
  OBVIOUS
<1> USE LimitsAssumption
<1>1. /\ TypeInv' /\ TypeOK /\ TypeOK' /\ today \subseteq Requests
      /\ Cardinality(OpenRequests) <= MaxOpen
      /\ Cardinality(today \union Passing) <= DailyQuota + MaxOpen - 1
  BY StepTypeInv DEF QuotaInv, TypeInv, TypeOK
<1>2. (\E r \in Requests : Moves(r)) \/ Passes \/ Rests
  BY NextMoves DEF QuotaInv, TypeInv
<1>3. /\ OpenRequests \in SUBSET Requests /\ Passing \in SUBSET OpenRequests
      /\ today \union Passing \in SUBSET Requests
      /\ OpenRequests' \in SUBSET Requests /\ Passing' \in SUBSET Requests
  BY <1>1 DEF OpenRequests, Passing, Open
<1>4. ASSUME OpenRequests' \subseteq OpenRequests
      PROVE  Cardinality(OpenRequests') <= MaxOpen
  BY <1>1, <1>3, <1>4, SmallerSet
<1>5. ASSUME today' \union Passing' \subseteq today \union Passing
      PROVE  Cardinality(today' \union Passing') <= DailyQuota + MaxOpen - 1
  BY <1>1, <1>3, <1>5, SmallerSet
<1>6. ASSUME NEW r \in Requests, Moves(r)
      PROVE  QuotaInv'
  <2>1. Only(r)
    BY <1>6 DEF Moves, Admits, Replays, Advances, Inserts, Flushes, Commits, Dispatches, Ends
  <2>2. \A q \in Requests \ {r} :
          (q \in OpenRequests' <=> q \in OpenRequests) /\ (q \in Passing' <=> q \in Passing)
    BY <2>1 DEF Only, OpenRequests, Passing
  <2>3. Cardinality(OpenRequests') <= MaxOpen
    <3>1. CASE Admits(r)
      <4>1. /\ OpenRequests' \in SUBSET (OpenRequests \union {r})
            /\ OpenRequests \union {r} \in SUBSET Requests
        BY <1>3, <2>2
      <4>2. IsFiniteSet(OpenRequests) /\ Cardinality(OpenRequests) \in Nat
        BY <1>3, RequestsAssumption, FS_Subset, FS_CardinalityType
      <4>3. /\ IsFiniteSet(OpenRequests \union {r})
            /\ Cardinality(OpenRequests \union {r}) <= Cardinality(OpenRequests) + 1
        <5>1. /\ IsFiniteSet(OpenRequests \union {r})
              /\ Cardinality(OpenRequests \union {r})
                   = IF r \in OpenRequests THEN Cardinality(OpenRequests)
                     ELSE Cardinality(OpenRequests) + 1
          BY <4>2, FS_AddElement
        <5> QED
          BY <4>2, <5>1
      <4>4. Cardinality(OpenRequests') <= Cardinality(OpenRequests \union {r})
        BY <4>1, SmallerSet
      <4>5. Cardinality(OpenRequests') \in Nat /\ Cardinality(OpenRequests \union {r}) \in Nat
        BY <1>3, <4>3, SmallerSet, FS_CardinalityType
      <4> QED
        BY <3>1, <4>2, <4>3, <4>4, <4>5 DEF Admits
    <3>2. CASE ~Admits(r)
      <4>1. r \in OpenRequests' => r \in OpenRequests
        BY <1>6, <3>2
        DEF Moves, Replays, Advances, Inserts, Flushes, Commits, Dispatches, Ends,
            OpenRequests, HasAssetLeft, At, Open, Early
      <4> QED
        BY <1>3, <1>4, <2>2, <4>1
    <3> QED
      BY <3>1, <3>2
  <2>4. Cardinality(today' \union Passing') <= DailyQuota + MaxOpen - 1
    <3>1. CASE At(r, "validating")' /\ Advances(r)
      <4>1. /\ today' = today /\ Passing' \in SUBSET OpenRequests'
            /\ Cardinality(today) < DailyQuota
        BY <3>1 DEF Advances, At, Passing, OpenRequests, Open
      <4>2. IsFiniteSet(today) /\ IsFiniteSet(Passing') /\ Cardinality(Passing') <= MaxOpen
        <5>1. Cardinality(Passing') <= Cardinality(OpenRequests')
          BY <1>3, <4>1, SmallerSet
        <5>2. Cardinality(Passing') \in Nat /\ Cardinality(OpenRequests') \in Nat
          BY <1>3, <4>1, SmallerSet
        <5>3. IsFiniteSet(today) /\ IsFiniteSet(Passing')
          BY <1>1, <1>3, <4>1, RequestsAssumption, FS_Subset
        <5> QED
          BY <2>3, <5>1, <5>2, <5>3
      <4>3. Cardinality(today \union Passing') <= Cardinality(today) + Cardinality(Passing')
        <5>1. IsFiniteSet(today \intersect Passing')
          BY <4>2, FS_Intersection
        <5>2. Cardinality(today \intersect Passing') \in Nat
          BY <5>1, FS_CardinalityType
        <5>3. Cardinality(today) \in Nat /\ Cardinality(Passing') \in Nat
          BY <4>2, FS_CardinalityType
        <5>4. Cardinality(today \union Passing')
                = Cardinality(today) + Cardinality(Passing') - Cardinality(today \intersect Passing')
          BY <4>2, FS_Union
        <5> QED
          BY <5>2, <5>3, <5>4
      <4>4. /\ Cardinality(today) \in Nat /\ Cardinality(Passing') \in Nat
            /\ Cardinality(today \union Passing') \in Nat
        BY <4>2, FS_CardinalityType, FS_Union
      <4> QED
        BY <4>1, <4>2, <4>3, <4>4
    <3>2. CASE ~(At(r, "validating")' /\ Advances(r))
      <4>1. today' \subseteq today \union {r}
        BY <1>6
        DEF Moves, Admits, Replays, Advances, Inserts, Flushes, Commits, Dispatches, Ends
      <4>2. r \in today' \union Passing' => r \in today \union Passing
        BY <1>6, <3>2
        DEF Moves, Admits, Replays, Advances, Inserts, Flushes, Commits, Dispatches, Ends,
            Passing, KeepsAsked, HasAssetLeft, At, Early
      <4>3. ASSUME NEW q \in today' \union Passing'
            PROVE  q \in today \union Passing
        BY <1>3, <2>2, <4>1, <4>2
      <4> QED
        BY <1>5, <4>3
    <3> QED
      BY <3>1, <3>2
  <2> QED
    BY <1>1, <2>3, <2>4 DEF QuotaInv
<1>7. CASE Passes
  <2>1. OpenRequests' = OpenRequests /\ today' = {} /\ Passing' = {}
    BY <1>7 DEF Passes, OpenRequests, Passing
  <2>2. Cardinality(today' \union Passing') = 0
    BY <2>1, FS_EmptySet
  <2> QED
    BY <1>1, <2>1, <2>2 DEF QuotaInv
<1>8. CASE Rests
  <2>1. OpenRequests' = OpenRequests /\ today' = today /\ Passing' = Passing
    BY <1>8 DEF Rests, OpenRequests, Passing
  <2> QED
    BY <1>1, <2>1 DEF QuotaInv
<1> QED
  BY <1>2, <1>6, <1>7, <1>8

(***************************************************************************)
(* The daily quota, counted before the job exists, is exceeded by less     *)
(* than the number of requests the API serves at a time.                   *)
(***************************************************************************)
THEOREM QuotaHoldsButForRaces == Spec => []QuotaOvershoot
<1>1. QuotaInv => QuotaOvershoot
  <2> SUFFICES ASSUME QuotaInv PROVE QuotaOvershoot
    OBVIOUS
  <2>1. today \union Passing \in SUBSET Requests /\ today \in SUBSET (today \union Passing)
    BY DEF QuotaInv, TypeInv, TypeOK, Passing
  <2>2. /\ Cardinality(today) <= Cardinality(today \union Passing)
        /\ Cardinality(today) \in Nat /\ Cardinality(today \union Passing) \in Nat
    BY <2>1, SmallerSet
  <2> QED
    BY <2>2, LimitsAssumption DEF QuotaInv, QuotaOvershoot
<1> QED
  BY <1>1, InitQuotaInv, StepQuotaInv, PTL DEF Spec

-----------------------------------------------------------------------------
(***************************************************************************)
(* Answers.  An accepted answer names a committed job of the request's key *)
(* and of a body with its hash; of a request that is not done nothing is   *)
(* told.                                                                   *)
(***************************************************************************)
AnswersNameJobs ==
  \A r \in Requests : request[r].code = "accepted" =>
    /\ At(r, "done") /\ request[r].job \in jobs
    /\ request[request[r].job].key = request[r].key
    /\ hash(request[r].job) = hash(r)

AnswerInv == KeyInv /\ MessageInv /\ AnswersNameJobs

LEMMA InitAnswerInv == Init => AnswerInv
BY InitKeyInv, InitMessageInv, InitFields DEF AnswerInv, AnswersNameJobs

LEMMA StepAnswerInv == AnswerInv /\ [Next]_vars => AnswerInv'
<1> SUFFICES ASSUME AnswerInv, [Next]_vars PROVE AnswerInv'
  OBVIOUS
<1>1. /\ KeyInv' /\ MessageInv' /\ TypeOK /\ TypeOK'
      /\ MessageInv /\ JobsAreBehind /\ AnswersNameJobs /\ jobs \subseteq Requests
  BY StepKeyInv, StepMessageInv DEF AnswerInv, KeyInv, TypeInv, TypeOK
<1>2. (\E r \in Requests : Moves(r)) \/ Passes \/ Rests
  BY NextMoves DEF AnswerInv, KeyInv, TypeInv
<1>3. ASSUME NEW r \in Requests, Moves(r), NEW q \in Requests, request'[q].code = "accepted"
      PROVE  /\ At(q, "done")' /\ request'[q].job \in jobs'
             /\ request'[request'[q].job].key = request'[q].key
             /\ payload_hash(request'[request'[q].job].body) = payload_hash(request'[q].body)
  <2>1. Only(r) /\ jobs \subseteq jobs'
    BY <1>3 DEF Moves, Admits, Replays, Advances, Inserts, Flushes, Commits, Dispatches, Ends
  <2>2. \A j \in jobs : request'[j].key = request[j].key /\ request'[j].body = request[j].body
    BY <1>1, <1>3, JobsAreFixed
  <2>3. CASE q # r
    BY <1>1, <1>3, <2>1, <2>2, <2>3 DEF Only, AnswersNameJobs, hash, At
  <2>4. CASE q = r
    <3>1. CASE Replays(r)
      BY <1>3, <2>1, <2>2, <2>4, <3>1 DEF Replays, At
    <3>2. CASE Dispatches(r)
      BY <1>1, <1>3, <2>1, <2>4, <3>2 DEF Dispatches, MessageInv, At
    <3>3. CASE ~Replays(r) /\ ~Dispatches(r)
      <4>1. request[r].code = "accepted" /\ ~At(r, "done")
        BY <1>3, <2>4, <3>3
        DEF Moves, Admits, Advances, Inserts, Flushes, Commits, Ends, KeepsOutcome,
            HasAssetLeft, At, Early
      <4> QED
        BY <1>1, <4>1 DEF AnswersNameJobs, hash
    <3> QED
      BY <3>1, <3>2, <3>3
  <2> QED
    BY <2>3, <2>4
<1>4. ASSUME Passes \/ Rests
      PROVE  AnswersNameJobs'
  <2>1. /\ jobs' = jobs
        /\ \A q \in Requests :
             /\ request'[q].pc = request[q].pc /\ request'[q].key = request[q].key
             /\ request'[q].body = request[q].body /\ request'[q].code = request[q].code
             /\ request'[q].job = request[q].job
    BY <1>4 DEF Passes, Rests, KeepsOutcome
  <2> QED
    BY <1>1, <2>1 DEF AnswersNameJobs, hash, At
<1> QED
  BY <1>1, <1>2, <1>3, <1>4 DEF AnswerInv, AnswersNameJobs, hash

(***************************************************************************)
(* The plan an answer is given and the rows a job is given are made by     *)
(* different functions of job_service.py; of one body they agree.          *)
(***************************************************************************)
Asked(plan) == {i \in DOMAIN plan : plan[i] # "SKIPPED"}

LEMMA PlanOfPendingRows ==
  ASSUME NEW n \in Nat
  PROVE  Cardinality(Asked(PendingRows(n))) = n
<1>1. Asked(PendingRows(n)) = 1..n
  BY DEF Asked, PendingRows
<1> QED
  BY <1>1, FS_Interval

LEMMA PlanOfAngles ==
  ASSUME NEW body
  PROVE  /\ resolve_angle_plan(body) = create_job_for_request(body).sub_jobs
         /\ Cardinality(Asked(resolve_angle_plan(body))) = create_job_for_request(body).requested
<1>1. Asked(resolve_angle_plan(body)) = Requested(body)
  BY DEF Asked, resolve_angle_plan, Requested
<1> QED
  BY <1>1 DEF resolve_angle_plan, create_job_for_request

\* The plan of a body lists the rows of the job it would create.
LEMMA PlansAreRows ==
  ASSUME NEW body, IsBody(body)
  PROVE  /\ Cardinality(Asked(build_accepted_response(body))) = NewJob(body).requested
         /\ body.operation # "GENERATE_WITH_CLEANUP"
              => build_accepted_response(body) = NewJob(body).sub_jobs
<1> DEFINE plan == build_accepted_response(body)
           job == NewJob(body)
<1>2. body.variants \in Nat /\ Len(body.angles) \in Nat
  BY DEF IsBody, IsList
<1>3. CASE body.operation = "ANGLE_GENERATION"
  <2>1. plan = resolve_angle_plan(body) /\ job = create_job_for_request(body)
    BY <1>3 DEF build_accepted_response, NewJob
  <2> QED
    BY <2>1, PlanOfAngles
<1>4. CASE body.operation = "MATCH"
  <2>1. plan = PendingRows(body.variants) /\ job = create_match_job_for_request(body)
    BY <1>4 DEF build_accepted_response, NewJob
  <2>2. job.sub_jobs = PendingRows(body.variants) /\ job.requested = body.variants
    BY <2>1 DEF create_match_job_for_request
  <2> QED
    BY <1>2, <2>1, <2>2, PlanOfPendingRows
<1>5. CASE body.operation = "GENERATE_WITH_CLEANUP"
  <2>1. /\ plan = PendingRows(Len(body.angles))
        /\ job = create_generate_with_cleanup_job_for_request(body)
    BY <1>5 DEF build_accepted_response, NewJob
  <2>2. job.requested = Len(body.angles)
    BY <2>1 DEF create_generate_with_cleanup_job_for_request
  <2> QED
    BY <1>2, <1>5, <2>1, <2>2, PlanOfPendingRows
<1>6. CASE body.operation \in {"RECOLOR", "MIX", "BACKGROUND_REMOVAL", "BACKGROUND_REPLACEMENT"}
  <2>1. plan = PendingRows(1)
    BY <1>6 DEF build_accepted_response
  <2>2. job.sub_jobs = PendingRows(1) /\ job.requested = 1
    BY <1>6 DEF NewJob, create_recolor_job_for_request, create_mix_job_for_request,
       create_background_job_for_request
  <2> QED
    BY <2>1, <2>2, PlanOfPendingRows
<1> QED
  BY <1>3, <1>4, <1>5, <1>6 DEF IsBody

\* What two bodies of one hash have in common.
LEMMA SameHash ==
  ASSUME NEW a, NEW b, IsBody(a), IsBody(b), payload_hash(a) = payload_hash(b)
  PROVE  /\ a.operation = b.operation /\ a.variants = b.variants
         /\ a.operation = "ANGLE_GENERATION" =>
              {a.angles[i] : i \in DOMAIN a.angles} = {b.angles[i] : i \in DOMAIN b.angles}
         /\ a.operation # "ANGLE_GENERATION" => Len(a.angles) = Len(b.angles)
<1> DEFINE place(i)  == IF a.operation = "ANGLE_GENERATION" THEN 0 ELSE i
           placed(x) == {<<place(i), x.angles[i]>> : i \in DOMAIN x.angles}
<1>1. a.operation = b.operation /\ a.variants = b.variants
  BY DEF payload_hash
<1>2. /\ \A i \in DOMAIN a.angles : \E j \in DOMAIN b.angles :
           <<place(i), a.angles[i]>> = <<place(j), b.angles[j]>>
      /\ \A j \in DOMAIN b.angles : \E i \in DOMAIN a.angles :
           <<place(i), a.angles[i]>> = <<place(j), b.angles[j]>>
  <2>1. placed(a) = placed(b)
    BY <1>1 DEF payload_hash
  <2> HIDE DEF place
  <2>2. /\ \A i \in DOMAIN a.angles : <<place(i), a.angles[i]>> \in placed(b)
        /\ \A j \in DOMAIN b.angles : <<place(j), b.angles[j]>> \in placed(a)
    BY <2>1
  <2> QED
    BY <2>2
<1>3. ASSUME a.operation = "ANGLE_GENERATION"
      PROVE  {a.angles[i] : i \in DOMAIN a.angles} = {b.angles[i] : i \in DOMAIN b.angles}
  <2>1. \A i \in DOMAIN a.angles : \E j \in DOMAIN b.angles : a.angles[i] = b.angles[j]
    BY <1>2, <1>3
  <2>2. \A j \in DOMAIN b.angles : \E i \in DOMAIN a.angles : a.angles[i] = b.angles[j]
    BY <1>2, <1>3
  <2> QED
    BY <2>1, <2>2
<1>4. ASSUME a.operation # "ANGLE_GENERATION"
      PROVE  Len(a.angles) = Len(b.angles)
  <2>1. \A i \in DOMAIN a.angles : i \in DOMAIN b.angles
    BY <1>2, <1>4
  <2>2. \A i \in DOMAIN b.angles : i \in DOMAIN a.angles
    BY <1>2, <1>4
  <2>3. /\ DOMAIN a.angles = 1..Len(a.angles) /\ Len(a.angles) \in Nat
        /\ DOMAIN b.angles = 1..Len(b.angles) /\ Len(b.angles) \in Nat
    BY DEF IsBody, IsList
  <2>4. 1..Len(a.angles) = 1..Len(b.angles)
    BY <2>1, <2>2, <2>3
  <2> QED
    BY <2>3, <2>4
<1> QED
  BY <1>1, <1>3, <1>4

\* Two bodies with the same angles, each once, ask for as many of them.
LEMMA SameRequested ==
  ASSUME NEW a, NEW b, IsList(a.angles), IsList(b.angles), AnglesDiffer(a), AnglesDiffer(b),
         {a.angles[i] : i \in DOMAIN a.angles} = {b.angles[i] : i \in DOMAIN b.angles}
  PROVE  Cardinality(Requested(a)) = Cardinality(Requested(b))
<1> DEFINE f == [i \in Requested(a) |->
                   CHOOSE j \in DOMAIN b.angles : b.angles[j] = a.angles[i]]
<1>1. \A i \in Requested(a) : f[i] \in DOMAIN b.angles /\ b.angles[f[i]] = a.angles[i]
  <2>1. \A i \in Requested(a) : \E j \in DOMAIN b.angles : b.angles[j] = a.angles[i]
    BY DEF Requested
  <2> QED
    BY <2>1
<1>2. f \in [Requested(a) -> Requested(b)]
  BY <1>1 DEF Requested
<1> HIDE DEF f
<1>3. \A i, k \in Requested(a) : f[i] = f[k] => i = k
  <2>1. \A i, k \in Requested(a) : f[i] = f[k] => a.angles[i] = a.angles[k]
    BY <1>1
  <2> QED
    BY <2>1 DEF AnglesDiffer, Requested
<1>4. ASSUME NEW j \in Requested(b)
      PROVE  \E i \in Requested(a) : f[i] = j
  <2>1. PICK i \in Requested(a) : a.angles[i] = b.angles[j]
    BY DEF Requested
  <2>2. f[i] \in DOMAIN b.angles /\ j \in DOMAIN b.angles /\ b.angles[f[i]] = b.angles[j]
    BY <1>1, <2>1 DEF Requested
  <2>3. ASSUME NEW x \in DOMAIN b.angles, b.angles[x] = b.angles[j]
        PROVE  x = j
    BY <2>2, <2>3 DEF AnglesDiffer
  <2>4. f[i] = j
    BY <2>2, <2>3
  <2> QED
    BY <2>4
<1>5. f \in Bijection(Requested(a), Requested(b))
  BY <1>2, <1>3, <1>4 DEF Bijection, Injection, Surjection, IsInjective
<1>6. IsFiniteSet(Requested(a))
  <2>1. Requested(a) \subseteq 1..Len(a.angles) /\ Len(a.angles) \in Nat
    BY DEF Requested, IsList
  <2>2. IsFiniteSet(1..Len(a.angles))
    BY <2>1, FS_Interval
  <2> QED
    BY <2>1, <2>2, FS_Subset
<1> QED
  BY <1>5, <1>6, FS_Bijection DEF ExistsBijection

\* /generate takes its angles as the keys of an object.
LEMMA AnglesOfGenerate ==
  ASSUME NEW a, IsBody(a), a.operation = "ANGLE_GENERATION"
  PROVE  AnglesDiffer(a) /\ IsList(a.angles)
BY DEF IsBody

LEMMA PlansDescribeRows ==
  ASSUME NEW a, NEW b, IsBody(a), IsBody(b), payload_hash(a) = payload_hash(b)
  PROVE  PlanDescribes(a, b)
<1> DEFINE plan == build_accepted_response(a)
<1>1. /\ a.operation = b.operation /\ a.variants = b.variants
      /\ a.operation = "ANGLE_GENERATION" =>
           {a.angles[i] : i \in DOMAIN a.angles} = {b.angles[i] : i \in DOMAIN b.angles}
      /\ a.operation # "ANGLE_GENERATION" => Len(a.angles) = Len(b.angles)
  BY SameHash
<1>2. Cardinality(Asked(plan)) = NewJob(a).requested
  BY PlansAreRows
<1>3. a.operation # "GENERATE_WITH_CLEANUP" => plan = NewJob(a).sub_jobs
  BY PlansAreRows
<1>4. CASE a.operation = "ANGLE_GENERATION"
  <2>1. /\ NewJob(a) = create_job_for_request(a) /\ NewJob(b) = create_job_for_request(b)
    BY <1>1, <1>4 DEF NewJob
  <2>2. NewJob(a).requested = NewJob(b).requested
    <3>1. AnglesDiffer(a) /\ AnglesDiffer(b) /\ IsList(a.angles) /\ IsList(b.angles)
      BY <1>1, <1>4, AnglesOfGenerate
    <3>2. Cardinality(Requested(a)) = Cardinality(Requested(b))
      BY <1>1, <1>4, <3>1, SameRequested
    <3> QED
      BY <2>1, <3>2 DEF create_job_for_request
  <2>3. Listed(a, NewJob(a).sub_jobs) = Listed(b, NewJob(b).sub_jobs)
    <3> DEFINE status(x) == IF x.mode = "skipped" THEN "SKIPPED" ELSE "PENDING"
               rows(x)   == {<<x.angles[i].angle, status(x.angles[i])>> : i \in DOMAIN x.angles}
    <3>1. Listed(a, NewJob(a).sub_jobs) = rows(a)
      BY <1>4, <2>1 DEF Listed, create_job_for_request
    <3>2. Listed(b, NewJob(b).sub_jobs) = rows(b)
      BY <1>1, <1>4, <2>1 DEF Listed, create_job_for_request
    <3>3. \A i \in DOMAIN a.angles : \E j \in DOMAIN b.angles : a.angles[i] = b.angles[j]
      BY <1>1, <1>4
    <3>4. \A j \in DOMAIN b.angles : \E i \in DOMAIN a.angles : a.angles[i] = b.angles[j]
      BY <1>1, <1>4
    <3>5. rows(a) = rows(b)
      BY <3>3, <3>4
    <3> QED
      BY <3>1, <3>2, <3>5
  <2> QED
    BY <1>1, <1>2, <1>3, <1>4, <2>2, <2>3 DEF PlanDescribes, Asked
<1>5. CASE a.operation # "ANGLE_GENERATION"
  <2>1. NewJob(a).requested = NewJob(b).requested
    BY <1>1, <1>5 DEF NewJob, create_match_job_for_request, create_recolor_job_for_request,
       create_mix_job_for_request, create_background_job_for_request,
       create_generate_with_cleanup_job_for_request
  <2>2. NewJob(a).sub_jobs = NewJob(b).sub_jobs
    BY <1>1, <1>5 DEF NewJob, create_match_job_for_request, create_recolor_job_for_request,
       create_mix_job_for_request, create_background_job_for_request,
       create_generate_with_cleanup_job_for_request
  <2>3. Listed(a, plan) = Listed(b, plan)
    BY <1>1, <1>5 DEF Listed
  <2> QED
    BY <1>1, <1>2, <1>3, <2>1, <2>2, <2>3 DEF PlanDescribes, Asked
<1> QED
  BY <1>4, <1>5

(***************************************************************************)
(* An accepted answer describes the job it names: the plan is made from    *)
(* the body of the request at hand (build_accepted_response), the rows     *)
(* from that of whichever request won the key (create_*_job_for_request),  *)
(* and the payload hash keeps the two bodies equal but for the order of    *)
(* the angles.                                                             *)
(***************************************************************************)
THEOREM AnswersDescribeJobs == Spec => []AnswerDescribesJob
<1>1. AnswerInv => AnswerDescribesJob
  <2> SUFFICES ASSUME AnswerInv, NEW r \in Requests, request[r].code = "accepted"
               PROVE  LET job == request[request[r].job]
                      IN  job.key = request[r].key /\ PlanDescribes(request[r].body, job.body)
    BY DEF AnswerDescribesJob
  <2> DEFINE job == request[request[r].job]
  <2>1. request[r].job \in Requests /\ request[r].body \in Bodies /\ job.body \in Bodies
    BY RequestFields DEF AnswerInv, KeyInv, TypeInv
  <2>2. job.key = request[r].key /\ payload_hash(request[r].body) = payload_hash(job.body)
    BY DEF AnswerInv, AnswersNameJobs, hash
  <2>3. PlanDescribes(request[r].body, job.body)
    BY <2>1, <2>2, BodiesAssumption, PlansDescribeRows
  <2> QED
    BY <2>2, <2>3
<1> QED
  BY <1>1, InitAnswerInv, StepAnswerInv, PTL DEF Spec

-----------------------------------------------------------------------------
(***************************************************************************)
(* Waiting.  The database ends a transaction only where every member of a  *)
(* set waits and the set is exactly what its members wait for (InCycle).   *)
(* That misses no deadlock: of the sets within which requests wait for     *)
(* each other, one with the fewest members is such a set.                  *)
(***************************************************************************)
LEMMA LeastNumber ==
  ASSUME NEW N \in SUBSET Nat, N # {}
  PROVE  \E n \in N : \A m \in N : ~(m < n)
<1>1. IsWellFoundedOn(OpToRel(<, Nat), Nat)
  BY NatLessThanWellFounded
<1>2. \E n \in N : \A m \in N : <<m, n>> \notin OpToRel(<, Nat)
  BY <1>1, WFMin
<1> QED
  BY <1>2 DEF OpToRel

\* The members of S wait for members of S only, and all of them wait.
Stuck(S) ==
  /\ S # {}
  /\ UNION {WaitsFor(r) : r \in S} \subseteq S
  /\ \A r \in S : WaitsFor(r) # {}

\* What the members of a stuck set wait for is a stuck set again.
LEMMA HoldersAreStuck ==
  ASSUME NEW S, Stuck(S)
  PROVE  Stuck(UNION {WaitsFor(r) : r \in S})
<1> DEFINE T == UNION {WaitsFor(r) : r \in S}
<1>1. T # {} /\ T \subseteq S
  BY DEF Stuck
<1>2. \A r \in T : WaitsFor(r) # {} /\ WaitsFor(r) \subseteq T
  BY <1>1 DEF Stuck
<1> QED
  BY <1>1, <1>2 DEF Stuck

LEMMA StuckSetHasCycle ==
  ASSUME NEW S \in SUBSET OpenRequests, Stuck(S)
  PROVE  \E r \in S : InCycle(r)
<1> DEFINE sets == {T \in SUBSET S : Stuck(T)}
           sizes == {Cardinality(T) : T \in sets}
<1>1. IsFiniteSet(S)
  BY RequestsAssumption, FS_Subset DEF OpenRequests
<1>2. \A T \in SUBSET S : IsFiniteSet(T) /\ Cardinality(T) \in Nat
  BY <1>1, FS_Subset, FS_CardinalityType
<1>3. PICK n \in sizes : \A m \in sizes : ~(m < n)
  <2>1. S \in sets
    OBVIOUS
  <2>2. sizes \in SUBSET Nat /\ sizes # {}
    BY <1>2, <2>1
  <2> HIDE DEF sizes
  <2> QED
    BY <2>2, LeastNumber
<1>4. PICK T \in sets : Cardinality(T) = n
  OBVIOUS
<1> DEFINE U == UNION {WaitsFor(r) : r \in T}
<1>5. U \subseteq T /\ U \in sets
  BY <1>4, HoldersAreStuck DEF Stuck
<1>6. U = T
  <2>1. Cardinality(U) \in sizes /\ ~(Cardinality(U) < Cardinality(T))
    BY <1>3, <1>4, <1>5
  <2>2. U # T => Cardinality(U) < Cardinality(T)
    BY <1>2, <1>5, FS_Subset
  <2> QED
    BY <2>1, <2>2
<1>7. \A r \in T : InCycle(r)
  <2>1. T \in SUBSET OpenRequests /\ \A x \in T : WaitsFor(x) # {}
    BY <1>4 DEF Stuck
  <2> QED
    BY <1>6, <2>1 DEF InCycle
<1> QED
  BY <1>4, <1>7 DEF Stuck

\* What the guards of the steps in Serve ask of an open request.
Ready(r) ==
  \/ request[r].pc \in {"admitting", "counting", "validating", "raced", "committed"}
  \/ At(r, "inserting") /\ HoldersOfKey(r) = {}
  \/ HasAssetLeft(r) /\ HoldersOfPath(r) = {}
  \/ At(r, "inserted") /\ ~HasAssetLeft(r)

(***************************************************************************)
(* Of requests that wait only for one another (flush_job and flush_asset   *)
(* take several index entries one by one), one can go on, or the database  *)
(* finds it in a cycle and ends it.  This is WaitingEnds with ENABLED      *)
(* replaced by the guards of the steps.                                    *)
(***************************************************************************)
WaitersAreReleased ==
  \A S \in SUBSET OpenRequests :
    S # {} /\ UNION {WaitsFor(r) : r \in S} \subseteq S
      => \E r \in S : Ready(r) \/ InCycle(r)

THEOREM WaitingIsResolved == Spec => []WaitersAreReleased
<1>1. ASSUME NEW r \in OpenRequests, WaitsFor(r) = {}
      PROVE  Ready(r)
  BY <1>1 DEF OpenRequests, Open, WaitsFor, Ready, At, HasAssetLeft
<1>2. WaitersAreReleased
  <2> SUFFICES ASSUME NEW S \in SUBSET OpenRequests, S # {},
                      UNION {WaitsFor(r) : r \in S} \subseteq S
               PROVE  \E r \in S : Ready(r) \/ InCycle(r)
    BY DEF WaitersAreReleased
  <2>1. CASE \E r \in S : WaitsFor(r) = {}
    BY <1>1, <2>1
  <2>2. CASE \A r \in S : WaitsFor(r) # {}
    BY <2>2, StuckSetHasCycle DEF Stuck
  <2> QED
    BY <2>1, <2>2
<1> QED
  BY <1>2, PTL

-----------------------------------------------------------------------------
(***************************************************************************)
(* The requests implement IdempotentCreation: a receive is its Arrive, a   *)
(* COMMIT its Create, the end of a request that waited its Answer, and     *)
(* every other step a stutter.                                             *)
(***************************************************************************)
AnswerOf(r) ==
  LET sent == [key |-> request[r].key, body |-> hash(r), code |-> request[r].code]
  IN  IF At(r, "new") THEN [code |-> "unsent"]
      ELSE IF ~At(r, "done") THEN [key |-> sent.key, body |-> sent.body, code |-> "waiting"]
      ELSE IF request[r].code = "accepted"
           THEN [key |-> sent.key, body |-> sent.body, code |-> "accepted",
                 job |-> request[r].job]
           ELSE sent

Creation(j) == [key |-> request[j].key, body |-> hash(j), job |-> j]

LEMMA Mapped ==
  /\ answer = [r \in Requests |-> AnswerOf(r)]
  /\ created = {Creation(j) : j \in jobs}
BY DEF answer, AnswerOf, created, Creation

LEMMA MappedAfter ==
  /\ answer' = [r \in Requests |-> AnswerOf(r)']
  /\ created' = {Creation(j)' : j \in jobs'}
BY DEF answer, AnswerOf, created, Creation

LEMMA InitMaps == Init => Promise!Init
<1> SUFFICES ASSUME Init PROVE Promise!Init
  OBVIOUS
<1>1. created = {}
  BY InitFields, Mapped
<1>2. \A r \in Requests : AnswerOf(r) = [code |-> "unsent"]
  BY InitFields DEF AnswerOf, At
<1> QED
  BY <1>1, <1>2, Mapped DEF Promise!Init, Promise!Unsent

\* What is created stays so while neither jobs nor a job's request changes.
LEMMA CreatedStays ==
  ASSUME jobs' = jobs,
         \A j \in jobs : request'[j].key = request[j].key /\ request'[j].body = request[j].body
  PROVE  created' = created
<1>1. \A j \in jobs : Creation(j)' = Creation(j)
  BY DEF Creation, hash
<1> QED
  BY <1>1, Mapped, MappedAfter

\* A step that leaves every answer as it is as well is a stutter.
LEMMA AnswersStay ==
  ASSUME \A r \in Requests : AnswerOf(r)' = AnswerOf(r)
  PROVE  answer' = answer
BY Mapped, MappedAfter

\* A step of r alone changes the answer of r alone.
LEMMA OneAnswer ==
  ASSUME NEW r \in Requests, Only(r)
  PROVE  /\ answer[r] = AnswerOf(r)
         /\ answer' = [answer EXCEPT ![r] = AnswerOf(r)']
<1>1. \A q \in Requests \ {r} : AnswerOf(q)' = AnswerOf(q)
  BY DEF Only, AnswerOf, hash, At
<1> QED
  BY <1>1, Mapped, MappedAfter

\* Facts of every step of r that commits nothing.
LEMMA WithoutCommit ==
  ASSUME AnswerInv, AnswerInv', NEW r \in Requests, Moves(r), ~Commits(r)
  PROVE  /\ TypeOK /\ TypeOK' /\ JobsAreBehind /\ KeySent /\ Only(r)
         /\ jobs' = jobs /\ created' = created
         /\ \A j \in jobs :
              request'[j].key = request[j].key /\ request'[j].body = request[j].body
<1>1. /\ TypeOK /\ TypeOK' /\ JobsAreBehind /\ KeySent /\ Only(r) /\ jobs' = jobs
  BY DEF AnswerInv, KeyInv, TypeInv, Moves, Admits, Replays, Advances, Inserts, Flushes,
         Dispatches, Ends
<1>2. \A j \in jobs : request'[j].key = request[j].key /\ request'[j].body = request[j].body
  BY <1>1, JobsAreFixed
<1> QED
  BY <1>1, <1>2, CreatedStays

\* A request that is received becomes what the promise makes of one that arrives.
LEMMA ArriveStep ==
  ASSUME AnswerInv, AnswerInv', NEW r \in Requests, Admits(r) \/ Replays(r)
  PROVE  Promise!Next
<1> DEFINE key  == request'[r].key
           body == payload_hash(request'[r].body)
<1>1. At(r, "new") /\ Moves(r) /\ ~Commits(r) /\ key \in Keys
  BY DEF Admits, Replays, Moves, Commits, At
<1>2. TypeOK' /\ Only(r) /\ created' = created
  BY <1>1, WithoutCommit
<1>3. body \in {payload_hash(b) : b \in Bodies}
  BY <1>2 DEF TypeOK, Request
<1>4. answer[r] = Promise!Unsent /\ answer' = [answer EXCEPT ![r] = AnswerOf(r)']
  <2>1. AnswerOf(r) = Promise!Unsent
    BY <1>1 DEF AnswerOf, Promise!Unsent
  <2> QED
    BY <1>2, <2>1, OneAnswer
<1>5. AnswerOf(r)' \in Promise!FirstAnswers(key, body)
  <2>1. CASE Admits(r)
    <3>1. \A j \in jobs : request[j].key # key
      BY <2>1 DEF Admits, get_by_idempotency_key
    <3>2. Promise!JobsOf(key) = {}
      BY <3>1, Mapped DEF Promise!JobsOf, Creation
    <3>3. AnswerOf(r)' = [key |-> key, body |-> body, code |-> "waiting"]
      BY <2>1 DEF Admits, AnswerOf, hash, At
    <3> QED
      BY <3>2, <3>3 DEF Promise!FirstAnswers
  <2>2. CASE Replays(r)
    <3>1. PICK j \in jobs :
            /\ request[j].key = key
            /\ \/ hash(j) = body /\ request'[r].code = "accepted" /\ request'[r].job = j
               \/ hash(j) # body /\ request'[r].code = "conflict"
      BY <2>2 DEF Replays, hash
    <3>2. /\ Creation(j) \in Promise!JobsOf(key) /\ Creation(j).job = j
          /\ Creation(j).body = hash(j)
      BY <3>1, Mapped DEF Promise!JobsOf, Creation
    <3>3. request'[r].pc = "done"
      BY <2>2 DEF Replays
    <3>4. CASE hash(j) = body
      <4>1. AnswerOf(r)' = [key |-> key, body |-> body, code |-> "accepted",
                            job |-> Creation(j).job]
        BY <3>1, <3>2, <3>3, <3>4 DEF AnswerOf, hash, At
      <4> QED
        BY <3>2, <3>4, <4>1 DEF Promise!FirstAnswers
    <3>5. CASE hash(j) # body
      <4>1. AnswerOf(r)' = [key |-> key, body |-> body, code |-> "conflict"]
        BY <3>1, <3>3, <3>5 DEF AnswerOf, hash, At
      <4> QED
        BY <3>2, <3>5, <4>1 DEF Promise!FirstAnswers
    <3> QED
      BY <3>4, <3>5
  <2> QED
    BY <2>1, <2>2
<1> HIDE DEF key, body
<1>6. Promise!Arrive(r)
  BY <1>1, <1>2, <1>3, <1>4, <1>5 DEF Promise!Arrive
<1> QED
  BY <1>6 DEF Promise!Next

\* A request that waited ends with its own job, refused before it has one, or
\* in an error.
LEMMA AnswerStep ==
  ASSUME AnswerInv, AnswerInv', NEW r \in Requests, Dispatches(r) \/ Ends(r)
  PROVE  Promise!Next
<1>1. /\ Moves(r) /\ ~Commits(r) /\ KeepsAsked(r)
      /\ ~At(r, "new") /\ ~At(r, "done") /\ At(r, "done")'
  BY DEF Dispatches, Ends, Moves, Commits, Open, At
<1>2. JobsAreBehind /\ Only(r) /\ created' = created
  BY <1>1, WithoutCommit
<1> DEFINE key  == request[r].key
           body == hash(r)
<1>3. answer' = [answer EXCEPT ![r] = AnswerOf(r)']
  BY <1>2, OneAnswer
<1>4. answer[r] = [key |-> key, body |-> body, code |-> "waiting"]
  BY <1>1, <1>2, OneAnswer DEF AnswerOf
<1>5. r \in jobs <=> \E c \in created : c.job = r
  <2>1. \A j \in jobs : Creation(j) \in created /\ Creation(j).job = j
    BY Mapped DEF Creation
  <2>2. \A c \in created : \E j \in jobs : c = Creation(j)
    BY Mapped
  <2> QED
    BY <2>1, <2>2
<1>6. AnswerOf(r)' \in Promise!LastAnswers(r)
  <2>1. request'[r].key = key /\ payload_hash(request'[r].body) = body
    BY <1>1 DEF KeepsAsked, hash
  <2>2. CASE Dispatches(r)
    <3>1. r \in jobs
      BY <2>2 DEF AnswerInv, MessageInv, Dispatches
    <3>2. AnswerOf(r)' = [key |-> key, body |-> body, code |-> "accepted", job |-> r]
      BY <1>1, <2>1, <2>2 DEF Dispatches, AnswerOf, hash, At
    <3> QED
      BY <1>4, <1>5, <3>1, <3>2 DEF Promise!LastAnswers
  <2>3. CASE Ends(r)
    <3>1. AnswerOf(r)' = [key |-> key, body |-> body, code |-> request'[r].code]
      BY <1>1, <2>1, <2>3 DEF Ends, AnswerOf, hash, At
    <3>2. request'[r].code = "refused" => r \notin jobs
      BY <1>2, <2>3 DEF Ends, JobsAreBehind, At, Early
    <3> QED
      BY <1>4, <1>5, <2>3, <3>1, <3>2 DEF Ends, Promise!LastAnswers
  <2> QED
    BY <2>2, <2>3
<1> HIDE DEF key, body
<1>7. Promise!Answer(r)
  <2>1. answer[r].code = "waiting"
    BY <1>4
  <2>2. \E a \in Promise!LastAnswers(r) : answer' = [answer EXCEPT ![r] = a]
    BY <1>3, <1>6
  <2> QED
    BY <1>2, <2>1, <2>2 DEF Promise!Answer
<1> QED
  BY <1>7 DEF Promise!Next

LEMMA CommitStep ==
  ASSUME AnswerInv, AnswerInv', NEW r \in Requests, Commits(r)
  PROVE  Promise!Next
<1>1. /\ TypeOK /\ TypeOK' /\ JobsAreBehind /\ InsertedHoldsKey
      /\ Moves(r) /\ Only(r) /\ KeepsAsked(r)
      /\ jobs' = jobs \union {r} /\ At(r, "inserted") /\ At(r, "committed")'
  BY DEF AnswerInv, KeyInv, TypeInv, Moves, Commits, At
<1>2. \A j \in jobs : request'[j].key = request[j].key /\ request'[j].body = request[j].body
  BY <1>1, JobsAreFixed
<1>3. created' = created \union {Creation(r)}
  <2>1. \A j \in jobs : Creation(j)' = Creation(j)
    BY <1>2 DEF Creation, hash
  <2>2. Creation(r)' = Creation(r)
    BY <1>1 DEF Creation, hash, KeepsAsked
  <2> QED
    BY <1>1, <2>1, <2>2, Mapped, MappedAfter
<1>4. answer' = answer
  <2>1. \A q \in Requests \ {r} : AnswerOf(q)' = AnswerOf(q)
    BY <1>1 DEF Only, AnswerOf, hash, At
  <2>2. AnswerOf(r)' = AnswerOf(r)
    BY <1>1 DEF AnswerOf, hash, At, KeepsAsked
  <2> QED
    BY <2>1, <2>2, AnswersStay
<1>5. answer[r] = [key |-> request[r].key, body |-> hash(r), code |-> "waiting"]
  BY <1>1, OneAnswer DEF AnswerOf, At
<1>6. \A c \in created : c.key # request[r].key /\ c.job # r
  <2>1. \A j \in jobs : j # r /\ request[j].key # request[r].key
    BY <1>1 DEF JobsAreBehind, InsertedHoldsKey, At
  <2> QED
    BY <2>1, Mapped DEF Creation
<1>7. Promise!Create(r)
  BY <1>3, <1>4, <1>5, <1>6 DEF Promise!Create, Creation
<1> QED
  BY <1>7 DEF Promise!Next

LEMMA StepMaps == AnswerInv /\ [Next]_vars => [Promise!Next]_(Promise!vars)
<1> SUFFICES ASSUME AnswerInv, [Next]_vars
             PROVE  Promise!Next \/ (created' = created /\ answer' = answer)
  BY DEF Promise!vars
<1>1. AnswerInv' /\ TypeOK
  BY StepAnswerInv DEF AnswerInv, KeyInv, TypeInv
<1>2. (\E r \in Requests : Moves(r)) \/ Passes \/ Rests
  BY NextMoves DEF AnswerInv, KeyInv, TypeInv
<1>3. ASSUME NEW r \in Requests, Moves(r)
      PROVE  Promise!Next \/ (created' = created /\ answer' = answer)
  <2>1. CASE Commits(r)
    BY <1>1, <2>1, CommitStep
  <2>2. CASE Admits(r) \/ Replays(r)
    BY <1>1, <2>2, ArriveStep
  <2>3. CASE Dispatches(r) \/ Ends(r)
    BY <1>1, <2>3, AnswerStep
  <2>4. CASE Advances(r) \/ Inserts(r) \/ Flushes(r)
    <3>1. /\ ~Commits(r) /\ Only(r) /\ KeepsAsked(r)
          /\ ~At(r, "new") /\ ~At(r, "new")' /\ ~At(r, "done") /\ ~At(r, "done")'
      BY <2>4 DEF Commits, Advances, Inserts, Flushes, HasAssetLeft, At, Early
    <3>2. \A q \in Requests : AnswerOf(q)' = AnswerOf(q)
      BY <3>1 DEF Only, KeepsAsked, AnswerOf, hash, At
    <3> QED
      BY <1>1, <1>3, <3>1, <3>2, WithoutCommit, AnswersStay
  <2> QED
    BY <1>3, <2>1, <2>2, <2>3, <2>4 DEF Moves
<1>4. CASE Passes \/ Rests
  <2>1. /\ jobs' = jobs /\ jobs \subseteq Requests
        /\ \A q \in Requests :
             /\ request'[q].pc = request[q].pc /\ request'[q].key = request[q].key
             /\ request'[q].body = request[q].body /\ request'[q].code = request[q].code
             /\ request'[q].job = request[q].job
    BY <1>1, <1>4 DEF Passes, Rests, KeepsOutcome, TypeOK
  <2>2. \A q \in Requests : AnswerOf(q)' = AnswerOf(q)
    BY <2>1 DEF AnswerOf, hash, At
  <2> QED
    BY <2>1, <2>2, CreatedStays, AnswersStay
<1> QED
  BY <1>2, <1>3, <1>4

(***************************************************************************)
(* The transactions, their races and their faults implement the promise of *)
(* the Idempotency-Key: at most one job per key, the job of the key or a   *)
(* conflict for every request that arrives after it, and of the others     *)
(* only its creator accepted.                                              *)
(***************************************************************************)
THEOREM KeepsPromise == Spec => ImplementsIdempotentCreation
BY InitAnswerInv, StepAnswerInv, InitMaps, StepMaps, PTL
DEF Spec, ImplementsIdempotentCreation, Promise!Spec
=============================================================================
