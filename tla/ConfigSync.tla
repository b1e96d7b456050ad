----------------------------- MODULE ConfigSync -----------------------------
(***************************************************************************)
(* The configuration: the ops team's sheet, the sync that turns it into    *)
(* immutable config_versions rows of which one is active, the Redis cache  *)
(* in front of the active row, and the jobs that pin the version their     *)
(* request was validated against.                                          *)
(*                                                                         *)
(* Syncs run in beat tasks and in POST /internal/config/sync, so several   *)
(* may be under way; each is one transaction, and they meet on the unique  *)
(* index of version_number and on the partial one of is_active.            *)
(***************************************************************************)
EXTENDS GenerateRequests

CONSTANTS
  Syncs,      \* syncs that may run at a time
  Readers,    \* GET /config requests in progress
  Creators,   \* requests that create a job
  BodyOf,     \* the body of each of them
  Bodies,     \* request bodies
  Sheets,     \* contents of the sheet: [valid, categories, model_version]
  Seed,       \* the payload of the version a migration or seed_dev activates
  MaxEdits,   \* bound: edits of the sheet
  MaxFailed   \* bound: FAILED versions before an invalid sheet is left alone

ASSUME BoundsAssumption == MaxEdits \in Nat /\ MaxFailed \in Nat
ASSUME CreatorsAssumption == BodyOf \in [Creators -> Bodies]
ASSUME BodiesAssumption == \A body \in Bodies : IsBody(body)

VARIABLES
  sheet,     \* what the spreadsheet says
  versions,  \* the config_versions rows, in the order of their commits
  cache,     \* the version whose response Redis holds under config:active
  sync,      \* the session of each sync
  reader,    \* the session of each GET /config
  creator,   \* the session of each creating request, later its job
  edits      \* how often it was edited

vars == <<sheet, versions, cache, sync, reader, creator, edits>>

-----------------------------------------------------------------------------
(* Rows and payloads.                                                      *)

NoModel == "none"
None == 0   \* no version: versions are named by their place in versions

Disabled == [enabled |-> FALSE, synthetic_allowed |-> FALSE]

ActiveRows == {v \in DOMAIN versions : versions[v].active}
Numbers == {versions[v].number : v \in DOMAIN versions}
get_active == IF ActiveRows = {} THEN None ELSE CHOOSE v \in ActiveRows : TRUE

Payload(v) == versions[v].payload
NoGlobal == [model_version |-> NoModel, operations |-> {}, presets |-> <<>>, palette |-> <<>>]

\* payload.global of a version; None has none.
Global(v) ==
  IF v = None THEN NoGlobal
  ELSE [model_version |-> Payload(v).model_version, operations |-> Payload(v).operations,
        presets |-> Payload(v).presets, palette |-> Payload(v).palette]

well_formed(rows, inherited) ==
  /\ rows.valid /\ rows.categories # <<>>
  /\ rows.model_version # NoModel \/ inherited.model_version # NoModel

\* Mutant: the global block is built from the sheet alone.
normalize_without_inheritance(rows, inherited) ==
  [categories |-> rows.categories, model_version |-> rows.model_version,
   operations |-> {}, presets |-> <<>>, palette |-> <<>>]

\* The angles a category lacks are disabled; the global block is inherited.
normalize_sheet_rows(rows, inherited) ==
  [categories |->
     [c \in DOMAIN rows.categories |->
        [is_active |-> rows.categories[c].is_active,
         angles |-> [a \in Angle |-> IF a \in DOMAIN rows.categories[c].angles
                                     THEN rows.categories[c].angles[a] ELSE Disabled]]],
   model_version |-> IF rows.model_version # NoModel THEN rows.model_version
                     ELSE inherited.model_version,
   operations |-> inherited.operations,
   presets |-> inherited.presets, palette |-> inherited.palette]

FailedPayload ==
  [categories |-> <<>>, model_version |-> NoModel, operations |-> {}, presets |-> <<>>,
   palette |-> <<>>]

SyncStatus == {"SUCCESS", "FAILED"}

-----------------------------------------------------------------------------
(***************************************************************************)
(* A sync session:                                                         *)
(*   idle       between syncs                                              *)
(*   fetched    the rows of the sheet are read                             *)
(*   normalized there is a new payload, or the rows are FAILED             *)
(*   numbered   the next version number is read                            *)
(*   inserted   the row is inserted, not committed                         *)
(*   found      the active version is read again                           *)
(*   activated  the activation is flushed                                  *)
(*   committed  the cache is not invalidated yet                           *)
(*   refused    the partial unique index refused the activation            *)
(***************************************************************************)
SyncAt(s, pc) == sync[s].pc = pc
SetSync(s, session) == sync' = [sync EXCEPT ![s] = session]
EndSync(s) == SetSync(s, [pc |-> "idle"])

fetch_rows(s) ==
  /\ sync[s].pc \in {"idle", "refused"}
  /\ sheet.valid \/ Cardinality({v \in DOMAIN versions : versions[v].status = "FAILED"}) < MaxFailed
  /\ SetSync(s, [pc |-> "fetched", rows |-> sheet])
  /\ UNCHANGED <<sheet, versions, cache, reader, creator, edits>>

\* The active version is read and the rows are normalized against it.
normalize(s) ==
  /\ SyncAt(s, "fetched")
  /\ LET active == get_active
         rows   == sync[s].rows
         new    == normalize_sheet_rows(rows, Global(active))
     IN  IF ~well_formed(rows, Global(active))
         THEN SetSync(s, [pc |-> "normalized", status |-> "FAILED", payload |-> FailedPayload])
         ELSE IF active # None /\ Payload(active) = new
         THEN EndSync(s)
         ELSE SetSync(s, [pc |-> "normalized", status |-> "SUCCESS", payload |-> new])
  /\ UNCHANGED <<sheet, versions, cache, reader, creator, edits>>

\* Mutant: the number is one more than the count of the successful versions.
next_number_of_successes(s) ==
  /\ SyncAt(s, "normalized")
  /\ SetSync(s, [pc |-> "numbered", status |-> sync[s].status, payload |-> sync[s].payload,
                 number |-> Cardinality({v \in DOMAIN versions :
                                           versions[v].status = "SUCCESS"}) + 1])
  /\ UNCHANGED <<sheet, versions, cache, reader, creator, edits>>

get_next_version_number(s) ==
  /\ SyncAt(s, "normalized")
  /\ LET max == IF Numbers = {} THEN 0
                ELSE CHOOSE n \in Numbers : \A k \in Numbers : k <= n
     IN  SetSync(s, [pc |-> "numbered", status |-> sync[s].status, payload |-> sync[s].payload,
                     number |-> max + 1])
  /\ UNCHANGED <<sheet, versions, cache, reader, creator, edits>>

InTransaction == {t \in Syncs : sync[t].pc \in {"inserted", "found", "activated"}}

\* The INSERT waits for an uncommitted row of the same number; nothing
\* catches the IntegrityError of a committed one.
create_version(s) ==
  /\ SyncAt(s, "numbered")
  /\ \A t \in InTransaction : sync[t].number # sync[s].number
  /\ IF sync[s].number \in Numbers THEN EndSync(s)
     ELSE SetSync(s, [sync[s] EXCEPT !.pc = "inserted"])
  /\ UNCHANGED <<sheet, versions, cache, reader, creator, edits>>

Row(s, active) ==
  [number |-> sync[s].number, payload |-> sync[s].payload, status |-> sync[s].status,
   active |-> active]

\* Mutant: the FAILED version is activated like any other.
commit_failed_active(s) ==
  /\ SyncAt(s, "inserted") /\ sync[s].status = "FAILED"
  /\ versions' = Append(versions, Row(s, TRUE))
  /\ EndSync(s)
  /\ UNCHANGED <<sheet, cache, reader, creator, edits>>

\* A FAILED row is committed as it is; the active version stays active.
commit_failed(s) ==
  /\ SyncAt(s, "inserted") /\ sync[s].status = "FAILED"
  /\ versions' = Append(versions, Row(s, FALSE))
  /\ EndSync(s)
  /\ UNCHANGED <<sheet, cache, reader, creator, edits>>

\* activate_version: get_active, then the two UPDATEs.
find_current(s) ==
  /\ SyncAt(s, "inserted") /\ sync[s].status = "SUCCESS"
  /\ SetSync(s, [pc |-> "found", status |-> "SUCCESS", payload |-> sync[s].payload,
                 number |-> sync[s].number, current |-> get_active])
  /\ UNCHANGED <<sheet, versions, cache, reader, creator, edits>>

\* The row lock of the current version and the entry of the index make one
\* activation wait for another; a committed one refuses it.
activate_version(s) ==
  /\ SyncAt(s, "found")
  /\ \A t \in Syncs : ~SyncAt(t, "activated")
  /\ SetSync(s, IF ActiveRows \subseteq {sync[s].current}
                THEN [sync[s] EXCEPT !.pc = "activated"] ELSE [pc |-> "refused"])
  /\ UNCHANGED <<sheet, versions, cache, reader, creator, edits>>

\* Mutant: the version that was active is left active.
commit_keeps_current(s) ==
  /\ SyncAt(s, "activated")
  /\ versions' = Append(versions, Row(s, TRUE))
  /\ SetSync(s, [pc |-> "committed"])
  /\ UNCHANGED <<sheet, cache, reader, creator, edits>>

commit(s) ==
  /\ SyncAt(s, "activated")
  /\ versions' = Append([v \in DOMAIN versions |->
                           IF v = sync[s].current THEN [versions[v] EXCEPT !.active = FALSE]
                           ELSE versions[v]], Row(s, TRUE))
  /\ SetSync(s, [pc |-> "committed"])
  /\ UNCHANGED <<sheet, cache, reader, creator, edits>>

\* A Redis error is swallowed, and the cache left as it is; so it is when the
\* process dies here.  A process that dies earlier is rolled back.
invalidate_cache(s) ==
  /\ SyncAt(s, "committed")
  /\ cache' \in {cache, None}
  /\ EndSync(s)
  /\ UNCHANGED <<sheet, versions, reader, creator, edits>>

-----------------------------------------------------------------------------
(* GET /config: the cache, the active row, the cache again.                *)

read_cache(r) ==
  /\ reader[r] = [pc |-> "idle"]
  /\ cache = None   \* a hit, and a miss without an active version, answer at once
  /\ get_active # None
  /\ reader' = [reader EXCEPT ![r] = [pc |-> "read", version |-> get_active]]
  /\ UNCHANGED <<sheet, versions, cache, sync, creator, edits>>

\* An unreachable cache counts as a miss.
read_past_cache(r) ==
  /\ reader[r] = [pc |-> "idle"]
  /\ cache # None
  /\ get_active # None
  /\ reader' = [reader EXCEPT ![r] = [pc |-> "read", version |-> get_active]]
  /\ UNCHANGED <<sheet, versions, cache, sync, creator, edits>>

write_cache(r) ==
  /\ reader[r].pc = "read"
  /\ cache' \in {cache, reader[r].version}
  /\ reader' = [reader EXCEPT ![r] = [pc |-> "idle"]]
  /\ UNCHANGED <<sheet, versions, sync, creator, edits>>

\* Mutant: SET without an expiry.
never_expires == FALSE /\ UNCHANGED vars

\* The TTL of CACHE_TTL_SECONDS.
expire ==
  /\ cache # None
  /\ cache' = None
  /\ UNCHANGED <<sheet, versions, sync, reader, creator, edits>>

-----------------------------------------------------------------------------
(* Requests that create jobs.                                              *)

\* The bucket holds whatever the body names.
Stored(body) ==
  [p \in {body.angles[i].path : i \in DOMAIN body.angles}
          \union {body.photos[i] : i \in DOMAIN body.photos}
          \union {body.masks[i] : i \in DOMAIN body.masks} |->
     [owned |-> TRUE, image |-> TRUE, mask |-> TRUE, size |-> 1]]

\* Validated against the active version; a refused request changes nothing.
validate(c) ==
  /\ creator[c] = [pc |-> "idle"]
  /\ get_active # None
  /\ accepts(BodyOf[c], Payload(get_active), Stored(BodyOf[c]))
  /\ creator' = [creator EXCEPT ![c] = [pc |-> "valid", version |-> get_active]]
  /\ UNCHANGED <<sheet, versions, cache, sync, reader, edits>>

\* Mutant: the job pins the version that is active when it is inserted.
create_job_pins_current(c) ==
  /\ creator[c].pc = "valid"
  /\ creator' = [creator EXCEPT ![c] = [pc |-> "created", version |-> get_active]]
  /\ UNCHANGED <<sheet, versions, cache, sync, reader, edits>>

create_job(c) ==
  /\ creator[c].pc = "valid"
  /\ creator' = [creator EXCEPT ![c].pc = "created"]
  /\ UNCHANGED <<sheet, versions, cache, sync, reader, edits>>

-----------------------------------------------------------------------------

Edit ==
  /\ edits < MaxEdits
  /\ \E x \in Sheets \ {sheet} : sheet' = x
  /\ edits' = edits + 1
  /\ UNCHANGED <<versions, cache, sync, reader, creator>>

Init ==
  /\ sheet \in Sheets
  /\ versions \in {<<>>, <<[number |-> 1, payload |-> Seed, status |-> "SUCCESS",
                            active |-> TRUE]>>}
  /\ cache = None
  /\ sync = [s \in Syncs |-> [pc |-> "idle"]]
  /\ reader = [r \in Readers |-> [pc |-> "idle"]]
  /\ creator = [c \in Creators |-> [pc |-> "idle"]]
  /\ edits = 0

SyncStep(s) ==
  \/ fetch_rows(s)
  \/ normalize(s)
  \/ get_next_version_number(s)
  \/ create_version(s)
  \/ commit_failed(s)
  \/ find_current(s)
  \/ activate_version(s)
  \/ commit(s)
  \/ invalidate_cache(s)

Next ==
  \/ \E s \in Syncs : SyncStep(s)
  \/ \E r \in Readers : read_cache(r)
  \/ \E r \in Readers : read_past_cache(r)
  \/ \E r \in Readers : write_cache(r)
  \/ \E c \in Creators : validate(c)
  \/ \E c \in Creators : create_job(c)
  \/ expire
  \/ Edit

Spec == Init /\ [][Next]_vars

\* Beat keeps starting syncs, a session that runs keeps running, keys expire.
Fairness ==
  /\ \A s \in Syncs : WF_vars(SyncStep(s))
  /\ \A r \in Readers : WF_vars(write_cache(r))
  /\ WF_vars(expire)

FairSpec == Spec /\ Fairness

-----------------------------------------------------------------------------
(* Properties.                                                             *)

TypeOK ==
  /\ sheet \in Sheets
  /\ \A v \in DOMAIN versions :
       /\ versions[v].number \in Nat \ {0} /\ versions[v].active \in BOOLEAN
       /\ versions[v].status \in SyncStatus
       /\ versions[v].active => versions[v].status = "SUCCESS"
  /\ cache \in {None} \union DOMAIN versions
  /\ \A r \in Readers : reader[r].pc = "read" => reader[r].version \in DOMAIN versions
  /\ \A c \in Creators : creator[c].pc # "idle" => creator[c].version \in DOMAIN versions

Successes == {v \in DOMAIN versions : versions[v].status = "SUCCESS"}

(***************************************************************************)
(* Numbers follow the commits without a gap, and the active version is the *)
(* one successful version with the highest number, however syncs overlap   *)
(* (get_next_version_number and activate_version read before they write):  *)
(* the unique number keeps syncs apart before they reach the activation,   *)
(* and the partial unique index of is_active never has to refuse one.      *)
(***************************************************************************)
ActiveIsLatestSuccess ==
  /\ \A v \in DOMAIN versions : versions[v].number = v
  /\ ActiveRows = {v \in Successes : \A w \in Successes : w <= v}
  /\ \A s \in Syncs : ~SyncAt(s, "refused")

(***************************************************************************)
(* What the sheet does not model survives every sync: the operations,      *)
(* presets and palette of the global block (normalize_sheet_rows).         *)
(***************************************************************************)
GlobalBlockSurvives ==
  \A v, w \in Successes :
    /\ Payload(v).operations = Payload(w).operations
    /\ Payload(v).presets = Payload(w).presets
    /\ Payload(v).palette = Payload(w).palette

(***************************************************************************)
(* The version a job pins accepts the request that created it, so that the *)
(* worker finds what it names (the asserts of resolve_recolor_prompt),     *)
(* whatever has been activated since.                                      *)
(***************************************************************************)
PinnedConfigServesJob ==
  \A c \in Creators : creator[c].pc = "created" =>
    accepts(BodyOf[c], Payload(creator[c].version), Stored(BodyOf[c]))

(***************************************************************************)
(* What a client that has read the response may ask for: an active         *)
(* category, angles enabled for it, synthetic ones where they are allowed, *)
(* a preset or a palette entry of the list.                                *)
(***************************************************************************)
Advertised(body, response) ==
  LET category == response.categories[body.category]
      offers(i, synthetic) ==
        LET angle == body.angles[i].angle
        IN  /\ angle \in DOMAIN category.angles
            /\ category.angles[angle].enabled
            /\ synthetic => category.angles[angle].synthetic_allowed
  IN  /\ body.operation \in {"ANGLE_GENERATION", "MATCH", "GENERATE_WITH_CLEANUP"} =>
           body.category \in DOMAIN response.categories /\ category.is_active
      /\ body.operation = "ANGLE_GENERATION" =>
           \A i \in Requested(body) : offers(i, body.angles[i].mode = "synthetic")
      /\ body.operation = "GENERATE_WITH_CLEANUP" => \A i \in DOMAIN body.angles : offers(i, FALSE)
      /\ body.operation = "BACKGROUND_REPLACEMENT" =>
           body.option \in response.presets \union {NoOption}
      /\ body.operation = "RECOLOR" => body.option \in response.palette

\* It asks for some angle, and for none twice, where angles are asked for.
AsksForAngles(body) ==
  /\ body.operation = "ANGLE_GENERATION" => Requested(body) # {}
  /\ body.operation = "GENERATE_WITH_CLEANUP" => body.angles # <<>> /\ AnglesDiffer(body)

(***************************************************************************)
(* The catalogue is honest: of the bodies of an enabled operation that ask *)
(* for angles, exactly those whose options it lists pass the validation of *)
(* their route.                                                            *)
(***************************************************************************)
CatalogueIsHonest ==
  \A v \in ActiveRows, body \in Bodies :
    body.operation \in Payload(v).operations \union {"ANGLE_GENERATION"} =>
      (Advertised(body, build_config_response(Payload(v))) /\ AsksForAngles(body)
         <=> accepts(body, Payload(v), Stored(body)))

SameCategories(payload, rows) ==
  payload.categories = normalize_sheet_rows(rows, NoGlobal).categories

(***************************************************************************)
(* Once the sheet stays as it is, and is valid, it becomes and remains the *)
(* active configuration, also when an older fetch was activated after a    *)
(* newer one (sync_config).                                                *)
(***************************************************************************)
ActiveFollowsSheet ==
  \A x \in Sheets : well_formed(x, NoGlobal) =>
    (<>[](sheet = x) => <>[](get_active # None /\ SameCategories(Payload(get_active), x)))

(***************************************************************************)
(* So does the response Redis holds, although a reader may write a version *)
(* back after its invalidation, and an invalidation may fail or never come *)
(* (get_config_response, invalidate_cache).                                *)
(***************************************************************************)
CacheFollowsSheet ==
  \A x \in Sheets : well_formed(x, NoGlobal) =>
    (<>[](sheet = x) => <>[](cache = None \/ SameCategories(Payload(cache), x)))
=============================================================================
