-------------------------- MODULE GenerateRequests --------------------------
(***************************************************************************)
(* The job-creating requests of the API as data: when a body passes the    *)
(* validation of its route, and the rows that app/services/job_service.py  *)
(* inserts for it.  Pure operators.                                        *)
(*                                                                         *)
(* A body is a record [operation, category, angles, photos, masks, option, *)
(* variants]: angles is a sequence of [angle, mode, path], option a preset *)
(* or palette code or NoOption, photos and masks are storage paths.        *)
(***************************************************************************)
EXTENDS Integers, FiniteSets, Sequences

NoOption == "none"
Angle == {"FRONT", "SIDE", "DIAGONAL", "TOP"}
AngleMode == {"uploaded", "synthetic", "skipped"}

Uploaded(body) == SelectSeq(body.angles, LAMBDA a : a.mode = "uploaded")

\* The places of the angles that are not skipped.
Requested(body) == {i \in DOMAIN body.angles : body.angles[i].mode # "skipped"}

AnglesDiffer(body) ==
  \A i, j \in DOMAIN body.angles : body.angles[i].angle = body.angles[j].angle => i = j

IsList(q) == q \in Seq({q[i] : i \in DOMAIN q})

(***************************************************************************)
(* What the request schemas let through to the routes.  /generate takes    *)
(* its angles as the keys of a JSON object, /generate-with-cleanup as a    *)
(* list, with one photo for all of them; /background/replace takes either  *)
(* a preset or the photo of a background.                                  *)
(***************************************************************************)
IsBody(body) ==
  /\ IsList(body.angles) /\ IsList(body.photos) /\ IsList(body.masks)
  /\ \A i \in DOMAIN body.angles :
       body.angles[i].angle \in Angle /\ body.angles[i].mode \in AngleMode
  /\ body.variants \in 1..4
  /\ LET has(photos, masks, option) ==
           /\ Len(body.photos) = photos /\ Len(body.masks) = masks
           /\ option <=> body.option # NoOption
     IN  \/ body.operation = "ANGLE_GENERATION" /\ has(0, 0, FALSE) /\ AnglesDiffer(body)
         \/ body.operation \in {"MATCH", "GENERATE_WITH_CLEANUP", "BACKGROUND_REMOVAL"}
              /\ has(1, 0, FALSE)
         \/ body.operation = "BACKGROUND_REPLACEMENT" /\ (has(1, 0, TRUE) \/ has(2, 0, FALSE))
         \/ body.operation = "RECOLOR" /\ has(1, 1, TRUE)
         \/ body.operation = "MIX" /\ has(2, 2, FALSE)

(***************************************************************************)
(* The hash that is stored with a job and compared with that of a repeated *)
(* request: SHA-256 of the body as JSON with its keys sorted.  The angles  *)
(* of /generate are the keys of an object, so that their order is lost.    *)
(***************************************************************************)
payload_hash(body) ==
  LET place(i) == IF body.operation = "ANGLE_GENERATION" THEN 0 ELSE i
  IN  [operation |-> body.operation, category |-> body.category,
       angles |-> {<<place(i), body.angles[i]>> : i \in DOMAIN body.angles},
       photos |-> body.photos, masks |-> body.masks, option |-> body.option,
       variants |-> body.variants]

-----------------------------------------------------------------------------
(***************************************************************************)
(* Validation.  config is a config_versions payload: category code ->      *)
(* [is_active, angles : angle -> [enabled, synthetic_allowed]], the set of *)
(* enabled operations, and preset and palette codes -> is_active.  bucket  *)
(* maps the stored paths to [owned, image, mask, size]: mask stands for a  *)
(* binary single-channel PNG whose coverage is within the bounds.          *)
(***************************************************************************)
find_category(config, code) == code \in DOMAIN config.categories
category_active(config, code) == find_category(config, code) /\ config.categories[code].is_active
validate_operation_enabled(config, op) == op \in config.operations
validate_preset(config, code) == code \in DOMAIN config.presets /\ config.presets[code]
validate_palette(config, code) == code \in DOMAIN config.palette /\ config.palette[code]

exists(bucket, path) == path \in DOMAIN bucket
inspect_and_validate(bucket, path) == bucket[path].image
validate_mask(bucket, path, size) == bucket[path].mask /\ bucket[path].size = size

photo_accepted(bucket, path) ==
  exists(bucket, path) /\ bucket[path].owned /\ inspect_and_validate(bucket, path)
mask_accepted(bucket, path, photo) ==
  exists(bucket, path) /\ bucket[path].owned /\ validate_mask(bucket, path, bucket[photo].size)

angle_spec(config, code, angle) ==
  LET angles == config.categories[code].angles
  IN  IF angle \in DOMAIN angles THEN angles[angle]
      ELSE [enabled |-> FALSE, synthetic_allowed |-> FALSE]

\* Mutant: a synthetic angle needs no permission of the category.
validate_any_synthetic(body, config, bucket) ==
  /\ category_active(config, body.category)
  /\ Requested(body) # {}
  /\ \A i \in Requested(body) :
       LET a == body.angles[i]
       IN  /\ angle_spec(config, body.category, a.angle).enabled
           /\ a.mode = "uploaded" => photo_accepted(bucket, a.path)

validate_request(body, config, bucket) ==
  /\ category_active(config, body.category)
  /\ Requested(body) # {}
  /\ \A i \in Requested(body) :
       LET a    == body.angles[i]
           spec == angle_spec(config, body.category, a.angle)
       IN  /\ spec.enabled
           /\ a.mode = "synthetic" => spec.synthetic_allowed
           /\ a.mode = "uploaded" => photo_accepted(bucket, a.path)

validate_background(body, config, bucket) ==
  /\ validate_operation_enabled(config, body.operation)
  /\ body.option # NoOption => validate_preset(config, body.option)
  /\ \A i \in DOMAIN body.photos : photo_accepted(bucket, body.photos[i])

validate_match(body, config, bucket) ==
  /\ validate_operation_enabled(config, "MATCH")
  /\ category_active(config, body.category)
  /\ photo_accepted(bucket, body.photos[1])

validate_pairs(body, bucket) ==
  \A i \in DOMAIN body.photos :
    /\ photo_accepted(bucket, body.photos[i])
    /\ mask_accepted(bucket, body.masks[i], body.photos[i])

validate_recolor(body, config, bucket) ==
  /\ validate_operation_enabled(config, "RECOLOR")
  /\ validate_palette(config, body.option)
  /\ validate_pairs(body, bucket)

validate_mix(body, config, bucket) ==
  validate_operation_enabled(config, "MIX") /\ validate_pairs(body, bucket)

validate_cleanup(body, config, bucket) ==
  /\ validate_operation_enabled(config, "GENERATE_WITH_CLEANUP")
  /\ category_active(config, body.category)
  /\ body.angles # <<>> /\ AnglesDiffer(body)
  /\ \A i \in DOMAIN body.angles :
       angle_spec(config, body.category, body.angles[i].angle).enabled
  /\ photo_accepted(bucket, body.photos[1])

accepts(body, config, bucket) ==
  CASE body.operation = "ANGLE_GENERATION"      -> validate_request(body, config, bucket)
    [] body.operation = "MATCH"                 -> validate_match(body, config, bucket)
    [] body.operation = "RECOLOR"               -> validate_recolor(body, config, bucket)
    [] body.operation = "MIX"                   -> validate_mix(body, config, bucket)
    [] body.operation = "GENERATE_WITH_CLEANUP" -> validate_cleanup(body, config, bucket)
    [] OTHER                                    -> validate_background(body, config, bucket)

\* The catalogue of GET /config: what a client may ask for.
build_config_response(config) ==
  [categories |-> config.categories,
   presets    |-> {p \in DOMAIN config.presets : config.presets[p]},
   palette    |-> {p \in DOMAIN config.palette : config.palette[p]}]

-----------------------------------------------------------------------------
(***************************************************************************)
(* The rows of a new job: the statuses of its sub_jobs, the storage paths  *)
(* of its assets in the order of their INSERTs, the outputs it asks for    *)
(* and the tasks published for it.                                         *)
(***************************************************************************)
PendingRows(n) == [i \in 1..n |-> "PENDING"]

create_job_for_request(body) ==
  [sub_jobs  |-> [i \in DOMAIN body.angles |->
                    IF body.angles[i].mode = "skipped" THEN "SKIPPED" ELSE "PENDING"],
   assets    |-> [i \in DOMAIN Uploaded(body) |-> Uploaded(body)[i].path],
   requested |-> Cardinality(Requested(body)),
   task      |-> "orchestration.fan_out"]

create_background_job_for_request(body) ==
  [sub_jobs |-> PendingRows(1), assets |-> body.photos, requested |-> 1,
   task |-> "background.process"]

create_match_job_for_request(body) ==
  [sub_jobs |-> PendingRows(body.variants), assets |-> body.photos,
   requested |-> body.variants, task |-> "orchestration.fan_out_match"]

create_recolor_job_for_request(body) ==
  [sub_jobs |-> PendingRows(1), assets |-> <<body.photos[1], body.masks[1]>>,
   requested |-> 1, task |-> "recolor.process"]

create_mix_job_for_request(body) ==
  [sub_jobs |-> PendingRows(1),
   assets |-> <<body.photos[1], body.masks[1], body.photos[2], body.masks[2]>>,
   requested |-> 1, task |-> "mix.process"]

\* The sub-jobs of the angles are created when the cleanup has succeeded.
create_generate_with_cleanup_job_for_request(body) ==
  [sub_jobs |-> PendingRows(1), assets |-> body.photos,
   requested |-> Len(body.angles), task |-> "cleanup.process"]

NewJob(body) ==
  CASE body.operation = "ANGLE_GENERATION"      -> create_job_for_request(body)
    [] body.operation = "MATCH"                 -> create_match_job_for_request(body)
    [] body.operation = "RECOLOR"               -> create_recolor_job_for_request(body)
    [] body.operation = "MIX"                   -> create_mix_job_for_request(body)
    [] body.operation = "GENERATE_WITH_CLEANUP" -> create_generate_with_cleanup_job_for_request(body)
    [] OTHER                                    -> create_background_job_for_request(body)

\* The plan of the 202 answer, built from the body of the request at hand.
resolve_angle_plan(body) ==
  [i \in DOMAIN body.angles |->
     IF body.angles[i].mode = "skipped" THEN "SKIPPED" ELSE "PENDING"]

build_accepted_response(body) ==
  CASE body.operation = "ANGLE_GENERATION"      -> resolve_angle_plan(body)
    [] body.operation = "MATCH"                 -> PendingRows(body.variants)
    [] body.operation = "GENERATE_WITH_CLEANUP" -> PendingRows(Len(body.angles))
    [] OTHER                                    -> PendingRows(1)
=============================================================================
