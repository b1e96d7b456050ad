\* A background removal on the solo pool: the sweep, client retries, QA retries, re-scoring and decisions race the judge.
SPECIFICATION Spec
CONSTANTS
  a = a
  h1 = h1
  w1 = w1
  SubJobs = {a}
  Operation = "BACKGROUND_REMOVAL"
  Synthetic = {}
  Skipped = {}
  Workers = {w1}
  Handlers = {h1}
  Environment = {"retry", "qa_retry", "rescore", "decide", "sweep"}
  QaPassOnProviderError = FALSE
  MaxAttempts = 3
  MaxQueued = 2
  MaxFaults = 0
INVARIANTS
  TypeOK
  ReviewIsQueuedOrScoring
PROPERTIES
  DeliveredOnlyByVerdict
\* A job that has ended, or whose message is lost, has no step left.
CHECK_DEADLOCK FALSE
