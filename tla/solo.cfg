\* Render's solo pool, fair: a photographed, a synthetic and a skipped angle, the sweep, one fault.
SPECIFICATION FairSpec
CONSTANTS
  a = a
  b = b
  c = c
  w1 = w1
  SubJobs = {a, b, c}
  Operation = "ANGLE_GENERATION"
  Synthetic = {b}
  Skipped = {c}
  Workers = {w1}
  Handlers = {}
  Environment = {"sweep"}
  QaPassOnProviderError = TRUE
  MaxAttempts = 2
  MaxQueued = 1
  MaxFaults = 1
INVARIANTS
  QuiescentRollup
PROPERTIES
  SubJobLeavesStuck
  ParentTerminates
  ReviewIsReached
\* A job that has ended, or whose message is lost, has no step left.
CHECK_DEADLOCK FALSE
