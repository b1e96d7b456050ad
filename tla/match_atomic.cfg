\* Three variants of a MATCH job on the solo pool, timeouts and one fault, no retry.
SPECIFICATION Spec
CONSTANTS
  a = a
  b = b
  c = c
  w1 = w1
  SubJobs = {a, b, c}
  Operation = "MATCH"
  Synthetic = {}
  Skipped = {}
  Workers = {w1}
  Handlers = {}
  Environment = {"timeout"}
  QaPassOnProviderError = TRUE
  MaxAttempts = 2
  MaxQueued = 1
  MaxFaults = 1
INVARIANTS
  UngatedNeverReviewed
PROPERTIES
  ImplementsJobLifecycle
\* A job that has ended, or whose message is lost, has no step left.
CHECK_DEADLOCK FALSE
