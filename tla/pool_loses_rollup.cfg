\* Two angles end at the same time on two workers.
SPECIFICATION Spec
CONSTANTS
  a = a
  b = b
  w1 = w1
  w2 = w2
  SubJobs = {a, b}
  Operation = "ANGLE_GENERATION"
  Synthetic = {}
  Skipped = {}
  Workers = {w1, w2}
  Handlers = {}
  Environment = {}
  QaPassOnProviderError = TRUE
  MaxAttempts = 2
  MaxQueued = 1
  MaxFaults = 0
INVARIANTS
  QuiescentRollup
\* A job that has ended, or whose message is lost, has no step left.
CHECK_DEADLOCK FALSE
