\* A synthetic angle on two workers: timeouts, before and after a commit, and angle retries.
SPECIFICATION Spec
CONSTANTS
  b = b
  h1 = h1
  w1 = w1
  w2 = w2
  SubJobs = {b}
  Operation = "ANGLE_GENERATION"
  Synthetic = {b}
  Skipped = {}
  Workers = {w1, w2}
  Handlers = {h1}
  Environment = {"timeout", "retry"}
  QaPassOnProviderError = FALSE
  MaxAttempts = 3
  MaxQueued = 2
  MaxFaults = 0
SYMMETRY WorkerSymmetry
INVARIANTS
  EndedBadlyHasClass
  TransientOnlyWhenExhausted
PROPERTIES
  ImplementsSubJobLifecycle
\* A job that has ended, or whose message is lost, has no step left.
CHECK_DEADLOCK FALSE
