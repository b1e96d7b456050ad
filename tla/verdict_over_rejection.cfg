\* A human rejects while the judge is scoring.
SPECIFICATION Spec
CONSTANTS
  a = a
  h1 = h1
  w1 = w1
  SubJobs = {a}
  Operation = "BACKGROUND_REMOVAL"
  Synthetic = {}
  Skipped = {}
  Workers = {w1}
  Handlers = {h1}
  Environment = {"decide"}
  QaPassOnProviderError = TRUE
  MaxAttempts = 3
  MaxQueued = 1
  MaxFaults = 0
PROPERTIES
  HumanRejectionStands
\* A job that has ended, or whose message is lost, has no step left.
CHECK_DEADLOCK FALSE
