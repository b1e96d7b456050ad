\* Retried cleanup and angle tasks on two workers, timeouts, and a polling client.
SPECIFICATION Spec
CONSTANTS
  a = a
  cleanup = cleanup
  h1 = h1
  w1 = w1
  w2 = w2
  Cleanup = cleanup
  Angles = {a}
  Workers = {w1, w2}
  Handlers = {h1}
  Environment = {"timeout", "retry_job", "retry_angle", "status"}
  MaxAttempts = 2
  MaxQueued = 1
  MaxFaults = 0
SYMMETRY Symmetry
INVARIANTS
  TypeOK
  NotDeliveredByCleanupAlone
  CompletedAnswerIsComplete
PROPERTIES
  DispatchesWhatItCreated
\* A job that has ended, or whose message is lost, has no step left.
CHECK_DEADLOCK FALSE
