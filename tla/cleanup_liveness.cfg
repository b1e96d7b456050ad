\* The solo pool with the sweep, timeouts and one crash, under fairness.
SPECIFICATION FairSpec
CONSTANTS
  a = a
  b = b
  cleanup = cleanup
  w1 = w1
  Cleanup = cleanup
  Angles = {a, b}
  Workers = {w1}
  Handlers = {}
  Environment = {"sweep", "timeout", "redelivery"}
  MaxAttempts = 2
  MaxQueued = 1
  MaxFaults = 1
INVARIANTS
  QuiescentRollup
PROPERTIES
  AnglesSettle
  ParentTerminates
\* A job that has ended, or whose message is lost, has no step left.
CHECK_DEADLOCK FALSE
