\* A RECOLOR job whose mask is purged while its input is retained.
SPECIFICATION Spec
CONSTANTS
  a = a
  w1 = w1
  SubJobs = {a}
  OperationOf <- OneRecolor
  Workers = {w1}
  RETENTION_DAYS <- ShortRetention
  SweepLimit = 1
  MaxAttempts = 3
  MaxDay = 2
  MaxOutputs = 2
  MaxFaults = 0
PROPERTIES
  RetryFindsUploads
\* A job that has ended has no step left.
CHECK_DEADLOCK FALSE
