\* A RECOLOR job on a worker, retries, faults and the retention sweep.
SPECIFICATION FairSpec
CONSTANTS
  a = a
  w1 = w1
  SubJobs = {a}
  OperationOf <- OneRecolor
  Workers = {w1}
  RETENTION_DAYS <- ShortRetention
  SweepLimit = 1
  MaxAttempts = 2
  MaxDay = 3
  MaxOutputs = 2
  MaxFaults = 1
INVARIANTS
  TypeOK
  BytesFollowRows
  OrphanTakesFault
  CallsAreCosted
  LoopEndsAsSummarised
PROPERTIES
  ExpiredIsPurged
\* The last day has passed and everything is purged.
CHECK_DEADLOCK FALSE
