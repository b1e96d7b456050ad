\* Three requests with keys and uploads in common, two served at a time.
SPECIFICATION Spec
CONSTANTS
  r1 = r1
  r2 = r2
  r3 = r3
  k1 = k1
  k2 = k2
  k3 = k3
  p = p
  q = q
  Requests = {r1, r2, r3}
  Keys = {k1, k2, k3}
  Bodies <- ClientBodies
  Configs <- ActiveConfigs
  Buckets <- BucketContents
  RateLimit = 2
  DailyQuota = 1
  MaxOpen = 2
  MaxFaults = 1
SYMMETRY Symmetry
INVARIANTS
  TypeOK
  OneJobPerKey
  OneOwnerPerUpload
  DispatchedOnce
  QuotaOvershoot
  AnswerDescribesJob
  WaitingEnds
PROPERTIES
  ImplementsIdempotentCreation
\* Every request has been answered.
CHECK_DEADLOCK FALSE
