SPECIFICATION FairSpec
CONSTANTS
  c1 = c1
  c2 = c2
  None = None
  Callers = {c1, c2}
  Rate = 2
  Cost = 3
  Capacity = 3
  MaxCalls = 3
  MaxWindow = 1
  TotalAttempts = 3
  Second = 1
  BackoffBase = 1
  MaxJitter = 1
  Statuses = {400, 403, 404, 429, 503}
  RetryAfters <- MCRetryAfters
INVARIANTS
  TypeOK
  RetryableMeansExhausted
  LoopIsNotLeft
PROPERTIES
  RetryAfterIsHonoured
  CallsKeepTheirPromise
  BucketIsRespected
