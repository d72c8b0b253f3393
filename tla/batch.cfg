SPECIFICATION BatchSpec
CONSTANTS
  Jobs = {b}
  Batch = {b}
  Ownerless = {}
  MaxAttempts = 2
  Backoff <- Immediately
  TheJob = b
  Workers = {p1, p2}
  MaxItems = 3
  Interval = 2
  Latency = 1
INVARIANT BatchTypeOK
INVARIANT ProgressIsHonest
PROPERTY CancelHeeded
PROPERTY CancelSettles
