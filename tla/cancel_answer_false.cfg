SPECIFICATION Spec
CONSTANTS
  Jobs = {j1}
  Batch = {}
  Ownerless = {}
  MaxAttempts = 3
  Backoff <- Immediately
  NumStreams = 1
  StreamOf <- OneStream
  Copies = {1, 2}
  Procs = {p1, p2}
  Slots = {1}
  Clients = {c1}
  MaxCrashes = 0
  MaxRetries = 0
  Faults = {}
  Timely = TRUE
  NoMsg = NoMsg
  NoJob = NoJob
INVARIANT CancelAnswerTrue
