SPECIFICATION FairSpec
CONSTANTS
  Jobs = {j1}
  Batch = {}
  Ownerless = {}
  MaxAttempts = 2
  Backoff <- Immediately
  NumStreams = 1
  StreamOf <- OneStream
  Copies = {1, 2, 3, 4}
  Procs = {p1}
  Slots = {1}
  Clients = {c1}
  MaxCrashes = 1
  MaxRetries = 0
  Faults <- EveryFault
  Timely = TRUE
  NoMsg = NoMsg
  NoJob = NoJob
PROPERTY ProcessingEnds
PROPERTY PelDrains
PROPERTY EveryJobEnds
