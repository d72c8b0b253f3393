SPECIFICATION CarefulSpec
CONSTANTS
  Jobs = {j1}
  Batch = {}
  Ownerless = {}
  MaxAttempts = 2
  Backoff <- Delayed
  NumStreams = 1
  StreamOf <- OneStream
  Copies = {1, 2}
  Procs = {p1}
  Slots = {1}
  Clients = {c1}
  MaxCrashes = 2
  MaxRetries = 1
  Faults <- EveryFault
  Timely = FALSE
  NoMsg = NoMsg
  NoJob = NoJob
INVARIANT NoLostJob
PROPERTY FinalIsFinal
 
