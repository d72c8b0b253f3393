SPECIFICATION Spec
CONSTANTS
  Jobs = {j1, j2}
  Batch = {j1}
  Ownerless = {j2}
  MaxAttempts = 2
  Backoff <- Immediately
  NumStreams = 2
  StreamOf <- TwoStreams
  Copies = {1, 2, 3}
  Procs = {p1}
  Slots = {1, 2}
  Clients = {c1}
  MaxCrashes = 1
  MaxRetries = 1
  Faults <- InHandler
  Timely = TRUE
  NoMsg = NoMsg
  NoJob = NoJob
INVARIANT LeaseReapable
PROPERTY CancelOnlyIfAsked
PROPERTY FinalIsFinal
PROPERTY ImplementsLifecycle
