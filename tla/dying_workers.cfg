SPECIFICATION Spec
CONSTANTS
  Jobs = {j1}
  Batch = {}
  Ownerless = {}
  MaxAttempts = 3
  Backoff <- Immediately
  NumStreams = 1
  StreamOf <- OneStream
  Copies = {1, 2, 3, 4, 5, 6}
  Procs = {p1, p2}
  Slots = {1}
  Clients = {c1}
  MaxCrashes = 1
  MaxRetries = 0
  Faults <- DyingWorkers
  Timely = TRUE
  NoMsg = NoMsg
  NoJob = NoJob
SYMMETRY Sym
INVARIANT TypeOK
INVARIANT NoLostJob
INVARIANT NoDuplicateRun
INVARIANT AttemptsWithinBudget
PROPERTY ImplementsLifecycle
