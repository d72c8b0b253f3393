SPECIFICATION TableSpec
CONSTANTS
  u1 = u1
  u2 = u2
  k1 = k1
  h1 = h1
  h2 = h2
  h3 = h3
  Clients = {c1, c2}
  Users = {u1, u2}
  Keys = {k1}
  Hashes = {h1, h2, h3}
  Allowed = {h1, h2}
  Requests <- Sent
  Jobs = {j1, j2}
  MaxBytes = 1
  MaxChunk = 2
  Times = 1
  NoKey = NoKey
  NoJob = NoJob
  NoUser = NoUser
  NoHash = NoHash
  N = 4
  Theirs = {2}
  Untimed = {1}
  Limit = 1
  BatchSize = 2
  MaxRetries = 1
SYMMETRY SubSym
INVARIANT SubTypeOK
INVARIANT ScriptLossAbsorbed
INVARIANT UnqueuedIsUnsynced
PROPERTY ImplementsKeyBook
INVARIANT PagesTypeOK
INVARIANT ListingComplete
INVARIANT PassComplete
