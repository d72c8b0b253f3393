SPECIFICATION LifeSpec
CONSTANTS
  Workers = {w1}
  Slots = {1, 2}
  Timeout = 4
  Block = 2
  Slack = 2
  Visibility = 7
  Grace = 5
  Jobs = {j1}
  NumStreams = 2
  StreamOf <- LastStream
  Apis = {a1}
  Consumers = {g1}
  Tickers = {t1}
  MaxLosses = 2
INVARIANT FleetTypeOK
INVARIANT BusyIsHealthy
INVARIANT BusyIsCounted
INVARIANT SyncedIsInReach
