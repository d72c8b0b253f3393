SPECIFICATION FleetSpec
CONSTANTS
  Workers = {w1}
  Slots = {1}
  Timeout = 3
  Block = 1
  Slack = 1
  Visibility = 5
  Grace = 4
INVARIANT DrainWithinGrace
